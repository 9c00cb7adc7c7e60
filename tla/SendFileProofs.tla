--------------------------- MODULE SendFileProofs ---------------------------
(***************************************************************************)
(* Theorems about SendFile, for any number of screens, receipts and pieces, *)
(* any tree of directories and whatever receivers ask for.                 *)
(***************************************************************************)
EXTENDS SendFile, FiniteSetTheorems, SequenceTheorems, TLAPS

-----------------------------------------------------------------------------
(* What holds whether sends overlap or not: each screen has its own file.   *)

\* A thread that has still to send a frame, or to count off the one it sent.
Working(s, p) == ppc[s][p] \in {"connect", "send", "add", "args", "test", "class", "call",
                                "dec", "wait"}

\* The threads of the pieces run within send_file, and count only while there is
\* something left.
ConfinedAt(s) ==
    /\ pc[s] # "join" => toll[s] = 0 /\ granted[s] = NoGrant /\ left[s] = NoGrant
    /\ \A p \in Pieces :
          /\ ppc[s][p] # "none" => pc[s] = "join"
          /\ left[s][p] <= granted[s][p]
          /\ Working(s, p) => left[s][p] > 0
Confined == \A s \in Screens : ConfinedAt(s)

\* The toll is exact.
ExactAt(s) == toll[s] = Total(s) - Missing(s) + Cardinality(Added(s))
Exact == \A s \in Screens : ExactAt(s)

-----------------------------------------------------------------------------
(* What holds as long as sends, or sends and receipts, do not overlap.      *)

\* The one screen that sends owns the reference.
RefAt(s) ==
    /\ pc[s] # "swap"
    /\ pc[s] = "keep" => gObj = Nobody
    /\ pc[s] \in {"log", "newlog", "visit", "walk", "file", "join", "drop"} =>
          gObj = s /\ s \in refs
NobodySends == \A s \in Screens : ~Sending(s)
RefOwned ==
    ~overlap =>
        /\ \A s, u \in Screens : Sending(s) /\ Sending(u) => s = u
        /\ NobodySends => gObj = Nobody
        /\ \A s \in Screens : RefAt(s)

\* The one that sends or receives owns the logger.
LoggerAt(s) ==
    /\ pc[s] \in {"keep", "log"} => logger \in loggers \cup {Nobody}
    /\ pc[s] \in {"visit", "walk", "file", "join", "drop", "forget"} => logger \in loggers
    /\ \A p \in Pieces : ppc[s][p] \in {"readlog", "log"} => held[s][p] \in loggers
LoggerOf(r) ==
    /\ rpc[r] = "log" => logger \in loggers \cup {Nobody}
    /\ rpc[r] \in {"serve", "late"} => logger \in loggers
    /\ rheld[r] # Nobody => rheld[r] \in loggers /\ rpc[r] \in {"serve", "late"}
NobodyReceives == \A r \in Receipts : ~Receiving(r)
LoggerOwned ==
    ~overlap /\ ~mixed =>
        /\ ~aborted
        /\ NobodySends \/ NobodyReceives
        /\ \A r, q \in Receipts : Receiving(r) /\ Receiving(q) => r = q
        /\ NobodySends /\ NobodyReceives => logger \in loggers \cup {Nobody}
        /\ \A s \in Screens : LoggerAt(s)
        /\ \A r \in Receipts : LoggerOf(r)

\* Once the toll is the whole, the whole has been shown, or some thread is to read
\* it or is about to show it.
AnnouncedAt(s) ==
    ~overlap /\ pc[s] = "join" /\ Total(s) > 0 /\ toll[s] = Total(s) =>
        \/ Total(s) \in shown[s]
        \/ \E p \in Pieces :
              \/ ppc[s][p] = "args"
              \/ ppc[s][p] \in {"test", "class", "call"} /\ seen[s][p] = Total(s)
Announced == \A s \in Screens : AnnouncedAt(s)

-----------------------------------------------------------------------------
(* The walk.                                                                *)

\* The file or directory f is the directory d or below it; it is below it.
Under(f, d) == Len(d) <= Len(f) /\ \A k \in 1..Len(d) : f[k] = d[k]
Below(f, d) == Len(d) < Len(f) /\ \A k \in 1..Len(d) : f[k] = d[k]
\* It is among what the call c of enum_dir has still to read.
Ahead(f, c) == Below(f, c.path) /\ f[Len(c.path) + 1] \in c.unread

\* What a path must be to be visited at all, if lstat lets it.
Reached(s, f) ==
    /\ Under(f, Root[s])
    /\ \A k \in (Len(Root[s]) + 1)..Len(f) : f[k] \notin Hidden
Entered(s, f) == \A d \in DOMAIN Children : Len(Root[s]) <= Len(d) /\ Below(f, d) => IsDir(d)
RelativeName(s, f) == SubSeq(f, Len(Root[s]), Len(f))

CallsOK(s, calls) ==
    \A j \in DOMAIN calls :
        /\ calls[j].path \in DOMAIN Children
        /\ Reached(s, calls[j].path) /\ Entered(s, calls[j].path) /\ IsDir(calls[j].path)
        /\ calls[j].parent = RelativeName(s, calls[j].path)
        /\ calls[j].unread \subseteq Children[calls[j].path]

\* What a call lists as unread, none of its callees is reading.
Nested(calls) ==
    \A i, j \in DOMAIN calls : i < j =>
        Below(calls[j].path, calls[i].path) /\ ~Ahead(calls[j].path, calls[i])

\* What was tried is visible, has its name, is there once and is not ahead.
TriedOK(s, told, calls) ==
    \A i \in DOMAIN told :
        /\ told[i].path \in Visible(s)
        /\ told[i].name = RelativeName(s, told[i].path)
        /\ \A k \in DOMAIN told : told[i].path = told[k].path => i = k
        /\ \A j \in DOMAIN calls : ~Ahead(told[i].path, calls[j])

\* Nothing is read or was tried that is under a path in no, and none of these is ahead.
LeftOut(no, told, calls) ==
    \A r \in no :
        /\ r \in Seq(Names)
        /\ \A j \in DOMAIN calls : ~Ahead(r, calls[j]) /\ ~Under(calls[j].path, r)
        /\ \A i \in DOMAIN told : ~Under(told[i].path, r)

WalkOK(s, no, told, calls) ==
    CallsOK(s, calls) /\ Nested(calls) /\ TriedOK(s, told, calls) /\ LeftOut(no, told, calls)

\* Every visible file was tried, or is ahead, or is under a path in no.
NoneForgotten(s, no, told, calls) ==
    \A f \in Visible(s) :
        \/ \E i \in DOMAIN told : told[i].path = f
        \/ \E j \in DOMAIN calls : Ahead(f, calls[j])
        \/ \E r \in no : Under(f, r)

WalkedAt(s) ==
    /\ pc[s] \notin {"walk", "file", "join"} => stack[s] = <<>>
    /\ pc[s] \in {"idle", "swap", "keep", "log", "newlog", "visit"} =>
          tried[s] = <<>> /\ refused[s] = {}
    /\ WalkOK(s, refused[s], tried[s], stack[s])
    /\ ~gaveUp[s] /\ pc[s] \in {"walk", "file", "join", "drop", "forget", "ended"} =>
          NoneForgotten(s, refused[s], tried[s], stack[s])
Walked == \A s \in Screens : WalkedAt(s)

-----------------------------------------------------------------------------
(* Types.                                                                   *)

LEMMA AppendType ==
    ASSUME NEW S, NEW q \in Seq(S), NEW e \in S
    PROVE  Append(q, e) \in Seq(S)
  OBVIOUS

LEMMA PutType ==
    ASSUME NEW S, NEW f \in [Screens -> S], NEW s \in Screens, NEW v \in S
    PROVE  [f EXCEPT ![s] = v] \in [Screens -> S]
  OBVIOUS

LEMMA PutPieceType ==
    ASSUME NEW S, NEW f \in [Screens -> [Pieces -> S]], NEW s \in Screens, NEW p \in Pieces,
           NEW v \in S
    PROVE  [f EXCEPT ![s][p] = v] \in [Screens -> [Pieces -> S]]
  OBVIOUS

\* What enum_dir leaves behind has the right types.
LEMMA VisitType ==
    ASSUME TypeOK, NEW s \in Screens,
           NEW path \in Seq(Names) \ {<<>>}, NEW parent \in Seq(Names), NEW rest \in Seq(Call),
           Visit(s, path, parent, rest)
    PROVE  /\ pc' \in [Screens -> Stages]
           /\ stack' \in [Screens -> Seq(Call)]
           /\ tried' \in [Screens -> Seq(Told)]
           /\ gaveUp' \in [Screens -> BOOLEAN] /\ refused' \in [Screens -> SUBSET Seq(Names)]
<1>1. Last(path) \in Names
  BY DEF Last
<1>2. Append(parent, Last(path)) \in Seq(Names)
  BY <1>1
<1>3. pc' \in [Screens -> Stages]
  BY DEF Visit, Goto, TypeOK, Stages
<1>4. gaveUp' \in [Screens -> BOOLEAN] /\ refused' \in [Screens -> SUBSET Seq(Names)]
  <2>1. gaveUp' \in [Screens -> BOOLEAN]
    BY DEF Visit, TypeOK
  <2>2. refused' = refused \/ refused' = [refused EXCEPT ![s] = refused[s] \cup {path}]
    BY DEF Visit
  <2>3. refused \in [Screens -> SUBSET Seq(Names)]
    BY DEF TypeOK
  <2>4. refused[s] \cup {path} \in SUBSET Seq(Names)
    BY <2>3
  <2>. QED
    BY <2>1, <2>2, <2>3, <2>4, PutType
<1>5. tried' \in [Screens -> Seq(Told)]
  <2> DEFINE told == [path |-> path, name |-> Append(parent, Last(path))]
  <2>1. told \in Told
    BY <1>2 DEF Told
  <2>2. tried' = tried \/ tried' = [tried EXCEPT ![s] = Append(tried[s], told)]
    BY DEF Visit
  <2>3. tried \in [Screens -> Seq(Told)]
    BY DEF TypeOK
  <2>. HIDE DEF told
  <2>4. Append(tried[s], told) \in Seq(Told)
    BY <2>1, <2>3, AppendType
  <2>. QED
    BY <2>2, <2>3, <2>4, PutType
<1>6. stack' \in [Screens -> Seq(Call)]
  <2> DEFINE call == [path |-> path, parent |-> Append(parent, Last(path)),
                      unread |-> Children[path]]
  <2>1. ASSUME path \in DOMAIN Children PROVE call \in Call
    <3>1. Children[path] \in SUBSET Names
      BY <2>1, PathsAssumption
    <3>. QED
      BY <1>2, <3>1 DEF Call
  <2>2. \/ stack' = [stack EXCEPT ![s] = rest]
        \/ path \in DOMAIN Children /\ stack' = [stack EXCEPT ![s] = Append(rest, call)]
        \/ stack' = [stack EXCEPT ![s] = <<>>]
    BY DEF Visit, SubParent
  <2>. HIDE DEF call
  <2>3. stack \in [Screens -> Seq(Call)]
    BY DEF TypeOK
  <2>4. <<>> \in Seq(Call)
    OBVIOUS
  <2>5. path \in DOMAIN Children => Append(rest, call) \in Seq(Call)
    BY <2>1, AppendType
  <2>. QED
    <3>1. rest \in Seq(Call)
      OBVIOUS
    <3>2. CASE stack' = [stack EXCEPT ![s] = rest]
      BY <2>3, <3>1, <3>2, PutType
    <3>3. CASE path \in DOMAIN Children /\ stack' = [stack EXCEPT ![s] = Append(rest, call)]
      BY <2>3, <2>5, <3>3, PutType
    <3>4. CASE stack' = [stack EXCEPT ![s] = <<>>]
      BY <2>3, <2>4, <3>4, PutType
    <3>. QED
      BY <2>2, <3>2, <3>3, <3>4
<1>. QED
  BY <1>3, <1>4, <1>5, <1>6

\* The call on top of the stack, and what is left when an entry is taken off its list.
LEMMA TopType ==
    ASSUME TypeOK, NEW s \in Screens, stack[s] # <<>>
    PROVE  /\ stack[s] \in Seq(Call) /\ Len(stack[s]) \in DOMAIN stack[s]
           /\ Last(stack[s]) = stack[s][Len(stack[s])] /\ Last(stack[s]) \in Call
           /\ Front(stack[s]) \in Seq(Call) /\ Len(Front(stack[s])) = Len(stack[s]) - 1
           /\ \A i \in 1..(Len(stack[s]) - 1) : Front(stack[s])[i] = stack[s][i]
<1>1. stack[s] \in Seq(Call)
  BY DEF TypeOK
<1>. QED
  BY <1>1 DEF Last, Front

LEMMA TypeStep == TypeOK /\ Confined /\ [Next]_vars => TypeOK'
<1>1. ASSUME TypeOK, NEW s \in Screens,
             \/ Start(s) \/ DropOld(s) \/ KeepNew(s) \/ DropLogger(s) \/ NewLogger(s)
             \/ Return(s) \/ DropRef(s) \/ ForgetRef(s) \/ SendFails(s)
      PROVE  TypeOK'
  <2>1. /\ gObj' \in Screens \cup {Nobody} /\ refs' \subseteq Screens
        /\ aborted' \in BOOLEAN /\ overlap' \in BOOLEAN /\ mixed' \in BOOLEAN
    BY <1>1 DEF TypeOK, Start, DropOld, KeepNew, DropLogger, NewLogger, Uninit, InitLogger,
         Return, DropRef,
         ForgetRef, SendFails, DeleteRef, Loggers, globals, around
  <2>2. /\ UNCHANGED <<rpc, rheld>>
        /\ logger' \in Loggers \cup {Nobody} /\ loggers' \subseteq Loggers
    BY <1>1 DEF TypeOK, Start, DropOld, KeepNew, DropLogger, NewLogger, Uninit, InitLogger,
         Return, DropRef,
         ForgetRef, SendFails, DeleteRef, Loggers, globals, around
  <2>3. pc' \in [Screens -> Stages]
    BY <1>1 DEF TypeOK, Start, DropOld, KeepNew, DropLogger, NewLogger, Uninit, InitLogger,
         Return, DropRef,
         ForgetRef, SendFails, Goto, Stages
  <2>4. UNCHANGED <<walk, file, piece>>
    BY <1>1 DEF Start, DropOld, KeepNew, DropLogger, NewLogger, Uninit, InitLogger, Return,
         DropRef,
         ForgetRef, SendFails
  <2>. QED
    BY <1>1, <2>1, <2>2, <2>3, <2>4 DEF TypeOK, around, walk, file, piece
<1>2. ASSUME TypeOK, NEW s \in Screens, VisitRoot(s) \/ NextEntry(s) \/ CloseDir(s)
      PROVE  TypeOK'
  <2>1. /\ pc' \in [Screens -> Stages] /\ stack' \in [Screens -> Seq(Call)]
        /\ tried' \in [Screens -> Seq(Told)]
        /\ gaveUp' \in [Screens -> BOOLEAN] /\ refused' \in [Screens -> SUBSET Seq(Names)]
    <3>1. CASE VisitRoot(s)
      <4>1. Root[s] \in Seq(Names) \ {<<>>} /\ <<>> \in Seq(Names) /\ <<>> \in Seq(Call)
        BY PathsAssumption
      <4>2. Visit(s, Root[s], <<>>, <<>>)
        BY <3>1 DEF VisitRoot
      <4>. QED
        BY <1>2, <4>1, <4>2, VisitType
    <3>2. CASE NextEntry(s)
      <4> DEFINE top == Last(stack[s])
                 rest(n) == Append(Front(stack[s]), [top EXCEPT !.unread = @ \ {n}])
      <4>1. PICK n \in top.unread \ Hidden : Visit(s, Entry(top.path, n), top.parent, rest(n))
        BY <3>2 DEF NextEntry
      <4>2. top \in Call /\ Front(stack[s]) \in Seq(Call)
        BY <1>2, <3>2, TopType DEF NextEntry
      <4>5. /\ top.path \in Seq(Names) /\ top.parent \in Seq(Names) /\ n \in Names
            /\ [top EXCEPT !.unread = @ \ {n}] \in Call
        BY <4>2 DEF Call
      <4>. HIDE DEF top
      <4>3. Entry(top.path, n) \in Seq(Names) \ {<<>>}
        BY <4>5 DEF Entry
      <4>4. rest(n) \in Seq(Call)
        BY <4>2, <4>5, AppendType
      <4>. QED
        BY <1>2, <4>1, <4>3, <4>4, <4>5, VisitType
    <3>3. CASE CloseDir(s)
      <4>1. Front(stack[s]) \in Seq(Call) /\ stack \in [Screens -> Seq(Call)]
        BY <1>2, <3>3, TopType DEF CloseDir, TypeOK
      <4>. QED
        BY <1>2, <3>3, <4>1 DEF CloseDir, TypeOK
    <3>. QED
      BY <1>2, <3>1, <3>2, <3>3
  <2>2. UNCHANGED <<globals, around, file, piece>>
    BY <1>2 DEF VisitRoot, NextEntry, CloseDir
  <2>. QED
    BY <1>2, <2>1, <2>2 DEF TypeOK, globals, around, file, piece
<1>3. ASSUME TypeOK, NEW s \in Screens, Negotiate(s) PROVE TypeOK'
  <2>1. PICK g \in Grants[s] :
            /\ granted' = [granted EXCEPT ![s] = g] /\ left' = [left EXCEPT ![s] = g]
            /\ ppc' = [ppc EXCEPT ![s] = [p \in Pieces |-> IF g[p] > 0 THEN "connect" ELSE "none"]]
    BY <1>3 DEF Negotiate
  <2>2. g \in [Pieces -> Nat]
    BY GrantsAssumption
  <2>3. granted' \in [Screens -> [Pieces -> Nat]] /\ left' \in [Screens -> [Pieces -> Nat]]
    BY <1>3, <2>1, <2>2 DEF TypeOK
  <2>4. ppc' \in [Screens -> [Pieces -> PieceStages]]
    BY <1>3, <2>1, <2>2 DEF TypeOK, PieceStages
  <2>5. pc' \in [Screens -> Stages] /\ UNCHANGED <<globals, around, walk, toll, shown, seen, held>>
    BY <1>3 DEF Negotiate, Goto, TypeOK, Stages
  <2>. QED
    BY <1>3, <2>3, <2>4, <2>5 DEF TypeOK, globals, around, walk
<1>4. ASSUME TypeOK, NEW s \in Screens, Join(s) PROVE TypeOK'
  <2>1. NoGrant \in [Pieces -> Nat] /\ {} \in SUBSET Nat
    BY DEF NoGrant
  <2>2. /\ granted' \in [Screens -> [Pieces -> Nat]] /\ left' \in [Screens -> [Pieces -> Nat]]
        /\ seen' \in [Screens -> [Pieces -> Nat]]
        /\ toll' \in [Screens -> Nat] /\ shown' \in [Screens -> SUBSET Nat]
    BY <1>4, <2>1 DEF Join, FileOver, TypeOK
  <2>3. ppc' \in [Screens -> [Pieces -> PieceStages]]
    BY <1>4 DEF Join, TypeOK, PieceStages
  <2>4. pc' \in [Screens -> Stages] /\ UNCHANGED <<globals, around, walk, held>>
    BY <1>4 DEF Join, FileOver, Goto, TypeOK, Stages
  <2>. QED
    BY <1>4, <2>2, <2>3, <2>4 DEF TypeOK, globals, around, walk
<1>5. ASSUME TypeOK, Confined, NEW s \in Screens, NEW p \in Pieces,
             \/ Connect(s, p) \/ Sent(s, p) \/ Answered(s, p) \/ Fails(s, p) \/ ReadFails(s, p) \/ PieceStep(s, p)
      PROVE  TypeOK'
  <2>1. UNCHANGED <<gObj, refs, logger, loggers, around, pc, walk, granted>>
    BY <1>5 DEF Connect, Sent, Answered, Fails, ReadFails, GetLogger, PieceStep, LogRead,
         LogAgain, Log, UseLogger, AddToll, ReadToll, TestRef,
         ClassOfRef, CallBack, Count, globals, file
  <2>2. aborted' \in BOOLEAN
    BY <1>5 DEF Connect, Sent, Answered, Fails, ReadFails, GetLogger, PieceStep, LogRead,
         LogAgain, Log, UseLogger, AddToll, ReadToll, TestRef,
         ClassOfRef, CallBack, Count, TypeOK, globals
  <2>3. ppc' \in [Screens -> [Pieces -> PieceStages]]
    <3>1. PICK l \in PieceStages : ppc' = [ppc EXCEPT ![s][p] = l]
      BY <1>5 DEF Connect, Sent, Answered, Fails, ReadFails, GetLogger, PieceStep, LogRead,
           LogAgain, Log, UseLogger, AddToll, ReadToll, TestRef,
           ClassOfRef, CallBack, Count, PieceGoto, PieceStages
    <3>. QED
      BY <1>5, <3>1, PutPieceType DEF TypeOK
  <2>4. toll' \in [Screens -> Nat] /\ shown' \in [Screens -> SUBSET Nat]
        /\ seen' \in [Screens -> [Pieces -> Nat]]
    <3>1. CASE AddToll(s, p)
      BY <1>5, <3>1 DEF AddToll, TypeOK
    <3>2. CASE ReadToll(s, p)
      <4>1. toll[s] \in Nat
        BY <1>5 DEF TypeOK
      <4>. QED
        BY <1>5, <3>2, <4>1, PutPieceType DEF ReadToll, TypeOK, file
    <3>3. CASE CallBack(s, p)
      <4>0. shown[s] \in SUBSET Nat /\ seen[s][p] \in Nat
        BY <1>5 DEF TypeOK
      <4>1. shown[s] \cup {seen[s][p]} \in SUBSET Nat
        BY <4>0
      <4>2. shown' \in [Screens -> SUBSET Nat]
        BY <1>5, <3>3, <4>1, PutType DEF CallBack, TypeOK
      <4>. QED
        BY <1>5, <3>3, <4>2 DEF CallBack, TypeOK
    <3>4. CASE UNCHANGED <<toll, shown, seen>>
      BY <1>5, <3>4 DEF TypeOK
    <3>. QED
      BY <1>5, <3>1, <3>2, <3>3, <3>4 DEF Connect, Sent, Answered, Fails, ReadFails,
           GetLogger, PieceStep, LogRead, LogAgain, Log, UseLogger,
           TestRef, ClassOfRef, Count, file
  <2>5. left' \in [Screens -> [Pieces -> Nat]]
    <3>1. CASE Count(s, p)
      <4>1. left[s][p] \in Nat /\ left[s][p] > 0
        BY <1>5, <3>1 DEF Count, PieceAt, Confined, ConfinedAt, Working, TypeOK
      <4>2. left[s][p] - 1 \in Nat
        BY <4>1
      <4>3. left' = [left EXCEPT ![s][p] = left[s][p] - 1]
        BY <3>1 DEF Count
      <4>. QED
        BY <1>5, <4>2, <4>3, PutPieceType DEF TypeOK
    <3>2. CASE UNCHANGED left
      BY <1>5, <3>2 DEF TypeOK
    <3>. QED
      BY <1>5, <3>1, <3>2 DEF Connect, Sent, Answered, Fails, ReadFails, GetLogger,
           PieceStep, LogRead, LogAgain, Log, UseLogger, AddToll, ReadToll,
           TestRef, ClassOfRef, CallBack
  <2>6. held' \in [Screens -> [Pieces -> Loggers \cup {Nobody}]]
    <3>1. \/ held' = held \/ held' = [held EXCEPT ![s][p] = logger]
          \/ held' = [held EXCEPT ![s][p] = Nobody]
      BY <1>5 DEF Connect, Sent, Answered, Fails, ReadFails, GetLogger, PieceStep, LogRead,
           LogAgain, Log, UseLogger, AddToll, ReadToll, TestRef,
           ClassOfRef, CallBack, Count
    <3>2. /\ logger \in Loggers \cup {Nobody} /\ Nobody \in Loggers \cup {Nobody}
          /\ held \in [Screens -> [Pieces -> Loggers \cup {Nobody}]]
      BY <1>5 DEF TypeOK
    <3>3. CASE held' = [held EXCEPT ![s][p] = logger]
      BY <3>2, <3>3, PutPieceType
    <3>4. CASE held' = [held EXCEPT ![s][p] = Nobody]
      BY <3>2, <3>4, PutPieceType
    <3>. QED
      BY <3>1, <3>2, <3>3, <3>4
  <2>. QED
    BY <1>5, <2>1, <2>2, <2>3, <2>4, <2>5, <2>6 DEF TypeOK, around, walk
<1>6. ASSUME TypeOK, UNCHANGED vars PROVE TypeOK'
  BY <1>6 DEF TypeOK, vars, globals, around, walk, file, piece
<1>7. ASSUME TypeOK, NEW r \in Receipts, ReceiptStep(r) PROVE TypeOK'
  <2>1. UNCHANGED <<gObj, refs, overlap, pc, walk, file, piece>>
    BY <1>7 DEF ReceiptStep, StartReceipt, DropLoggerToReceive, NewLoggerToReceive,
         GetToLog,
       LogReceipt, ReturnReceipt, LastThreadEnds, Uninit, InitLogger, globals
  <2>2. /\ logger' \in Loggers \cup {Nobody} /\ loggers' \subseteq Loggers
        /\ aborted' \in BOOLEAN /\ mixed' \in BOOLEAN
    BY <1>7 DEF ReceiptStep, StartReceipt, DropLoggerToReceive, NewLoggerToReceive,
         GetToLog,
       LogReceipt, ReturnReceipt, LastThreadEnds, Uninit, InitLogger, globals, TypeOK,
       Loggers
  <2>3. rpc' \in [Receipts -> ReceiptStages]
    BY <1>7 DEF ReceiptStep, StartReceipt, DropLoggerToReceive, NewLoggerToReceive,
         GetToLog,
       LogReceipt, ReturnReceipt, LastThreadEnds, ReceiptGoto, TypeOK, ReceiptStages
  <2>4. rheld' \in [Receipts -> Loggers \cup {Nobody}]
    BY <1>7 DEF ReceiptStep, StartReceipt, DropLoggerToReceive, NewLoggerToReceive,
         GetToLog,
       LogReceipt, ReturnReceipt, LastThreadEnds, TypeOK
  <2>. QED
    BY <1>7, <2>1, <2>2, <2>3, <2>4 DEF TypeOK, walk, file, piece
<1>. QED
  BY <1>1, <1>2, <1>3, <1>4, <1>5, <1>6, <1>7 DEF Next, CallStep, Network

-----------------------------------------------------------------------------
(* The toll.                                                                *)

StepOf(s) == Start(s) \/ CallStep(s) \/ Network(s) \/ \E p \in Pieces : PieceStep(s, p)
PieceStepOf(s, p) ==
    Connect(s, p) \/ Sent(s, p) \/ Answered(s, p) \/ Fails(s, p) \/ ReadFails(s, p) \/ PieceStep(s, p)

\* Who steps if it is not a screen leaves the screens alone.
LEMMA SendOrNot ==
    ASSUME [Next]_vars
    PROVE  \/ \E s \in Screens : StepOf(s)
           \/ UNCHANGED <<gObj, refs, overlap, pc, walk, file, piece>>
<1>1. ASSUME NEW r \in Receipts, ReceiptStep(r)
      PROVE  UNCHANGED <<gObj, refs, overlap, pc, walk, file, piece>>
  BY <1>1 DEF ReceiptStep, StartReceipt, DropLoggerToReceive, NewLoggerToReceive, GetToLog,
     LogReceipt, ReturnReceipt, LastThreadEnds, Uninit, InitLogger, globals
<1>. QED
  BY <1>1 DEF Next, StepOf, vars, globals, around

\* A screen's step leaves the others' files and walks alone.
LEMMA Others ==
    ASSUME TypeOK, NEW s \in Screens, StepOf(s), NEW u \in Screens \ {s}
    PROVE  /\ pc'[u] = pc[u] /\ stack'[u] = stack[u] /\ tried'[u] = tried[u]
           /\ gaveUp'[u] = gaveUp[u] /\ refused'[u] = refused[u]
           /\ granted'[u] = granted[u] /\ toll'[u] = toll[u]
           /\ shown'[u] = shown[u] /\ ppc'[u] = ppc[u] /\ left'[u] = left[u]
           /\ seen'[u] = seen[u] /\ held'[u] = held[u]
<1> USE DEF walk, file, piece
<1>1. pc'[u] = pc[u]
  BY DEF TypeOK, StepOf, Start, CallStep, DropOld, KeepNew, DropLogger, NewLogger, Uninit,
       InitLogger, VisitRoot,
     NextEntry, CloseDir, Visit, SendFails, Join, FileOver, Return, DropRef, ForgetRef,
     Network, Negotiate, Connect, Sent, Answered, Fails, ReadFails, GetLogger, PieceStep,
     LogRead, LogAgain, Log, UseLogger, AddToll, ReadToll,
     TestRef, ClassOfRef, CallBack, Count, Goto
<1>2. /\ stack'[u] = stack[u] /\ tried'[u] = tried[u] /\ gaveUp'[u] = gaveUp[u]
      /\ refused'[u] = refused[u]
  BY DEF TypeOK, StepOf, Start, CallStep, DropOld, KeepNew, DropLogger, NewLogger, Uninit,
       InitLogger, VisitRoot,
     NextEntry, CloseDir, Visit, SendFails, Join, FileOver, Return, DropRef, ForgetRef,
     Network, Negotiate, Connect, Sent, Answered, Fails, ReadFails, GetLogger, PieceStep,
     LogRead, LogAgain, Log, UseLogger, AddToll, ReadToll,
     TestRef, ClassOfRef, CallBack, Count
<1>3. granted'[u] = granted[u] /\ toll'[u] = toll[u] /\ shown'[u] = shown[u]
  BY SMTT(60) DEF TypeOK, StepOf, Start, CallStep, DropOld, KeepNew, DropLogger, NewLogger,
       Uninit, InitLogger, VisitRoot,
     NextEntry, CloseDir, SendFails, Join, FileOver, Return, DropRef, ForgetRef,
     Network, Negotiate, Connect, Sent, Answered, Fails, ReadFails, GetLogger, PieceStep,
     LogRead, LogAgain, Log, UseLogger, AddToll, ReadToll,
     TestRef, ClassOfRef, CallBack, Count
<1>4. ppc'[u] = ppc[u] /\ left'[u] = left[u]
  BY SMTT(60) DEF TypeOK, StepOf, Start, CallStep, DropOld, KeepNew, DropLogger, NewLogger,
       Uninit, InitLogger, VisitRoot,
     NextEntry, CloseDir, SendFails, Join, FileOver, Return, DropRef, ForgetRef,
     Network, Negotiate, Connect, Sent, Answered, Fails, ReadFails, GetLogger, PieceStep,
     LogRead, LogAgain, Log, UseLogger, AddToll, ReadToll,
     TestRef, ClassOfRef, CallBack, Count, PieceGoto
<1>5. seen'[u] = seen[u] /\ held'[u] = held[u]
  BY DEF TypeOK, StepOf, Start, CallStep, DropOld, KeepNew, DropLogger, NewLogger, Uninit,
       InitLogger, VisitRoot,
     NextEntry, CloseDir, SendFails, Join, FileOver, Return, DropRef, ForgetRef,
     Network, Negotiate, Connect, Sent, Answered, Fails, ReadFails, GetLogger, PieceStep,
     LogRead, LogAgain, Log, UseLogger, AddToll, ReadToll,
     TestRef, ClassOfRef, CallBack, Count
<1>. QED
  BY <1>1, <1>2, <1>3, <1>4, <1>5

\* Steps of the call itself, but for the two that begin and end the threads of a
\* file: they leave the file alone, and are none of its threads' business.
LEMMA CallAlone ==
    ASSUME TypeOK, NEW s \in Screens,
           Start(s) \/ CallStep(s), ~Join(s)
    PROVE  /\ UNCHANGED <<file, piece>> /\ pc[s] # "join" /\ pc'[s] # "join"
<1>1. UNCHANGED <<file, piece>> /\ pc[s] # "join"
  BY DEF Start, CallStep, DropOld, KeepNew, DropLogger, NewLogger, Uninit, InitLogger,
       VisitRoot, NextEntry,
     CloseDir, SendFails, Return, DropRef, ForgetRef, At
<1>2. pc'[s] # "join"
  BY DEF TypeOK, Start, CallStep, DropOld, KeepNew, DropLogger, NewLogger, Uninit,
       InitLogger, VisitRoot, NextEntry,
     CloseDir, Visit, SendFails, Return, DropRef, ForgetRef, At, Goto
<1>. QED
  BY <1>1, <1>2

\* What a thread of a piece changes is its own, but for the toll and the report.
LEMMA PieceAlone ==
    ASSUME TypeOK, NEW s \in Screens, NEW p \in Pieces, PieceStepOf(s, p)
    PROVE  /\ UNCHANGED <<gObj, refs, logger, loggers, around, pc, walk, granted>>
           /\ \A q \in Pieces \ {p} :
                 /\ ppc'[s][q] = ppc[s][q] /\ left'[s][q] = left[s][q]
                 /\ seen'[s][q] = seen[s][q] /\ held'[s][q] = held[s][q]
<1>1. UNCHANGED <<gObj, refs, logger, loggers, around, pc, walk, granted>>
  BY DEF PieceStepOf, Connect, Sent, Answered, Fails, ReadFails, GetLogger, PieceStep,
       LogRead, LogAgain, Log, UseLogger, AddToll, ReadToll, TestRef,
     ClassOfRef, CallBack, Count, globals, file
<1>2. ASSUME NEW q \in Pieces \ {p}
      PROVE  /\ ppc'[s][q] = ppc[s][q] /\ left'[s][q] = left[s][q]
             /\ seen'[s][q] = seen[s][q] /\ held'[s][q] = held[s][q]
  <2>1. ppc'[s][q] = ppc[s][q] /\ left'[s][q] = left[s][q]
    BY SMTT(30) DEF PieceStepOf, Connect, Sent, Answered, Fails, ReadFails, GetLogger,
         PieceStep, LogRead, LogAgain, Log, UseLogger, AddToll,
       ReadToll, TestRef, ClassOfRef, CallBack, Count, PieceGoto, TypeOK
  <2>2. seen'[s][q] = seen[s][q] /\ held'[s][q] = held[s][q]
    BY SMTT(30) DEF PieceStepOf, Connect, Sent, Answered, Fails, ReadFails, GetLogger,
         PieceStep, LogRead, LogAgain, Log, UseLogger, AddToll,
       ReadToll, TestRef, ClassOfRef, CallBack, Count, TypeOK
  <2>. QED
    BY <2>1, <2>2
<1>. QED
  BY <1>1, <1>2

LEMMA FramesFinite ==
    ASSUME NEW n \in [Pieces -> Nat]
    PROVE  IsFiniteSet(Frames(n)) /\ Cardinality(Frames(n)) \in Nat
<1> DEFINE Part(p) == {p} \X (1..n[p])
           parts == {Part(p) : p \in Pieces}
           part == [p \in Pieces |-> Part(p)]
<1>1. part \in Surjection(Pieces, parts)
  BY DEF Surjection
<1>2. IsFiniteSet(parts)
  BY <1>1, GrantsAssumption, FS_Surjection
<1>3. ASSUME NEW p \in Pieces PROVE IsFiniteSet(Part(p))
  <2>1. IsFiniteSet({p})
    BY FS_Singleton
  <2>2. 1 \in Int /\ n[p] \in Int
    OBVIOUS
  <2>3. IsFiniteSet(1..n[p])
    BY <2>2, FS_Interval
  <2>. QED
    BY <2>1, <2>3, FS_Product
<1>4. IsFiniteSet(UNION parts)
  BY <1>2, <1>3, FS_UNION
<1>5. Frames(n) = UNION parts
  BY DEF Frames
<1>. QED
  BY <1>4, <1>5, FS_CardinalityType

\* Counting one frame of a piece off takes one frame away.
LEMMA OneFrameLess ==
    ASSUME NEW n \in [Pieces -> Nat], NEW p \in Pieces, n[p] > 0,
           NEW m \in [Pieces -> Nat], m = [n EXCEPT ![p] = n[p] - 1]
    PROVE  Cardinality(Frames(m)) = Cardinality(Frames(n)) - 1
<1> DEFINE last == <<p, n[p]>>
<1>1. last \in Frames(n)
  BY DEF Frames
<1>2. Frames(m) = Frames(n) \ {last}
  <2>1. ASSUME NEW f, f \in Frames(m) PROVE f \in Frames(n) \ {last}
    <3>1. PICK q \in Pieces : f \in {q} \X (1..m[q])
      BY <2>1 DEF Frames
    <3>2. f = <<q, f[2]>> /\ f[2] \in 1..m[q] /\ m[q] <= n[q] /\ m[p] < n[p]
      BY <3>1
    <3>3. f \in {q} \X (1..n[q]) /\ f # last
      BY <3>2
    <3>. QED
      BY <3>3 DEF Frames
  <2>2. ASSUME NEW f, f \in Frames(n) \ {last} PROVE f \in Frames(m)
    <3>1. PICK q \in Pieces : f \in {q} \X (1..n[q])
      BY <2>2 DEF Frames
    <3>2. f = <<q, f[2]>> /\ f[2] \in 1..n[q]
      BY <3>1
    <3>3. f[2] \in 1..m[q]
      BY <2>2, <3>2
    <3>4. f \in {q} \X (1..m[q])
      BY <3>2, <3>3
    <3>. QED
      BY <3>4 DEF Frames
  <2>. QED
    BY <2>1, <2>2
<1>3. IsFiniteSet(Frames(n)) /\ Cardinality(Frames(n)) \in Nat
  BY FramesFinite
<1>. HIDE DEF last
<1>4. Cardinality(Frames(n) \ {last}) = Cardinality(Frames(n)) - 1
  BY <1>1, <1>3, FS_RemoveElement
<1>. QED
  BY <1>2, <1>4

LEMMA NoFrames == NoGrant \in [Pieces -> Nat] /\ Cardinality(Frames(NoGrant)) = 0
<1>1. Frames(NoGrant) = {}
  BY DEF Frames, NoGrant
<1>. QED
  BY <1>1, FS_EmptySet DEF NoGrant

LEMMA ConfinedStep == TypeOK /\ Confined /\ [Next]_vars => Confined'
<1>1. ASSUME TypeOK, Confined, NEW s \in Screens, StepOf(s), NEW u \in Screens \ {s}
      PROVE  ConfinedAt(u)'
  BY <1>1, Others DEF Confined, ConfinedAt, Working
<1>2. ASSUME TypeOK, Confined, NEW s \in Screens, Start(s) \/ CallStep(s), ~Join(s)
      PROVE  ConfinedAt(s)'
  BY <1>2, CallAlone DEF Confined, ConfinedAt, Working, file, piece
<1>3. ASSUME TypeOK, Confined, NEW s \in Screens, Join(s) PROVE ConfinedAt(s)'
  <2>1. /\ toll'[s] = 0 /\ granted'[s] = NoGrant /\ left'[s] = NoGrant
        /\ ppc'[s] = [p \in Pieces |-> "none"]
    BY <1>3 DEF Join, FileOver, TypeOK
  <2>. QED
    BY <2>1 DEF ConfinedAt, Working, NoGrant
<1>4. ASSUME TypeOK, Confined, NEW s \in Screens, Negotiate(s) PROVE ConfinedAt(s)'
  <2>1. PICK g \in Grants[s] :
            /\ granted'[s] = g /\ left'[s] = g
            /\ ppc'[s] = [p \in Pieces |-> IF g[p] > 0 THEN "connect" ELSE "none"]
    BY <1>4 DEF Negotiate, TypeOK
  <2>2. g \in [Pieces -> Nat] /\ pc'[s] = "join"
    BY <1>4, GrantsAssumption DEF Negotiate, Goto, TypeOK
  <2>. QED
    BY <2>1, <2>2 DEF ConfinedAt, Working
<1>5. ASSUME TypeOK, Confined, NEW s \in Screens, NEW p \in Pieces, PieceStepOf(s, p)
      PROVE  ConfinedAt(s)'
  <2>1. ppc[s][p] # "none"
    BY <1>5 DEF PieceStepOf, Connect, Sent, Answered, Fails, ReadFails, GetLogger,
         PieceStep, LogRead, LogAgain, Log, UseLogger, AddToll, ReadToll,
         TestRef, ClassOfRef, CallBack, Count, PieceAt
  <2>2. pc[s] = "join" /\ pc'[s] = "join" /\ granted'[s] = granted[s]
    BY <1>5, <2>1, PieceAlone DEF Confined, ConfinedAt
  <2>3. \A q \in Pieces \ {p} :
            left'[s][q] <= granted'[s][q] /\ (Working(s, q)' => left'[s][q] > 0)
    BY <1>5, <2>2, PieceAlone DEF Confined, ConfinedAt, Working
  <2>4. left'[s][p] <= granted'[s][p] /\ (Working(s, p)' => left'[s][p] > 0)
    <3>1. left[s][p] \in Nat /\ granted[s][p] \in Nat /\ left[s][p] <= granted[s][p]
      BY <1>5 DEF TypeOK, Confined, ConfinedAt
    <3>2. CASE Count(s, p)
      <4>1. left[s][p] > 0
        BY <1>5, <3>2 DEF Count, PieceAt, Confined, ConfinedAt, Working
      <4>2. left'[s][p] = left[s][p] - 1
            /\ ppc'[s][p] = IF left'[s][p] = 0 THEN "ended" ELSE "wait"
        BY <1>5, <3>2 DEF Count, PieceGoto, TypeOK
      <4>. QED
        BY <2>2, <3>1, <4>1, <4>2 DEF Working
    <3>3. CASE ~Count(s, p)
      <4>1. left' = left /\ (Working(s, p)' => Working(s, p))
        BY <1>5, <3>3, SMTT(30) DEF PieceStepOf, Connect, Sent, Answered, Fails, ReadFails,
             GetLogger, PieceStep, LogRead, LogAgain, Log, UseLogger,
             AddToll, ReadToll, TestRef, ClassOfRef, CallBack, PieceAt, PieceGoto, TypeOK,
             Working
      <4>. QED
        BY <1>5, <2>2, <3>1, <4>1 DEF Confined, ConfinedAt
    <3>. QED
      BY <3>2, <3>3
  <2>. QED
    BY <2>2, <2>3, <2>4 DEF ConfinedAt
<1>6. ASSUME Confined, UNCHANGED <<pc, file, piece>> PROVE Confined'
  BY <1>6 DEF Confined, ConfinedAt, Working, file, piece
<1>7. ASSUME TypeOK, Confined, NEW s \in Screens, StepOf(s) PROVE ConfinedAt(s)'
  BY <1>2, <1>3, <1>4, <1>5, <1>7 DEF StepOf, PieceStepOf, Network
<1>. QED
  BY <1>1, <1>6, <1>7, SendOrNot DEF Confined

\* A frame added to the toll is one more thread that has not counted it off yet; one
\* counted off is one frame less and one such thread less.
LEMMA ExactStep == TypeOK /\ Confined /\ Exact /\ [Next]_vars => Exact'
<1>1. ASSUME TypeOK, Exact, NEW s \in Screens, StepOf(s), NEW u \in Screens \ {s}
      PROVE  ExactAt(u)'
  BY <1>1, Others DEF Exact, ExactAt, Total, Missing, Added
<1>2. ASSUME TypeOK, Exact, NEW s \in Screens, Start(s) \/ CallStep(s), ~Join(s)
      PROVE  ExactAt(s)'
  BY <1>2, CallAlone DEF Exact, ExactAt, Total, Missing, Added, file, piece
<1>3. ASSUME TypeOK, NEW s \in Screens, Join(s) PROVE ExactAt(s)'
  <2>1. /\ toll'[s] = 0 /\ granted'[s] = NoGrant /\ left'[s] = NoGrant
        /\ ppc'[s] = [p \in Pieces |-> "none"]
    BY <1>3 DEF Join, FileOver, TypeOK
  <2>2. Added(s)' = {}
    BY <2>1 DEF Added
  <2>. QED
    BY <2>1, <2>2, NoFrames, FS_EmptySet DEF ExactAt, Total, Missing
<1>4. ASSUME TypeOK, Confined, NEW s \in Screens, Negotiate(s) PROVE ExactAt(s)'
  <2>1. PICK g \in Grants[s] :
            /\ granted'[s] = g /\ left'[s] = g
            /\ ppc'[s] = [p \in Pieces |-> IF g[p] > 0 THEN "connect" ELSE "none"]
    BY <1>4 DEF Negotiate, TypeOK
  <2>2. g \in [Pieces -> Nat] /\ toll'[s] = 0
    BY <1>4, GrantsAssumption DEF Negotiate, At, Confined, ConfinedAt
  <2>3. Added(s)' = {}
    BY <2>1 DEF Added
  <2>4. Cardinality(Frames(g)) \in Nat
    BY <2>2, FramesFinite
  <2>. QED
    BY <2>1, <2>2, <2>3, <2>4, FS_EmptySet DEF ExactAt, Total, Missing
<1>5. ASSUME TypeOK, Confined, Exact, NEW s \in Screens, NEW p \in Pieces, PieceStepOf(s, p)
      PROVE  ExactAt(s)'
  <2>1. /\ granted[s] \in [Pieces -> Nat] /\ left[s] \in [Pieces -> Nat]
        /\ left'[s] \in [Pieces -> Nat] /\ toll[s] \in Nat
    <3>1. TypeOK'
      BY <1>5, TypeStep DEF PieceStepOf, Next, Network
    <3>. QED
      BY <1>5, <3>1 DEF TypeOK
  <2>2. Cardinality(Frames(granted[s])) \in Nat /\ Cardinality(Frames(left[s])) \in Nat
    BY <2>1, FramesFinite
  <2>3. IsFiniteSet(Added(s)) /\ Cardinality(Added(s)) \in Nat
    BY GrantsAssumption, FS_Subset, FS_CardinalityType DEF Added
  <2>4. granted'[s] = granted[s]
    BY <1>5, PieceAlone
  <2>5. CASE AddToll(s, p)
    <3>1. p \notin Added(s) /\ Added(s)' = Added(s) \cup {p}
      BY <1>5, <2>5, PieceAlone DEF AddToll, PieceAt, PieceGoto, Added, TypeOK
    <3>2. Cardinality(Added(s)') = Cardinality(Added(s)) + 1
      BY <2>3, <3>1, FS_AddElement
    <3>3. toll'[s] = toll[s] + 1 /\ left'[s] = left[s]
      BY <1>5, <2>5 DEF AddToll, TypeOK
    <3>. QED
      BY <1>5, <2>2, <2>3, <2>4, <3>2, <3>3 DEF Exact, ExactAt, Total, Missing
  <2>6. CASE Count(s, p)
    <3>1. p \in Added(s) /\ Added(s)' = Added(s) \ {p}
      BY <1>5, <2>6, PieceAlone DEF Count, PieceAt, PieceGoto, Added, TypeOK
    <3>2. Cardinality(Added(s)') = Cardinality(Added(s)) - 1
      BY <2>3, <3>1, FS_RemoveElement
    <3>3. left[s][p] > 0
      BY <1>5, <2>6 DEF Count, PieceAt, Confined, ConfinedAt, Working
    <3>4. toll'[s] = toll[s] /\ left'[s] = [left[s] EXCEPT ![p] = left[s][p] - 1]
      BY <1>5, <2>6 DEF Count, TypeOK, file
    <3>5. Cardinality(Frames(left'[s])) = Cardinality(Frames(left[s])) - 1
      BY <2>1, <3>3, <3>4, OneFrameLess
    <3>. QED
      BY <1>5, <2>2, <2>3, <2>4, <3>2, <3>4, <3>5 DEF Exact, ExactAt, Total, Missing
  <2>7. CASE ~AddToll(s, p) /\ ~Count(s, p)
    <3>1. toll' = toll /\ left' = left
      BY <1>5, <2>7 DEF PieceStepOf, Connect, Sent, Answered, Fails, ReadFails, GetLogger,
           PieceStep, LogRead, LogAgain, Log, UseLogger, ReadToll,
           TestRef, ClassOfRef, CallBack, file
    <3>2. p \in Added(s)' <=> p \in Added(s)
      BY <1>5, <2>7, SMTT(30) DEF PieceStepOf, Connect, Sent, Answered, Fails, ReadFails,
           GetLogger, PieceStep, LogRead, LogAgain, Log, UseLogger,
           ReadToll, TestRef, ClassOfRef, CallBack, PieceAt, PieceGoto, TypeOK, Added
    <3>3. Added(s)' = Added(s)
      BY <1>5, <3>2, PieceAlone DEF Added
    <3>. QED
      BY <1>5, <2>4, <3>1, <3>3 DEF Exact, ExactAt, Total, Missing
  <2>. QED
    BY <2>5, <2>6, <2>7
<1>6. ASSUME Exact, UNCHANGED <<file, piece>> PROVE Exact'
  BY <1>6 DEF Exact, ExactAt, Total, Missing, Added, file, piece
<1>7. ASSUME TypeOK, Confined, Exact, NEW s \in Screens, StepOf(s) PROVE ExactAt(s)'
  BY <1>2, <1>3, <1>4, <1>5, <1>7 DEF StepOf, PieceStepOf, Network
<1>. QED
  BY <1>1, <1>6, <1>7, SendOrNot DEF Exact

LEMMA FileInit == Init => TypeOK /\ Confined /\ Exact
<1> SUFFICES ASSUME Init PROVE TypeOK /\ Confined /\ Exact
  OBVIOUS
<1>1. TypeOK
  <2>1. <<>> \in Seq(Call) /\ <<>> \in Seq(Told)
    OBVIOUS
  <2>2. /\ pc \in [Screens -> Stages] /\ ppc \in [Screens -> [Pieces -> PieceStages]]
        /\ held \in [Screens -> [Pieces -> Loggers \cup {Nobody}]]
        /\ rpc \in [Receipts -> ReceiptStages] /\ rheld \in [Receipts -> Loggers \cup {Nobody}]
    BY DEF Init, ByScreen, ByPiece, Stages, PieceStages, ReceiptStages
  <2>3. stack \in [Screens -> Seq(Call)] /\ tried \in [Screens -> Seq(Told)]
    BY <2>1 DEF Init, ByScreen
  <2>4. /\ granted \in [Screens -> [Pieces -> Nat]] /\ toll \in [Screens -> Nat]
        /\ shown \in [Screens -> SUBSET Nat] /\ gaveUp \in [Screens -> BOOLEAN]
        /\ refused \in [Screens -> SUBSET Seq(Names)]
        /\ left \in [Screens -> [Pieces -> Nat]] /\ seen \in [Screens -> [Pieces -> Nat]]
    BY DEF Init, ByScreen, ByPiece
  <2>. QED
    BY <2>2, <2>3, <2>4 DEF Init, TypeOK
<1>2. Confined
  BY DEF Init, ByScreen, ByPiece, NoGrant, Confined, ConfinedAt, Working
<1>3. ASSUME NEW s \in Screens PROVE ExactAt(s)
  <2>1. granted[s] = NoGrant /\ left[s] = NoGrant /\ toll[s] = 0 /\ Added(s) = {}
    BY DEF Init, ByScreen, ByPiece, NoGrant, Added
  <2>. QED
    BY <2>1, NoFrames, FS_EmptySet DEF ExactAt, Total, Missing
<1>. QED
  BY <1>1, <1>2, <1>3 DEF Exact

\* TypeOK is an invariant for any screens, receipts, paths and pieces.
THEOREM TypeInvariant == Spec => []TypeOK
  BY FileInit, TypeStep, ConfinedStep, PTL DEF Spec

\* The toll counts every frame sent once, however many threads add to it, and also
\* while other screens send (SendCtrl::send_piece under m_mutex).
THEOREM TollCounted == Spec => []TollIsSent
<1>1. Exact => TollIsSent
  BY DEF Exact, ExactAt, TollIsSent
<1>. QED
  BY <1>1, FileInit, TypeStep, ConfinedStep, ExactStep, PTL DEF Spec

-----------------------------------------------------------------------------
(* References and loggers.                                                  *)

\* Who makes a step without an overlap is alone.
LEMMA Alone ==
    ASSUME TypeOK, Confined, RefOwned, NEW s \in Screens, StepOf(s), ~overlap'
    PROVE  /\ ~overlap /\ (Sending(s) \/ Start(s))
           /\ \A u \in Screens \ {s} :
                 /\ ~Sending(u) /\ ~Sending(u)'
                 /\ \A p \in Pieces : ppc'[u][p] = "none"
<1>1. ~overlap
  BY DEF StepOf, Start, CallStep, DropOld, KeepNew, DropLogger, NewLogger, VisitRoot,
       NextEntry,
     CloseDir, SendFails, Join, Return, DropRef, ForgetRef, Network, Negotiate, Connect,
     Sent,
     Answered, Fails, ReadFails, GetLogger, PieceStep, LogRead, LogAgain, Log, UseLogger,
     AddToll, ReadToll, TestRef, ClassOfRef, CallBack, Count, around
<1>2. Start(s) \/ Sending(s)
  <2>1. ASSUME CallStep(s) \/ Negotiate(s) PROVE Sending(s)
    BY <2>1 DEF CallStep, DropOld, KeepNew, DropLogger, NewLogger, VisitRoot, NextEntry,
       CloseDir, SendFails, Join, Return, DropRef, ForgetRef, Negotiate, At, Sending
  <2>2. ASSUME NEW p \in Pieces, PieceStepOf(s, p) PROVE Sending(s)
    <3>1. ppc[s][p] # "none"
      BY <2>2 DEF PieceStepOf, Connect, Sent, Answered, Fails, ReadFails, PieceStep,
           LogRead,
           LogAgain, Log, AddToll, ReadToll, TestRef, ClassOfRef, CallBack, Count, PieceAt
    <3>. QED
      BY <3>1 DEF Confined, ConfinedAt, Sending
  <2>. QED
    BY <2>1, <2>2 DEF StepOf, Network, PieceStepOf
<1>3. ASSUME NEW u \in Screens \ {s} PROVE ~Sending(u)
  BY <1>1, <1>2 DEF RefOwned, Start
<1>4. ASSUME NEW u \in Screens \ {s}
      PROVE  ~Sending(u)' /\ \A p \in Pieces : ppc'[u][p] = "none"
  BY <1>3, Others DEF Sending, Confined, ConfinedAt
<1>. QED
  BY <1>1, <1>2, <1>3, <1>4

LEMMA RefStep == TypeOK /\ Confined /\ RefOwned /\ [Next]_vars => RefOwned'
<1> SUFFICES ASSUME TypeOK, Confined, RefOwned, NEW s \in Screens, StepOf(s), ~overlap'
             PROVE  (NobodySends' => gObj' = Nobody) /\ RefAt(s)'
  <2>1. ASSUME RefOwned, UNCHANGED <<gObj, refs, overlap, pc>> PROVE RefOwned'
    BY <2>1 DEF RefOwned, RefAt, NobodySends, Sending
  <2>2. ASSUME TypeOK, Confined, RefOwned, NEW s \in Screens, StepOf(s), ~overlap',
               RefAt(s)', NobodySends' => gObj' = Nobody
        PROVE  RefOwned'
    <3>1. \A u \in Screens \ {s} : ~Sending(u)'
      BY <2>2, Alone
    <3>2. \A u \in Screens \ {s} : RefAt(u)'
      BY <3>1 DEF RefAt, Sending
    <3>. QED
      BY <2>2, <3>1, <3>2 DEF RefOwned
  <2>. QED
    BY <2>1, <2>2, SendOrNot DEF RefOwned
<1>1. ~overlap /\ RefAt(s) /\ (Sending(s) \/ Start(s)) /\ \A u \in Screens \ {s} : ~Sending(u)
  BY Alone DEF RefOwned
<1>2. pc \in [Screens -> Stages]
  BY DEF TypeOK
<1> USE DEF At, Goto, Sending
<1>3. CASE Start(s)
  <2>1. gObj = Nobody
    BY <1>1, <1>3 DEF RefOwned, NobodySends, Start
  <2>2. pc'[s] = "keep" /\ UNCHANGED gObj
    BY <1>2, <1>3, <2>1 DEF Start, globals
  <2>. QED
    BY <2>1, <2>2 DEF RefAt, NobodySends
<1>4. CASE KeepNew(s) \/ DropLogger(s) \/ NewLogger(s)
  BY <1>1, <1>2, <1>4 DEF RefAt, NobodySends, KeepNew, DropLogger, NewLogger, Uninit,
       InitLogger
<1>5. CASE Return(s) \/ DropRef(s) \/ ForgetRef(s) \/ DropOld(s)
  BY <1>1, <1>2, <1>5 DEF RefAt, NobodySends, Return, DropRef, ForgetRef, DropOld,
       DeleteRef,
     globals
<1>6. CASE VisitRoot(s) \/ NextEntry(s) \/ CloseDir(s) \/ SendFails(s) \/ Negotiate(s) \/ Join(s)
  <2>1. pc[s] \in {"visit", "walk", "file", "join"} /\ pc'[s] \in {"walk", "file", "join"}
        /\ UNCHANGED globals
    BY <1>2, <1>6 DEF VisitRoot, NextEntry, CloseDir, Visit, SendFails, Negotiate, Join,
         FileOver
  <2>. QED
    BY <1>1, <2>1 DEF RefAt, NobodySends, globals
<1>7. ASSUME NEW p \in Pieces, PieceStepOf(s, p)
      PROVE  ~NobodySends' /\ RefAt(s)'
  <2>1. UNCHANGED <<gObj, refs, pc>>
    BY <1>7, PieceAlone
  <2>2. ppc[s][p] # "none"
    BY <1>7 DEF PieceStepOf, Connect, Sent, Answered, Fails, ReadFails, PieceStep, LogRead,
         LogAgain, Log, AddToll, ReadToll, TestRef, ClassOfRef, CallBack, Count, PieceAt
  <2>3. pc[s] = "join"
    BY <2>2 DEF Confined, ConfinedAt
  <2>. QED
    BY <1>1, <2>1, <2>3 DEF RefAt, NobodySends
<1>. QED
  BY <1>3, <1>4, <1>5, <1>6, <1>7 DEF StepOf, CallStep, Network, PieceStepOf

\* What a send does to the logger, when nothing else goes on.
LEMMA LoggerBySend ==
    ASSUME TypeOK, Confined, RefOwned, LoggerOwned, NEW s \in Screens, StepOf(s),
           ~overlap', ~mixed'
    PROVE  LoggerOwned'
<1>1. /\ ~overlap /\ RefAt(s) /\ (Sending(s) \/ Start(s))
      /\ \A u \in Screens \ {s} :
            ~Sending(u) /\ ~Sending(u)' /\ \A p \in Pieces : ppc'[u][p] = "none"
  BY Alone DEF RefOwned
<1>2. ~mixed /\ UNCHANGED <<rpc, rheld>> /\ NobodyReceives
  <2>1. UNCHANGED around \/ Start(s)
    BY DEF StepOf, CallStep, DropOld, KeepNew, DropLogger, NewLogger, VisitRoot, NextEntry,
       CloseDir, SendFails, Join, Return, DropRef, ForgetRef, Network, Negotiate, Connect,
       Sent,
       Answered, Fails, ReadFails, GetLogger, PieceStep, LogRead, LogAgain, Log, UseLogger,
       AddToll, ReadToll, TestRef, ClassOfRef, CallBack, Count
  <2>2. CASE Start(s)
    BY <2>2 DEF Start, NobodyReceives
  <2>3. CASE UNCHANGED around /\ ~Start(s)
    BY <1>1, <2>3 DEF around, LoggerOwned, NobodySends
  <2>. QED
    BY <2>1, <2>2, <2>3
<1>3. ~aborted /\ LoggerAt(s)
  BY <1>1, <1>2 DEF LoggerOwned
<1>4. SUFFICES /\ ~aborted' /\ LoggerAt(s)'
               /\ NobodySends' => logger' \in loggers' \cup {Nobody}
  <2>1. NobodyReceives' /\ \A r \in Receipts : LoggerOf(r)'
    BY <1>1, <1>2 DEF NobodyReceives, Receiving, LoggerOwned, LoggerOf
  <2>2. \A u \in Screens \ {s} : LoggerAt(u)'
    BY <1>1 DEF LoggerAt, Sending
  <2>. QED
    BY <1>4, <2>1, <2>2 DEF LoggerOwned, NobodyReceives
<1>5. s # Nobody /\ pc \in [Screens -> Stages]
  BY ScreensAssumption DEF TypeOK
<1> USE DEF At, Goto, Sending
<1>6. CASE Start(s)
  <2>1. logger \in loggers \cup {Nobody} /\ gObj = Nobody
    BY <1>1, <1>2, <1>6 DEF LoggerOwned, RefOwned, NobodySends, Start
  <2>2. pc'[s] = "keep" /\ UNCHANGED <<globals, piece>>
    BY <1>5, <1>6, <2>1 DEF Start
  <2>3. \A p \in Pieces : ppc'[s][p] \notin {"readlog", "log"}
    BY <1>6, <2>2 DEF Confined, ConfinedAt, Start, piece
  <2>. QED
    BY <1>3, <2>1, <2>2, <2>3 DEF LoggerAt, NobodySends, globals
<1>7. CASE KeepNew(s) \/ DropLogger(s) \/ NewLogger(s)
  <2>1. \A p \in Pieces : ppc'[s][p] \notin {"readlog", "log"}
    BY <1>7 DEF Confined, ConfinedAt, KeepNew, DropLogger, NewLogger, piece
  <2>2. ~aborted'
    BY <1>3, <1>7 DEF LoggerAt, KeepNew, DropLogger, NewLogger, Uninit, InitLogger
  <2>3. ~NobodySends'
    BY <1>5, <1>7 DEF NobodySends, KeepNew, DropLogger, NewLogger
  <2>4. LoggerAt(s)'
    BY <1>3, <1>5, <1>7, <2>1 DEF LoggerAt, KeepNew, DropLogger, NewLogger, Uninit,
         InitLogger
  <2>. QED
    BY <2>2, <2>3, <2>4
<1>8. CASE Return(s) \/ DropRef(s) \/ ForgetRef(s) \/ DropOld(s)
  <2>1. \A p \in Pieces : ppc'[s][p] \notin {"readlog", "log"}
    BY <1>8 DEF Confined, ConfinedAt, Return, DropRef, ForgetRef, DropOld, piece
  <2>. QED
    BY <1>1, <1>3, <1>5, <1>8, <2>1 DEF RefAt, LoggerAt, NobodySends, Return, DropRef,
       ForgetRef, DropOld, DeleteRef, globals
<1>9. CASE VisitRoot(s) \/ NextEntry(s) \/ CloseDir(s) \/ SendFails(s)
  <2>1. pc[s] \in {"visit", "walk", "file"} /\ pc'[s] \in {"walk", "file"}
        /\ UNCHANGED <<globals, piece>>
    BY <1>5, <1>9 DEF VisitRoot, NextEntry, CloseDir, Visit, SendFails
  <2>. QED
    BY <1>3, <2>1 DEF LoggerAt, NobodySends, globals, piece
<1>10. CASE Negotiate(s) \/ Join(s)
  <2>1. pc[s] \in {"file", "join"} /\ pc'[s] \in {"walk", "join"} /\ UNCHANGED globals
    BY <1>5, <1>10 DEF Negotiate, Join, FileOver
  <2>2. \A p \in Pieces : ppc'[s][p] \notin {"readlog", "log"}
    BY <1>10 DEF Negotiate, Join, TypeOK
  <2>. QED
    BY <1>3, <2>1, <2>2 DEF LoggerAt, NobodySends, globals
<1>11. ASSUME NEW p \in Pieces, PieceStepOf(s, p)
       PROVE  ~aborted' /\ ~NobodySends' /\ LoggerAt(s)'
  <2>1. UNCHANGED <<gObj, refs, logger, loggers, pc>>
    BY <1>11, PieceAlone
  <2>2. ppc[s][p] # "none"
    BY <1>11 DEF PieceStepOf, Connect, Sent, Answered, Fails, ReadFails, PieceStep, LogRead,
         LogAgain, Log, AddToll, ReadToll, TestRef, ClassOfRef, CallBack, Count, PieceAt
  <2>3. pc[s] = "join" /\ gObj = s /\ s \in refs /\ logger \in loggers
    BY <1>1, <1>3, <2>2 DEF Confined, ConfinedAt, RefAt, LoggerAt
  <2>4. ~aborted'
    BY <1>3, <1>11, <2>3 DEF PieceStepOf, Connect, Sent, Answered, Fails, ReadFails,
         GetLogger,
         PieceStep, LogRead, LogAgain, Log, UseLogger, AddToll, ReadToll, TestRef,
         ClassOfRef,
         CallBack, Count, PieceAt, LoggerAt, globals
  <2>5. ppc'[s][p] \in {"readlog", "log"} => held'[s][p] \in loggers
    BY <1>11, <2>3 DEF PieceStepOf, Connect, Sent, Answered, Fails, ReadFails, GetLogger,
         PieceStep, LogRead, LogAgain, Log, UseLogger, AddToll, ReadToll, TestRef,
         ClassOfRef,
         CallBack, Count, PieceGoto, TypeOK
  <2>6. \A q \in Pieces : ppc'[s][q] \in {"readlog", "log"} => held'[s][q] \in loggers'
    BY <1>3, <1>11, <2>1, <2>5, PieceAlone DEF LoggerAt
  <2>. QED
    BY <2>1, <2>3, <2>4, <2>6 DEF LoggerAt, NobodySends
<1>. QED
  BY <1>6, <1>7, <1>8, <1>9, <1>10, <1>11 DEF StepOf, CallStep, Network, PieceStepOf

\* What a receipt does to it, when nothing else goes on.
LEMMA LoggerByReceipt ==
    ASSUME TypeOK, Confined, LoggerOwned, NEW r \in Receipts, ReceiptStep(r),
           ~overlap', ~mixed'
    PROVE  LoggerOwned'
<1>1. UNCHANGED <<overlap, pc, piece>> /\ ~overlap /\ ~mixed
  <2>1. UNCHANGED <<overlap, pc, piece>>
    BY DEF ReceiptStep, StartReceipt, DropLoggerToReceive, NewLoggerToReceive, GetToLog,
       LogReceipt, ReturnReceipt, LastThreadEnds
  <2>2. ~mixed
    BY Zenon DEF ReceiptStep, StartReceipt, DropLoggerToReceive, NewLoggerToReceive,
         GetToLog,
       LogReceipt, ReturnReceipt, LastThreadEnds
  <2>. QED
    BY <2>1, <2>2
<1>2. /\ ~aborted /\ (NobodySends \/ NobodyReceives)
      /\ \A q, t \in Receipts : Receiving(q) /\ Receiving(t) => q = t
      /\ NobodySends /\ NobodyReceives => logger \in loggers \cup {Nobody}
      /\ \A s \in Screens : LoggerAt(s)
      /\ \A q \in Receipts : LoggerOf(q)
  BY <1>1 DEF LoggerOwned
<1>3. /\ NobodySends /\ \A q \in Receipts \ {r} : ~Receiving(q)
      /\ StartReceipt(r) => NobodyReceives
  <2>1. CASE StartReceipt(r)
    BY <2>1 DEF StartReceipt, ReceiptAt, NobodySends, NobodyReceives, Receiving
  <2>2. CASE ~StartReceipt(r)
    <3>1. Receiving(r)
      BY <1>2, <2>2 DEF ReceiptStep, DropLoggerToReceive, NewLoggerToReceive, GetToLog,
         LogReceipt, ReturnReceipt, LastThreadEnds, ReceiptAt, Receiving, LoggerOf
    <3>. QED
      BY <1>2, <2>2, <3>1 DEF NobodyReceives
  <2>. QED
    BY <2>1, <2>2
<1>4. /\ rpc \in [Receipts -> ReceiptStages] /\ rheld \in [Receipts -> Loggers \cup {Nobody}]
      /\ r # Nobody
  BY ScreensAssumption DEF TypeOK
<1>5. /\ \A q \in Receipts \ {r} : rpc'[q] = rpc[q] /\ rheld'[q] = rheld[q]
  BY <1>4 DEF ReceiptStep, StartReceipt, DropLoggerToReceive, NewLoggerToReceive, GetToLog,
     LogReceipt, ReturnReceipt, LastThreadEnds, ReceiptGoto
<1>6. NobodySends' /\ \A q \in Receipts \ {r} : ~Receiving(q)' /\ LoggerOf(q)'
  <2>1. NobodySends'
    BY <1>1, <1>3 DEF NobodySends, Sending
  <2>2. ASSUME NEW q \in Receipts \ {r} PROVE ~Receiving(q)' /\ LoggerOf(q)'
    BY <1>2, <1>3, <1>5 DEF Receiving, LoggerOf
  <2>. QED
    BY <2>1, <2>2
<1>7. \A s \in Screens : LoggerAt(s)'
  BY <1>1, <1>3 DEF NobodySends, Sending, LoggerAt, Confined, ConfinedAt, piece
<1>8. /\ ~aborted' /\ LoggerOf(r)'
      /\ ~Receiving(r)' => logger' \in loggers' \cup {Nobody}
  <2>1. CASE StartReceipt(r)
    <3>1. logger \in loggers \cup {Nobody} /\ rpc[r] = "idle" /\ rheld[r] = Nobody
      BY <1>2, <1>3, <2>1 DEF StartReceipt, ReceiptAt, LoggerOf
    <3>. QED
      BY <1>2, <1>4, <2>1, <3>1 DEF StartReceipt, ReceiptGoto, globals, LoggerOf
  <2>2. CASE DropLoggerToReceive(r)
    <3>1. rpc[r] = "log" /\ rpc'[r] = "newlog" /\ rheld'[r] = Nobody /\ LoggerOf(r)
      BY <1>2, <1>4, <2>2 DEF DropLoggerToReceive, ReceiptAt, ReceiptGoto, LoggerOf
    <3>2. ~aborted'
      BY <2>2, <3>1 DEF DropLoggerToReceive, Uninit, LoggerOf
    <3>. QED
      BY <3>1, <3>2 DEF LoggerOf, Receiving
  <2>2a. CASE NewLoggerToReceive(r)
    <3>1. rpc[r] = "newlog" /\ rpc'[r] = "serve" /\ rheld'[r] = Nobody
      BY <1>2, <1>4, <2>2a DEF NewLoggerToReceive, ReceiptAt, ReceiptGoto, LoggerOf
    <3>2. ~aborted' /\ logger' \in loggers'
      BY <1>2, <2>2a DEF NewLoggerToReceive, InitLogger
    <3>. QED
      BY <3>1, <3>2 DEF LoggerOf, Receiving
  <2>3. CASE GetToLog(r)
    BY <1>2, <1>4, <2>3 DEF GetToLog, ReceiptAt, globals, LoggerOf, Receiving
  <2>4. CASE LogReceipt(r)
    BY <1>2, <1>4, <2>4 DEF LogReceipt, LoggerOf, Receiving
  <2>5. CASE ReturnReceipt(r) \/ LastThreadEnds(r)
    BY <1>2, <1>4, <2>5 DEF ReturnReceipt, LastThreadEnds, ReceiptAt, ReceiptGoto, globals,
       LoggerOf, Receiving
  <2>. QED
    BY <2>1, <2>2, <2>2a, <2>3, <2>4, <2>5 DEF ReceiptStep
<1>. QED
  BY <1>6, <1>7, <1>8 DEF LoggerOwned, NobodyReceives

LEMMA LoggerStep ==
    TypeOK /\ Confined /\ RefOwned /\ LoggerOwned /\ [Next]_vars => LoggerOwned'
<1>1. ASSUME LoggerOwned, UNCHANGED vars PROVE LoggerOwned'
  BY <1>1 DEF LoggerOwned, LoggerAt, LoggerOf, NobodySends, NobodyReceives, Sending,
       Receiving,
     vars, globals, around, piece
<1>. QED
  BY <1>1, LoggerBySend, LoggerByReceipt DEF Next, StepOf, LoggerOwned

LEMMA OwnedInit == Init => RefOwned /\ LoggerOwned
  BY DEF Init, ByScreen, ByPiece, RefOwned, RefAt, LoggerOwned, LoggerAt, LoggerOf,
       NobodySends,
     NobodyReceives, Sending, Receiving

\* As long as no send and no receipt goes on beside another, no reference and no logger
\* is used or deleted after it was deleted (sendFile, sendFileDone, recvFile,
\* LogUtils::init, the progress callback).
THEOREM NothingStaleUsed == Spec => []OnlyOverlapAborts
<1>1. LoggerOwned => OnlyOverlapAborts
  BY DEF LoggerOwned, OnlyOverlapAborts
<1>. QED
  BY <1>1, FileInit, OwnedInit, TypeStep, ConfinedStep, RefStep, LoggerStep, PTL DEF Spec

-----------------------------------------------------------------------------
(* Progress.                                                                *)

LEMMA AnnouncedStep ==
    TypeOK /\ Confined /\ Exact /\ RefOwned /\ Announced /\ [Next]_vars => Announced'
<1> SUFFICES ASSUME TypeOK, Confined, Exact, RefOwned, Announced, NEW s \in Screens, StepOf(s)
             PROVE  AnnouncedAt(s)'
  <2>1. ASSUME Announced, UNCHANGED <<overlap, pc, file, piece>> PROVE Announced'
    BY <2>1 DEF Announced, AnnouncedAt, Total, file, piece
  <2>2. ASSUME TypeOK, Confined, Announced, NEW s \in Screens, StepOf(s), NEW u \in Screens \ {s}
        PROVE  AnnouncedAt(u)'
    <3>1. ~overlap' => ~overlap
      BY <2>2 DEF StepOf, Start, CallStep, DropOld, KeepNew, DropLogger, NewLogger, Uninit,
           InitLogger, VisitRoot,
         NextEntry, CloseDir, SendFails, Join, Return, DropRef, ForgetRef, Network,
         Negotiate,
         Connect, Sent, Answered, Fails, ReadFails, GetLogger, PieceStep, LogRead,
         LogAgain, Log, UseLogger, AddToll, ReadToll, TestRef, ClassOfRef,
         CallBack, Count, around
    <3>. QED
      BY <2>2, <3>1, Others DEF Announced, AnnouncedAt, Total
  <2>. QED
    BY <2>1, <2>2, SendOrNot DEF Announced
<1>1. CASE Start(s) \/ CallStep(s)
  <2>1. pc'[s] # "join"
    BY <1>1, CallAlone DEF Join, FileOver, Goto, TypeOK
  <2>. QED
    BY <2>1 DEF AnnouncedAt
<1>2. CASE Negotiate(s)
  <2>1. toll'[s] = 0
    BY <1>2 DEF Negotiate, At, Confined, ConfinedAt
  <2>2. Total(s)' > 0 => toll'[s] # Total(s)'
    BY <2>1
  <2>. QED
    BY <2>2 DEF AnnouncedAt
<1>3. ASSUME NEW p \in Pieces, PieceStepOf(s, p), ~overlap', pc'[s] = "join",
             Total(s)' > 0, toll'[s] = Total(s)'
      PROVE  \/ Total(s)' \in shown'[s]
             \/ \E q \in Pieces : \/ ppc'[s][q] = "args"
                                  \/ ppc'[s][q] \in {"test", "class", "call"} /\ seen'[s][q] = Total(s)'
  <2>1. UNCHANGED <<gObj, overlap, pc>> /\ Total(s)' = Total(s)
    BY <1>3, PieceAlone DEF Total, around
  <2>2. gObj = s /\ gObj # Nobody
    BY <1>3, <2>1, ScreensAssumption DEF RefOwned, RefAt
  <2>3. CASE AddToll(s, p)
    BY <2>3 DEF AddToll, PieceGoto, TypeOK
  <2>4. CASE ~AddToll(s, p)
    <3>1. toll' = toll
      BY <1>3, <2>4 DEF PieceStepOf, Connect, Sent, Answered, Fails, ReadFails, GetLogger,
           PieceStep, LogRead, LogAgain, Log, UseLogger, ReadToll,
           TestRef, ClassOfRef, CallBack, Count, file
    <3>2. Total(s) \in shown[s] => Total(s) \in shown'[s]
      BY <1>3, <2>4 DEF PieceStepOf, Connect, Sent, Answered, Fails, ReadFails, GetLogger,
           PieceStep, LogRead, LogAgain, Log, UseLogger, ReadToll,
           TestRef, ClassOfRef, CallBack, Count, file, TypeOK
    <3>3. \/ Total(s) \in shown[s]
          \/ \E q \in Pieces : \/ ppc[s][q] = "args"
                               \/ ppc[s][q] \in {"test", "class", "call"} /\ seen[s][q] = Total(s)
      BY <1>3, <2>1, <3>1 DEF Announced, AnnouncedAt
    <3>4. ASSUME NEW q \in Pieces, q # p,
                 \/ ppc[s][q] = "args"
                 \/ ppc[s][q] \in {"test", "class", "call"} /\ seen[s][q] = Total(s)
          PROVE  \/ ppc'[s][q] = "args"
                 \/ ppc'[s][q] \in {"test", "class", "call"} /\ seen'[s][q] = Total(s)
      BY <1>3, <3>4, PieceAlone
    <3>5. CASE ppc[s][p] = "args"
      <4>1. ReadToll(s, p)
        BY <1>3, <3>5 DEF PieceStepOf, Connect, Sent, Answered, Fails, ReadFails,
             GetLogger, PieceStep, LogRead, LogAgain, Log, UseLogger, AddToll,
             TestRef, ClassOfRef, CallBack, Count, PieceAt
      <4>2. ppc'[s][p] = "test" /\ seen'[s][p] = toll[s]
        BY <4>1 DEF ReadToll, PieceGoto, TypeOK
      <4>. QED
        BY <1>3, <2>1, <3>1, <4>2
    <3>6. CASE ppc[s][p] \in {"test", "class"} /\ seen[s][p] = Total(s)
      <4>1. TestRef(s, p) \/ ClassOfRef(s, p)
        BY <1>3, <3>6 DEF PieceStepOf, Connect, Sent, Answered, Fails, ReadFails,
             GetLogger, PieceStep, LogRead, LogAgain, Log, UseLogger, AddToll,
             ReadToll, CallBack, Count, PieceAt
      <4>2. ppc'[s][p] \in {"class", "call"} /\ seen' = seen
        BY <2>2, <4>1 DEF TestRef, ClassOfRef, PieceGoto, TypeOK
      <4>. QED
        BY <2>1, <3>6, <4>2
    <3>7. CASE ppc[s][p] = "call" /\ seen[s][p] = Total(s)
      <4>1. CallBack(s, p)
        BY <1>3, <3>7 DEF PieceStepOf, Connect, Sent, Answered, Fails, ReadFails,
             GetLogger, PieceStep, LogRead, LogAgain, Log, UseLogger, AddToll,
             ReadToll, TestRef, ClassOfRef, Count, PieceAt
      <4>2. Total(s) \in shown'[s]
        BY <2>2, <3>7, <4>1 DEF CallBack, TypeOK
      <4>. QED
        BY <2>1, <4>2
    <3>. QED
      BY <2>1, <3>2, <3>3, <3>4, <3>5, <3>6, <3>7
  <2>. QED
    BY <2>3, <2>4
<1>. QED
  BY <1>1, <1>2, <1>3 DEF AnnouncedAt, StepOf, Network, PieceStepOf

\* When every piece has been sent, the screen has been told of the whole, though the
\* toll is read outside the mutex (SendCtrl::send_piece and the callback of sendFile).
THEOREM WholeReported == Spec => []WholeIsShown
<1>1. Init => Announced
  BY DEF Init, ByScreen, Announced, AnnouncedAt
<1>2. TypeOK /\ Exact /\ Announced => WholeIsShown
  <2> SUFFICES ASSUME TypeOK, Exact, Announced, NEW s \in Screens, pc[s] = "join", Joined(s),
                      Total(s) > 0, Missing(s) = 0, ~overlap
               PROVE  Total(s) \in shown[s]
    BY DEF WholeIsShown
  <2>1. \A p \in Pieces : ppc[s][p] \in {"ended", "none"}
    BY DEF Joined
  <2>2. Cardinality(Added(s)) = 0
    <3>1. Added(s) = {}
      BY <2>1 DEF Added
    <3>. QED
      BY <3>1, FS_EmptySet
  <2>3. Total(s) \in Nat
    BY FramesFinite DEF Total, TypeOK
  <2>4. toll[s] = Total(s)
    BY <2>2, <2>3 DEF Exact, ExactAt
  <2>. QED
    BY <2>1, <2>4 DEF Announced, AnnouncedAt
<1>. QED
  BY <1>1, <1>2, FileInit, OwnedInit, TypeStep, ConfinedStep, ExactStep, RefStep,
     AnnouncedStep, PTL DEF Spec

-----------------------------------------------------------------------------
(* Paths.                                                                   *)

LEMMA RootPath ==
    ASSUME NEW s \in Screens
    PROVE  Root[s] \in Seq(Names) /\ Len(Root[s]) \in Nat \ {0} /\ Reached(s, Root[s])
<1>1. Root[s] \in Seq(Names) \ {<<>>}
  BY PathsAssumption
<1>. QED
  BY <1>1 DEF Reached, Under

LEMMA PrefixIs ==
    ASSUME NEW a \in Seq(Names), NEW b \in Seq(Names)
    PROVE  IsPrefix(a, b) <=> Under(b, a)
<1>1. ASSUME Len(a) <= Len(b)
      PROVE  SubSeq(a, 1, Len(a)) = SubSeq(b, 1, Len(a)) <=> \A k \in 1..Len(a) : b[k] = a[k]
  <2>1. SubSeq(a, 1, Len(a)) = [k \in 1..Len(a) |-> a[k]]
    OBVIOUS
  <2>2. SubSeq(b, 1, Len(a)) = [k \in 1..Len(a) |-> b[k]]
    BY <1>1
  <2>. QED
    BY <2>1, <2>2
<1>. QED
  BY <1>1 DEF IsPrefix, Under

LEMMA SameSeq ==
    ASSUME NEW a \in Seq(Names), NEW b \in Seq(Names), Len(a) = Len(b),
           \A k \in 1..Len(a) : a[k] = b[k]
    PROVE  a = b
<1>1. a = [k \in 1..Len(a) |-> a[k]] /\ b = [k \in 1..Len(b) |-> b[k]]
  OBVIOUS
<1>. QED
  BY <1>1

\* What is under a directory, is it or is below it.
LEMMA UnderIs ==
    ASSUME NEW a \in Seq(Names), NEW b \in Seq(Names)
    PROVE  Under(b, a) <=> b = a \/ Below(b, a)
<1>1. Under(b, a) /\ Len(a) = Len(b) => b = a
  BY SameSeq DEF Under
<1>2. Len(a) \in Nat /\ Len(b) \in Nat
  OBVIOUS
<1>. QED
  BY <1>1, <1>2 DEF Under, Below

\* What is under what is ahead of a call is ahead of it too.
LEMMA AheadDown ==
    ASSUME NEW f \in Seq(Names), NEW g \in Seq(Names), NEW c, c.path \in Seq(Names),
           Under(f, g), Ahead(g, c)
    PROVE  Ahead(f, c)
<1> DEFINE d == c.path
<1>1. /\ Len(d) \in Nat /\ Len(g) \in Nat /\ Len(f) \in Nat
      /\ Len(d) < Len(g) /\ Len(g) <= Len(f) /\ g[Len(d) + 1] \in c.unread
      /\ \A k \in 1..Len(d) : g[k] = d[k]
      /\ \A k \in 1..Len(g) : f[k] = g[k]
  BY DEF Ahead, Below, Under
<1>. HIDE DEF d
<1>2. Len(d) + 1 \in 1..Len(g) /\ \A k \in 1..Len(d) : k \in 1..Len(g)
  BY <1>1
<1>. QED
  BY <1>1, <1>2 DEF Ahead, Below, d

Entries == UNION {{Entry(d, n) : n \in Children[d] \ Hidden} : d \in DOMAIN Children}

LEMMA AppendIs ==
    ASSUME NEW a \in Seq(Names), NEW n \in Names
    PROVE  /\ Append(a, n) \in Seq(Names) \ {<<>>} /\ Len(Append(a, n)) = Len(a) + 1
           /\ Append(a, n)[Len(a) + 1] = n /\ \A k \in 1..Len(a) : Append(a, n)[k] = a[k]
  OBVIOUS

LEMMA TailAppend ==
    ASSUME NEW d \in Seq(Names), NEW n \in Names, NEW r \in 1..Len(d)
    PROVE  SubSeq(Append(d, n), r, Len(Append(d, n))) = Append(SubSeq(d, r, Len(d)), n)
<1> DEFINE g == Append(d, n)
           whole == SubSeq(g, r, Len(g))
           part == SubSeq(d, r, Len(d))
           len == Len(d) - r + 1
<1>1. g \in Seq(Names) /\ Len(g) = Len(d) + 1 /\ g[Len(d) + 1] = n
      /\ (\A k \in 1..Len(d) : g[k] = d[k]) /\ len \in Nat
  OBVIOUS
<1>2. whole \in Seq(Names) /\ Len(whole) = len + 1 /\ \A k \in 1..(len + 1) : whole[k] = g[r + k - 1]
  <2>. HIDE DEF g
  <2>1. whole = [k \in 1..(len + 1) |-> g[r + k - 1]]
    BY <1>1
  <2>2. \A k \in 1..(len + 1) : r + k - 1 \in 1..Len(g)
    BY <1>1
  <2>. QED
    BY <1>1, <2>1, <2>2
<1>3. part \in Seq(Names) /\ Len(part) = len /\ \A k \in 1..len : part[k] = d[r + k - 1]
  <2>1. part = [k \in 1..len |-> d[r + k - 1]]
    OBVIOUS
  <2>2. \A k \in 1..len : r + k - 1 \in 1..Len(d) /\ d[r + k - 1] \in Names
    OBVIOUS
  <2>. HIDE DEF part, len
  <2>3. part \in Seq(Names)
    BY <1>1, <2>1, <2>2
  <2>4. Len(part) = len
    BY <1>1, <2>1
  <2>. QED
    BY <2>1, <2>3, <2>4
<1>. HIDE DEF whole, part
<1>4. Append(part, n) \in Seq(Names) /\ Len(Append(part, n)) = len + 1
      /\ Append(part, n)[len + 1] = n /\ \A k \in 1..len : Append(part, n)[k] = part[k]
  <2>. HIDE DEF len
  <2>. QED
    BY <1>3, AppendIs
<1>5. whole[len + 1] = n
  <2>1. whole[len + 1] = g[r + (len + 1) - 1]
    <3>. HIDE DEF g, len
    <3>. QED
      BY <1>1, <1>2
  <2>2. r + (len + 1) - 1 = Len(d) + 1
    OBVIOUS
  <2>. QED
    BY <1>1, <2>1, <2>2
<1>6. ASSUME NEW k \in 1..len PROVE whole[k] = part[k]
  <2>1. r + k - 1 \in 1..Len(d) /\ k \in 1..(len + 1)
    BY <1>1
  <2>. QED
    BY <1>1, <1>2, <1>3, <2>1
<1>7. \A k \in 1..(len + 1) : whole[k] = Append(part, n)[k]
  <2>. HIDE DEF len, g
  <2>1. \A k \in 1..(len + 1) : k \in 1..len \/ k = len + 1
    BY <1>1
  <2>. QED
    BY <1>4, <1>5, <1>6, <2>1
<1>. QED
  BY <1>2, <1>4, <1>7, SameSeq DEF whole, part

LEMMA EntryIs ==
    ASSUME NEW f \in Entries
    PROVE  \E d \in DOMAIN Children : \E n \in Children[d] \ Hidden :
              /\ d \in Seq(Names) /\ n \in Names /\ f \in Seq(Names)
              /\ Len(f) = Len(d) + 1 /\ f[Len(f)] = n /\ \A k \in 1..Len(d) : f[k] = d[k]
<1>0. PICK d \in DOMAIN Children : \E n \in Children[d] \ Hidden : f = Append(d, n)
  BY DEF Entries, Entry
<1>1. PICK n \in Children[d] \ Hidden : f = Append(d, n)
  BY <1>0
<1>2. d \in Seq(Names) /\ n \in Names
  BY PathsAssumption
<1>. QED
  BY <1>1, <1>2

LEMMA VisibleIs ==
    ASSUME NEW s \in Screens, NEW f
    PROVE  f \in Visible(s) <=>
              /\ f \in Entries \cup {Root[s]} /\ f \in Seq(Names)
              /\ IsFile(f) /\ ~IsDir(f) /\ Reached(s, f) /\ Entered(s, f)
<1>1. f \in Visible(s) <=>
        /\ f \in Entries \cup {Root[s]} /\ IsFile(f) /\ IsPrefix(Root[s], f)
        /\ \A i \in (Len(Root[s]) + 1)..Len(f) : f[i] \notin Hidden
        /\ \A d \in DOMAIN Children : IsPrefix(Root[s], d) /\ IsStrictPrefix(d, f) => IsDir(d)
  BY DEF Visible, Entries
<1>2. f \in Entries \cup {Root[s]} => f \in Seq(Names)
  BY EntryIs, RootPath
<1>3. f \in Seq(Names) => (IsPrefix(Root[s], f) <=> Under(f, Root[s]))
  BY PrefixIs, RootPath
<1>4. IsFile(f) => ~IsDir(f)
  BY PathsAssumption DEF IsFile, IsDir
<1>5. ASSUME f \in Seq(Names), Under(f, Root[s]), NEW d \in DOMAIN Children
      PROVE  IsPrefix(Root[s], d) /\ IsStrictPrefix(d, f)
                <=> Len(Root[s]) <= Len(d) /\ Below(f, d)
  <2>1. d \in Seq(Names) /\ Root[s] \in Seq(Names)
    BY PathsAssumption
  <2>2. IsStrictPrefix(d, f) <=> Below(f, d)
    <3>1. Below(f, d) => f # d
      BY <2>1 DEF Below
    <3>. QED
      BY <1>5, <2>1, <3>1, PrefixIs, UnderIs DEF IsStrictPrefix
  <2>3. Below(f, d) => (Under(d, Root[s]) <=> Len(Root[s]) <= Len(d))
    BY <1>5, <2>1 DEF Below, Under
  <2>. QED
    BY <2>1, <2>2, <2>3, PrefixIs DEF Under
<1>6. f \in Seq(Names) /\ Under(f, Root[s]) =>
        (Entered(s, f) <=>
            \A d \in DOMAIN Children : IsPrefix(Root[s], d) /\ IsStrictPrefix(d, f) => IsDir(d))
  BY <1>5 DEF Entered
<1>. QED
  BY <1>1, <1>2, <1>3, <1>4, <1>6 DEF Reached

\* What is above a visible file is a directory, and lists what leads to the file.
LEMMA DirsAbove ==
    ASSUME NEW s \in Screens, NEW f \in Visible(s),
           NEW g \in Seq(Names), Reached(s, g), Below(f, g)
    PROVE  g \in DOMAIN Children /\ IsDir(g) /\ f[Len(g) + 1] \in Children[g]
<1>1. f \in Entries \cup {Root[s]} /\ f \in Seq(Names) /\ Reached(s, f) /\ Entered(s, f)
  BY VisibleIs
<1>2. /\ Len(Root[s]) \in Nat \ {0} /\ Len(g) \in Nat /\ Len(f) \in Nat
      /\ Len(Root[s]) <= Len(g) /\ Len(g) < Len(f)
  BY <1>1, RootPath DEF Reached, Under, Below
<1>3. f \in Entries
  BY <1>1, <1>2
<1>4. PICK d \in DOMAIN Children :
          /\ d \in Seq(Names) /\ Len(f) = Len(d) + 1 /\ f[Len(f)] \in Children[d]
          /\ \A k \in 1..Len(d) : f[k] = d[k]
  BY <1>3, EntryIs
<1>5. Len(d) \in Nat /\ Len(g) <= Len(d) /\ \A k \in 1..Len(g) : d[k] = g[k]
  BY <1>2, <1>4 DEF Below
<1>6. ASSUME Len(g) = Len(d) PROVE g \in DOMAIN Children /\ f[Len(g) + 1] \in Children[g]
  <2>1. d = g
    BY <1>4, <1>5, <1>6, SameSeq
  <2>. QED
    BY <1>4, <2>1
<1>7. ASSUME Len(g) < Len(d) PROVE g \in DOMAIN Children /\ f[Len(g) + 1] \in Children[g]
  <2>1. IsPrefix(Root[s], d)
    <3>1. \A k \in 1..Len(Root[s]) : d[k] = Root[s][k]
      BY <1>2, <1>5 DEF Reached, Under
    <3>2. Root[s] \in Seq(Names) /\ d \in Seq(Names) /\ Len(Root[s]) <= Len(d)
      BY <1>2, <1>4, <1>5, RootPath
    <3>. QED
      BY <3>1, <3>2, PrefixIs DEF Under
  <2>2. Len(g) \in Len(Root[s])..(Len(d) - 1)
    BY <1>2, <1>5, <1>7
  <2>3. SubSeq(d, 1, Len(g)) \in DOMAIN Children
        /\ d[Len(g) + 1] \in Children[SubSeq(d, 1, Len(g))]
    BY <1>4, <2>1, <2>2, TreeAssumption
  <2>4. SubSeq(d, 1, Len(g)) \in Seq(Names) /\ Len(SubSeq(d, 1, Len(g))) = Len(g)
        /\ \A k \in 1..Len(g) : SubSeq(d, 1, Len(g))[k] = d[k]
    BY <1>2, <1>4, <1>5
  <2>5. SubSeq(d, 1, Len(g)) = g
    BY <1>5, <2>4, SameSeq
  <2>6. f[Len(g) + 1] = d[Len(g) + 1]
    BY <1>2, <1>4, <1>5, <1>7
  <2>. QED
    BY <2>3, <2>5, <2>6
<1>8. g \in DOMAIN Children /\ f[Len(g) + 1] \in Children[g]
  BY <1>5, <1>6, <1>7, <1>2
<1>. QED
  BY <1>1, <1>2, <1>8 DEF Entered

\* An entry that is not hidden, of a directory that can be reached.
LEMMA EntryReached ==
    ASSUME NEW s \in Screens, NEW d \in DOMAIN Children,
           Reached(s, d), Entered(s, d), IsDir(d), NEW n \in Children[d] \ Hidden, NEW g, g = Entry(d, n)
    PROVE  /\ g \in Seq(Names) \ {<<>>} /\ d \in Seq(Names) /\ Len(g) = Len(d) + 1
           /\ Below(g, d) /\ g[Len(d) + 1] = n /\ Last(g) = n /\ Reached(s, g)
           /\ Entered(s, g) /\ (IsFile(g) => g \in Visible(s))
           /\ RelativeName(s, g) = Append(RelativeName(s, d), n)
<1>1. d \in Seq(Names) /\ n \in Names
  BY PathsAssumption
<1>2. /\ g \in Seq(Names) \ {<<>>} /\ Len(g) = Len(d) + 1 /\ g[Len(d) + 1] = n
      /\ \A k \in 1..Len(d) : g[k] = d[k]
  BY <1>1 DEF Entry
<1>3. Len(Root[s]) \in Nat \ {0} /\ Len(d) \in Nat /\ Len(Root[s]) <= Len(d)
  BY <1>1, RootPath DEF Reached, Under
<1>4. Below(g, d) /\ Last(g) = n
  BY <1>2, <1>3 DEF Below, Last
<1>5. Reached(s, g)
  BY <1>2, <1>3 DEF Reached, Under
<1>6. Entered(s, g)
  <2> SUFFICES ASSUME NEW e \in DOMAIN Children, Len(Root[s]) <= Len(e), Below(g, e)
               PROVE  IsDir(e)
    BY DEF Entered
  <2>1. e \in Seq(Names)
    BY PathsAssumption
  <2>2. Under(d, e)
    BY <1>1, <1>2, <1>3, <2>1 DEF Below, Under
  <2>. QED
    BY <1>1, <2>1, <2>2, UnderIs DEF Entered
<1>7. IsFile(g) => g \in Visible(s)
  <2>1. g \in Entries
    BY DEF Entries
  <2>2. IsFile(g) => ~IsDir(g)
    BY PathsAssumption DEF IsFile, IsDir
  <2>. QED
    BY <1>2, <1>5, <1>6, <2>1, <2>2, VisibleIs
<1>8. RelativeName(s, g) = Append(RelativeName(s, d), n)
  <2>1. Len(Root[s]) \in 1..Len(d)
    BY <1>3
  <2>2. SubSeq(Append(d, n), Len(Root[s]), Len(Append(d, n)))
          = Append(SubSeq(d, Len(Root[s]), Len(d)), n)
    BY <1>1, <2>1, TailAppend
  <2>. QED
    BY <2>2 DEF RelativeName, Entry
<1>. QED
  BY <1>1, <1>2, <1>4, <1>5, <1>6, <1>7, <1>8

-----------------------------------------------------------------------------
(* What the steps of enum_dir do to the calls S there are and the files told.  *)

\* R is S with the name n taken off what the call on top has still to read.
TakenOff(S, n, R) ==
    /\ S \in Seq(Call) \ {<<>>} /\ n \in S[Len(S)].unread
    /\ R = Append(Front(S), [S[Len(S)] EXCEPT !.unread = @ \ {n}])

LEMMA FrontIs ==
    ASSUME NEW S \in Seq(Call), S # <<>>
    PROVE  /\ Front(S) \in Seq(Call) /\ Len(Front(S)) = Len(S) - 1
           /\ \A j \in 1..(Len(S) - 1) : Front(S)[j] = S[j]
<1>1. Len(S) \in Nat \ {0} /\ \A j \in 1..(Len(S) - 1) : S[j] \in Call
  OBVIOUS
<1> DEFINE m == Len(S) - 1
<1>2. m \in Nat
  BY <1>1
<1>. HIDE DEF m
<1>3. /\ SubSeq(S, 1, m) \in Seq(Call) /\ Len(SubSeq(S, 1, m)) = IF 1 <= m THEN m - 1 + 1 ELSE 0
      /\ \A j \in 1..(m - 1 + 1) : SubSeq(S, 1, m)[j] = S[1 + j - 1]
  BY <1>1, <1>2, SubSeqProperties DEF m
<1>4. Len(SubSeq(S, 1, m)) = m /\ \A j \in 1..m : SubSeq(S, 1, m)[j] = S[j]
  BY <1>2, <1>3
<1>. QED
  BY <1>3, <1>4 DEF Front, m

LEMMA TakenOffIs ==
    ASSUME NEW S, NEW n, NEW R, TakenOff(S, n, R)
    PROVE  /\ R \in Seq(Call) /\ Len(R) = Len(S) /\ Len(S) \in Nat \ {0}
           /\ DOMAIN S = 1..Len(S) /\ DOMAIN R = 1..Len(S) /\ n \in S[Len(S)].unread
           /\ \A j \in 1..Len(S) : /\ S[j] \in Call /\ R[j] \in Call /\ R[j].path = S[j].path
                                   /\ R[j].parent = S[j].parent /\ R[j].unread \subseteq S[j].unread
           /\ \A j \in 1..(Len(S) - 1) : R[j] = S[j]
           /\ R[Len(S)].unread = S[Len(S)].unread \ {n}
<1> DEFINE top == [S[Len(S)] EXCEPT !.unread = @ \ {n}]
<1>1. S \in Seq(Call) /\ S # <<>> /\ n \in S[Len(S)].unread
  BY DEF TakenOff
<1>1a. Len(S) \in Nat \ {0} /\ S[Len(S)] \in Call
  BY <1>1
<1>2. /\ top \in Call /\ top.path = S[Len(S)].path /\ top.parent = S[Len(S)].parent
      /\ top.unread = S[Len(S)].unread \ {n}
  BY <1>1a DEF Call
<1>3. Front(S) \in Seq(Call) /\ Len(Front(S)) = Len(S) - 1
      /\ \A j \in 1..(Len(S) - 1) : Front(S)[j] = S[j]
  BY <1>1, FrontIs
<1>4. R = Append(Front(S), top)
  BY DEF TakenOff
<1>. HIDE DEF top
<1>5. /\ R \in Seq(Call) /\ Len(R) = Len(S) /\ R[Len(S)] = top
      /\ DOMAIN R = 1..Len(S) /\ \A j \in 1..(Len(S) - 1) : R[j] = S[j]
  BY <1>1a, <1>2, <1>3, <1>4
<1>6. ASSUME NEW j \in 1..Len(S)
      PROVE  /\ S[j] \in Call /\ R[j] \in Call /\ R[j].path = S[j].path
             /\ R[j].parent = S[j].parent /\ R[j].unread \subseteq S[j].unread
  <2>1. j = Len(S) \/ j \in 1..(Len(S) - 1)
    BY <1>1a
  <2>2. S[j] \in Call
    BY <1>1
  <2>. QED
    BY <1>2, <1>5, <2>1, <2>2
<1>. QED
  BY <1>1, <1>1a, <1>2, <1>5, <1>6

\* Nothing that was said of the calls is untrue of fewer names to read.
LEMMA LessToRead ==
    ASSUME NEW s \in Screens, NEW S, NEW n, NEW R, TakenOff(S, n, R), NEW told, NEW no,
           WalkOK(s, no, told, S)
    PROVE  WalkOK(s, no, told, R)
<1>1. /\ DOMAIN S = 1..Len(S) /\ DOMAIN R = 1..Len(S)
      /\ \A j \in 1..Len(S) : /\ R[j].path = S[j].path /\ R[j].parent = S[j].parent
                              /\ R[j].unread \subseteq S[j].unread
  BY TakenOffIs
<1>2. \A f : \A j \in 1..Len(S) : Ahead(f, R[j]) => Ahead(f, S[j])
  BY <1>1 DEF Ahead
<1>3. CallsOK(s, R)
  BY <1>1 DEF WalkOK, CallsOK
<1>4. Nested(R)
  BY <1>1, <1>2 DEF WalkOK, Nested
<1>5. TriedOK(s, told, R)
  BY <1>1, <1>2 DEF WalkOK, TriedOK
<1>6. LeftOut(no, told, R)
  BY <1>1, <1>2 DEF WalkOK, LeftOut
<1>. QED
  BY <1>3, <1>4, <1>5, <1>6 DEF WalkOK

\* What the entry that was read is to the calls, and they to it.
LEMMA EntryRead ==
    ASSUME NEW s \in Screens, NEW S, NEW n, NEW R, TakenOff(S, n, R), n \notin Hidden,
           CallsOK(s, S), Nested(S), NEW g, g = Entry(S[Len(S)].path, n)
    PROVE  /\ g \in Seq(Names) \ {<<>>} /\ Last(g) = n /\ Reached(s, g) /\ Entered(s, g)
           /\ IsFile(g) => g \in Visible(s)
           /\ Append(S[Len(S)].parent, n) = RelativeName(s, g)
           /\ Ahead(g, S[Len(S)])
           /\ \A j \in 1..Len(S) : Below(g, S[j].path) /\ ~Ahead(g, R[j])
           /\ \A f \in Visible(s) : \A j \in 1..Len(S) : Ahead(f, S[j]) =>
                 \/ Ahead(f, R[j])
                 \/ f = g
                 \/ /\ g \in DOMAIN Children /\ IsDir(g)
                    /\ Below(f, g) /\ f[Len(g) + 1] \in Children[g]
<1> DEFINE N == Len(S)
           d == S[N].path
<1>1. /\ N \in Nat \ {0} /\ DOMAIN S = 1..N
      /\ \A j \in 1..N : S[j] \in Call /\ R[j].path = S[j].path
      /\ \A j \in 1..(N - 1) : R[j] = S[j]
      /\ R[N].unread = S[N].unread \ {n} /\ n \in S[N].unread
  BY TakenOffIs
<1>2. /\ d \in DOMAIN Children /\ Reached(s, d) /\ Entered(s, d) /\ IsDir(d)
      /\ S[N].parent = RelativeName(s, d) /\ n \in Children[d] \ Hidden /\ n \in S[N].unread
  BY <1>1 DEF CallsOK
<1>3. /\ g \in Seq(Names) \ {<<>>} /\ d \in Seq(Names) /\ Len(g) = Len(d) + 1
      /\ Below(g, d) /\ g[Len(d) + 1] = n /\ Last(g) = n /\ Reached(s, g)
      /\ Entered(s, g) /\ (IsFile(g) => g \in Visible(s))
      /\ RelativeName(s, g) = Append(RelativeName(s, d), n)
  BY <1>2, EntryReached
<1>4. Ahead(g, S[N])
  BY <1>2, <1>3 DEF Ahead
<1>. HIDE DEF N, d
<1>5. ASSUME NEW j \in 1..N PROVE Below(g, S[j].path) /\ ~Ahead(g, R[j])
  <2>1. CASE j = N
    BY <1>1, <1>3, <2>1 DEF Ahead, d
  <2>2. CASE j # N
    <3>0. j \in 1..(N - 1) /\ S[j] \in Call
      BY <1>1, <2>2
    <3>1. R[j] = S[j] /\ S[j].path \in Seq(Names)
      BY <1>1, <3>0 DEF Call
    <3>2. Below(d, S[j].path) /\ ~Ahead(d, S[j])
      BY <1>1, <3>0 DEF Nested, d
    <3>3. Len(S[j].path) \in Nat /\ Len(d) \in Nat
      BY <1>3, <3>1
    <3>4. Below(g, S[j].path) /\ g[Len(S[j].path) + 1] = d[Len(S[j].path) + 1]
      <4> DEFINE c == S[j].path
      <4>1. /\ Len(c) \in Nat /\ Len(d) \in Nat /\ Len(g) = Len(d) + 1
            /\ Len(c) < Len(d) /\ Len(d) < Len(g)
            /\ \A k \in 1..Len(c) : d[k] = c[k]
            /\ \A k \in 1..Len(d) : g[k] = d[k]
        BY <1>3, <3>2, <3>3 DEF Below
      <4>. HIDE DEF c
      <4>2. \A k \in 1..(Len(c) + 1) : k \in 1..Len(d)
        BY <4>1
      <4>3. Len(c) + 1 \in 1..Len(d)
        BY <4>1
      <4>. QED
        BY <4>1, <4>2, <4>3 DEF Below, c
    <3>. QED
      BY <3>1, <3>2, <3>4 DEF Ahead
  <2>. QED
    BY <2>1, <2>2 DEF N
<1>6. ASSUME NEW f \in Visible(s), NEW j \in 1..N, Ahead(f, S[j]), ~Ahead(f, R[j])
      PROVE  \/ f = g
             \/ /\ g \in DOMAIN Children /\ IsDir(g)
                /\ Below(f, g) /\ f[Len(g) + 1] \in Children[g]
  <2>1. j = N
    BY <1>1, <1>6
  <2>2. Below(f, d) /\ f[Len(d) + 1] = n
    BY <1>1, <1>6, <2>1 DEF Ahead, d
  <2>3. f \in Seq(Names) /\ Len(f) \in Nat /\ Len(d) \in Nat
    BY <1>3, VisibleIs
  <2>4. Len(g) <= Len(f) /\ \A k \in 1..Len(g) : f[k] = g[k]
    BY <1>3, <2>2, <2>3 DEF Below
  <2>5. CASE Len(f) = Len(g)
    BY <1>3, <2>3, <2>4, <2>5, SameSeq
  <2>6. CASE Len(f) # Len(g)
    <3>1. Below(f, g)
      BY <1>3, <2>3, <2>4, <2>6 DEF Below
    <3>. QED
      BY <1>3, <3>1, DirsAbove
  <2>. QED
    BY <2>5, <2>6
<1>. QED
  BY <1>2, <1>3, <1>4, <1>5, <1>6 DEF N, d

\* What was found, what is told of it if it is a file, and the call made for it if
\* it is a directory.
Found(S, n) == Entry(S[Len(S)].path, n)
FileSent(S, n) == [path |-> Found(S, n), name |-> Append(S[Len(S)].parent, n)]
DirOpened(S, n) == [path |-> Found(S, n), parent |-> Append(S[Len(S)].parent, n),
                    unread |-> Children[Found(S, n)]]

\* What was found is under nothing that was left out, and nothing tried is under it.
LEMMA FoundApart ==
    ASSUME NEW s \in Screens, NEW S, NEW n, NEW R, TakenOff(S, n, R), n \notin Hidden,
           NEW no, NEW told, WalkOK(s, no, told, S)
    PROVE  /\ \A r \in no : ~Under(Found(S, n), r)
           /\ \A i \in DOMAIN told : ~Under(told[i].path, Found(S, n))
<1> DEFINE g == Found(S, n)
           N == Len(S)
           d == S[N].path
<1>1. N \in Nat \ {0} /\ DOMAIN S = 1..N /\ S[N] \in Call /\ n \in S[N].unread
  BY TakenOffIs
<1>2. CallsOK(s, S) /\ Nested(S) /\ TriedOK(s, told, S) /\ LeftOut(no, told, S)
  BY DEF WalkOK
<1>3. g \in Seq(Names) /\ Ahead(g, S[N])
  BY <1>2, EntryRead DEF Found
<1>4. d \in Seq(Names) /\ n \in Names
  BY <1>1 DEF Call
<1>5. Len(g) = Len(d) + 1 /\ \A k \in 1..Len(d) : g[k] = d[k]
  BY <1>4, AppendIs DEF Found, Entry
<1>. HIDE DEF g, N
<1>6. ASSUME NEW r \in no, Under(g, r) PROVE FALSE
  <2>1. r \in Seq(Names) /\ ~Ahead(r, S[N]) /\ ~Under(d, r)
    BY <1>1, <1>2 DEF LeftOut
  <2>2. Below(g, r)
    BY <1>3, <1>6, <2>1, UnderIs
  <2>. HIDE DEF d
  <2>3. Under(d, r)
    BY <1>4, <1>5, <2>1, <2>2 DEF Below, Under
  <2>. QED
    BY <2>1, <2>3
<1>7. ASSUME NEW i \in DOMAIN told, Under(told[i].path, g) PROVE FALSE
  <2>1. told[i].path \in Seq(Names) /\ ~Ahead(told[i].path, S[N])
    BY <1>1, <1>2, VisibleIs DEF TriedOK
  <2>. QED
    BY <1>3, <1>4, <1>7, <2>1, AheadDown
<1>. QED
  BY <1>6, <1>7 DEF g

LEMMA FileFound ==
    ASSUME NEW s \in Screens, NEW S, NEW n, NEW R, TakenOff(S, n, R), n \notin Hidden,
           NEW no, NEW told \in Seq(Told), WalkOK(s, no, told, S), IsFile(Found(S, n)),
           NEW T, T = Append(told, FileSent(S, n))
    PROVE  /\ WalkOK(s, no, T, R)
           /\ NoneForgotten(s, no, told, S) => NoneForgotten(s, no, T, R)
<1> DEFINE g == Found(S, n)
           new == FileSent(S, n)
<1>0. CallsOK(s, S) /\ Nested(S) /\ TriedOK(s, told, S) /\ ~IsDir(g)
  BY PathsAssumption DEF WalkOK, IsFile, IsDir
<1>1. /\ Len(S) \in Nat \ {0} /\ DOMAIN S = 1..Len(S) /\ DOMAIN R = 1..Len(S)
  BY TakenOffIs
<1>2. /\ g \in Visible(s) /\ Append(S[Len(S)].parent, n) = RelativeName(s, g)
      /\ Ahead(g, S[Len(S)]) /\ \A j \in 1..Len(S) : ~Ahead(g, R[j])
      /\ \A f \in Visible(s) : \A j \in 1..Len(S) : Ahead(f, S[j]) => Ahead(f, R[j]) \/ f = g
  BY <1>0, EntryRead DEF Found
<1>3. /\ CallsOK(s, R) /\ Nested(R) /\ TriedOK(s, told, R) /\ LeftOut(no, told, R)
      /\ \A r \in no : ~Under(g, r)
  BY LessToRead, FoundApart DEF WalkOK
<1>4. new.path = g /\ new.name = RelativeName(s, g)
  BY <1>2 DEF FileSent
<1>5. T = Append(told, new)
  OBVIOUS
<1>. HIDE DEF new, g
<1>6. /\ DOMAIN told = 1..Len(told) /\ DOMAIN T = 1..(Len(told) + 1) /\ Len(told) \in Nat
      /\ T[Len(told) + 1] = new /\ \A i \in 1..Len(told) : T[i] = told[i]
  BY <1>5
<1>7. \A i \in DOMAIN T : (i \in DOMAIN told /\ T[i] = told[i]) \/ (i = Len(told) + 1 /\ T[i] = new)
  BY <1>6
<1>8. \A i \in DOMAIN told : told[i].path # g
  BY <1>0, <1>1, <1>2 DEF TriedOK
<1>9. TriedOK(s, T, R)
  <2>1. ASSUME NEW i \in DOMAIN T
        PROVE  /\ T[i].path \in Visible(s) /\ T[i].name = RelativeName(s, T[i].path)
               /\ \A j \in DOMAIN R : ~Ahead(T[i].path, R[j])
    BY <1>1, <1>2, <1>3, <1>4, <1>7 DEF TriedOK
  <2>2. ASSUME NEW i \in DOMAIN T, NEW k \in DOMAIN T, T[i].path = T[k].path PROVE i = k
    BY <1>3, <1>4, <1>7, <1>8, <2>2 DEF TriedOK
  <2>. QED
    BY <2>1, <2>2 DEF TriedOK
<1>9a. LeftOut(no, T, R)
  BY <1>3, <1>4, <1>7 DEF LeftOut
<1>10. ASSUME NoneForgotten(s, no, told, S), NEW f \in Visible(s)
       PROVE  \/ \E i \in DOMAIN T : T[i].path = f
              \/ \E j \in DOMAIN R : Ahead(f, R[j])
              \/ \E r \in no : Under(f, r)
  <2>1. \/ \E i \in DOMAIN told : told[i].path = f
        \/ \E j \in DOMAIN S : Ahead(f, S[j])
        \/ \E r \in no : Under(f, r)
    BY <1>10 DEF NoneForgotten
  <2>2. CASE \E i \in DOMAIN told : told[i].path = f
    BY <1>6, <2>2
  <2>3. CASE \E j \in DOMAIN S : Ahead(f, S[j])
    BY <1>1, <1>2, <1>4, <1>6, <2>3
  <2>. QED
    BY <2>1, <2>2, <2>3
<1>. QED
  BY <1>3, <1>9, <1>9a, <1>10 DEF WalkOK, NoneForgotten

\* What is neither a file nor a directory, and what lstat refuses.
LEMMA NothingFound ==
    ASSUME NEW s \in Screens, NEW S, NEW n, NEW R, TakenOff(S, n, R), n \notin Hidden,
           NEW no, NEW told, WalkOK(s, no, told, S),
           ~IsFile(Found(S, n)), ~IsDir(Found(S, n))
    PROVE  /\ WalkOK(s, no, told, R)
           /\ NoneForgotten(s, no, told, S) => NoneForgotten(s, no, told, R)
<1>1. DOMAIN S = 1..Len(S) /\ DOMAIN R = 1..Len(S)
  BY TakenOffIs
<1>2. \A f \in Visible(s) : \A j \in 1..Len(S) : Ahead(f, S[j]) =>
          Ahead(f, R[j]) \/ f = Found(S, n)
  BY EntryRead DEF Found, WalkOK
<1>3. Found(S, n) \notin Visible(s)
  BY VisibleIs
<1>4. NoneForgotten(s, no, told, S) => NoneForgotten(s, no, told, R)
  BY <1>1, <1>2, <1>3 DEF NoneForgotten
<1>. QED
  BY <1>4, LessToRead

LEMMA RefusedFound ==
    ASSUME NEW s \in Screens, NEW S, NEW n, NEW R, TakenOff(S, n, R), n \notin Hidden,
           NEW no, NEW told, WalkOK(s, no, told, S), NEW out, out = no \cup {Found(S, n)}
    PROVE  /\ WalkOK(s, out, told, R)
           /\ NoneForgotten(s, no, told, S) => NoneForgotten(s, out, told, R)
<1> DEFINE g == Found(S, n)
<1>1. /\ DOMAIN S = 1..Len(S) /\ DOMAIN R = 1..Len(S)
      /\ \A j \in 1..Len(S) : R[j].path = S[j].path /\ S[j] \in Call
  BY TakenOffIs
<1>2. /\ g \in Seq(Names) /\ \A j \in 1..Len(S) : Below(g, S[j].path) /\ ~Ahead(g, R[j])
      /\ \A f \in Visible(s) : \A j \in 1..Len(S) : Ahead(f, S[j]) =>
            Ahead(f, R[j]) \/ f = g \/ Below(f, g)
  BY EntryRead DEF Found, WalkOK
<1>3. WalkOK(s, no, told, R) /\ \A i \in DOMAIN told : ~Under(told[i].path, g)
  BY LessToRead, FoundApart
<1>. HIDE DEF g
<1>4. \A j \in 1..Len(S) : ~Under(R[j].path, g)
  <2>1. ASSUME NEW j \in 1..Len(S) PROVE ~Under(R[j].path, g)
    <3>1. S[j].path \in Seq(Names) /\ R[j].path = S[j].path /\ Below(g, S[j].path)
      BY <1>1, <1>2 DEF Call
    <3>. QED
      BY <1>2, <3>1 DEF Below, Under
  <2>. QED
    BY <2>1
<1>5. LeftOut(out, told, R)
  <2>1. LeftOut(no, told, R)
    BY <1>3 DEF WalkOK
  <2>2. out = no \cup {g}
    BY DEF g
  <2>. QED
    BY <1>1, <1>2, <1>3, <1>4, <2>1, <2>2 DEF LeftOut
<1>6. ASSUME NoneForgotten(s, no, told, S), NEW f \in Visible(s)
      PROVE  \/ \E i \in DOMAIN told : told[i].path = f
             \/ \E j \in DOMAIN R : Ahead(f, R[j])
             \/ \E r \in out : Under(f, r)
  <2>1. f \in Seq(Names)
    BY VisibleIs
  <2>2. \/ \E i \in DOMAIN told : told[i].path = f
        \/ \E j \in 1..Len(S) : Ahead(f, S[j])
        \/ \E r \in no : Under(f, r)
    BY <1>1, <1>6 DEF NoneForgotten
  <2>3. (f = g \/ Below(f, g)) => Under(f, g)
    BY <1>2, <2>1, UnderIs
  <2>. QED
    BY <1>1, <1>2, <2>2, <2>3 DEF g
<1>. QED
  BY <1>3, <1>5, <1>6 DEF WalkOK, NoneForgotten

LEMMA DirFound ==
    ASSUME NEW s \in Screens, NEW S, NEW n, NEW R, TakenOff(S, n, R), n \notin Hidden,
           NEW no, NEW told, WalkOK(s, no, told, S),
           IsDir(Found(S, n)), Found(S, n) \in DOMAIN Children,
           NEW Q, Q = Append(R, DirOpened(S, n))
    PROVE  /\ WalkOK(s, no, told, Q)
           /\ NoneForgotten(s, no, told, S) => NoneForgotten(s, no, told, Q)
<1> DEFINE g == Found(S, n)
           new == DirOpened(S, n)
           N == Len(S)
<1>1. /\ N \in Nat \ {0} /\ R \in Seq(Call) /\ Len(R) = N
      /\ DOMAIN S = 1..N /\ DOMAIN R = 1..N /\ \A j \in 1..N : R[j].path = S[j].path
  BY TakenOffIs
<1>2. /\ g \in Seq(Names) /\ Reached(s, g) /\ Entered(s, g)
      /\ Append(S[N].parent, n) = RelativeName(s, g)
      /\ Ahead(g, S[N]) /\ \A j \in 1..N : Below(g, S[j].path) /\ ~Ahead(g, R[j])
      /\ \A f \in Visible(s) : \A j \in 1..N : Ahead(f, S[j]) =>
            Ahead(f, R[j]) \/ f = g \/ (Below(f, g) /\ f[Len(g) + 1] \in Children[g])
  BY EntryRead DEF Found, WalkOK
<1>3. /\ CallsOK(s, R) /\ Nested(R) /\ TriedOK(s, told, R) /\ LeftOut(no, told, R)
      /\ \A r \in no : ~Under(g, r)
  BY LessToRead, FoundApart DEF WalkOK
<1>4. new.path = g /\ new.parent = RelativeName(s, g) /\ new.unread = Children[g]
  BY <1>2 DEF DirOpened
<1>5. Q = Append(R, new) /\ IsDir(g) /\ g \in DOMAIN Children
  OBVIOUS
<1>. HIDE DEF new, g
<1>6. DOMAIN Q = 1..(N + 1) /\ Q[N + 1] = new /\ \A j \in 1..N : Q[j] = R[j]
  BY <1>1, <1>5
<1>7. g \notin Visible(s)
  BY <1>5, VisibleIs
<1>8. CallsOK(s, Q)
  <2>1. ASSUME NEW j \in 1..(N + 1)
        PROVE  /\ Q[j].path \in DOMAIN Children /\ Reached(s, Q[j].path)
               /\ Entered(s, Q[j].path) /\ IsDir(Q[j].path)
               /\ Q[j].parent = RelativeName(s, Q[j].path)
               /\ Q[j].unread \subseteq Children[Q[j].path]
    <3>1. CASE j = N + 1
      BY <1>2, <1>4, <1>5, <1>6, <3>1
    <3>2. CASE j # N + 1
      <4>1. j \in 1..N
        BY <1>1, <3>2
      <4>. QED
        BY <1>1, <1>3, <1>6, <4>1 DEF CallsOK
    <3>. QED
      BY <3>1, <3>2
  <2>. QED
    BY <1>6, <2>1 DEF CallsOK
<1>9. Nested(Q)
  <2>1. ASSUME NEW i \in 1..(N + 1), NEW j \in 1..(N + 1), i < j
        PROVE  Below(Q[j].path, Q[i].path) /\ ~Ahead(Q[j].path, Q[i])
    <3>1. i \in 1..N
      BY <1>1, <2>1
    <3>2. CASE j = N + 1
      BY <1>1, <1>2, <1>4, <1>6, <3>1, <3>2
    <3>3. CASE j # N + 1
      <4>1. j \in 1..N
        BY <1>1, <3>3
      <4>. QED
        BY <1>1, <1>3, <1>6, <2>1, <3>1, <4>1 DEF Nested
    <3>. QED
      BY <3>2, <3>3
  <2>. QED
    BY <1>6, <2>1 DEF Nested
<1>10. TriedOK(s, told, Q)
  <2>1. ASSUME NEW i \in DOMAIN told, NEW j \in 1..(N + 1) PROVE ~Ahead(told[i].path, Q[j])
    <3> DEFINE f == told[i].path
    <3>1. CASE j = N + 1
      <4>1. SUFFICES ASSUME Below(f, g) PROVE Ahead(f, S[N])
        BY <1>1, <1>4, <1>6, <3>1, TakenOffIs DEF Ahead, TriedOK, WalkOK
      <4>2. f \in Seq(Names) /\ S[N].path \in Seq(Names)
        <5>1. f \in Visible(s)
          BY <1>1 DEF TriedOK, WalkOK
        <5>2. S[N] \in Call
          BY <1>1, TakenOffIs
        <5>. QED
          BY <5>1, <5>2, VisibleIs DEF Call
      <4>. QED
        BY <1>2, <4>1, <4>2, AheadDown, UnderIs
    <3>2. CASE j # N + 1
      <4>1. j \in 1..N
        BY <1>1, <3>2
      <4>. QED
        BY <1>1, <1>3, <1>6, <4>1 DEF TriedOK
    <3>. QED
      BY <3>1, <3>2
  <2>. QED
    BY <1>3, <1>6, <2>1 DEF TriedOK
<1>10a. LeftOut(no, told, Q)
  <2> SUFFICES ASSUME NEW r \in no, NEW j \in 1..(N + 1)
               PROVE  ~Ahead(r, Q[j]) /\ ~Under(Q[j].path, r)
    BY <1>3, <1>6 DEF LeftOut
  <2>1. CASE j = N + 1
    <3>1. r \in Seq(Names) /\ ~Ahead(r, S[N]) /\ S[N].path \in Seq(Names)
      <4>1. S[N] \in Call /\ N \in 1..Len(S)
        BY <1>1, TakenOffIs
      <4>2. r \in Seq(Names) /\ ~Ahead(r, S[N])
        BY <1>1, <4>1 DEF LeftOut, WalkOK
      <4>. QED
        BY <4>1, <4>2 DEF Call
    <3>2. ~Below(r, g)
      BY <1>2, <3>1, AheadDown, UnderIs
    <3>. QED
      BY <1>3, <1>4, <1>6, <2>1, <3>2 DEF Ahead
  <2>2. CASE j # N + 1
    <3>1. j \in 1..N
      BY <1>1, <2>2
    <3>. QED
      BY <1>1, <1>3, <1>6, <3>1 DEF LeftOut
  <2>. QED
    BY <2>1, <2>2
<1>11. ASSUME NoneForgotten(s, no, told, S), NEW f \in Visible(s)
       PROVE  \/ \E i \in DOMAIN told : told[i].path = f
              \/ \E j \in DOMAIN Q : Ahead(f, Q[j])
              \/ \E r \in no : Under(f, r)
  <2>1. \/ \E i \in DOMAIN told : told[i].path = f
        \/ \E j \in DOMAIN S : Ahead(f, S[j])
        \/ \E r \in no : Under(f, r)
    BY <1>11 DEF NoneForgotten
  <2>2. ASSUME NEW j \in 1..N, Ahead(f, S[j]) PROVE \E k \in DOMAIN Q : Ahead(f, Q[k])
    <3>1. Ahead(f, R[j]) \/ (Below(f, g) /\ f[Len(g) + 1] \in Children[g])
      BY <1>2, <1>7, <2>2
    <3>2. CASE Ahead(f, R[j])
      <4>1. Ahead(f, Q[j]) /\ j \in 1..(N + 1)
        BY <1>1, <1>6, <3>2
      <4>. QED
        BY <1>6, <4>1
    <3>3. CASE Below(f, g) /\ f[Len(g) + 1] \in Children[g]
      <4>1. Ahead(f, Q[N + 1]) /\ N + 1 \in 1..(N + 1)
        BY <1>1, <1>4, <1>6, <3>3 DEF Ahead
      <4>. QED
        BY <1>6, <4>1
    <3>. QED
      BY <3>1, <3>2, <3>3
  <2>. QED
    BY <1>1, <2>1, <2>2
<1>. QED
  BY <1>8, <1>9, <1>10, <1>10a, <1>11 DEF WalkOK, NoneForgotten

LEMMA DirClosed ==
    ASSUME NEW s \in Screens, NEW S \in Seq(Call) \ {<<>>}, S[Len(S)].unread \subseteq Hidden,
           NEW no, NEW told, WalkOK(s, no, told, S)
    PROVE  /\ WalkOK(s, no, told, Front(S))
           /\ NoneForgotten(s, no, told, S) => NoneForgotten(s, no, told, Front(S))
<1> DEFINE N == Len(S)
           R == Front(S)
<1>1. /\ N \in Nat \ {0} /\ DOMAIN S = 1..N /\ DOMAIN R = 1..(N - 1)
      /\ \A j \in 1..(N - 1) : R[j] = S[j] /\ j \in 1..N
      /\ \A j \in 1..N : j \in 1..(N - 1) \/ j = N
      /\ S[N] \in Call
  BY DEF Front
<1>. HIDE DEF R, N
<1>2. CallsOK(s, R) /\ Nested(R)
  BY <1>1 DEF WalkOK, CallsOK, Nested
<1>3. TriedOK(s, told, R) /\ LeftOut(no, told, R)
  BY <1>1 DEF WalkOK, TriedOK, LeftOut
<1>4. ASSUME NEW f \in Visible(s) PROVE ~Ahead(f, S[N])
  <2>1. SUFFICES ASSUME Ahead(f, S[N]) PROVE FALSE
    OBVIOUS
  <2>2. Below(f, S[N].path) /\ f[Len(S[N].path) + 1] \in Hidden
    BY <2>1 DEF Ahead, N
  <2>3. Reached(s, f) /\ f \in Seq(Names) /\ Reached(s, S[N].path) /\ S[N].path \in Seq(Names)
    <3>1. S[N].path \in Seq(Names)
      BY <1>1 DEF Call
    <3>2. Reached(s, S[N].path)
      BY <1>1 DEF WalkOK, CallsOK
    <3>. QED
      BY <3>1, <3>2, VisibleIs
  <2>4. Len(S[N].path) + 1 \in (Len(Root[s]) + 1)..Len(f)
    BY <2>2, <2>3, RootPath DEF Below, Reached, Under
  <2>. QED
    BY <2>2, <2>3, <2>4 DEF Reached
<1>5. NoneForgotten(s, no, told, S) => NoneForgotten(s, no, told, R)
  BY <1>1, <1>4 DEF NoneForgotten
<1>. QED
  BY <1>2, <1>3, <1>5 DEF R, WalkOK

LEMMA RootName ==
    ASSUME NEW s \in Screens
    PROVE  RelativeName(s, Root[s]) = Append(<<>>, Last(Root[s]))
<1> DEFINE r == Root[s]
           m == Len(r)
<1>1. r \in Seq(Names) /\ m \in Nat \ {0} /\ r[m] \in Names
  BY RootPath
<1>. HIDE DEF r, m
<1>2. SubSeq(r, m, m) = [i \in 1..1 |-> r[m]]
  BY <1>1
<1>3. SubSeq(r, m, m) \in Seq(Names) /\ Len(SubSeq(r, m, m)) = 1 /\ SubSeq(r, m, m)[1] = r[m]
  BY <1>1, <1>2
<1>4. <<r[m]>> \in Seq(Names) /\ Len(<<r[m]>>) = 1 /\ <<r[m]>>[1] = r[m]
      /\ Append(<<>>, r[m]) = <<r[m]>>
  BY <1>1
<1>5. SubSeq(r, m, m) = <<r[m]>>
  <2>1. \A k \in 1..1 : k = 1
    OBVIOUS
  <2>. QED
    BY <1>2, <1>3, <1>4, <2>1, SameSeq
<1>. QED
  BY <1>4, <1>5 DEF RelativeName, Last, r, m

\* A visible file is the root itself, or the root is a directory that leads to it.
LEMMA UnderRoot ==
    ASSUME NEW s \in Screens, NEW f \in Visible(s), f # Root[s]
    PROVE  /\ IsDir(Root[s]) /\ Root[s] \in DOMAIN Children
           /\ Below(f, Root[s]) /\ f[Len(Root[s]) + 1] \in Children[Root[s]]
<1>1. f \in Seq(Names) /\ Reached(s, f)
  BY VisibleIs
<1>2. Root[s] \in Seq(Names) /\ Reached(s, Root[s])
  BY RootPath
<1>3. Below(f, Root[s])
  BY <1>1, <1>2, UnderIs DEF Reached
<1>. QED
  BY <1>2, <1>3, DirsAbove

LEMMA RootEntered ==
    ASSUME NEW s \in Screens
    PROVE  Entered(s, Root[s])
<1> SUFFICES ASSUME NEW d \in DOMAIN Children, Len(Root[s]) <= Len(d), Below(Root[s], d)
             PROVE  FALSE
  BY DEF Entered
<1>1. Len(d) \in Nat /\ Len(Root[s]) \in Nat
  BY PathsAssumption, RootPath
<1>. QED
  BY <1>1 DEF Below

\* With no call there is nothing to say but of what was tried and what was left out.
LEMMA NoCalls ==
    ASSUME NEW s, NEW no, NEW told, NEW calls, WalkOK(s, no, told, calls)
    PROVE  WalkOK(s, no, told, <<>>)
  BY DEF WalkOK, CallsOK, Nested, TriedOK, LeftOut

LEMMA NothingYet ==
    ASSUME NEW s
    PROVE  WalkOK(s, {}, <<>>, <<>>)
  BY DEF WalkOK, CallsOK, Nested, TriedOK, LeftOut

LEMMA RootFile ==
    ASSUME NEW s \in Screens, IsFile(Root[s]), NEW T,
           T = Append(<<>>, [path |-> Root[s], name |-> Append(<<>>, Last(Root[s]))])
    PROVE  WalkOK(s, {}, T, <<>>) /\ NoneForgotten(s, {}, T, <<>>)
<1>1. ~IsDir(Root[s])
  BY PathsAssumption DEF IsFile, IsDir
<1>2. Root[s] \in Visible(s)
  BY <1>1, RootPath, RootEntered, VisibleIs
<1>3. \A f \in Visible(s) : f = Root[s]
  BY <1>1, UnderRoot
<1>4. DOMAIN T = {1} /\ T[1].path = Root[s] /\ T[1].name = RelativeName(s, Root[s])
  BY RootName
<1>5. TriedOK(s, T, <<>>) /\ LeftOut({}, T, <<>>)
  BY <1>2, <1>4 DEF TriedOK, LeftOut
<1>. QED
  BY <1>2, <1>3, <1>4, <1>5, NothingYet DEF WalkOK, NoneForgotten

LEMMA RootDir ==
    ASSUME NEW s \in Screens, IsDir(Root[s]), Root[s] \in DOMAIN Children, NEW Q,
           Q = Append(<<>>, [path |-> Root[s], parent |-> Append(<<>>, Last(Root[s])),
                             unread |-> Children[Root[s]]])
    PROVE  WalkOK(s, {}, <<>>, Q) /\ NoneForgotten(s, {}, <<>>, Q)
<1>1. /\ DOMAIN Q = {1} /\ Q[1].path = Root[s] /\ Q[1].parent = RelativeName(s, Root[s])
      /\ Q[1].unread = Children[Root[s]]
  BY RootName
<1>2. CallsOK(s, Q)
  BY <1>1, RootPath, RootEntered DEF CallsOK
<1>3. Nested(Q)
  BY <1>1 DEF Nested
<1>4. TriedOK(s, <<>>, Q) /\ LeftOut({}, <<>>, Q)
  BY DEF TriedOK, LeftOut
<1>5. ASSUME NEW f \in Visible(s) PROVE Ahead(f, Q[1])
  <2>1. f # Root[s]
    BY VisibleIs
  <2>. QED
    BY <1>1, <2>1, UnderRoot DEF Ahead
<1>6. NoneForgotten(s, {}, <<>>, Q)
  BY <1>1, <1>5 DEF NoneForgotten
<1>. QED
  BY <1>2, <1>3, <1>4, <1>6 DEF WalkOK

LEMMA RootNothing ==
    ASSUME NEW s \in Screens, ~IsFile(Root[s]), ~IsDir(Root[s])
    PROVE  NoneForgotten(s, {}, <<>>, <<>>)
  BY UnderRoot, VisibleIs DEF NoneForgotten

LEMMA RootRefused ==
    ASSUME NEW s \in Screens
    PROVE  WalkOK(s, {Root[s]}, <<>>, <<>>) /\ NoneForgotten(s, {Root[s]}, <<>>, <<>>)
<1>1. LeftOut({Root[s]}, <<>>, <<>>)
  BY RootPath DEF LeftOut
<1>2. \A f \in Visible(s) : Under(f, Root[s])
  BY VisibleIs DEF Reached
<1>. QED
  BY <1>1, <1>2, NothingYet DEF WalkOK, NoneForgotten

-----------------------------------------------------------------------------
(* The walk reaches everything, once.                                       *)

Unstarted == {"idle", "swap", "keep", "log", "newlog", "visit"}
Walking == {"walk", "file", "join"}
Over == {"drop", "forget", "ended"}

\* Steps of the call that are not those of enum_dir.
LEMMA QuietStep ==
    ASSUME TypeOK, NEW s \in Screens,
           \/ Start(s) \/ DropOld(s) \/ KeepNew(s) \/ DropLogger(s) \/ NewLogger(s)
           \/ SendFails(s) \/ Join(s) \/ Return(s) \/ DropRef(s) \/ ForgetRef(s)
           \/ Negotiate(s) \/ \E p \in Pieces : PieceStepOf(s, p)
    PROVE  /\ UNCHANGED walk
           /\ \/ pc'[s] = pc[s]
              \/ pc[s] \in Unstarted /\ pc'[s] \in Unstarted
              \/ pc[s] \in Walking /\ pc'[s] \in Walking
              \/ pc[s] \in Walking \cup Over /\ pc'[s] \in Over /\ (pc[s] \in Walking => stack[s] = <<>>)
<1>1. CASE \/ Start(s) \/ DropOld(s) \/ KeepNew(s) \/ DropLogger(s) \/ NewLogger(s)
           \/ SendFails(s) \/ Join(s) \/ Return(s) \/ DropRef(s) \/ ForgetRef(s)
           \/ Negotiate(s)
  <2>1. UNCHANGED walk
    BY <1>1 DEF Start, DropOld, KeepNew, DropLogger, NewLogger, SendFails, Join, Return,
         DropRef,
       ForgetRef, Negotiate
  <2>. QED
    BY <1>1, <2>1 DEF TypeOK, Start, DropOld, KeepNew, DropLogger, NewLogger, SendFails,
         Join,
       FileOver, Return, DropRef, ForgetRef, Negotiate, At, Goto, Unstarted, Walking, Over
<1>2. CASE \E p \in Pieces : PieceStepOf(s, p)
  <2>1. PICK p \in Pieces : PieceStepOf(s, p)
    BY <1>2
  <2>2. UNCHANGED <<pc, walk>>
    BY <2>1, PieceAlone
  <2>. QED
    BY <2>2
<1>. QED
  BY <1>1, <1>2

LEMMA RootWalked ==
    ASSUME TypeOK, NEW s \in Screens, WalkedAt(s), VisitRoot(s)
    PROVE  WalkedAt(s)'
<1>1. pc[s] = "visit" /\ stack[s] = <<>> /\ tried[s] = <<>> /\ refused[s] = {}
  BY DEF VisitRoot, At, WalkedAt
<1>2. Visit(s, Root[s], <<>>, <<>>)
  BY DEF VisitRoot
<1>3. stack \in [Screens -> Seq(Call)] /\ tried \in [Screens -> Seq(Told)] /\ DOMAIN pc = Screens
      /\ gaveUp \in [Screens -> BOOLEAN] /\ refused \in [Screens -> SUBSET Seq(Names)]
  BY DEF TypeOK
<1> DEFINE T == Append(<<>>, [path |-> Root[s], name |-> Append(<<>>, Last(Root[s]))])
           Q == Append(<<>>, [path |-> Root[s], parent |-> Append(<<>>, Last(Root[s])),
                              unread |-> Children[Root[s]]])
<1>4. \/ /\ IsFile(Root[s])
         /\ stack'[s] = <<>> /\ tried'[s] = T /\ refused'[s] = {} /\ pc'[s] = "file"
      \/ /\ IsDir(Root[s]) /\ Root[s] \in DOMAIN Children
         /\ stack'[s] = Q /\ tried'[s] = <<>> /\ refused'[s] = {} /\ pc'[s] = "walk"
      \/ /\ stack'[s] = <<>> /\ tried'[s] = <<>> /\ refused'[s] = {} /\ pc'[s] = "walk"
         /\ gaveUp'[s]
      \/ /\ ~IsFile(Root[s]) /\ ~IsDir(Root[s])
         /\ stack'[s] = <<>> /\ tried'[s] = <<>> /\ refused'[s] = {} /\ pc'[s] = "walk"
      \/ stack'[s] = <<>> /\ tried'[s] = <<>> /\ refused'[s] = {Root[s]} /\ pc'[s] = "walk"
  BY <1>1, <1>2, <1>3 DEF Visit, SubParent, Goto
<1>5. IsFile(Root[s]) => WalkOK(s, {}, T, <<>>) /\ NoneForgotten(s, {}, T, <<>>)
  BY RootFile
<1>6. IsDir(Root[s]) /\ Root[s] \in DOMAIN Children =>
          WalkOK(s, {}, <<>>, Q) /\ NoneForgotten(s, {}, <<>>, Q)
  BY RootDir
<1>7. ~IsFile(Root[s]) /\ ~IsDir(Root[s]) => NoneForgotten(s, {}, <<>>, <<>>)
  BY RootNothing
<1>8. WalkOK(s, {Root[s]}, <<>>, <<>>) /\ NoneForgotten(s, {Root[s]}, <<>>, <<>>)
  BY RootRefused
<1>. HIDE DEF T, Q
<1>. QED
  BY <1>4, <1>5, <1>6, <1>7, <1>8, NothingYet DEF WalkedAt

LEMMA EntryWalked ==
    ASSUME TypeOK, NEW s \in Screens, WalkedAt(s), NextEntry(s)
    PROVE  WalkedAt(s)'
<1> DEFINE S == stack[s]
           N == Len(S)
           told == tried[s]
           no == refused[s]
<1>1. pc[s] = "walk" /\ S # <<>>
  BY DEF NextEntry, At
<1>2. /\ stack \in [Screens -> Seq(Call)] /\ tried \in [Screens -> Seq(Told)]
      /\ DOMAIN pc = Screens /\ gaveUp \in [Screens -> BOOLEAN] /\ S \in Seq(Call)
      /\ told \in Seq(Told) /\ refused \in [Screens -> SUBSET Seq(Names)]
  BY DEF TypeOK
<1>3. WalkOK(s, no, told, S) /\ (~gaveUp[s] => NoneForgotten(s, no, told, S))
  BY <1>1 DEF WalkedAt
<1>4. PICK n \in Last(S).unread \ Hidden :
        Visit(s, Entry(Last(S).path, n), Last(S).parent,
              Append(Front(S), [Last(S) EXCEPT !.unread = @ \ {n}]))
  BY DEF NextEntry
<1> DEFINE R == Append(Front(S), [S[N] EXCEPT !.unread = @ \ {n}])
           g == Found(S, n)
           T == Append(told, FileSent(S, n))
           Q == Append(R, DirOpened(S, n))
<1>5. Last(S) = S[N]
  BY DEF Last
<1>6. TakenOff(S, n, R) /\ n \notin Hidden /\ Visit(s, g, S[N].parent, R)
  BY <1>1, <1>2, <1>4, <1>5 DEF TakenOff, Found
<1>. HIDE DEF R
<1>7. Last(g) = n
  BY <1>3, <1>6, EntryRead DEF Found, WalkOK
<1>8. \/ /\ IsFile(g) /\ stack'[s] = R /\ tried'[s] = T /\ refused'[s] = no
         /\ pc'[s] = "file" /\ gaveUp'[s] = gaveUp[s]
      \/ /\ IsDir(g) /\ g \in DOMAIN Children
         /\ stack'[s] = Q /\ tried'[s] = told /\ refused'[s] = no
         /\ pc'[s] = "walk" /\ gaveUp'[s] = gaveUp[s]
      \/ /\ stack'[s] = <<>> /\ tried'[s] = told /\ refused'[s] = no
         /\ pc'[s] = "walk" /\ gaveUp'[s]
      \/ /\ ~IsFile(g) /\ ~IsDir(g)
         /\ stack'[s] = R /\ tried'[s] = told /\ refused'[s] = no
         /\ pc'[s] = "walk" /\ gaveUp'[s] = gaveUp[s]
      \/ /\ stack'[s] = R /\ tried'[s] = told /\ refused'[s] = no \cup {g}
         /\ pc'[s] = "walk" /\ gaveUp'[s] = gaveUp[s]
  BY <1>2, <1>6, <1>7 DEF Visit, Goto, SubParent, FileSent, DirOpened
<1>9. IsFile(g) => /\ WalkOK(s, no, T, R)
                   /\ NoneForgotten(s, no, told, S) => NoneForgotten(s, no, T, R)
  <2>1. told \in Seq(Told)
    BY DEF TypeOK
  <2>. HIDE DEF S, told
  <2>. QED
    BY <1>2, <1>3, <1>6, <2>1, FileFound
<1>10. IsDir(g) /\ g \in DOMAIN Children =>
          /\ WalkOK(s, no, told, Q)
          /\ NoneForgotten(s, no, told, S) => NoneForgotten(s, no, told, Q)
  <2>. HIDE DEF S
  <2>. QED
    BY <1>3, <1>6, DirFound
<1>11. ~IsFile(g) /\ ~IsDir(g) =>
          /\ WalkOK(s, no, told, R)
          /\ NoneForgotten(s, no, told, S) => NoneForgotten(s, no, told, R)
  <2>. HIDE DEF S
  <2>. QED
    BY <1>3, <1>6, NothingFound
<1>12. /\ WalkOK(s, no \cup {g}, told, R)
       /\ NoneForgotten(s, no, told, S) => NoneForgotten(s, no \cup {g}, told, R)
  <2>. HIDE DEF S
  <2>. QED
    BY <1>3, <1>6, RefusedFound
<1>13. WalkOK(s, no, told, <<>>)
  BY <1>3, NoCalls
<1>. HIDE DEF S, T, Q, told, no, g
<1>. QED
  BY <1>3, <1>8, <1>9, <1>10, <1>11, <1>12, <1>13 DEF WalkedAt

LEMMA WalkedStep == TypeOK /\ Walked /\ [Next]_vars => Walked'
<1> SUFFICES ASSUME TypeOK, Walked, [Next]_vars, NEW u \in Screens
             PROVE  WalkedAt(u)'
  BY DEF Walked
<1>1. WalkedAt(u)
  BY DEF Walked
<1>2. CASE UNCHANGED <<pc, walk>>
  BY <1>1, <1>2 DEF walk, WalkedAt
<1>3. ASSUME NEW s \in Screens, StepOf(s), u # s PROVE WalkedAt(u)'
  <2>1. /\ pc'[u] = pc[u] /\ stack'[u] = stack[u] /\ tried'[u] = tried[u]
        /\ gaveUp'[u] = gaveUp[u] /\ refused'[u] = refused[u]
    BY <1>3, Others
  <2>. QED
    BY <1>1, <2>1 DEF WalkedAt
<1>4. CASE VisitRoot(u)
  BY <1>1, <1>4, RootWalked
<1>5. CASE NextEntry(u)
  BY <1>1, <1>5, EntryWalked
<1>6. CASE CloseDir(u)
  <2> DEFINE S == stack[u]
             told == tried[u]
             no == refused[u]
  <2>1. /\ pc[u] = "walk" /\ S # <<>> /\ Last(S).unread \subseteq Hidden
        /\ UNCHANGED <<pc, tried, gaveUp, refused>> /\ stack \in [Screens -> Seq(Call)]
        /\ stack' = [stack EXCEPT ![u] = Front(@)]
    BY <1>6 DEF CloseDir, At, TypeOK
  <2>2. S \in Seq(Call) \ {<<>>} /\ S[Len(S)].unread \subseteq Hidden /\ stack'[u] = Front(S)
    BY <2>1 DEF Last
  <2>3. WalkOK(u, no, told, S) /\ (~gaveUp[u] => NoneForgotten(u, no, told, S))
    BY <1>1, <2>1 DEF WalkedAt
  <2>4. /\ WalkOK(u, no, told, Front(S))
        /\ NoneForgotten(u, no, told, S) => NoneForgotten(u, no, told, Front(S))
    BY <2>2, <2>3, DirClosed
  <2>5. pc'[u] = "walk" /\ tried'[u] = told /\ gaveUp'[u] = gaveUp[u] /\ refused'[u] = no
    BY <2>1
  <2>. HIDE DEF S, told, no
  <2>. QED
    BY <2>2, <2>3, <2>4, <2>5 DEF WalkedAt
<1>7. CASE \/ Start(u) \/ DropOld(u) \/ KeepNew(u) \/ DropLogger(u) \/ NewLogger(u)
           \/ SendFails(u) \/ Join(u) \/ Return(u) \/ DropRef(u) \/ ForgetRef(u)
           \/ Negotiate(u) \/ \E p \in Pieces : PieceStepOf(u, p)
  <2>1. /\ stack'[u] = stack[u] /\ tried'[u] = tried[u] /\ gaveUp'[u] = gaveUp[u]
        /\ refused'[u] = refused[u]
    BY <1>7, QuietStep DEF walk
  <2>2. \/ pc'[u] = pc[u]
        \/ pc[u] \in Unstarted /\ pc'[u] \in Unstarted
        \/ pc[u] \in Walking /\ pc'[u] \in Walking
        \/ pc[u] \in Walking \cup Over /\ pc'[u] \in Over /\ (pc[u] \in Walking => stack[u] = <<>>)
    BY <1>7, QuietStep
  <2>3. /\ pc'[u] \notin {"walk", "file", "join"} => stack[u] = <<>>
        /\ pc'[u] \in {"idle", "swap", "keep", "log", "newlog", "visit"} =>
              tried[u] = <<>> /\ refused[u] = {}
        /\ ~gaveUp[u] /\ pc'[u] \in {"walk", "file", "join", "drop", "forget", "ended"} =>
              NoneForgotten(u, refused[u], tried[u], stack[u])
    BY <1>1, <2>2 DEF WalkedAt, Unstarted, Walking, Over
  <2>. QED
    BY <1>1, <2>1, <2>3 DEF WalkedAt
<1>8. ASSUME StepOf(u) PROVE WalkedAt(u)'
  BY <1>8, <1>4, <1>5, <1>6, <1>7 DEF StepOf, CallStep, Network, PieceStepOf
<1>. QED
  BY <1>2, <1>3, <1>8, SendOrNot

LEMMA WalkedInit == Init => Walked
<1> SUFFICES ASSUME Init, NEW s \in Screens PROVE WalkedAt(s)
  BY DEF Walked
<1>1. pc[s] = "idle" /\ stack[s] = <<>> /\ tried[s] = <<>> /\ refused[s] = {}
  BY DEF Init, ByScreen
<1>. QED
  BY <1>1, NothingYet DEF WalkedAt

\* When sendFile returns, every file under the root that is not hidden and not in a
\* hidden directory has been tried, once, and under its path from the parent of the
\* root on, as far as dir_file_exist takes it and what is above it for what they are,
\* lstat has refused neither, and every directory could be opened (enum_dir).
THEOREM EachOnce == Spec => []EachTriedOnce
<1>1. TypeOK /\ Walked => EachTriedOnce
  <2> SUFFICES ASSUME TypeOK, Walked, NEW s \in Screens
               PROVE  LET told == DOMAIN tried[s]
                      IN /\ \A i, k \in told : tried[s][i].path = tried[s][k].path => i = k
                         /\ \A i \in told : tried[s][i].name
                               = SubSeq(tried[s][i].path, Len(Root[s]), Len(tried[s][i].path))
                         /\ (pc[s] \in {"drop", "forget", "ended"} /\ ~gaveUp[s])
                               => {tried[s][i].path : i \in told}
                                    = {f \in Visible(s) : ~Refused(s, f)}
    BY DEF EachTriedOnce
  <2>1. TriedOK(s, tried[s], stack[s]) /\ LeftOut(refused[s], tried[s], stack[s])
    BY DEF Walked, WalkedAt, WalkOK
  <2>2. ASSUME NEW f \in Visible(s) PROVE Refused(s, f) <=> \E r \in refused[s] : Under(f, r)
    BY <2>1, PrefixIs, VisibleIs DEF Refused, LeftOut
  <2>3. ASSUME pc[s] \in {"drop", "forget", "ended"}, ~gaveUp[s]
        PROVE  {tried[s][i].path : i \in DOMAIN tried[s]} = {f \in Visible(s) : ~Refused(s, f)}
    <3>1. stack[s] = <<>> /\ NoneForgotten(s, refused[s], tried[s], stack[s])
      BY <2>3 DEF Walked, WalkedAt
    <3>2. \A i \in DOMAIN tried[s] :
              tried[s][i].path \in Visible(s) /\ ~Refused(s, tried[s][i].path)
      BY <2>1, <2>2 DEF TriedOK, LeftOut
    <3>3. \A f \in Visible(s) : ~Refused(s, f) => \E i \in DOMAIN tried[s] : tried[s][i].path = f
      BY <2>2, <3>1 DEF NoneForgotten
    <3>. QED
      BY <3>2, <3>3
  <2>. QED
    BY <2>1, <2>3 DEF TriedOK, RelativeName
<1>. QED
  BY <1>1, FileInit, TypeStep, ConfinedStep, WalkedInit, WalkedStep, PTL DEF Spec

=============================================================================

---------------------------- MODULE SaveLogProofs ----------------------------
(***************************************************************************)
(* What SaveLog promises for every number of processes, every game engine  *)
(* and every bound: the recovery protocol, what the processes have of the  *)
(* file, and the game in it, which can always be replayed, ends at most    *)
(* once, and implements the shared game of module SharedGame.              *)
(***************************************************************************)
EXTENDS SaveLog, SequenceTheorems, FiniteSetTheorems, TLAPS

-----------------------------------------------------------------------------
\* TypeOK, taken apart: the file, the processes and the rest of the world.

FileType ==
  /\ lines \in Seq(Event) /\ Len(lines) >= 1
  /\ saved \in Seq(Content) /\ Len(saved) = Len(lines)
  /\ partial \in BOOLEAN /\ status \in {"save", "done"} /\ count \in Nat

LocalType ==
  /\ pc \in [Procs -> PCs] /\ mode \in [Procs -> Modes]
  /\ view \in [Procs -> View] /\ ask \in [Procs -> Event]
  /\ off \in [Procs -> Nat]

WorldType ==
  /\ writer \in Procs \cup {Nobody}
  /\ listed \in BOOLEAN /\ ended \in Nat /\ crashes \in Nat

LEMMA TypeParts == TypeOK <=> FileType /\ LocalType /\ WorldType
BY Zenon DEF TypeOK, FileType, LocalType, WorldType

LEMMA TypePartsNext == FileType' /\ LocalType' /\ WorldType' => TypeOK'
BY Zenon DEF TypeOK, FileType, LocalType, WorldType

LEMMA EmptyTypes ==
  /\ NoView \in View /\ NoEvent \in Event /\ NoContent \in Content
  /\ << >> \in History
BY DEF NoView, View, NoEvent, Ev, Event, Kinds, SaveKinds, NoContent, Content, History

\* Leaving nh_play_game keeps the types of the processes.
LEMMA LeaveType ==
  ASSUME LocalType, NEW p \in Procs, NEW to \in PCs, Leave(p, to)
  PROVE  LocalType'
<1>1. Want[p] \in Modes
  BY WantAssumption DEF Modes, WantModes
<1>2. pc' \in [Procs -> PCs] /\ mode' \in [Procs -> Modes]
  BY <1>1 DEF LocalType, Leave, Goto
<1>3. view' \in [Procs -> View] /\ ask' \in [Procs -> Event] /\ off' \in [Procs -> Nat]
  BY EmptyTypes DEF LocalType, Leave
<1> QED
  BY <1>2, <1>3 DEF LocalType

\* So does the beginning of a recovery.
LEMMA BeginRecoverType ==
  ASSUME LocalType, NEW p \in Procs, NEW o \in Nat, BeginRecover(p, o)
  PROVE  LocalType'
<1>1. CASE Restart(p) \/ Exit(p)
  BY <1>1, LeaveType, "launch" \in PCs, "idle" \in PCs DEF Restart, Exit, PCs
<1>2. CASE ~(Restart(p) \/ Exit(p))
  BY <1>2, EmptyTypes DEF BeginRecover, Goto, LocalType, PCs
<1> QED
  BY <1>1, <1>2

LEMMA StartOfTurnType ==
  ASSUME FileType, LocalType, NEW p \in Procs
  PROVE  StartOfTurn(p) \in Nat /\ Len(lines) \in Nat /\ StartOfTurn(p) <= Len(lines)
BY DEF StartOfTurn, FileType, LocalType, View

LEMMA DesyncType ==
  ASSUME FileType, LocalType, NEW p \in Procs, NEW from, Desync(p, from)
  PROVE  LocalType'
<1>1. CASE Restart(p)
  BY <1>1, LeaveType, "launch" \in PCs DEF Restart, PCs
<1>2. CASE BeginRecover(p, Len(lines)) \/ BeginRecover(p, StartOfTurn(p))
  BY <1>2, BeginRecoverType, StartOfTurnType
<1> QED
  BY <1>1, <1>2 DEF Desync

LEMMA RefusedType ==
  ASSUME LocalType, NEW p \in Procs, Refused(p)
  PROVE  LocalType'
BY LeaveType, "launch" \in PCs, "idle" \in PCs DEF Refused, Restart, Exit, PCs


LEMMA LoadedType ==
  ASSUME FileType, NEW c \in Nat, NEW k \in 1 .. Len(lines)
  PROVE  Loaded(c, k) \in View /\ lines[k] \in Event /\ saved[k] \in Content
<1>1. lines[k] \in Event /\ saved[k] \in Content
  BY DEF FileType
<1>2. Append(saved[k].state, lines[k]) \in History
  BY <1>1, AppendProperties DEF Content, History
<1> QED
  BY <1>1, <1>2 DEF Loaded, View, FileType

LEMMA ReloadedType ==
  ASSUME NEW v \in View, NEW h \in History, NEW n \in Nat
  PROVE  LET w == [v EXCEPT !.state = h, !.eog = n, !.bsl = n, !.bsave = h, !.gap = "no"]
         IN  w \in View /\ w.expected = v.expected
BY DEF View

LEMMA ConsumedType ==
  ASSUME NEW v \in View, NEW e \in Event, NEW n \in Nat
  PROVE  /\ Consumed(v, e, n) \in View
         /\ Consumed(v, e, n).expected = v.expected
<1>1. Append(v.state, e) \in History
  BY AppendProperties DEF View, History
<1> QED
  BY <1>1 DEF Consumed, View

-----------------------------------------------------------------------------
(***************************************************************************)
(* The recovery protocol.  TypeOK alone is not inductive: Truncate keeps   *)
(* the file from being empty only because the offset was checked for the   *)
(* recovery count that LockToRecover then found.                           *)
(***************************************************************************)

\* The write lock is held exactly while the file is being changed.
Writers == \A p \in Procs : pc[p] \in {"write", "trunc"} <=> writer = p

\* Nobody expects more recoveries than there were.
Counts == count >= 1 /\ \A p \in Procs : view[p].expected <= count

\* The offset of a recovery lies in the file as long as nobody else recovers.
Offers == \A p \in Procs :
  pc[p] \in {"offer", "trunc"} /\ view[p].expected = count => off[p] \in 1 .. Len(lines)

\* While the file is cut, only the process that cuts it is up to date.
Cutter == \A p \in Procs : pc[p] = "trunc" =>
  view[p].expected = count /\ \A q \in Procs \ {p} : view[q].expected # count

\* Only a command or an answer is asked of a user.
Prompts == \A p \in Procs : pc[p] = "ask" => Needs(p) \in {"cmd", "input"}

CutInv == TypeOK /\ Writers /\ Counts /\ Offers /\ Cutter /\ Prompts

\* The state of every process but p stays as it is.
Others(p) == \A q \in Procs \ {p} :
  pc'[q] = pc[q] /\ mode'[q] = mode[q] /\ view'[q] = view[q] /\ ask'[q] = ask[q] /\ off'[q] = off[q]

LEMMA CountsKept ==
  ASSUME CutInv, NEW p \in Procs, Others(p), count' = count,
         view'[p].expected \in {view[p].expected, 0}
  PROVE  Counts'
<1>1. ASSUME NEW q \in Procs PROVE view'[q].expected <= count
  <2>1. CASE q = p
    BY <2>1 DEF CutInv, TypeOK, View, Counts
  <2>2. CASE q # p
    BY <2>2 DEF CutInv, Counts, Others
  <2> QED
    BY <2>1, <2>2
<1> QED
  BY <1>1 DEF CutInv, Counts

\* Steps that leave the lock and the file's length alone, and take p to a
\* place where nothing is being recovered, or where it was already.
LEMMA PlainStep ==
  ASSUME CutInv, TypeOK', NEW p \in Procs, Others(p),
         UNCHANGED <<count, writer>>, Len(lines') = Len(lines),
         writer # p,
         pc'[p] \notin {"write", "trunc"},
         pc'[p] = "offer" => off'[p] \in 1 .. Len(lines),
         pc'[p] = "ask" => Needs(p) \in {"cmd", "input"} /\ view'[p] = view[p],
         view'[p].expected \in {view[p].expected, 0}
           \/ (Free /\ view'[p].expected = count)
  PROVE  CutInv'
<1> SUFFICES Writers' /\ Counts' /\ Offers' /\ Cutter' /\ Prompts'
  BY Zenon DEF CutInv
<1> USE DEF CutInv, TypeOK, View
<1>1. Writers'
  BY DEF Writers, Others
<1>2. Counts'
  <2>1. ASSUME NEW q \in Procs PROVE view'[q].expected <= count
    <3>1. CASE q = p
      BY <3>1 DEF Counts
    <3>2. CASE q # p
      BY <3>2 DEF Counts, Others
    <3> QED
      BY <3>1, <3>2
  <2> QED
    BY <2>1 DEF Counts
<1>3. Offers'
  BY DEF Offers, Others
<1>4. Cutter'
  <2> SUFFICES ASSUME NEW q \in Procs, pc'[q] = "trunc"
               PROVE  /\ view'[q].expected = count'
                      /\ \A r \in Procs \ {q} : view'[r].expected # count'
    BY DEF Cutter
  <2>1. q # p /\ pc[q] = "trunc" /\ view'[q] = view[q]
    BY DEF Others
  <2>2. writer = q /\ ~Free
    BY <2>1, NobodyAssumption DEF Writers, Free
  <2>3. view'[p].expected # count
    BY <2>1, <2>2 DEF Cutter, Counts
  <2> QED
    BY <2>1, <2>3 DEF Cutter, Others
<1>5. Prompts'
  BY DEF Prompts, Others, Needs
<1> HIDE DEF CutInv, TypeOK, View
<1> QED
  BY <1>1, <1>2, <1>3, <1>4, <1>5


\* What leaving, recovering and restarting change.
LEMMA LeaveMoves ==
  ASSUME LocalType, NEW p \in Procs, NEW to \in PCs, Leave(p, to)
  PROVE  Others(p) /\ pc'[p] = to /\ view'[p].expected = 0
BY DEF LocalType, Leave, Goto, Others, NoView

LEMMA BeginRecoverMoves ==
  ASSUME LocalType, NEW p \in Procs, NEW o \in Nat, BeginRecover(p, o)
  PROVE  /\ Others(p) /\ pc'[p] \in {"launch", "idle", "check"}
         /\ view'[p].expected \in {view[p].expected, 0}
<1>1. CASE Restart(p) \/ Exit(p)
  BY <1>1, LeaveMoves, "launch" \in PCs, "idle" \in PCs DEF Restart, Exit, PCs
<1>2. CASE ~(Restart(p) \/ Exit(p))
  BY <1>2 DEF BeginRecover, Goto, LocalType, Others
<1> QED
  BY <1>1, <1>2

LEMMA DesyncMoves ==
  ASSUME FileType, LocalType, NEW p \in Procs, NEW from, Desync(p, from)
  PROVE  /\ Others(p) /\ pc'[p] \in {"launch", "idle", "check"}
         /\ view'[p].expected \in {view[p].expected, 0}
<1>1. CASE Restart(p)
  BY <1>1, LeaveMoves, "launch" \in PCs DEF Restart, PCs
<1>2. CASE BeginRecover(p, Len(lines)) \/ BeginRecover(p, StartOfTurn(p))
  BY <1>2, BeginRecoverMoves, StartOfTurnType
<1> QED
  BY <1>1, <1>2 DEF Desync

LEMMA RefusedMoves ==
  ASSUME LocalType, NEW p \in Procs, Refused(p)
  PROVE  Others(p) /\ pc'[p] \in {"launch", "idle"} /\ view'[p].expected = 0
BY LeaveMoves, "launch" \in PCs, "idle" \in PCs DEF Refused, Restart, Exit, PCs

-----------------------------------------------------------------------------
\* Every step keeps the types.

LEMMA TypeLoad ==
  ASSUME FileType, LocalType, WorldType, NEW p \in Procs, Load(p)
  PROVE  FileType' /\ LocalType' /\ WorldType'
<1>1. CASE ChooseMode(p)
  BY <1>1, WantAssumption
  DEF ChooseMode, Goto, FileType, LocalType, WorldType, fileVars, worldVars, Modes, WantModes, PCs
<1>2. CASE CheckStatus(p)
  BY <1>2 DEF CheckStatus, Goto, FileType, LocalType, WorldType, fileVars, worldVars, Modes, WantModes, PCs
<1>3. CASE UndoQuit(p)
  <2>1. Len(lines) - 1 \in Nat
    BY StartOfTurnType DEF FileType
  <2>2. view' \in [Procs -> View]
    BY <1>3 DEF UndoQuit, FileType, LocalType, View
  <2>3. pc' \in [Procs -> PCs] /\ off' \in [Procs -> Nat]
    BY <1>3, <2>1 DEF UndoQuit, Goto, LocalType, PCs
  <2> QED
    BY <1>3, <2>2, <2>3 DEF UndoQuit, FileType, LocalType, WorldType, fileVars, worldVars
<1>4. CASE ReadHeader(p)
  BY <1>4 DEF ReadHeader, Goto, FileType, LocalType, WorldType, fileVars, worldVars, PCs, View
<1>5. CASE Sync(p)
  <2>1. CASE BeginRecover(p, Len(lines))
    BY <1>5, <2>1, BeginRecoverType, StartOfTurnType DEF Sync, FileType, WorldType, fileVars, worldVars
  <2>2. CASE ~BeginRecover(p, Len(lines))
    <3>1. PICK k \in SaveLines : view' = [view EXCEPT ![p] = Loaded(@.expected, k)]
      BY <1>5, <2>2 DEF Sync
    <3>2. Loaded(view[p].expected, k) \in View
      BY LoadedType DEF SaveLines, LocalType, View
    <3> QED
      BY <1>5, <2>2, <3>1, <3>2 DEF Sync, Goto, FileType, LocalType, WorldType, fileVars, worldVars, PCs
  <2> QED
    BY <2>1, <2>2
<1> QED
  BY <1>1, <1>2, <1>3, <1>4, <1>5 DEF Load

LEMMA TypeRead ==
  ASSUME FileType, LocalType, WorldType, NEW p \in Procs, Read(p)
  PROVE  FileType' /\ LocalType' /\ WorldType'
<1>0. UNCHANGED <<fileVars, writer, worldVars>> /\ FileType' /\ WorldType'
  BY DEF Read, ReadTorn, ReadOver, SeeLine, ReplayLine, LineVanished, Mismatch, NoLine,
         ReplaySave, NoSaveLine, FileType, WorldType, fileVars, worldVars
<1> SUFFICES LocalType'
  BY <1>0
<1>1. CASE ReadTorn(p)
  BY <1>1, BeginRecoverType, StartOfTurnType DEF ReadTorn
<1>2. CASE ReadOver(p)
  BY <1>2, LeaveType, "idle" \in PCs DEF ReadOver, Exit, PCs
<1>3. CASE SeeLine(p)
  BY <1>3 DEF SeeLine, Goto, LocalType, PCs
<1>4. CASE ReplayLine(p)
  <2>1. NextLine(p) \in Event /\ view[p] \in View /\ view[p].eog + 1 \in Nat
    BY <1>4 DEF ReplayLine, HasLine, NextLine, FileType, LocalType, View
  <2>2. Consumed(view[p], NextLine(p), view[p].eog + 1) \in View
    BY <2>1, ConsumedType
  <2> QED
    BY <1>4, <2>2 DEF ReplayLine, Goto, LocalType, PCs
<1>5. CASE LineVanished(p)
  BY <1>5, DesyncType DEF LineVanished
<1>6. CASE Mismatch(p)
  BY <1>6, DesyncType DEF Mismatch
<1>7. CASE NoLine(p)
  <2>1. CASE BeginRecover(p, StartOfTurn(p))
    BY <2>1, BeginRecoverType, StartOfTurnType
  <2>2. CASE Exit(p)
    BY <2>2, LeaveType, "idle" \in PCs DEF Exit, PCs
  <2>3. CASE ~BeginRecover(p, StartOfTurn(p)) /\ ~Exit(p)
    <3>1. Ev("time", NoVal) \in Event /\ Ev("input", NoVal) \in Event
      BY DEF Ev, Event, Kinds
    <3> QED
      BY <1>7, <2>3, <3>1 DEF NoLine, Goto, LocalType, PCs
  <2> QED
    BY <2>1, <2>2, <2>3
<1>8. CASE ReplaySave(p)
  <2> DEFINE n == view[p].eog + 1
             base == IF lines[n].kind = "backup" THEN << >> ELSE view[p].bsave
  <2>1. n \in 1 .. Len(lines) /\ n \in Nat /\ view[p] \in View /\ base \in History
    BY <1>8, EmptyTypes DEF ReplaySave, HasLine, FileType, LocalType, View
  <2>2. CASE Exit(p)
    BY <2>2, LeaveType, "idle" \in PCs DEF Exit, PCs
  <2>3. CASE view' = [view EXCEPT ![p] = Loaded(@.expected, n)] /\ ~Exit(p)
    <3>1. Loaded(view[p].expected, n) \in View
      BY <2>1, LoadedType DEF View
    <3> QED
      BY <1>8, <2>3, <3>1 DEF ReplaySave, Goto, LocalType, PCs
  <2>4. CASE ~Exit(p) /\ view' # [view EXCEPT ![p] = Loaded(@.expected, n)]
    <3> DEFINE h == Append(base, lines[n])
               v == [view[p] EXCEPT !.state = h, !.eog = n, !.bsl = n, !.bsave = h, !.gap = "no"]
    <3>2. view' = [view EXCEPT ![p] = v] /\ Goto(p, "run") /\ UNCHANGED <<mode, ask, off>>
      BY <1>8, <2>1, <2>4 DEF ReplaySave
    <3>1. h \in History
      BY <2>1, LoadedType, AppendProperties DEF History, View
    <3> HIDE DEF h
    <3>3. v \in View
      BY <2>1, <3>1 DEF View
    <3> HIDE DEF v
    <3> QED
      BY <3>2, <3>3 DEF Goto, LocalType, PCs
  <2> QED
    BY <2>2, <2>3, <2>4
<1>9. CASE NoSaveLine(p)
  BY <1>9 DEF NoSaveLine, Goto, LocalType, PCs, View
<1> QED
  BY <1>1, <1>2, <1>3, <1>4, <1>5, <1>6, <1>7, <1>8, <1>9 DEF Read


LEMMA TypeWrite ==
  ASSUME FileType, LocalType, WorldType, NEW p \in Procs, Write(p)
  PROVE  FileType' /\ LocalType' /\ WorldType'
<1>1. CASE BeginWrite(p)
  <2>1. CASE CanUpdate(p)
    BY <1>1, <2>1 DEF BeginWrite, Goto, FileType, LocalType, WorldType, worldVars, PCs
  <2>2. CASE ~CanUpdate(p)
    BY <1>1, <2>2, RefusedType DEF BeginWrite, FileType, WorldType, worldVars, fileVars
  <2> QED
    BY <2>1, <2>2
<1>2. CASE SaveTurn(p)
  <2>1. CASE Refused(p) /\ UNCHANGED <<fileVars, writer>>
    BY <1>2, <2>1, RefusedType DEF SaveTurn, FileType, WorldType, worldVars, fileVars
  <2>2. CASE pc' = [pc EXCEPT ![p] = "savereplay"] /\ UNCHANGED <<fileVars, writer, mode, view, ask, off>>
    BY <1>2, <2>2 DEF SaveTurn, FileType, LocalType, WorldType, worldVars, fileVars, PCs
  <2>3. CASE /\ \E k \in SaveKinds : ask' = [ask EXCEPT ![p] = Ev(k, NoVal)]
             /\ writer' = p /\ partial' = TRUE /\ Goto(p, "write")
             /\ UNCHANGED <<lines, saved, status, count, mode, view, off>>
    <3>1. PICK k \in SaveKinds : ask' = [ask EXCEPT ![p] = Ev(k, NoVal)]
      BY <2>3
    <3>2. Ev(k, NoVal) \in Event
      BY DEF Ev, Event, Kinds
    <3> QED
      BY <1>2, <2>3, <3>1, <3>2 DEF SaveTurn, Goto, FileType, LocalType, WorldType, worldVars, PCs
  <2> QED
    BY <1>2, <2>1, <2>2, <2>3 DEF SaveTurn, Goto
<1>3. CASE EndWrite(p)
  <2>1. Written(p) \in Content /\ ask[p] \in Event /\ view[p] \in View /\ Len(lines) + 1 \in Nat
    BY EmptyTypes DEF Written, Content, FileType, LocalType, View
  <2>2. FileType'
    <3>1. lines' \in Seq(Event) /\ Len(lines') = Len(lines) + 1
      BY <1>3, <2>1, AppendProperties DEF EndWrite, FileType
    <3>2. saved' \in Seq(Content) /\ Len(saved') = Len(saved) + 1
      BY <1>3, <2>1, AppendProperties DEF EndWrite, FileType
    <3>3. partial' = FALSE /\ UNCHANGED <<status, count>>
      BY <1>3 DEF EndWrite
    <3>4. Len(lines') >= 1 /\ Len(saved') = Len(lines')
      BY <3>1, <3>2 DEF FileType
    <3>5. partial' \in BOOLEAN /\ status' \in {"save", "done"} /\ count' \in Nat
      BY <3>3 DEF FileType
    <3> QED
      BY <3>1, <3>2, <3>4, <3>5, Zenon DEF FileType
  <2>3. Consumed(view[p], ask[p], Len(lines) + 1) \in View
    BY <2>1, ConsumedType
  <2>4. view' \in [Procs -> View] /\ ask' \in [Procs -> Event]
    BY <1>3, <2>3, EmptyTypes DEF EndWrite, LocalType
  <2>5. LocalType'
    BY <1>3, <2>4 DEF EndWrite, Goto, LocalType, PCs
  <2> QED
    BY <1>3, <2>2, <2>5 DEF EndWrite, WorldType, worldVars
<1> QED
  BY <1>1, <1>2, <1>3 DEF Write

LEMMA TypeFinish ==
  ASSUME FileType, LocalType, WorldType, NEW p \in Procs, Finish(p)
  PROVE  FileType' /\ LocalType' /\ WorldType'
<1>1. CASE Die(p)
  <2>1. FileType' /\ WorldType'
    BY <1>1 DEF Die, FileType, WorldType, fileVars, worldVars
  <2>2. CASE Exit(p)
    BY <2>1, <2>2, LeaveType, "idle" \in PCs DEF Exit, PCs
  <2>3. CASE ~Exit(p)
    <3>1. Ev("over", NoVal) \in Event
      BY DEF Ev, Event, Kinds
    <3> QED
      BY <1>1, <2>1, <2>3, <3>1 DEF Die, Goto, LocalType, PCs
  <2> QED
    BY <2>2, <2>3
<1>2. CASE LogGameOver(p)
  <2>1. CASE Refused(p)
    BY <1>2, <2>1, RefusedType DEF LogGameOver, FileType, WorldType, worldVars
  <2>2. CASE ~Refused(p)
    BY <1>2, <2>2 DEF LogGameOver, Goto, FileType, LocalType, WorldType, worldVars, PCs
  <2> QED
    BY <2>1, <2>2
<1>3. CASE Close(p)
  BY <1>3, LeaveType, "idle" \in PCs DEF Close, Exit, FileType, WorldType, fileVars, PCs
<1> QED
  BY <1>1, <1>2, <1>3 DEF Finish

\* Cutting the file is the one step that needs more than the types.
LEMMA TypeRecover ==
  ASSUME CutInv, NEW p \in Procs, Recover(p)
  PROVE  FileType' /\ LocalType' /\ WorldType'
<1> FileType /\ LocalType /\ WorldType
  BY TypeParts DEF CutInv
<1>1. CASE CheckOffset(p)
  <2>1. CASE OffsetSane(off[p])
    BY <1>1, <2>1 DEF CheckOffset, Goto, FileType, LocalType, WorldType, fileVars, worldVars, PCs
  <2>2. CASE ~OffsetSane(off[p])
    BY <1>1, <2>2, LeaveType, "idle" \in PCs
    DEF CheckOffset, Exit, FileType, WorldType, fileVars, worldVars, PCs
  <2> QED
    BY <2>1, <2>2
<1>2. CASE LockToRecover(p)
  <2>1. CASE CountMatches(p)
    <3>1. view' \in [Procs -> View]
      BY <1>2, <2>1 DEF LockToRecover, LocalType, View
    <3>2. FileType'
      BY <1>2, <2>1 DEF LockToRecover, NextCount, RecoveredStatus, FileType
    <3>3. LocalType'
      BY <1>2, <2>1, <3>1 DEF LockToRecover, Goto, LocalType, PCs
    <3> QED
      BY <1>2, <2>1, <3>2, <3>3 DEF LockToRecover, WorldType, worldVars
  <2>2. CASE ~CountMatches(p)
    BY <1>2, <2>2, LeaveType, "launch" \in PCs
    DEF LockToRecover, Restart, FileType, WorldType, worldVars, PCs
  <2> QED
    BY <2>1, <2>2
<1>3. CASE Truncate(p)
  <2>1. off[p] \in 1 .. Len(lines)
    BY <1>3 DEF Truncate, CutInv, Offers, Cutter
  <2>2. FileType'
    <3>1. /\ \A i \in 1 .. off[p] : lines[i] \in Event /\ saved[i] \in Content
          /\ off[p] \in Int
      BY <2>1 DEF FileType
    <3>2. lines' \in Seq(Event) /\ Len(lines') = off[p]
      BY <1>3, <2>1, <3>1, SubSeqProperties DEF Truncate
    <3>3. saved' \in Seq(Content) /\ Len(saved') = off[p]
      BY <1>3, <2>1, <3>1, SubSeqProperties DEF Truncate
    <3>4. partial' = FALSE /\ UNCHANGED <<status, count>>
      BY <1>3 DEF Truncate
    <3>5. Len(lines') >= 1 /\ Len(saved') = Len(lines')
      BY <2>1, <3>2, <3>3 DEF FileType
    <3>6. partial' \in BOOLEAN /\ status' \in {"save", "done"} /\ count' \in Nat
      BY <3>4 DEF FileType
    <3> QED
      BY <3>2, <3>3, <3>5, <3>6, Zenon DEF FileType
  <2>3. LocalType'
    <3>1. CASE mode[p] = "PLAY"
      BY <1>3, <3>1, LeaveType, "launch" \in PCs DEF Truncate, Restart, PCs
    <3>2. CASE mode[p] # "PLAY"
      <4>1. pc' = [pc EXCEPT ![p] = "header"] /\ off' = [off EXCEPT ![p] = 0]
            /\ UNCHANGED <<mode, view, ask>>
        BY <1>3, <3>2 DEF Truncate, Goto
      <4> QED
        BY <4>1 DEF LocalType, PCs
    <3> QED
      BY <3>1, <3>2
  <2> QED
    BY <1>3, <2>2, <2>3 DEF Truncate, WorldType, worldVars
<1> QED
  BY <1>1, <1>2, <1>3 DEF Recover

LEMMA TypeUser ==
  ASSUME FileType, LocalType, WorldType, Prompts, NEW p \in Procs, User(p)
  PROVE  FileType' /\ LocalType' /\ WorldType'
<1>0. FileType' /\ WorldType'
  BY DEF User, Open, Answer, Quit, ServerCancel, Detach, Seek, Decline,
         FileType, WorldType, fileVars, worldVars
<1> SUFFICES LocalType'
  BY <1>0
<1>1. CASE Open(p)
  BY <1>1 DEF Open, Goto, LocalType, PCs
<1>2. CASE Answer(p)
  <2>1. PICK v \in Vals : ask' = [ask EXCEPT ![p] = Ev(Needs(p), v)]
    BY <1>2 DEF Answer
  <2>2. Ev(Needs(p), v) \in Event
    BY <1>2 DEF Answer, Prompts, Ev, Event, Kinds
  <2> QED
    BY <1>2, <2>1, <2>2 DEF Answer, Goto, LocalType, PCs
<1>3. CASE Quit(p)
  <2>1. Ev("over", NoVal) \in Event
    BY DEF Ev, Event, Kinds
  <2> QED
    BY <1>3, <2>1 DEF Quit, Goto, LocalType, PCs
<1>4. CASE ServerCancel(p)
  BY <1>4 DEF ServerCancel, Goto, LocalType, PCs
<1>5. CASE Detach(p)
  BY <1>5, RefusedType, LeaveType, "idle" \in PCs DEF Detach, Exit, PCs
<1>6. CASE Seek(p)
  BY <1>6 DEF Seek, Goto, LocalType, PCs
<1>7. CASE Decline(p)
  BY <1>7, LeaveType, "idle" \in PCs DEF Decline, Exit, PCs
<1> QED
  BY <1>1, <1>2, <1>3, <1>4, <1>5, <1>6, <1>7 DEF User

LEMMA TypeFault ==
  ASSUME FileType, LocalType, WorldType, NEW p \in Procs, Fault(p)
  PROVE  FileType' /\ LocalType' /\ WorldType'
<1>1. CASE Panic(p)
  BY <1>1, BeginRecoverType, StartOfTurnType DEF Panic, FileType, WorldType, fileVars
<1>2. CASE WriteFails(p)
  <2>1. PICK o \in Nat : BeginRecover(p, o)
    BY <1>2, StartOfTurnType DEF WriteFails
  <2> QED
    BY <1>2, <2>1, BeginRecoverType DEF WriteFails, FileType, WorldType, fileVars
<1>3. CASE Crash(p)
  BY <1>3, LeaveType, "idle" \in PCs DEF Crash, Exit, FileType, WorldType, PCs
<1> QED
  BY <1>1, <1>2, <1>3 DEF Fault


-----------------------------------------------------------------------------
\* Every step keeps the recovery protocol.

LEMMA CutLoad ==
  ASSUME CutInv, TypeOK', NEW p \in Procs, Load(p)
  PROVE  CutInv'
<1>0. FileType /\ LocalType /\ Len(lines) \in Nat
  BY TypeParts DEF CutInv, FileType
<1>1. writer # p /\ Free /\ UNCHANGED <<lines, count, writer>>
  BY NobodyAssumption DEF Load, ChooseMode, CheckStatus, UndoQuit, ReadHeader, Sync, fileVars, Free
<1>2. /\ Others(p) /\ pc'[p] \in {"status", "undo", "header", "check", "sync", "run", "launch", "idle"}
      /\ view'[p].expected \in {view[p].expected, 0, count}
  <2>1. CASE ChooseMode(p) \/ CheckStatus(p)
    BY <1>0, <2>1 DEF ChooseMode, CheckStatus, Goto, Others, LocalType
  <2>2. CASE UndoQuit(p) \/ ReadHeader(p)
    BY <1>0, <2>2 DEF UndoQuit, ReadHeader, Goto, Others, LocalType, View
  <2>3. CASE Sync(p) /\ BeginRecover(p, Len(lines))
    BY <1>0, <2>3, BeginRecoverMoves
  <2>4. CASE Sync(p) /\ ~BeginRecover(p, Len(lines))
    BY <1>0, <2>4 DEF Sync, Goto, Others, LocalType, Loaded, View
  <2> QED
    BY <2>1, <2>2, <2>3, <2>4 DEF Load
<1> QED
  BY <1>1, <1>2, PlainStep

LEMMA CutRead ==
  ASSUME CutInv, TypeOK', NEW p \in Procs, Read(p)
  PROVE  CutInv'
<1>0. FileType /\ LocalType /\ Len(lines) \in Nat
  BY TypeParts DEF CutInv, FileType
<1>1. writer # p /\ UNCHANGED <<lines, count, writer>>
  BY NobodyAssumption
  DEF Read, ReadTorn, ReadOver, SeeLine, ReplayLine, LineVanished, Mismatch, NoLine,
      ReplaySave, NoSaveLine, fileVars, Free
<1>2. /\ Others(p) /\ pc'[p] \in {"launch", "idle", "check", "run", "replay", "record", "ask"}
      /\ view'[p].expected \in {view[p].expected, 0}
      /\ pc'[p] = "ask" => Needs(p) \in {"cmd", "input"} /\ view'[p] = view[p]
  <2>1. CASE ReadTorn(p)
    BY <1>0, <2>1, BeginRecoverMoves DEF ReadTorn
  <2>2. CASE Exit(p)
    BY <1>0, <2>2, LeaveMoves, "idle" \in PCs DEF Exit, PCs
  <2>3. CASE SeeLine(p)
    BY <1>0, <2>3 DEF SeeLine, Goto, Others, LocalType
  <2>4. CASE ReplayLine(p)
    <3>1. NextLine(p) \in Event /\ view[p] \in View /\ view[p].eog + 1 \in Nat
      BY <1>0, <2>4 DEF ReplayLine, HasLine, NextLine, FileType, LocalType, View
    <3>2. Consumed(view[p], NextLine(p), view[p].eog + 1).expected = view[p].expected
      BY <3>1, ConsumedType
    <3> QED
      BY <1>0, <2>4, <3>2 DEF ReplayLine, Goto, Others, LocalType
  <2>5. CASE LineVanished(p) \/ Mismatch(p)
    BY <1>0, <2>5, DesyncMoves DEF LineVanished, Mismatch
  <2>6. CASE BeginRecover(p, StartOfTurn(p))
    BY <1>0, <2>6, BeginRecoverMoves, StartOfTurnType
  <2>7. CASE NoLine(p) /\ ~Exit(p) /\ ~BeginRecover(p, StartOfTurn(p))
    <3>1. Needs(p) # "time" => Needs(p) \in {"cmd", "input"}
      BY <2>7 DEF NoLine, WantsLine
    <3> QED
      BY <1>0, <2>7, <3>1 DEF NoLine, Goto, Others, LocalType
  <2>8. CASE ReplaySave(p) /\ ~Exit(p)
    <3> DEFINE n == view[p].eog + 1
               h == Append(IF lines[n].kind = "backup" THEN << >> ELSE view[p].bsave, lines[n])
               v == [view[p] EXCEPT !.state = h, !.eog = n, !.bsl = n, !.bsave = h, !.gap = "no"]
    <3>1. CASE view' = [view EXCEPT ![p] = Loaded(@.expected, n)]
      BY <1>0, <2>8, <3>1 DEF ReplaySave, Goto, Others, LocalType, Loaded
    <3>2. CASE view' = [view EXCEPT ![p] = v]
      <4>1. v.expected = view[p].expected
        BY <1>0 DEF LocalType, View
      <4> HIDE DEF v
      <4> QED
        BY <1>0, <2>8, <3>2, <4>1 DEF ReplaySave, Goto, Others, LocalType
    <3> QED
      BY <2>8, <3>1, <3>2 DEF ReplaySave
  <2>9. CASE NoSaveLine(p)
    BY <1>0, <2>9 DEF NoSaveLine, Goto, Others, LocalType, View
  <2> QED
    BY <2>1, <2>2, <2>3, <2>4, <2>5, <2>6, <2>7, <2>8, <2>9 DEF Read, ReadOver
<1> QED
  BY <1>1, <1>2, PlainStep

LEMMA CutUser ==
  ASSUME CutInv, TypeOK', NEW p \in Procs, User(p)
  PROVE  CutInv'
<1>0. FileType /\ LocalType /\ Len(lines) \in Nat
  BY TypeParts DEF CutInv, FileType
<1>1. pc[p] \notin {"write", "trunc"} /\ UNCHANGED <<lines, count, writer>>
  BY DEF User, Open, Answer, Quit, ServerCancel, Detach, Seek, Decline, WantsLine, fileVars
<1>2. writer # p
  BY <1>1 DEF CutInv, Writers
<1>3. /\ Others(p) /\ pc'[p] \in {"launch", "idle", "record", "run", "sync"}
      /\ view'[p].expected \in {view[p].expected, 0}
  <2>1. CASE Open(p) \/ Answer(p) \/ Quit(p) \/ ServerCancel(p) \/ Seek(p)
    BY <1>0, <2>1 DEF Open, Answer, Quit, ServerCancel, Seek, Goto, Others, LocalType
  <2>2. CASE Exit(p)
    BY <1>0, <2>2, LeaveMoves, "idle" \in PCs DEF Exit, PCs
  <2>3. CASE Refused(p)
    BY <1>0, <2>3, RefusedMoves
  <2> QED
    BY <2>1, <2>2, <2>3 DEF User, Detach, Decline
<1> QED
  BY <1>1, <1>2, <1>3, PlainStep

LEMMA CutFinish ==
  ASSUME CutInv, TypeOK', NEW p \in Procs, Finish(p)
  PROVE  CutInv'
<1>0. FileType /\ LocalType /\ Len(lines) \in Nat
  BY TypeParts DEF CutInv, FileType
<1>1. pc[p] \notin {"write", "trunc"} /\ UNCHANGED <<lines, count, writer>>
  BY DEF Finish, Die, LogGameOver, Close, fileVars
<1>2. writer # p
  BY <1>1 DEF CutInv, Writers
<1>3. /\ Others(p) /\ pc'[p] \in {"launch", "idle", "record", "closing"}
      /\ view'[p].expected \in {view[p].expected, 0}
  <2>1. CASE Exit(p)
    BY <1>0, <2>1, LeaveMoves, "idle" \in PCs DEF Exit, PCs
  <2>2. CASE Refused(p)
    BY <1>0, <2>2, RefusedMoves
  <2>3. CASE ~Exit(p) /\ ~Refused(p)
    BY <1>0, <2>3 DEF Finish, Die, LogGameOver, Close, Goto, Others, LocalType
  <2> QED
    BY <2>1, <2>2, <2>3
<1> QED
  BY <1>1, <1>2, <1>3, PlainStep


\* A line is begun: p takes the write lock.
LEMMA CutBegin ==
  ASSUME CutInv, TypeOK', NEW p \in Procs, Others(p), UNCHANGED <<lines, count, view, off>>,
         Free, writer' = p, pc' = [pc EXCEPT ![p] = "write"]
  PROVE  CutInv'
<1> SUFFICES Writers' /\ Counts' /\ Offers' /\ Cutter' /\ Prompts'
  BY Zenon DEF CutInv
<1>0. LocalType
  BY TypeParts DEF CutInv
<1>1. Writers'
  BY <1>0, NobodyAssumption DEF CutInv, Writers, Free, LocalType
<1>2. Counts' /\ Offers'
  BY <1>0 DEF CutInv, Counts, Offers, LocalType
<1>3. Cutter'
  BY <1>0 DEF CutInv, Cutter, LocalType
<1>4. Prompts'
  BY <1>0 DEF CutInv, Prompts, Needs, LocalType
<1> QED
  BY <1>1, <1>2, <1>3, <1>4

LEMMA CutWrite ==
  ASSUME CutInv, TypeOK', NEW p \in Procs, Write(p)
  PROVE  CutInv'
<1>0. FileType /\ LocalType /\ Len(lines) \in Nat
  BY TypeParts DEF CutInv, FileType
<1>1. CASE BeginWrite(p) \/ SaveTurn(p)
  <2>1. CASE Refused(p)
    <3>1. writer # p /\ UNCHANGED <<lines, count, writer>>
      BY <1>1, <2>1, NobodyAssumption, RefusedMoves, <1>0
      DEF BeginWrite, SaveTurn, fileVars, Free, Goto, LocalType
    <3> QED
      BY <1>0, <2>1, <3>1, RefusedMoves, PlainStep
  <2>2. CASE ~Refused(p) /\ writer' # p
    <3>1. /\ writer # p /\ UNCHANGED <<lines, count, writer, view, off>>
          /\ Others(p) /\ pc'[p] = "savereplay"
      BY <1>0, <1>1, <2>2, NobodyAssumption DEF BeginWrite, SaveTurn, fileVars, Free, Goto, Others, LocalType
    <3> QED
      BY <3>1, PlainStep
  <2>3. CASE ~Refused(p) /\ writer' = p
    <3>1. /\ Free /\ UNCHANGED <<lines, count, view, off>>
          /\ Others(p) /\ pc' = [pc EXCEPT ![p] = "write"]
      BY <1>0, <1>1, <2>3, NobodyAssumption DEF BeginWrite, SaveTurn, fileVars, Free, Goto, Others, LocalType
    <3> QED
      BY <2>3, <3>1, CutBegin
  <2> QED
    BY <2>1, <2>2, <2>3
<1>2. CASE EndWrite(p)
  <2> SUFFICES Writers' /\ Counts' /\ Offers' /\ Cutter' /\ Prompts'
    BY Zenon DEF CutInv
  <2>1. writer = p /\ writer' = Nobody /\ pc[p] = "write" /\ pc'[p] \in {"over", "run"} /\ Others(p)
        /\ UNCHANGED count
    BY <1>0, <1>2 DEF EndWrite, CutInv, Writers, Goto, Others, LocalType
  <2>2. \A q \in Procs : view'[q].expected = view[q].expected
    <3>1. Consumed(view[p], ask[p], Len(lines) + 1).expected = view[p].expected
      BY <1>0, ConsumedType DEF LocalType
    <3> QED
      BY <1>0, <1>2, <3>1 DEF EndWrite, LocalType
  <2>3. Len(lines') = Len(lines) + 1 /\ off' = off
    BY <1>0, <1>2, AppendProperties DEF EndWrite, FileType, LocalType
  <2>4. Writers'
    BY <2>1, NobodyAssumption DEF CutInv, Writers, Others
  <2>5. Counts' /\ Offers'
    BY <1>0, <2>1, <2>2, <2>3 DEF CutInv, Counts, Offers, Others
  <2>6. Cutter' /\ Prompts'
    BY <2>1, <2>2 DEF CutInv, Writers, Cutter, Prompts, Others, Needs
  <2> QED
    BY <2>4, <2>5, <2>6
<1> QED
  BY <1>1, <1>2 DEF Write

LEMMA CutRecover ==
  ASSUME CutInv, TypeOK', NEW p \in Procs, Recover(p)
  PROVE  CutInv'
<1>0. FileType /\ LocalType /\ Len(lines) \in Nat
  BY TypeParts DEF CutInv, FileType
<1>1. CASE CheckOffset(p)
  <2>1. pc[p] = "check" /\ UNCHANGED <<lines, count, writer>>
    BY <1>1 DEF CheckOffset, fileVars
  <2>2. writer # p
    BY <2>1 DEF CutInv, Writers
  <2>3. CASE Exit(p)
    BY <1>0, <2>1, <2>2, <2>3, LeaveMoves, "idle" \in PCs, PlainStep DEF Exit, PCs
  <2>4. CASE ~Exit(p)
    <3>1. Others(p) /\ pc'[p] = "offer" /\ off' = off /\ off[p] \in 1 .. Len(lines) /\ view' = view
      BY <1>0, <1>1, <2>4 DEF CheckOffset, OffsetSane, Goto, Others, LocalType
    <3> QED
      BY <2>1, <2>2, <3>1, PlainStep
  <2> QED
    BY <2>3, <2>4
<1>2. CASE LockToRecover(p) /\ ~CountMatches(p)
  <2>1. Restart(p) /\ UNCHANGED <<lines, count, writer>> /\ writer # p
    BY <1>2, NobodyAssumption DEF LockToRecover, Free
  <2> QED
    BY <1>0, <2>1, LeaveMoves, "launch" \in PCs, PlainStep DEF Restart, PCs
<1>3. CASE LockToRecover(p) /\ CountMatches(p)
  <2> SUFFICES Writers' /\ Counts' /\ Offers' /\ Cutter' /\ Prompts'
    BY Zenon DEF CutInv
  <2>1. /\ pc[p] = "offer" /\ Free /\ writer' = p /\ pc'[p] = "trunc" /\ Others(p)
        /\ count' = count + 1 /\ view'[p].expected = count' /\ UNCHANGED <<lines, off>>
    BY <1>0, <1>3 DEF LockToRecover, CountMatches, NextCount, Goto, Others, LocalType, View
  <2>2. Writers'
    BY <2>1, NobodyAssumption DEF CutInv, Writers, Others, Free
  <2>3. \A q \in Procs : view[q].expected <= count /\ view[q].expected \in Nat /\ count \in Nat
    BY <1>0 DEF CutInv, Counts, LocalType, View, FileType
  <2>4. \A q \in Procs \ {p} : view'[q].expected < count'
    BY <2>1, <2>3 DEF Others
  <2>5. Counts'
    BY <2>1, <2>3, <2>4 DEF CutInv, Counts, Others
  <2>6. Offers'
    BY <1>3, <2>1, <2>3, <2>4 DEF CutInv, CountMatches, Offers, Others
  <2>7. Cutter'
    BY <2>1, <2>2, <2>3, <2>4 DEF Cutter, Writers
  <2>8. Prompts'
    BY <2>1 DEF CutInv, Prompts, Others, Needs
  <2> QED
    BY <2>2, <2>5, <2>6, <2>7, <2>8
<1>4. CASE Truncate(p)
  <2> SUFFICES Writers' /\ Counts' /\ Offers' /\ Cutter' /\ Prompts'
    BY Zenon DEF CutInv
  <2>1. writer = p /\ writer' = Nobody /\ pc[p] = "trunc" /\ UNCHANGED count
    BY <1>4 DEF Truncate, CutInv, Writers
  <2>2. /\ Others(p) /\ pc'[p] \in {"launch", "header"}
        /\ view'[p].expected \in {view[p].expected, 0}
    <3>1. CASE mode[p] = "PLAY"
      BY <1>0, <1>4, <3>1, LeaveMoves, "launch" \in PCs DEF Truncate, Restart, PCs
    <3>2. CASE mode[p] # "PLAY"
      BY <1>0, <1>4, <3>2 DEF Truncate, Goto, Others, LocalType
    <3> QED
      BY <3>1, <3>2
  <2>3. Writers'
    BY <2>1, <2>2, NobodyAssumption DEF CutInv, Writers, Others
  <2>4. Counts'
    BY <2>1, <2>2, CountsKept
  <2>5. \A q \in Procs \ {p} : view'[q].expected # count' /\ pc'[q] # "trunc"
    BY <2>1, <2>2 DEF CutInv, Cutter, Writers, Others
  <2>6. Offers' /\ Cutter'
    BY <2>2, <2>5 DEF Offers, Cutter
  <2>7. Prompts'
    BY <2>2 DEF CutInv, Prompts, Others, Needs
  <2> QED
    BY <2>3, <2>4, <2>6, <2>7
<1> QED
  BY <1>1, <1>2, <1>3, <1>4 DEF Recover

LEMMA CutFault ==
  ASSUME CutInv, TypeOK', NEW p \in Procs, Fault(p)
  PROVE  CutInv'
<1>0. FileType /\ LocalType /\ Len(lines) \in Nat
  BY TypeParts DEF CutInv, FileType
<1>1. CASE Panic(p)
  <2>1. writer # p /\ UNCHANGED <<lines, count, writer>>
    BY <1>1, NobodyAssumption DEF Panic, Free, fileVars
  <2> QED
    BY <1>0, <1>1, <2>1, BeginRecoverMoves, StartOfTurnType, PlainStep DEF Panic
<1>2. CASE WriteFails(p) \/ Crash(p)
  <2> SUFFICES Writers' /\ Counts' /\ Offers' /\ Cutter' /\ Prompts'
    BY Zenon DEF CutInv
  <2>1. /\ Others(p) /\ pc'[p] \in {"launch", "idle", "check"}
        /\ view'[p].expected \in {view[p].expected, 0}
    <3>1. CASE WriteFails(p)
      <4>1. PICK o \in Nat : BeginRecover(p, o)
        BY <1>0, <3>1, StartOfTurnType DEF WriteFails
      <4> QED
        BY <1>0, <4>1, BeginRecoverMoves
    <3>2. CASE Crash(p)
      BY <1>0, <3>2, LeaveMoves, "idle" \in PCs DEF Crash, Exit, PCs
    <3> QED
      BY <1>2, <3>1, <3>2
  <2>2. /\ UNCHANGED <<lines, count>>
        /\ writer' = IF writer = p THEN Nobody ELSE writer
    BY <1>2 DEF WriteFails, Crash, fileVars, CutInv, Writers
  <2>3. Writers'
    BY <2>1, <2>2, NobodyAssumption DEF CutInv, Writers, Others
  <2>4. Counts'
    BY <2>1, <2>2, CountsKept
  <2>5. Offers'
    BY <2>1, <2>2 DEF CutInv, Offers, Others
  <2>6. Cutter'
    BY <1>0, <2>1, <2>2 DEF CutInv, Counts, Cutter, Others
  <2>7. Prompts'
    BY <2>1, <2>2 DEF CutInv, Prompts, Others, Needs
  <2> QED
    BY <2>3, <2>4, <2>5, <2>6, <2>7
<1> QED
  BY <1>1, <1>2 DEF Fault

-----------------------------------------------------------------------------
LEMMA CutInit == Init => CutInv
<1> SUFFICES ASSUME Init PROVE CutInv
  OBVIOUS
<1>1. LocalType /\ WorldType
  BY EmptyTypes, WantAssumption DEF Init, LocalType, WorldType, PCs, Modes, WantModes
<1>2. FileType
  <2>1. Ev("backup", NoVal) \in Event
    BY DEF Ev, Event, Kinds, SaveKinds
  <2>2. lines \in Seq(Event) /\ Len(lines) = 1
    BY <2>1 DEF Init
  <2>3. saved \in Seq(Content) /\ Len(saved) = 1
    BY EmptyTypes DEF Init
  <2>4. partial \in BOOLEAN /\ status \in {"save", "done"} /\ count \in Nat
    BY DEF Init
  <2> QED
    BY <2>2, <2>3, <2>4 DEF FileType
<1>3. Writers /\ Counts /\ Offers /\ Cutter /\ Prompts
  BY NobodyAssumption DEF Init, Writers, Counts, Offers, Cutter, Prompts, NoView
<1> QED
  BY <1>1, <1>2, <1>3, TypeParts DEF CutInv

LEMMA CutNext == CutInv /\ [Next]_vars => CutInv'
<1> SUFFICES ASSUME CutInv, [Next]_vars PROVE CutInv'
  OBVIOUS
<1>0. FileType /\ LocalType /\ WorldType /\ Prompts
  BY TypeParts DEF CutInv
<1>1. CASE UNCHANGED vars
  BY <1>1 DEF vars, CutInv, TypeOK, Writers, Counts, Offers, Cutter, Prompts, Needs
<1>2. ASSUME NEW p \in Procs, Load(p) PROVE CutInv'
  BY <1>0, <1>2, TypeLoad, CutLoad, TypePartsNext
<1>3. ASSUME NEW p \in Procs, Read(p) PROVE CutInv'
  BY <1>0, <1>3, TypeRead, CutRead, TypePartsNext
<1>4. ASSUME NEW p \in Procs, Write(p) PROVE CutInv'
  BY <1>0, <1>4, TypeWrite, CutWrite, TypePartsNext
<1>5. ASSUME NEW p \in Procs, Finish(p) PROVE CutInv'
  BY <1>0, <1>5, TypeFinish, CutFinish, TypePartsNext
<1>6. ASSUME NEW p \in Procs, Recover(p) PROVE CutInv'
  BY <1>0, <1>6, TypeRecover, CutRecover, TypePartsNext
<1>7. ASSUME NEW p \in Procs, User(p) PROVE CutInv'
  BY <1>0, <1>7, TypeUser, CutUser, TypePartsNext
<1>8. ASSUME NEW p \in Procs, Fault(p) PROVE CutInv'
  BY <1>0, <1>8, TypeFault, CutFault, TypePartsNext
<1> QED
  BY <1>1, <1>2, <1>3, <1>4, <1>5, <1>6, <1>7, <1>8 DEF Next

\* The recovery protocol holds in every reachable state: who holds the write
\* lock, who may rely on what it read, and where the file may be cut
\* (start_updating_logfile and log_recover_core).
THEOREM RecoveryProtocol == Spec => []CutInv
BY CutInit, CutNext, PTL DEF Spec

\* Every variable of the save file keeps its type; in particular no sequence
\* of recoveries empties the file.
THEOREM TypeCorrect == Spec => []TypeOK
<1>1. CutInv => TypeOK
  BY DEF CutInv
<1> QED
  BY <1>1, RecoveryProtocol, PTL

\* ftruncate is called only by the process that holds the write lock, and
\* never beyond the end of the file nor into its first save.
THEOREM TruncationSafe == Spec => []TruncationInside
<1>1. CutInv => TruncationInside
  BY DEF CutInv, TruncationInside, Writers, Offers, Cutter
<1> QED
  BY <1>1, RecoveryProtocol, PTL

-----------------------------------------------------------------------------
(***************************************************************************)
(* What the processes that share a save file may rely on: the gamestate of *)
(* a process whose recovery count is current is that of a prefix of the    *)
(* file, and the save lines hold what they say.                            *)
(***************************************************************************)

\* Prefixes of histories

LEMMA PrefixOfAppend ==
  ASSUME NEW h \in History, NEW e \in Event, NEW n \in 0 .. Len(h)
  PROVE  SubSeq(Append(h, e), 1, n) = SubSeq(h, 1, n)
<1>1. /\ Append(h, e) \in History /\ Len(Append(h, e)) = Len(h) + 1
      /\ \A i \in 1 .. Len(h) : Append(h, e)[i] = h[i]
  BY AppendProperties DEF History
<1>2. Len(h) \in Nat /\ \A i \in 1 .. Len(h) : h[i] \in Event
  BY DEF History
<1>3. /\ SubSeq(h, 1, n) \in Seq(Event) /\ Len(SubSeq(h, 1, n)) = n
      /\ \A i \in 1 .. n : SubSeq(h, 1, n)[i] = h[i]
  BY <1>2, SubSeqProperties
<1>4. /\ SubSeq(Append(h, e), 1, n) \in Seq(Event) /\ Len(SubSeq(Append(h, e), 1, n)) = n
      /\ \A i \in 1 .. n : SubSeq(Append(h, e), 1, n)[i] = Append(h, e)[i]
  BY <1>1, <1>2, SubSeqProperties
<1> QED
  BY <1>1, <1>2, <1>3, <1>4, SeqEqual

LEMMA PrefixNext ==
  ASSUME NEW h \in History, NEW n \in 0 .. Len(h) - 1
  PROVE  Append(SubSeq(h, 1, n), h[n + 1]) = SubSeq(h, 1, n + 1)
<1>1. Len(h) \in Nat /\ \A i \in 1 .. Len(h) : h[i] \in Event
  BY DEF History
<1>2. /\ SubSeq(h, 1, n) \in Seq(Event) /\ Len(SubSeq(h, 1, n)) = n
      /\ \A i \in 1 .. n : SubSeq(h, 1, n)[i] = h[i]
  BY <1>1, SubSeqProperties
<1>3. /\ SubSeq(h, 1, n + 1) \in Seq(Event) /\ Len(SubSeq(h, 1, n + 1)) = n + 1
      /\ \A i \in 1 .. n + 1 : SubSeq(h, 1, n + 1)[i] = h[i]
  BY <1>1, SubSeqProperties
<1>4. h[n + 1] \in Event
  BY <1>1
<1> DEFINE t == Append(SubSeq(h, 1, n), h[n + 1])
<1>5. /\ t \in Seq(Event) /\ Len(t) = n + 1 /\ t[n + 1] = h[n + 1]
      /\ \A i \in 1 .. n : t[i] = SubSeq(h, 1, n)[i]
  BY <1>2, <1>4, AppendProperties
<1>6. \A i \in 1 .. n + 1 : t[i] = SubSeq(h, 1, n + 1)[i]
  BY <1>2, <1>3, <1>5
<1> HIDE DEF t
<1>7. t = SubSeq(h, 1, n + 1)
  BY <1>3, <1>5, <1>6, SeqEqual
<1> QED
  BY <1>7 DEF t

LEMMA PrefixOfPrefix ==
  ASSUME NEW h \in History, NEW m \in 0 .. Len(h), NEW n \in 0 .. m
  PROVE  SubSeq(SubSeq(h, 1, m), 1, n) = SubSeq(h, 1, n)
<1>1. Len(h) \in Nat /\ \A i \in 1 .. Len(h) : h[i] \in Event
  BY DEF History
<1>2. /\ SubSeq(h, 1, m) \in Seq(Event) /\ Len(SubSeq(h, 1, m)) = m
      /\ \A i \in 1 .. m : SubSeq(h, 1, m)[i] = h[i]
  BY <1>1, SubSeqProperties
<1>3. /\ SubSeq(h, 1, n) \in Seq(Event) /\ Len(SubSeq(h, 1, n)) = n
      /\ \A i \in 1 .. n : SubSeq(h, 1, n)[i] = h[i]
  BY <1>1, SubSeqProperties
<1>4. \A i \in 1 .. n : SubSeq(h, 1, m)[i] \in Event
  BY <1>1, <1>2
<1>5. /\ SubSeq(SubSeq(h, 1, m), 1, n) \in Seq(Event)
      /\ Len(SubSeq(SubSeq(h, 1, m), 1, n)) = n
      /\ \A i \in 1 .. n : SubSeq(SubSeq(h, 1, m), 1, n)[i] = SubSeq(h, 1, m)[i]
  BY <1>4, SubSeqProperties
<1> QED
  BY <1>2, <1>3, <1>5, SeqEqual

-----------------------------------------------------------------------------
\* Files and views

\* A save line of the file f.
IsSave(f, i) == i \in 1 .. Len(f) /\ f[i].kind \in SaveKinds

\* The last save line of f before line i, or the last of the first n lines.
LastBefore(f, n, j) == IsSave(f, j) /\ j <= n /\ \A k \in 1 .. n : IsSave(f, k) => k <= j

\* The file f, whose save lines hold s, begins with a backup and each save
\* line holds the gamestate of the lines before it.
GoodSaves(f, s) ==
  /\ f[1].kind = "backup"
  /\ \A i \in 1 .. Len(f) : IsSave(f, i) =>
       /\ s[i].state = SubSeq(f, 1, i - 1)
       /\ f[i].kind = "backup" => s[i].base = << >>
       /\ f[i].kind = "diff" =>
            \E j \in 1 .. Len(f) : LastBefore(f, i - 1, j) /\ s[i].base = SubSeq(f, 1, j)

\* The view v is one of the file f: its gamestate is that of a prefix, and its
\* binary save is that of the last save line in the prefix.
GoodView(v, f) ==
  /\ v.eog \in 1 .. Len(f)
  /\ v.state = SubSeq(f, 1, v.eog)
  /\ LastBefore(f, v.eog, v.bsl)
  /\ v.bsave = SubSeq(f, 1, v.bsl)

LEMMA ViewTyped ==
  ASSUME NEW v \in View
  PROVE  /\ v.expected \in Nat /\ v.eog \in Nat /\ v.bsl \in Nat
         /\ v.state \in History /\ v.bsave \in History
BY DEF View

LEMMA GoodViewAppend ==
  ASSUME NEW f \in History, NEW e \in Event, NEW v, GoodView(v, f)
  PROVE  GoodView(v, Append(f, e))
<1>1. /\ Len(f) \in Nat /\ Len(Append(f, e)) = Len(f) + 1
      /\ \A i \in 1 .. Len(f) : Append(f, e)[i] = f[i]
  BY AppendProperties DEF History
<1>2. v.eog \in 1 .. Len(f) /\ v.bsl \in 1 .. v.eog
  BY <1>1 DEF GoodView, LastBefore, IsSave
<1>3. /\ SubSeq(Append(f, e), 1, v.eog) = SubSeq(f, 1, v.eog)
      /\ SubSeq(Append(f, e), 1, v.bsl) = SubSeq(f, 1, v.bsl)
  BY <1>1, <1>2, PrefixOfAppend
<1>4. \A i \in 1 .. v.eog : IsSave(Append(f, e), i) <=> IsSave(f, i)
  BY <1>1, <1>2 DEF IsSave
<1>5. LastBefore(Append(f, e), v.eog, v.bsl)
  BY <1>2, <1>4 DEF GoodView, LastBefore
<1>6. v.eog \in 1 .. Len(Append(f, e))
  BY <1>1, <1>2
<1> QED
  BY <1>3, <1>5, <1>6 DEF GoodView

\* Consuming the next line of the file keeps a view good.
LEMMA GoodViewConsumed ==
  ASSUME NEW f \in History, NEW v \in View, GoodView(v, f), v.eog < Len(f)
  PROVE  GoodView(Consumed(v, f[v.eog + 1], v.eog + 1), f)
<1> DEFINE n == v.eog + 1
           e == f[n]
           w == Consumed(v, e, n)
<1>1. /\ Len(f) \in Nat /\ v.eog \in 1 .. Len(f) /\ n \in 1 .. Len(f)
      /\ v.bsl \in 1 .. v.eog /\ v.eog \in 0 .. Len(f) - 1
  BY DEF GoodView, LastBefore, IsSave, History
<1>2. Append(v.state, e) = SubSeq(f, 1, n)
  BY <1>1, PrefixNext DEF GoodView
<1>3. /\ w.state = Append(v.state, e) /\ w.eog = n
      /\ w.bsl = IF e.kind \in SaveKinds THEN n ELSE v.bsl
      /\ w.bsave = IF e.kind \in SaveKinds THEN Append(v.state, e) ELSE v.bsave
  BY DEF Consumed, View
<1> HIDE DEF w
<1>4. LastBefore(f, n, w.bsl)
  <2>1. CASE e.kind \in SaveKinds
    BY <1>1, <1>3, <2>1 DEF LastBefore, IsSave
  <2>2. CASE e.kind \notin SaveKinds
    BY <1>1, <1>3, <2>2 DEF GoodView, LastBefore, IsSave
  <2> QED
    BY <2>1, <2>2
<1>5. w.bsave = SubSeq(f, 1, w.bsl)
  BY <1>2, <1>3 DEF GoodView
<1>6. GoodView(w, f)
  BY <1>1, <1>2, <1>3, <1>4, <1>5 DEF GoodView
<1> QED
  BY <1>6 DEF w

\* Loading a save line gives a good view.
LEMMA GoodViewLoaded ==
  ASSUME FileType, GoodSaves(lines, saved), NEW c \in Nat, NEW k \in SaveLines
  PROVE  GoodView(Loaded(c, k), lines)
<1>1. k \in 1 .. Len(lines) /\ IsSave(lines, k) /\ lines \in History /\ Len(lines) \in Nat
  BY DEF SaveLines, IsSave, FileType, History
<1>2. saved[k].state = SubSeq(lines, 1, k - 1)
  BY <1>1 DEF GoodSaves
<1>3. Append(saved[k].state, lines[k]) = SubSeq(lines, 1, k)
  <2>1. k - 1 \in 0 .. Len(lines) - 1 /\ (k - 1) + 1 = k
    BY <1>1
  <2> QED
    BY <1>1, <1>2, <2>1, PrefixNext
<1>4. LastBefore(lines, k, k)
  BY <1>1 DEF LastBefore
<1> QED
  BY <1>1, <1>3, <1>4 DEF GoodView, Loaded

-----------------------------------------------------------------------------
(***************************************************************************)
(* The invariant: views are good as long as their recovery count is        *)
(* current, and who writes has consumed the whole file.                    *)
(***************************************************************************)

InGame == Playing \cup {"closing"}
Current(p) == view[p].expected = count

ViewsGood ==
  \A p \in Procs : pc[p] \in InGame /\ Current(p) => GoodView(view[p], lines)

WriterAtEnd ==
  \A p \in Procs : pc[p] = "write" =>
    Current(p) /\ view[p].eog = Len(lines) /\ partial /\ status = "save"

ViewInv == GoodSaves(lines, saved) /\ ViewsGood /\ WriterAtEnd

\* A good view depends on the gamestate and the binary save only.
LEMMA GoodViewSame ==
  ASSUME NEW f, NEW v, NEW w, GoodView(v, f),
         w.eog = v.eog, w.state = v.state, w.bsl = v.bsl, w.bsave = v.bsave
  PROVE  GoodView(w, f)
BY DEF GoodView

\* Steps that do not touch the lines of the file.
LEMMA ViewPlain ==
  ASSUME CutInv, ViewInv, NEW p \in Procs, Others(p),
         UNCHANGED <<lines, saved, count>>,
         \A q \in Procs \ {p} : pc[q] = "write" => UNCHANGED <<partial, status>>,
         pc'[p] \in InGame /\ view'[p].expected = count => GoodView(view'[p], lines),
         pc'[p] = "write" => /\ view'[p].expected = count /\ view'[p].eog = Len(lines)
                             /\ partial' /\ status' = "save"
  PROVE  ViewInv'
<1>1. GoodSaves(lines, saved)'
  BY DEF ViewInv
<1>2. ViewsGood'
  <2> SUFFICES ASSUME NEW q \in Procs, pc'[q] \in InGame, view'[q].expected = count
               PROVE  GoodView(view'[q], lines)
    BY DEF ViewsGood, Current
  <2>1. CASE q = p
    BY <2>1
  <2>2. CASE q # p
    BY <2>2 DEF Others, ViewInv, ViewsGood, Current
  <2> QED
    BY <2>1, <2>2
<1>3. WriterAtEnd'
  <2> SUFFICES ASSUME NEW q \in Procs, pc'[q] = "write"
               PROVE  /\ view'[q].expected = count /\ view'[q].eog = Len(lines)
                      /\ partial' /\ status' = "save"
    BY DEF WriterAtEnd, Current
  <2>1. CASE q = p
    BY <2>1
  <2>2. CASE q # p
    BY <2>2 DEF Others, ViewInv, WriterAtEnd, Current
  <2> QED
    BY <2>1, <2>2
<1> QED
  BY <1>1, <1>2, <1>3 DEF ViewInv

LEMMA NotInGame ==
  /\ \A x \in {"launch", "idle", "check", "status", "undo", "header", "sync", "offer",
               "trunc"} : x \notin InGame /\ x # "write"
  /\ {"run", "replay", "savereplay", "ask", "record", "write", "over", "closing"} \subseteq InGame
BY DEF InGame, Playing

LEMMA ViewLoad ==
  ASSUME CutInv, ViewInv, NEW p \in Procs, Load(p)
  PROVE  ViewInv'
<1>0. FileType /\ LocalType
  BY TypeParts DEF CutInv
<1>1. UNCHANGED <<lines, saved, count, partial, status>>
  BY DEF Load, ChooseMode, CheckStatus, UndoQuit, ReadHeader, Sync, fileVars
<1>2. CASE ChooseMode(p) \/ CheckStatus(p) \/ UndoQuit(p) \/ ReadHeader(p)
  <2>1. Others(p) /\ pc'[p] \in {"status", "undo", "header", "check", "sync"}
    BY <1>0, <1>2 DEF ChooseMode, CheckStatus, UndoQuit, ReadHeader, Goto, Others, LocalType
  <2> QED
    BY <1>1, <2>1, NotInGame, ViewPlain
<1>3. CASE Sync(p) /\ BeginRecover(p, Len(lines))
  <2>1. Others(p) /\ pc'[p] \in {"launch", "idle", "check"}
    BY <1>0, <1>3, BeginRecoverMoves, StartOfTurnType
  <2> QED
    BY <1>1, <2>1, NotInGame, ViewPlain
<1>4. CASE Sync(p) /\ ~BeginRecover(p, Len(lines))
  <2>1. PICK k \in SaveLines : view' = [view EXCEPT ![p] = Loaded(@.expected, k)]
    BY <1>4 DEF Sync
  <2>2. Others(p) /\ pc'[p] = "run" /\ view'[p] = Loaded(view[p].expected, k)
    BY <1>0, <1>4, <2>1 DEF Sync, Goto, Others, LocalType
  <2>3. GoodView(view'[p], lines)
    BY <1>0, <2>2, GoodViewLoaded DEF ViewInv, LocalType, View
  <2> QED
    BY <1>1, <2>2, <2>3, NotInGame, ViewPlain
<1> QED
  BY <1>2, <1>3, <1>4 DEF Load

\* The save line that a current process replays fits its binary save: the file
\* never makes it load a diff against anything else.
LEMMA DiffFits ==
  ASSUME CutInv, ViewInv, NEW p \in Procs, ReplaySave(p), Current(p)
  PROVE  LET n == view[p].eog + 1
         IN  /\ n \in SaveLines
             /\ (IF lines[n].kind = "backup" THEN << >> ELSE view[p].bsave) = saved[n].base
<1>0. FileType /\ LocalType
  BY TypeParts DEF CutInv
<1> DEFINE n == view[p].eog + 1
<1>1. pc[p] \in InGame
  BY NotInGame DEF ReplaySave, WantsLine
<1>2. GoodView(view[p], lines)
  BY <1>1 DEF ViewInv, ViewsGood
<1>3. n \in 1 .. Len(lines) /\ lines[n].kind \in SaveKinds /\ n - 1 = view[p].eog
  BY <1>0, <1>2 DEF ReplaySave, HasLine, NextLine, GoodView, FileType
<1>4. IsSave(lines, n) /\ n \in SaveLines
  BY <1>3 DEF IsSave, SaveLines
<1>5. CASE lines[n].kind = "backup"
  BY <1>3, <1>4, <1>5 DEF ViewInv, GoodSaves
<1>6. CASE lines[n].kind = "diff"
  <2>1. PICK j \in 1 .. Len(lines) :
          LastBefore(lines, n - 1, j) /\ saved[n].base = SubSeq(lines, 1, j)
    BY <1>3, <1>4, <1>6 DEF ViewInv, GoodSaves
  <2>2. LastBefore(lines, n - 1, view[p].bsl)
    BY <1>2, <1>3 DEF GoodView
  <2>3. j = view[p].bsl
    BY <2>1, <2>2, <1>0 DEF LastBefore, IsSave, FileType
  <2> QED
    BY <1>2, <1>4, <1>6, <2>1, <2>3 DEF GoodView
<1> QED
  BY <1>3, <1>4, <1>5, <1>6 DEF SaveKinds

LEMMA ViewRead ==
  ASSUME CutInv, ViewInv, NEW p \in Procs, Read(p)
  PROVE  ViewInv'
<1>0. FileType /\ LocalType /\ lines \in History
  BY TypeParts DEF CutInv, FileType, History
<1>1. UNCHANGED <<lines, saved, count, partial, status>>
  BY DEF Read, ReadTorn, ReadOver, SeeLine, ReplayLine, LineVanished, Mismatch, NoLine,
         ReplaySave, NoSaveLine, fileVars
<1>2. CASE Others(p) /\ pc'[p] \in {"launch", "idle", "check"}
  BY <1>1, <1>2, NotInGame, ViewPlain
<1>3. CASE ReadTorn(p) \/ LineVanished(p) \/ Mismatch(p)
  BY <1>0, <1>2, <1>3, BeginRecoverMoves, DesyncMoves, StartOfTurnType
  DEF ReadTorn, LineVanished, Mismatch
<1>4. CASE Exit(p)
  BY <1>0, <1>2, <1>4, LeaveMoves, "idle" \in PCs DEF Exit, PCs
<1>5. CASE BeginRecover(p, StartOfTurn(p))
  BY <1>0, <1>2, <1>5, BeginRecoverMoves, StartOfTurnType
<1>6. CASE \/ SeeLine(p) \/ NoSaveLine(p)
           \/ NoLine(p) /\ ~Exit(p) /\ ~BeginRecover(p, StartOfTurn(p))
  <2>1. /\ Others(p) /\ pc[p] \in InGame /\ pc'[p] # "write"
        /\ view'[p].expected = view[p].expected /\ view'[p].eog = view[p].eog
        /\ view'[p].state = view[p].state /\ view'[p].bsl = view[p].bsl
        /\ view'[p].bsave = view[p].bsave
    BY <1>0, <1>6, NotInGame DEF SeeLine, NoSaveLine, NoLine, WantsLine, Goto, Others, LocalType, View
  <2>2. view'[p].expected = count => GoodView(view'[p], lines)
    BY <2>1, GoodViewSame DEF ViewInv, ViewsGood, Current
  <2> QED
    BY <1>1, <2>1, <2>2, ViewPlain
<1>7. CASE ReplayLine(p)
  <2>1. /\ Others(p) /\ pc[p] \in InGame /\ pc'[p] = "run" /\ view[p].eog < Len(lines)
        /\ view'[p] = Consumed(view[p], lines[view[p].eog + 1], view[p].eog + 1)
    BY <1>0, <1>7, NotInGame
    DEF ReplayLine, WantsLine, HasLine, NextLine, Goto, Others, LocalType
  <2>2. view[p] \in View /\ view[p].eog + 1 \in 1 .. Len(lines) /\ lines[view[p].eog + 1] \in Event
    BY <1>0, <2>1 DEF LocalType, FileType, View
  <2>3. view'[p].expected = view[p].expected
    BY <2>1, <2>2, ConsumedType
  <2>4. view'[p].expected = count => GoodView(view'[p], lines)
    BY <1>0, <2>1, <2>2, <2>3, GoodViewConsumed DEF ViewInv, ViewsGood, Current
  <2> QED
    BY <1>1, <2>1, <2>4, ViewPlain
<1>8. CASE ReplaySave(p) /\ ~Exit(p)
  <2> DEFINE n == view[p].eog + 1
             base == IF lines[n].kind = "backup" THEN << >> ELSE view[p].bsave
             v == [view[p] EXCEPT !.state = Append(base, lines[n]), !.eog = n, !.bsl = n,
                                  !.bsave = Append(base, lines[n]), !.gap = "no"]
  <2>1. /\ Others(p) /\ pc'[p] = "run"
        /\ \/ view'[p] = Loaded(view[p].expected, n)
           \/ base # saved[n].base /\ view'[p] = v
    BY <1>0, <1>8 DEF ReplaySave, Goto, Others, LocalType
  <2>2. v.expected = view[p].expected /\ Loaded(view[p].expected, n).expected = view[p].expected
    BY <1>0 DEF LocalType, View, Loaded
  <2>3. view'[p].expected = count => GoodView(view'[p], lines)
    <3> SUFFICES ASSUME view'[p].expected = count PROVE GoodView(view'[p], lines)
      OBVIOUS
    <3>1. Current(p)
      BY <2>1, <2>2 DEF Current
    <3>2. n \in SaveLines /\ base = saved[n].base
      BY <1>8, <3>1, DiffFits
    <3>3. view'[p] = Loaded(view[p].expected, n)
      BY <2>1, <3>2
    <3> QED
      BY <1>0, <3>2, <3>3, GoodViewLoaded DEF ViewInv, LocalType, View
  <2> QED
    BY <1>1, <2>1, <2>3, ViewPlain
<1> QED
  BY <1>3, <1>4, <1>5, <1>6, <1>7, <1>8 DEF Read, ReadOver

\* A step that changes neither the file nor what p has of it.
LEMMA ViewStays ==
  ASSUME CutInv, ViewInv, NEW p \in Procs, Others(p),
         UNCHANGED <<lines, saved, count>>,
         \A q \in Procs \ {p} : pc[q] = "write" => UNCHANGED <<partial, status>>,
         \/ pc'[p] \notin InGame
         \/ pc[p] \in InGame /\ pc'[p] # "write" /\ view'[p] = view[p]
  PROVE  ViewInv'
<1>1. pc'[p] # "write"
  BY NotInGame
<1>2. pc'[p] \in InGame /\ view'[p].expected = count => GoodView(view'[p], lines)
  BY DEF ViewInv, ViewsGood, Current
<1> QED
  BY <1>1, <1>2, ViewPlain

\* Nobody writes while the file is free, or while somebody else has it.
LEMMA OneWriter ==
  ASSUME CutInv, NEW p \in Procs, Free \/ pc[p] \in {"write", "trunc"}
  PROVE  \A q \in Procs \ {p} : pc[q] # "write" /\ pc[q] # "trunc"
BY NobodyAssumption DEF CutInv, Writers, Free

LEMMA ViewUser ==
  ASSUME CutInv, ViewInv, NEW p \in Procs, User(p)
  PROVE  ViewInv'
<1>0. FileType /\ LocalType
  BY TypeParts DEF CutInv
<1>1. UNCHANGED <<lines, saved, count, partial, status>>
  BY DEF User, Open, Answer, Quit, ServerCancel, Detach, Seek, Decline, fileVars
<1>2. CASE Exit(p)
  BY <1>0, <1>1, <1>2, LeaveMoves, "idle" \in PCs, NotInGame, ViewStays DEF Exit, PCs
<1>3. CASE Refused(p)
  BY <1>0, <1>1, <1>3, RefusedMoves, NotInGame, ViewStays
<1>4. CASE Open(p) \/ Seek(p)
  <2>1. Others(p) /\ pc'[p] \in {"launch", "sync"}
    BY <1>0, <1>4 DEF Open, Seek, Goto, Others, LocalType
  <2> QED
    BY <1>1, <2>1, NotInGame, ViewStays
<1>5. CASE Answer(p) \/ Quit(p) \/ ServerCancel(p)
  <2>1. /\ Others(p) /\ pc[p] = "ask" /\ pc'[p] \in {"record", "run"}
        /\ view'[p] = view[p]
    BY <1>0, <1>5 DEF Answer, Quit, ServerCancel, Goto, Others, LocalType
  <2> QED
    BY <1>1, <2>1, NotInGame, ViewStays
<1> QED
  BY <1>2, <1>3, <1>4, <1>5 DEF User, Detach, Decline

LEMMA ViewFinish ==
  ASSUME CutInv, ViewInv, NEW p \in Procs, Finish(p)
  PROVE  ViewInv'
<1>0. FileType /\ LocalType
  BY TypeParts DEF CutInv
<1>1. UNCHANGED <<lines, saved, count, partial>>
  BY DEF Finish, Die, LogGameOver, Close, fileVars
<1>2. \A q \in Procs \ {p} : pc[q] = "write" => UNCHANGED <<partial, status>>
  BY <1>1, OneWriter DEF Finish, Die, LogGameOver, Close, fileVars
<1>3. CASE Exit(p)
  BY <1>0, <1>1, <1>2, <1>3, LeaveMoves, "idle" \in PCs, NotInGame, ViewStays DEF Exit, PCs
<1>4. CASE Refused(p)
  BY <1>0, <1>1, <1>2, <1>4, RefusedMoves, NotInGame, ViewStays
<1>5. CASE ~Exit(p) /\ ~Refused(p)
  <2>1. /\ Others(p) /\ pc[p] \in {"run", "over"} /\ pc'[p] \in {"record", "closing"}
        /\ view'[p] = view[p]
    BY <1>0, <1>5 DEF Finish, Die, LogGameOver, Close, Goto, Others, LocalType
  <2> QED
    BY <1>1, <1>2, <2>1, NotInGame, ViewStays
<1> QED
  BY <1>3, <1>4, <1>5

LEMMA ViewFault ==
  ASSUME CutInv, ViewInv, NEW p \in Procs, Fault(p)
  PROVE  ViewInv'
<1>0. FileType /\ LocalType
  BY TypeParts DEF CutInv
<1>1. UNCHANGED <<lines, saved, count, status>>
  BY DEF Fault, Panic, WriteFails, Crash, fileVars
<1>2. \A q \in Procs \ {p} : pc[q] = "write" => UNCHANGED <<partial, status>>
  BY <1>1, OneWriter DEF Fault, Panic, WriteFails, Crash, fileVars
<1>3. Others(p) /\ pc'[p] \in {"launch", "idle", "check"}
  <2>1. CASE Panic(p)
    BY <1>0, <2>1, BeginRecoverMoves, StartOfTurnType DEF Panic
  <2>2. CASE WriteFails(p)
    <3>1. PICK o \in Nat : BeginRecover(p, o)
      BY <1>0, <2>2, StartOfTurnType DEF WriteFails
    <3> QED
      BY <1>0, <3>1, BeginRecoverMoves
  <2>3. CASE Crash(p)
    BY <1>0, <2>3, LeaveMoves, "idle" \in PCs DEF Crash, Exit, PCs
  <2> QED
    BY <2>1, <2>2, <2>3 DEF Fault
<1> QED
  BY <1>1, <1>2, <1>3, NotInGame, ViewStays

\* A process begins to write only when it has consumed the file to its end.
LEMMA ViewBegin ==
  ASSUME CutInv, ViewInv, NEW p \in Procs, BeginWrite(p) \/ SaveTurn(p)
  PROVE  ViewInv'
<1>0. FileType /\ LocalType
  BY TypeParts DEF CutInv
<1>1. UNCHANGED <<lines, saved, count, status>> /\ Free
  BY <1>0 DEF BeginWrite, SaveTurn, fileVars
<1>2. \A q \in Procs \ {p} : pc[q] # "write"
  BY <1>1, OneWriter
<1>3. CASE Refused(p)
  BY <1>0, <1>1, <1>2, <1>3, RefusedMoves, NotInGame, ViewStays
<1>4. CASE ~Refused(p) /\ pc'[p] # "write"
  <2>1. /\ Others(p) /\ pc[p] \in {"record", "run"} /\ pc'[p] = "savereplay"
        /\ view'[p] = view[p]
    BY <1>0, <1>4 DEF BeginWrite, SaveTurn, Goto, Others, LocalType
  <2> QED
    BY <1>1, <1>2, <2>1, NotInGame, ViewStays
<1>5. CASE ~Refused(p) /\ pc'[p] = "write"
  <2>1. CanUpdate(p) /\ partial' = TRUE /\ view'[p] = view[p] /\ Others(p)
        /\ pc[p] \in {"record", "run"}
    BY <1>0, <1>5 DEF BeginWrite, SaveTurn, Goto, Others, LocalType
  <2>2. /\ view[p].expected = count /\ view[p].eog = Len(lines) /\ status = "save"
        /\ pc[p] \in InGame
    BY <1>0, <2>1, NotInGame DEF CanUpdate, CountMatches, AtEof, FileType
  <2>3. GoodView(view[p], lines)
    BY <2>2 DEF ViewInv, ViewsGood, Current
  <2> QED
    BY <1>1, <1>2, <2>1, <2>2, <2>3, ViewPlain
<1> QED
  BY <1>3, <1>4, <1>5

LEMMA SavesAppend ==
  ASSUME FileType, NEW e \in Event, NEW c \in Content, GoodSaves(lines, saved),
         e.kind \in SaveKinds => c.state = lines,
         e.kind = "backup" => c.base = << >>,
         e.kind = "diff" => \E j \in 1 .. Len(lines) :
           LastBefore(lines, Len(lines), j) /\ c.base = SubSeq(lines, 1, j)
  PROVE  GoodSaves(Append(lines, e), Append(saved, c))
<1> DEFINE f == Append(lines, e)
           s == Append(saved, c)
           m == Len(lines)
<1>1. /\ lines \in History /\ m \in Nat /\ m >= 1 /\ f \in History /\ Len(f) = m + 1
      /\ f[m + 1] = e /\ \A i \in 1 .. m : f[i] = lines[i]
  BY AppendProperties DEF FileType, History
<1>2. s[m + 1] = c /\ \A i \in 1 .. m : s[i] = saved[i]
  BY AppendProperties DEF FileType
<1>3. \A n \in 0 .. m : SubSeq(f, 1, n) = SubSeq(lines, 1, n)
  BY <1>1, PrefixOfAppend
<1>4. SubSeq(lines, 1, m) = lines
  BY <1>1, SubSeqFull DEF History
<1>5. \A i \in 1 .. m : IsSave(f, i) <=> IsSave(lines, i)
  BY <1>1 DEF IsSave
<1>6. \A n \in 0 .. m, j \in 1 .. m : LastBefore(lines, n, j) => LastBefore(f, n, j)
  BY <1>1, <1>5 DEF LastBefore
<1> HIDE DEF f, s
<1>7. f[1].kind = "backup"
  BY <1>1 DEF GoodSaves
<1>8. ASSUME NEW i \in 1 .. m, IsSave(f, i)
      PROVE  /\ s[i].state = SubSeq(f, 1, i - 1)
             /\ f[i].kind = "backup" => s[i].base = << >>
             /\ f[i].kind = "diff" => \E j \in 1 .. Len(f) :
                  LastBefore(f, i - 1, j) /\ s[i].base = SubSeq(f, 1, j)
  <2>1. /\ saved[i].state = SubSeq(lines, 1, i - 1)
        /\ lines[i].kind = "backup" => saved[i].base = << >>
        /\ lines[i].kind = "diff" => \E j \in 1 .. m :
             LastBefore(lines, i - 1, j) /\ saved[i].base = SubSeq(lines, 1, j)
    BY <1>5, <1>8 DEF GoodSaves
  <2>2. i - 1 \in 0 .. m /\ f[i] = lines[i] /\ s[i] = saved[i]
    BY <1>1, <1>2
  <2>3. CASE f[i].kind = "diff"
    <3>1. PICK j \in 1 .. m : LastBefore(lines, i - 1, j) /\ saved[i].base = SubSeq(lines, 1, j)
      BY <2>1, <2>2, <2>3
    <3>2. j \in 0 .. m /\ j \in 1 .. Len(f)
      BY <1>1
    <3>3. LastBefore(f, i - 1, j) /\ s[i].base = SubSeq(f, 1, j)
      BY <1>3, <1>6, <2>2, <3>1, <3>2
    <3>4. s[i].state = SubSeq(f, 1, i - 1) /\ f[i].kind # "backup"
      BY <1>3, <2>1, <2>2, <2>3
    <3> QED
      BY <3>2, <3>3, <3>4
  <2>4. CASE f[i].kind # "diff"
    BY <1>3, <2>1, <2>2, <2>4
  <2> QED
    BY <2>3, <2>4
<1>9. ASSUME IsSave(f, m + 1)
      PROVE  /\ s[m + 1].state = SubSeq(f, 1, (m + 1) - 1)
             /\ f[m + 1].kind = "backup" => s[m + 1].base = << >>
             /\ f[m + 1].kind = "diff" => \E j \in 1 .. Len(f) :
                  LastBefore(f, (m + 1) - 1, j) /\ s[m + 1].base = SubSeq(f, 1, j)
  <2>1. /\ s[m + 1].state = SubSeq(f, 1, m) /\ (m + 1) - 1 = m
        /\ f[m + 1].kind = "backup" => s[m + 1].base = << >>
    BY <1>1, <1>2, <1>3, <1>4, <1>9 DEF IsSave
  <2>2. CASE f[m + 1].kind = "diff"
    <3>1. PICK j \in 1 .. m : LastBefore(lines, m, j) /\ c.base = SubSeq(lines, 1, j)
      BY <1>1, <2>2
    <3>2. j \in 0 .. m /\ j \in 1 .. Len(f) /\ m \in 0 .. m
      BY <1>1
    <3>3. LastBefore(f, m, j) /\ s[m + 1].base = SubSeq(f, 1, j)
      BY <1>2, <1>3, <1>6, <3>1, <3>2
    <3> QED
      BY <2>1, <3>2, <3>3
  <2> QED
    BY <2>1, <2>2
<1>10. \A i \in 1 .. Len(f) : i \in 1 .. m \/ i = m + 1
  BY <1>1
<1>11. GoodSaves(f, s)
  BY <1>7, <1>8, <1>9, <1>10 DEF GoodSaves
<1> QED
  BY <1>11 DEF f, s

LEMMA ViewEndWrite ==
  ASSUME CutInv, ViewInv, NEW p \in Procs, EndWrite(p)
  PROVE  ViewInv'
<1>0. FileType /\ LocalType /\ lines \in History /\ Len(lines) \in Nat
  BY TypeParts DEF CutInv, FileType, History
<1> DEFINE e == ask[p]
           m == Len(lines)
<1>1. /\ pc[p] = "write" /\ lines' = Append(lines, e) /\ saved' = Append(saved, Written(p))
      /\ pc'[p] # "write" /\ count' = count /\ Others(p)
      /\ view'[p] = Consumed(view[p], e, m + 1)
  BY <1>0 DEF EndWrite, Goto, Others, LocalType
<1>2. Current(p) /\ view[p].eog = m /\ GoodView(view[p], lines)
  BY <1>1, NotInGame DEF ViewInv, WriterAtEnd, ViewsGood
<1>3. view[p] \in View /\ e \in Event /\ Written(p) \in Content
  BY <1>0, EmptyTypes DEF LocalType, Written, Content, View
<1>4. view[p].state = lines
  BY <1>0, <1>2, SubSeqFull DEF GoodView, History
<1>5. GoodSaves(lines', saved')
  <2>1. e.kind = "diff" => \E j \in 1 .. m :
          LastBefore(lines, m, j) /\ Written(p).base = SubSeq(lines, 1, j)
    <3>1. LastBefore(lines, m, view[p].bsl) /\ view[p].bsave = SubSeq(lines, 1, view[p].bsl)
      BY <1>2 DEF GoodView
    <3>2. view[p].bsl \in 1 .. m
      BY <3>1 DEF LastBefore, IsSave
    <3> QED
      BY <3>1, <3>2 DEF Written
  <2>2. e.kind \in SaveKinds => Written(p).state = lines
    BY <1>4 DEF Written, SaveKinds
  <2>3. e.kind = "backup" => Written(p).base = << >>
    BY DEF Written
  <2> QED
    BY <1>0, <1>1, <1>3, <2>1, <2>2, <2>3, SavesAppend DEF ViewInv
<1>6. ViewsGood'
  <2> SUFFICES ASSUME NEW q \in Procs, pc'[q] \in InGame, view'[q].expected = count
               PROVE  GoodView(view'[q], Append(lines, e))
    BY <1>1 DEF ViewsGood, Current
  <2>1. CASE q # p
    <3>1. GoodView(view[q], lines) /\ view'[q] = view[q]
      BY <1>1, <2>1 DEF ViewInv, ViewsGood, Current, Others
    <3> QED
      BY <1>0, <1>3, <3>1, GoodViewAppend
  <2>2. CASE q = p
    <3> DEFINE f == Append(lines, e)
    <3>1. f \in History /\ Len(f) = m + 1 /\ f[m + 1] = e
      BY <1>0, <1>3, AppendProperties DEF History
    <3>2. GoodView(view[p], f)
      BY <1>0, <1>2, <1>3, GoodViewAppend
    <3> HIDE DEF f
    <3>3. GoodView(Consumed(view[p], f[view[p].eog + 1], view[p].eog + 1), f)
      BY <1>0, <1>2, <1>3, <3>1, <3>2, GoodViewConsumed
    <3> QED
      BY <1>1, <1>2, <2>2, <3>1, <3>3 DEF f
  <2> QED
    BY <2>1, <2>2
<1>7. WriterAtEnd'
  BY <1>1, OneWriter DEF WriterAtEnd, Others
<1> QED
  BY <1>5, <1>6, <1>7 DEF ViewInv

\* The file is cut to a prefix, whose save lines hold what they held.
LEMMA SavesCut ==
  ASSUME FileType, GoodSaves(lines, saved), NEW m \in 1 .. Len(lines)
  PROVE  GoodSaves(SubSeq(lines, 1, m), SubSeq(saved, 1, m))
<1> DEFINE f == SubSeq(lines, 1, m)
           s == SubSeq(saved, 1, m)
<1>1. /\ lines \in History /\ Len(lines) \in Nat
      /\ \A i \in 1 .. Len(lines) : lines[i] \in Event /\ saved[i] \in Content
  BY DEF FileType, History
<1>2. Len(f) = m /\ \A i \in 1 .. m : f[i] = lines[i]
  BY <1>1, SubSeqProperties
<1>3. \A i \in 1 .. m : s[i] = saved[i]
  <2>1. \A i \in 1 .. m : saved[i] \in Content
    BY <1>1
  <2>2. \A i \in 1 .. m - 1 + 1 : s[i] = saved[1 + i - 1]
    BY <2>1, <1>1, SubSeqProperties
  <2> QED
    BY <2>2, <1>1
<1>4. \A n \in 0 .. m : SubSeq(f, 1, n) = SubSeq(lines, 1, n)
  BY <1>1, PrefixOfPrefix
<1>5. \A i \in 1 .. m : IsSave(f, i) <=> IsSave(lines, i)
  BY <1>1, <1>2 DEF IsSave
<1>6. \A n \in 0 .. m, j \in 1 .. m : LastBefore(lines, n, j) => LastBefore(f, n, j)
  BY <1>1, <1>5 DEF LastBefore
<1> HIDE DEF f, s
<1>7. f[1].kind = "backup"
  BY <1>1, <1>2 DEF GoodSaves
<1>8. ASSUME NEW i \in 1 .. m, IsSave(f, i)
      PROVE  /\ s[i].state = SubSeq(f, 1, i - 1)
             /\ f[i].kind = "backup" => s[i].base = << >>
             /\ f[i].kind = "diff" => \E j \in 1 .. Len(f) :
                  LastBefore(f, i - 1, j) /\ s[i].base = SubSeq(f, 1, j)
  <2>1. /\ saved[i].state = SubSeq(lines, 1, i - 1)
        /\ lines[i].kind = "backup" => saved[i].base = << >>
        /\ lines[i].kind = "diff" => \E j \in 1 .. Len(lines) :
             LastBefore(lines, i - 1, j) /\ saved[i].base = SubSeq(lines, 1, j)
    BY <1>1, <1>5, <1>8 DEF GoodSaves
  <2>2. i - 1 \in 0 .. m /\ f[i] = lines[i] /\ s[i] = saved[i]
    BY <1>1, <1>2, <1>3
  <2>3. CASE f[i].kind = "diff"
    <3>1. PICK j \in 1 .. Len(lines) :
            LastBefore(lines, i - 1, j) /\ saved[i].base = SubSeq(lines, 1, j)
      BY <2>1, <2>2, <2>3
    <3>2. j \in 1 .. m /\ j \in 0 .. m /\ j \in 1 .. Len(f)
      BY <1>1, <1>2, <3>1 DEF LastBefore
    <3>3. LastBefore(f, i - 1, j) /\ s[i].base = SubSeq(f, 1, j)
      BY <1>4, <1>6, <2>2, <3>1, <3>2
    <3>4. s[i].state = SubSeq(f, 1, i - 1) /\ f[i].kind # "backup"
      BY <1>4, <2>1, <2>2, <2>3
    <3> QED
      BY <3>2, <3>3, <3>4
  <2>4. CASE f[i].kind # "diff"
    BY <1>4, <2>1, <2>2, <2>4
  <2> QED
    BY <2>3, <2>4
<1>9. GoodSaves(f, s)
  BY <1>2, <1>7, <1>8 DEF GoodSaves
<1> QED
  BY <1>9 DEF f, s

LEMMA ViewRecover ==
  ASSUME CutInv, ViewInv, NEW p \in Procs, Recover(p)
  PROVE  ViewInv'
<1>0. FileType /\ LocalType
  BY TypeParts DEF CutInv
<1>1. CASE CheckOffset(p) \/ (LockToRecover(p) /\ ~CountMatches(p))
  <2>1. UNCHANGED <<lines, saved, count, partial, status>>
    BY <1>1 DEF CheckOffset, LockToRecover, fileVars
  <2>2. Others(p) /\ pc'[p] \in {"idle", "launch", "offer"}
    <3>1. CASE Exit(p)
      BY <1>0, <3>1, LeaveMoves, "idle" \in PCs DEF Exit, PCs
    <3>2. CASE Restart(p)
      BY <1>0, <3>2, LeaveMoves, "launch" \in PCs DEF Restart, PCs
    <3>3. CASE ~Exit(p) /\ ~Restart(p)
      BY <1>0, <1>1, <3>3 DEF CheckOffset, LockToRecover, Goto, Others, LocalType
    <3> QED
      BY <3>1, <3>2, <3>3
  <2> QED
    BY <2>1, <2>2, NotInGame, ViewStays
<1>2. CASE LockToRecover(p) /\ CountMatches(p)
  <2>1. /\ Free /\ pc'[p] = "trunc" /\ Others(p) /\ count' = count + 1
        /\ UNCHANGED <<lines, saved>>
    BY <1>0, <1>2 DEF LockToRecover, NextCount, Goto, Others, LocalType
  <2>2. \A q \in Procs \ {p} : view'[q].expected # count'
    BY <1>0, <2>1 DEF CutInv, Counts, Others, LocalType, View, FileType
  <2>3. ViewsGood'
    BY <2>1, <2>2, NotInGame DEF ViewsGood, Current
  <2>4. WriterAtEnd'
    BY <2>1, OneWriter DEF WriterAtEnd, Others
  <2> QED
    BY <2>1, <2>3, <2>4 DEF ViewInv
<1>3. CASE Truncate(p)
  <2>1. /\ pc[p] = "trunc" /\ count' = count /\ off[p] \in 1 .. Len(lines)
        /\ lines' = SubSeq(lines, 1, off[p]) /\ saved' = SubSeq(saved, 1, off[p])
    BY <1>3 DEF Truncate, CutInv, Offers, Cutter
  <2>2. Others(p) /\ pc'[p] \in {"launch", "header"}
    <3>1. CASE mode[p] = "PLAY"
      BY <1>0, <1>3, <3>1, LeaveMoves, "launch" \in PCs DEF Truncate, Restart, PCs
    <3>2. CASE mode[p] # "PLAY"
      BY <1>0, <1>3, <3>2 DEF Truncate, Goto, Others, LocalType
    <3> QED
      BY <3>1, <3>2
  <2>3. \A q \in Procs \ {p} : view'[q].expected # count'
    BY <2>1, <2>2 DEF CutInv, Cutter, Others
  <2>4. GoodSaves(lines', saved')
    BY <1>0, <2>1, SavesCut DEF ViewInv
  <2>5. ViewsGood'
    BY <2>2, <2>3, NotInGame DEF ViewsGood, Current
  <2>6. WriterAtEnd'
    BY <2>1, <2>2, OneWriter DEF WriterAtEnd, Others
  <2> QED
    BY <2>4, <2>5, <2>6 DEF ViewInv
<1> QED
  BY <1>1, <1>2, <1>3 DEF Recover

LEMMA ViewInit == Init => ViewInv
<1> SUFFICES ASSUME Init PROVE ViewInv
  OBVIOUS
<1>1. /\ lines = <<Ev("backup", NoVal)>> /\ saved = <<NoContent>>
      /\ \A p \in Procs : pc[p] = "idle"
  BY DEF Init
<1>2. GoodSaves(lines, saved)
  <2>1. Len(lines) = 1 /\ lines[1].kind = "backup" /\ saved[1].base = << >>
    BY <1>1 DEF Ev, NoContent
  <2>2. saved[1].state = SubSeq(lines, 1, 1 - 1)
    <3>1. saved[1].state = << >>
      BY <1>1 DEF NoContent
    <3>2. SubSeq(lines, 1, 0) = << >>
      BY SubSeqEmpty
    <3> QED
      BY <3>1, <3>2
  <2> QED
    BY <2>1, <2>2 DEF GoodSaves
<1>3. ViewsGood /\ WriterAtEnd
  BY <1>1, NotInGame DEF ViewsGood, WriterAtEnd
<1> QED
  BY <1>2, <1>3 DEF ViewInv

LEMMA ViewNext == CutInv /\ ViewInv /\ [Next]_vars => ViewInv'
<1> SUFFICES ASSUME CutInv, ViewInv, [Next]_vars PROVE ViewInv'
  OBVIOUS
<1>1. CASE UNCHANGED vars
  BY <1>1 DEF vars, ViewInv, ViewsGood, WriterAtEnd, Current
<1>2. ASSUME NEW p \in Procs,
             \/ Load(p) \/ Read(p) \/ Write(p) \/ Finish(p) \/ Recover(p)
             \/ User(p) \/ Fault(p)
      PROVE  ViewInv'
  BY <1>2, ViewLoad, ViewRead, ViewBegin, ViewEndWrite, ViewFinish, ViewRecover, ViewUser,
     ViewFault DEF Write
<1> QED
  BY <1>1, <1>2 DEF Next

\* Whatever the processes do to the file, the views are good: who adds a line
\* has consumed all others (start_updating_logfile), and who has the current
\* recovery count has the gamestate of a prefix.
THEOREM ViewsAreGood == Spec => []ViewInv
BY RecoveryProtocol, ViewInit, ViewNext, PTL DEF Spec

LEMMA SaveLinesAreSaves == \A i : i \in SaveLines <=> IsSave(lines, i)
BY DEF SaveLines, IsSave

\* A process whose recovery count is current has the gamestate of a prefix of
\* the file and a binary save that is in the file (log_sync, log_replay_input,
\* log_replay_save_line), for every engine and any number of processes.
THEOREM ViewsAreCurrent == Spec => []CurrentViews
<1>1. CutInv /\ ViewInv => CurrentViews
  <2> SUFFICES ASSUME CutInv, ViewInv, NEW p \in Procs, pc[p] \in Playing,
                      view[p].expected = count
               PROVE  /\ view[p].eog <= Len(lines)
                      /\ view[p].state = SubSeq(lines, 1, view[p].eog)
                      /\ view[p].bsl \in SaveLines /\ view[p].bsl <= view[p].eog
                      /\ view[p].bsave = SubSeq(lines, 1, view[p].bsl)
    BY DEF CurrentViews
  <2>1. GoodView(view[p], lines) /\ Len(lines) \in Nat
    BY TypeParts DEF CutInv, FileType, ViewInv, ViewsGood, InGame, Current
  <2> QED
    BY <2>1, SaveLinesAreSaves DEF GoodView, LastBefore
<1> QED
  BY <1>1, RecoveryProtocol, ViewsAreGood, PTL

\* A save line holds the gamestate of the lines before it, and a diff was taken
\* against the save line before it (log_neutral_turnstate), whoever wrote it
\* and whatever was recovered in between.
THEOREM SavesAreTrue == Spec => []SavesTruthful
<1>1. CutInv /\ ViewInv => SavesTruthful
  <2> SUFFICES ASSUME CutInv, ViewInv, NEW i \in SaveLines
               PROVE  /\ saved[i].state = SubSeq(lines, 1, i - 1)
                      /\ lines[i].kind = "diff" =>
                           \E j \in SaveLines :
                             /\ j < i /\ \A k \in SaveLines : k < i => k <= j
                             /\ saved[i].base = SubSeq(lines, 1, j)
    BY DEF SavesTruthful
  <2>1. i \in 1 .. Len(lines) /\ IsSave(lines, i) /\ Len(lines) \in Nat
    BY SaveLinesAreSaves, TypeParts DEF SaveLines, CutInv, FileType
  <2>2. /\ saved[i].state = SubSeq(lines, 1, i - 1)
        /\ lines[i].kind = "diff" =>
             \E j \in 1 .. Len(lines) : LastBefore(lines, i - 1, j) /\ saved[i].base = SubSeq(lines, 1, j)
    BY <2>1 DEF ViewInv, GoodSaves
  <2>3. ASSUME NEW j \in 1 .. Len(lines), LastBefore(lines, i - 1, j)
        PROVE  j \in SaveLines /\ j < i /\ \A k \in SaveLines : k < i => k <= j
    BY <2>1, <2>3, SaveLinesAreSaves DEF LastBefore, IsSave
  <2> QED
    BY <2>2, <2>3
<1> QED
  BY <1>1, RecoveryProtocol, ViewsAreGood, PTL

-----------------------------------------------------------------------------
(***************************************************************************)
(* The engine of a process that may write is where the file says.          *)
(***************************************************************************)

\* Each line of the file f is one that the engine accepted.
Accepted(f) == \A i \in 2 .. Len(f) : Legal(SubSeq(f, 1, i - 1), f[i].kind)

\* Only a player is asked.
Asked(p) == pc[p] = "ask" => mode[p] = "PLAY"

\* A player never misses a save line.
NoGap(p) == pc[p] \in Playing /\ mode[p] = "PLAY" /\ Current(p) => view[p].gap = "no"

\* When a player waits for the save line of another process, that line is in
\* the file, or else half a line is which nobody can complete.
SaveComes(p) ==
  pc[p] = "savereplay" /\ mode[p] = "PLAY" /\ Current(p) =>
    /\ Engine(view[p].state) = "save"
    /\ view[p].eog < Len(lines) \/ (partial /\ Free)

\* What is about to be written is what the engine wants.
Acceptable(p) ==
  pc[p] \in {"record", "write"} /\ Current(p) => Legal(view[p].state, ask[p].kind)

LegalAt(p) == Asked(p) /\ NoGap(p) /\ SaveComes(p) /\ Acceptable(p)
LegalInv == Accepted(lines) /\ \A p \in Procs : LegalAt(p)

LEMMA LegalPlain ==
  ASSUME CutInv, LegalInv, NEW p \in Procs, Others(p), UNCHANGED <<lines, count>>,
         partial /\ Free => partial' /\ Free', LegalAt(p)'
  PROVE  LegalInv'
<1>1. ASSUME NEW q \in Procs PROVE LegalAt(q)'
  <2>1. CASE q = p
    BY <2>1
  <2>2. CASE q # p
    BY <2>2 DEF Others, LegalInv, LegalAt, Asked, NoGap, SaveComes, Acceptable, Current
  <2> QED
    BY <2>1, <2>2
<1>2. Accepted(lines)'
  BY DEF LegalInv
<1> QED
  BY <1>1, <1>2 DEF LegalInv

\* Nothing is claimed of a process that does not play.
LEMMA LegalOut ==
  ASSUME NEW p \in Procs, pc'[p] \notin Playing
  PROVE  LegalAt(p)'
BY DEF LegalAt, Asked, NoGap, SaveComes, Acceptable, Playing

LEMMA NotPlaying ==
  /\ \A x \in {"launch", "idle", "check", "status", "undo", "header", "sync", "offer",
               "trunc", "closing"} : x \notin Playing
  /\ {"run", "replay", "savereplay", "ask", "record", "write", "over"} \subseteq Playing
BY DEF Playing

LEMMA LegalLoad ==
  ASSUME CutInv, LegalInv, NEW p \in Procs, Load(p)
  PROVE  LegalInv'
<1>0. FileType /\ LocalType
  BY TypeParts DEF CutInv
<1>1. UNCHANGED <<lines, count, partial, writer>>
  BY DEF Load, ChooseMode, CheckStatus, UndoQuit, ReadHeader, Sync, fileVars
<1>2. CASE ChooseMode(p) \/ CheckStatus(p) \/ UndoQuit(p) \/ ReadHeader(p)
  <2>1. Others(p) /\ pc'[p] \in {"status", "undo", "header", "check", "sync"}
    BY <1>0, <1>2 DEF ChooseMode, CheckStatus, UndoQuit, ReadHeader, Goto, Others, LocalType
  <2> QED
    BY <1>1, <2>1, NotPlaying, LegalOut, LegalPlain DEF Free
<1>3. CASE Sync(p) /\ BeginRecover(p, Len(lines))
  <2>1. Others(p) /\ pc'[p] \in {"launch", "idle", "check"}
    BY <1>0, <1>3, BeginRecoverMoves, StartOfTurnType
  <2> QED
    BY <1>1, <2>1, NotPlaying, LegalOut, LegalPlain DEF Free
<1>4. CASE Sync(p) /\ ~BeginRecover(p, Len(lines))
  <2>1. Others(p) /\ pc'[p] = "run" /\ view'[p].gap = "no"
    BY <1>0, <1>4 DEF Sync, Goto, Others, LocalType, Loaded
  <2>2. LegalAt(p)'
    BY <2>1 DEF LegalAt, Asked, NoGap, SaveComes, Acceptable
  <2> QED
    BY <1>1, <2>1, <2>2, LegalPlain DEF Free
<1> QED
  BY <1>2, <1>3, <1>4 DEF Load

\* The line after what a current process has consumed is what its engine wants.
LEMMA NextAccepted ==
  ASSUME CutInv, ViewInv, LegalInv, NEW p \in Procs, pc[p] \in InGame, Current(p), HasLine(p)
  PROVE  Legal(view[p].state, NextLine(p).kind)
<1>1. GoodView(view[p], lines) /\ Len(lines) \in Nat
  BY TypeParts DEF CutInv, FileType, ViewInv, ViewsGood
<1>2. view[p].eog + 1 \in 2 .. Len(lines) /\ (view[p].eog + 1) - 1 = view[p].eog
  BY <1>1 DEF GoodView, HasLine
<1>3. Legal(SubSeq(lines, 1, (view[p].eog + 1) - 1), lines[view[p].eog + 1].kind)
  BY <1>2 DEF LegalInv, Accepted
<1> QED
  BY <1>1, <1>2, <1>3 DEF GoodView, NextLine

\* So a player finds the save line that it waits for.
LEMMA SaveFound ==
  ASSUME CutInv, ViewInv, LegalInv, NEW p \in Procs, NoSaveLine(p), mode[p] = "PLAY"
  PROVE  ~Current(p)
<1> SUFFICES ASSUME Current(p) PROVE FALSE
  OBVIOUS
<1>1. pc[p] = "savereplay" /\ pc[p] \in InGame
  BY NotInGame DEF NoSaveLine
<1>2. /\ Engine(view[p].state) = "save"
      /\ view[p].eog < Len(lines) \/ (partial /\ Free)
  BY <1>1 DEF LegalInv, LegalAt, SaveComes
<1>3. CASE HasLine(p)
  <2>1. Legal(view[p].state, NextLine(p).kind)
    BY <1>1, <1>3, NextAccepted
  <2>2. NextLine(p).kind \in SaveKinds
    BY <1>2, <2>1 DEF Legal, Matches
  <2> QED
    BY <1>3, <2>2 DEF NoSaveLine
<1>4. CASE ~HasLine(p)
  <2>1. GoodView(view[p], lines) /\ Len(lines) \in Nat
    BY <1>1, TypeParts DEF CutInv, FileType, ViewInv, ViewsGood
  <2>2. view[p].eog = Len(lines) /\ partial
    BY <1>2, <1>4, <2>1 DEF HasLine, GoodView
  <2> QED
    BY <2>2 DEF NoSaveLine, TornAt
<1> QED
  BY <1>3, <1>4

LEMMA LegalRead ==
  ASSUME CutInv, ViewInv, LegalInv, NEW p \in Procs, Read(p)
  PROVE  LegalInv'
<1>0. FileType /\ LocalType
  BY TypeParts DEF CutInv
<1>1. UNCHANGED <<lines, count, partial, writer>>
  BY DEF Read, ReadTorn, ReadOver, SeeLine, ReplayLine, LineVanished, Mismatch, NoLine,
         ReplaySave, NoSaveLine, fileVars
<1>2. CASE Others(p) /\ pc'[p] \in {"launch", "idle", "check"}
  BY <1>1, <1>2, NotPlaying, LegalOut, LegalPlain DEF Free
<1>3. CASE ReadTorn(p) \/ LineVanished(p) \/ Mismatch(p)
  BY <1>0, <1>2, <1>3, BeginRecoverMoves, DesyncMoves, StartOfTurnType
  DEF ReadTorn, LineVanished, Mismatch
<1>4. CASE Exit(p)
  BY <1>0, <1>2, <1>4, LeaveMoves, "idle" \in PCs DEF Exit, PCs
<1>5. CASE BeginRecover(p, StartOfTurn(p))
  BY <1>0, <1>2, <1>5, BeginRecoverMoves, StartOfTurnType
<1>6. CASE SeeLine(p)
  <2>1. /\ Others(p) /\ pc[p] = "run" /\ pc'[p] = "replay"
        /\ view'[p] = view[p] /\ mode'[p] = mode[p]
    BY <1>0, <1>6 DEF SeeLine, WantsLine, Goto, Others, LocalType
  <2>2. LegalAt(p)'
    BY <1>1, <2>1, NotPlaying DEF LegalInv, LegalAt, Asked, NoGap, SaveComes, Acceptable, Current
  <2> QED
    BY <1>1, <2>1, <2>2, LegalPlain DEF Free
<1>7. CASE ReplayLine(p) \/ (ReplaySave(p) /\ ~Exit(p))
  <2>1. Others(p) /\ pc'[p] = "run" /\ view'[p].gap = "no"
    <3>1. CASE ReplayLine(p)
      <4>1. view'[p] = Consumed(view[p], NextLine(p), view[p].eog + 1)
        BY <1>0, <3>1 DEF ReplayLine, LocalType
      <4>2. view'[p].gap = "no"
        BY <1>0, <4>1 DEF Consumed, LocalType, View
      <4> QED
        BY <1>0, <3>1, <4>2 DEF ReplayLine, Goto, Others, LocalType
    <3>2. CASE ReplaySave(p) /\ ~Exit(p)
      <4> DEFINE n == view[p].eog + 1
                 h == Append(IF lines[n].kind = "backup" THEN << >> ELSE view[p].bsave,
                             lines[n])
                 v == [view[p] EXCEPT !.state = h, !.eog = n, !.bsl = n, !.bsave = h,
                                      !.gap = "no"]
      <4>1. /\ Others(p) /\ pc'[p] = "run"
            /\ view'[p] = Loaded(view[p].expected, n) \/ view'[p] = v
        BY <1>0, <3>2 DEF ReplaySave, Goto, Others, LocalType
      <4>2. Loaded(view[p].expected, n).gap = "no" /\ v.gap = "no"
        BY <1>0 DEF Loaded, LocalType, View
      <4> QED
        BY <4>1, <4>2
    <3> QED
      BY <1>7, <3>1, <3>2
  <2>2. LegalAt(p)'
    BY <2>1 DEF LegalAt, Asked, NoGap, SaveComes, Acceptable
  <2> QED
    BY <1>1, <2>1, <2>2, LegalPlain DEF Free
<1>8. CASE NoLine(p) /\ ~Exit(p) /\ ~BeginRecover(p, StartOfTurn(p))
  <2>1. /\ Others(p) /\ pc[p] = "run" /\ view'[p] = view[p] /\ mode'[p] = mode[p]
        /\ \/ pc'[p] = "ask" /\ mode[p] = "PLAY"
           \/ pc'[p] = "record" /\ ask'[p].kind = Needs(p) /\ Needs(p) \in {"time", "input"}
    BY <1>0, <1>8 DEF NoLine, WantsLine, Goto, Others, LocalType, Ev
  <2>2. Needs(p) \in {"time", "input"} => Legal(view[p].state, Needs(p))
    BY DEF Needs, Legal, Matches
  <2>3. LegalAt(p)'
    BY <1>1, <2>1, <2>2, NotPlaying
    DEF LegalInv, LegalAt, Asked, NoGap, SaveComes, Acceptable, Current
  <2> QED
    BY <1>1, <2>1, <2>3, LegalPlain DEF Free
<1>9. CASE NoSaveLine(p)
  <2>1. /\ Others(p) /\ pc'[p] = "run" /\ mode'[p] = mode[p]
        /\ view'[p].expected = view[p].expected
    BY <1>0, <1>9 DEF NoSaveLine, Goto, Others, LocalType, View
  <2>2. mode[p] = "PLAY" => ~Current(p)
    BY <1>9, SaveFound
  <2>3. LegalAt(p)'
    BY <1>1, <2>1, <2>2 DEF LegalAt, Asked, NoGap, SaveComes, Acceptable, Current
  <2> QED
    BY <1>1, <2>1, <2>3, LegalPlain DEF Free
<1> QED
  BY <1>3, <1>4, <1>5, <1>6, <1>7, <1>8, <1>9 DEF Read, ReadOver

LEMMA LegalBegin ==
  ASSUME CutInv, ViewInv, LegalInv, NEW p \in Procs, BeginWrite(p) \/ SaveTurn(p)
  PROVE  LegalInv'
<1>0. FileType /\ LocalType
  BY TypeParts DEF CutInv
<1>1. UNCHANGED <<lines, count>> /\ Free
  BY <1>0 DEF BeginWrite, SaveTurn, fileVars
<1>2. CASE Refused(p)
  <2>1. UNCHANGED <<partial, writer>>
    BY <1>0, <1>2, RefusedMoves DEF BeginWrite, SaveTurn, fileVars, Goto, LocalType
  <2> QED
    BY <1>0, <1>1, <1>2, <2>1, RefusedMoves, NotPlaying, LegalOut, LegalPlain DEF Free
<1>3. CASE ~Refused(p) /\ BeginWrite(p)
  <2>1. /\ Others(p) /\ pc[p] = "record" /\ pc'[p] = "write" /\ ~partial
        /\ view'[p] = view[p] /\ mode'[p] = mode[p] /\ ask'[p] = ask[p]
    BY <1>0, <1>3 DEF BeginWrite, CanUpdate, AtEof, Goto, Others, LocalType
  <2>2. LegalAt(p)'
    BY <1>1, <2>1, NotPlaying DEF LegalInv, LegalAt, Asked, NoGap, SaveComes, Acceptable, Current
  <2> QED
    BY <1>1, <2>1, <2>2, LegalPlain
<1>4. CASE ~Refused(p) /\ SaveTurn(p) /\ pc'[p] = "write"
  <2>1. /\ Others(p) /\ pc[p] = "run" /\ ~partial /\ Needs(p) = "save"
        /\ view'[p] = view[p] /\ mode'[p] = mode[p] /\ ask'[p].kind \in SaveKinds
    BY <1>0, <1>4 DEF SaveTurn, CanUpdate, AtEof, Goto, Others, LocalType, Ev
  <2>2. Legal(view[p].state, ask'[p].kind)
    BY <2>1 DEF Needs, Legal, Matches
  <2>3. LegalAt(p)'
    BY <1>1, <1>4, <2>1, <2>2, NotPlaying
    DEF LegalInv, LegalAt, Asked, NoGap, SaveComes, Acceptable, Current
  <2> QED
    BY <1>1, <2>1, <2>3, LegalPlain
<1>5. CASE ~Refused(p) /\ SaveTurn(p) /\ pc'[p] # "write"
  <2>1. /\ Others(p) /\ pc[p] = "run" /\ pc'[p] = "savereplay" /\ Needs(p) = "save"
        /\ view'[p] = view[p] /\ mode'[p] = mode[p] /\ UNCHANGED <<partial, writer>>
        /\ mode[p] = "PLAY" => ~AtEof(p)
    BY <1>0, <1>5 DEF SaveTurn, fileVars, Goto, Others, LocalType
  <2>2. Engine(view[p].state) = "save"
    BY <2>1 DEF Needs
  <2>3. Current(p) => GoodView(view[p], lines)
    BY <2>1, NotInGame DEF ViewInv, ViewsGood
  <2>4. Current(p) /\ mode[p] = "PLAY" => view[p].eog < Len(lines) \/ partial
    BY <1>0, <2>1, <2>3 DEF AtEof, GoodView, FileType
  <2>5. LegalAt(p)'
    BY <1>1, <2>1, <2>2, <2>4, NotPlaying
    DEF LegalInv, LegalAt, Asked, NoGap, SaveComes, Acceptable, Current, Free
  <2> QED
    BY <1>1, <2>1, <2>5, LegalPlain DEF Free
<1> QED
  BY <1>2, <1>3, <1>4, <1>5

LEMMA LegalEndWrite ==
  ASSUME CutInv, ViewInv, LegalInv, NEW p \in Procs, EndWrite(p)
  PROVE  LegalInv'
<1>0. FileType /\ LocalType /\ lines \in History /\ Len(lines) \in Nat
  BY TypeParts DEF CutInv, FileType, History
<1> DEFINE e == ask[p]
           m == Len(lines)
<1>1. /\ pc[p] = "write" /\ lines' = Append(lines, e) /\ count' = count /\ Others(p)
      /\ pc'[p] \in {"over", "run"} /\ view'[p].gap = "no" /\ e \in Event
  BY <1>0 DEF EndWrite, Goto, Others, LocalType, Consumed, View
<1>2. Current(p) /\ view[p].state = lines
  <2>1. Current(p) /\ view[p].eog = m /\ GoodView(view[p], lines)
    BY <1>1, NotInGame DEF ViewInv, WriterAtEnd, ViewsGood
  <2> QED
    BY <1>0, <2>1, SubSeqFull DEF GoodView, History
<1>3. Legal(lines, e.kind)
  BY <1>1, <1>2 DEF LegalInv, LegalAt, Acceptable
<1>4. Accepted(lines')
  <2> DEFINE f == Append(lines, e)
  <2>1. /\ Len(f) = m + 1 /\ f[m + 1] = e /\ \A i \in 1 .. m : f[i] = lines[i]
    BY <1>0, <1>1, AppendProperties DEF History
  <2>5. \A n \in 0 .. m : SubSeq(f, 1, n) = SubSeq(lines, 1, n)
    BY <1>0, <1>1, PrefixOfAppend
  <2>2. SubSeq(lines, 1, m) = lines
    BY <1>0, SubSeqFull DEF History
  <2> HIDE DEF f
  <2>3. ASSUME NEW i \in 2 .. Len(f) PROVE Legal(SubSeq(f, 1, i - 1), f[i].kind)
    <3>1. CASE i = m + 1
      <4>1. SubSeq(f, 1, i - 1) = lines
        BY <1>0, <2>5, <2>2, <3>1
      <4> QED
        BY <1>3, <2>1, <3>1, <4>1
    <3>2. CASE i # m + 1
      <4>1. i \in 2 .. m /\ i - 1 \in 0 .. m /\ i \in 1 .. m
        BY <1>0, <2>1, <3>2
      <4>2. Legal(SubSeq(lines, 1, i - 1), lines[i].kind)
        BY <4>1 DEF LegalInv, Accepted
      <4> QED
        BY <2>1, <2>5, <4>1, <4>2
    <3> QED
      BY <3>1, <3>2
  <2>4. Accepted(f)
    BY <2>3 DEF Accepted
  <2> QED
    BY <1>1, <2>4 DEF f
<1>5. ASSUME NEW q \in Procs PROVE LegalAt(q)'
  <2>1. CASE q = p
    BY <1>1, <2>1 DEF LegalAt, Asked, NoGap, SaveComes, Acceptable
  <2>2. CASE q # p
    <3>1. Len(lines') = m + 1
      BY <1>0, <1>1, AppendProperties DEF History
    <3>2. ~Free
      BY <1>1, NobodyAssumption DEF CutInv, Writers, Free
    <3>3. view[q].eog < m => view[q].eog < m + 1
      BY <1>0 DEF LocalType, View
    <3> QED
      BY <1>1, <2>2, <3>1, <3>2, <3>3
      DEF Others, LegalInv, LegalAt, Asked, NoGap, SaveComes, Acceptable, Current
  <2> QED
    BY <2>1, <2>2
<1> QED
  BY <1>4, <1>5 DEF LegalInv

LEMMA LegalUser ==
  ASSUME CutInv, ViewInv, LegalInv, NEW p \in Procs, User(p)
  PROVE  LegalInv'
<1>0. FileType /\ LocalType
  BY TypeParts DEF CutInv
<1>1. UNCHANGED <<lines, count, partial, writer>>
  BY DEF User, Open, Answer, Quit, ServerCancel, Detach, Seek, Decline, fileVars
<1>2. CASE Exit(p) \/ Refused(p)
  <2>1. Others(p) /\ pc'[p] \in {"idle", "launch"}
    BY <1>0, <1>2, LeaveMoves, RefusedMoves, "idle" \in PCs DEF Exit, PCs
  <2> QED
    BY <1>1, <2>1, NotPlaying, LegalOut, LegalPlain DEF Free
<1>3. CASE Open(p) \/ Seek(p)
  <2>1. Others(p) /\ pc'[p] \in {"launch", "sync"}
    BY <1>0, <1>3 DEF Open, Seek, Goto, Others, LocalType
  <2> QED
    BY <1>1, <2>1, NotPlaying, LegalOut, LegalPlain DEF Free
<1>4. CASE Answer(p) \/ Quit(p) \/ ServerCancel(p)
  <2>1. /\ Others(p) /\ pc[p] = "ask" /\ view'[p] = view[p] /\ mode'[p] = mode[p]
        /\ \/ pc'[p] = "run"
           \/ pc'[p] = "record" /\ ask'[p].kind \in {Needs(p), "over"}
    BY <1>0, <1>4 DEF Answer, Quit, ServerCancel, Goto, Others, LocalType, Ev
  <2>2. mode[p] = "PLAY" /\ Needs(p) \in {"cmd", "input"}
    BY <2>1 DEF CutInv, Prompts, LegalInv, LegalAt, Asked
  <2>3. Current(p) => view[p].gap = "no"
    BY <2>1, <2>2, NotPlaying DEF LegalInv, LegalAt, NoGap
  <2>4. Current(p) => Legal(view[p].state, Needs(p)) /\ Legal(view[p].state, "over")
    BY <2>2, <2>3 DEF Needs, Legal, Matches
  <2>5. LegalAt(p)'
    BY <1>1, <2>1, <2>3, <2>4 DEF LegalAt, Asked, NoGap, SaveComes, Acceptable, Current
  <2> QED
    BY <1>1, <2>1, <2>5, LegalPlain DEF Free
<1> QED
  BY <1>2, <1>3, <1>4 DEF User, Detach, Decline

LEMMA LegalFinish ==
  ASSUME CutInv, LegalInv, NEW p \in Procs, Finish(p)
  PROVE  LegalInv'
<1>0. FileType /\ LocalType
  BY TypeParts DEF CutInv
<1>1. UNCHANGED <<lines, count, partial, writer>>
  BY DEF Finish, Die, LogGameOver, Close, fileVars
<1>2. CASE Exit(p) \/ Refused(p)
  <2>1. Others(p) /\ pc'[p] \in {"idle", "launch"}
    BY <1>0, <1>2, LeaveMoves, RefusedMoves, "idle" \in PCs DEF Exit, PCs
  <2> QED
    BY <1>1, <2>1, NotPlaying, LegalOut, LegalPlain DEF Free
<1>3. CASE ~Exit(p) /\ ~Refused(p)
  <2>1. /\ Others(p) /\ view'[p] = view[p] /\ mode'[p] = mode[p]
        /\ \/ pc'[p] = "closing"
           \/ /\ pc[p] = "run" /\ pc'[p] = "record"
              /\ Needs(p) = "over" /\ ask'[p].kind = "over"
    BY <1>0, <1>3 DEF Finish, Die, LogGameOver, Close, Goto, Others, LocalType, Ev
  <2>2. Needs(p) = "over" => Legal(view[p].state, "over")
    BY DEF Needs, Legal, Matches
  <2>3. LegalAt(p)'
    BY <1>1, <2>1, <2>2, NotPlaying
    DEF LegalInv, LegalAt, Asked, NoGap, SaveComes, Acceptable, Current
  <2> QED
    BY <1>1, <2>1, <2>3, LegalPlain DEF Free
<1> QED
  BY <1>2, <1>3

LEMMA FaultMoves ==
  ASSUME CutInv, NEW p \in Procs, Fault(p)
  PROVE  /\ Others(p) /\ pc'[p] \in {"launch", "idle", "check"}
         /\ UNCHANGED <<lines, count, status>>
         /\ pc[p] \notin {"write", "trunc"} => UNCHANGED <<partial, writer>>
<1>0. FileType /\ LocalType
  BY TypeParts DEF CutInv
<1>1. Others(p) /\ pc'[p] \in {"launch", "idle", "check"}
  <2>1. CASE Panic(p)
    BY <1>0, <2>1, BeginRecoverMoves, StartOfTurnType DEF Panic
  <2>2. CASE WriteFails(p)
    <3>1. PICK o \in Nat : BeginRecover(p, o)
      BY <1>0, <2>2, StartOfTurnType DEF WriteFails
    <3> QED
      BY <1>0, <3>1, BeginRecoverMoves
  <2>3. CASE Crash(p)
    BY <1>0, <2>3, LeaveMoves, "idle" \in PCs DEF Crash, Exit, PCs
  <2> QED
    BY <2>1, <2>2, <2>3 DEF Fault
<1>2. UNCHANGED <<lines, count, status>>
  BY DEF Fault, Panic, WriteFails, Crash, fileVars
<1>3. pc[p] \notin {"write", "trunc"} => UNCHANGED <<partial, writer>>
  BY DEF Fault, Panic, WriteFails, Crash, fileVars, CutInv, Writers
<1> QED
  BY <1>1, <1>2, <1>3

LEMMA LegalFault ==
  ASSUME CutInv, LegalInv, NEW p \in Procs, Fault(p)
  PROVE  LegalInv'
<1>1. partial /\ Free => partial' /\ Free'
  <2>1. Free => pc[p] \notin {"write", "trunc"}
    BY NobodyAssumption DEF CutInv, Writers, Free
  <2> QED
    BY <2>1, FaultMoves DEF Free
<1> QED
  BY <1>1, FaultMoves, NotPlaying, LegalOut, LegalPlain

LEMMA AcceptedPrefix ==
  ASSUME FileType, Accepted(lines), NEW m \in 1 .. Len(lines)
  PROVE  Accepted(SubSeq(lines, 1, m))
<1> DEFINE f == SubSeq(lines, 1, m)
<1>1. lines \in History /\ Len(lines) \in Nat /\ \A i \in 1 .. Len(lines) : lines[i] \in Event
  BY DEF FileType, History
<1>2. Len(f) = m /\ \A i \in 1 .. m : f[i] = lines[i]
  BY <1>1, SubSeqProperties
<1>3. \A n \in 0 .. m : SubSeq(f, 1, n) = SubSeq(lines, 1, n)
  BY <1>1, PrefixOfPrefix
<1> HIDE DEF f
<1>4. ASSUME NEW i \in 2 .. m PROVE Legal(SubSeq(f, 1, i - 1), f[i].kind)
  <2>1. i \in 2 .. Len(lines) /\ i - 1 \in 0 .. m /\ i \in 1 .. m
    BY <1>1
  <2>2. Legal(SubSeq(lines, 1, i - 1), lines[i].kind)
    BY <2>1 DEF Accepted
  <2> QED
    BY <1>2, <1>3, <2>1, <2>2
<1>5. Accepted(f)
  BY <1>2, <1>4 DEF Accepted
<1> QED
  BY <1>5 DEF f

\* What CheckOffset, LockToRecover and Truncate do to the rest.
LEMMA RecoverMoves ==
  ASSUME CutInv, NEW p \in Procs, Recover(p)
  PROVE  /\ Others(p) /\ pc'[p] \in {"idle", "launch", "offer", "trunc", "header"}
         /\ \/ UNCHANGED <<lines, count, partial, status, writer>> /\ pc'[p] # "trunc"
            \/ /\ Free /\ lines' = lines /\ count' = count + 1 /\ pc'[p] = "trunc"
               /\ status' = "save" /\ partial' = partial
               /\ \A q \in Procs \ {p} : view'[q].expected # count'
            \/ /\ pc[p] = "trunc" /\ pc'[p] # "trunc" /\ count' = count /\ status' = status
               /\ ~partial' /\ off[p] \in 1 .. Len(lines) /\ lines' = SubSeq(lines, 1, off[p])
               /\ \A q \in Procs \ {p} : view'[q].expected # count'
<1>0. FileType /\ LocalType
  BY TypeParts DEF CutInv
<1>1. CASE CheckOffset(p) \/ (LockToRecover(p) /\ ~CountMatches(p))
  <2>1. UNCHANGED <<lines, count, partial, status, writer>>
    BY <1>1 DEF CheckOffset, LockToRecover, fileVars
  <2>2. Others(p) /\ pc'[p] \in {"idle", "launch", "offer"}
    <3>1. CASE Exit(p)
      BY <1>0, <3>1, LeaveMoves, "idle" \in PCs DEF Exit, PCs
    <3>2. CASE Restart(p)
      BY <1>0, <3>2, LeaveMoves, "launch" \in PCs DEF Restart, PCs
    <3>3. CASE ~Exit(p) /\ ~Restart(p)
      BY <1>0, <1>1, <3>3 DEF CheckOffset, LockToRecover, Goto, Others, LocalType
    <3> QED
      BY <3>1, <3>2, <3>3
  <2> QED
    BY <2>1, <2>2
<1>2. CASE LockToRecover(p) /\ CountMatches(p)
  <2>1. /\ Free /\ pc'[p] = "trunc" /\ Others(p) /\ count' = count + 1
        /\ lines' = lines /\ status' = "save" /\ partial' = partial
    BY <1>0, <1>2 DEF LockToRecover, NextCount, RecoveredStatus, Goto, Others, LocalType
  <2>2. \A q \in Procs \ {p} : view'[q].expected # count'
    BY <1>0, <2>1 DEF CutInv, Counts, Others, LocalType, View, FileType
  <2> QED
    BY <2>1, <2>2
<1>3. CASE Truncate(p)
  <2>1. /\ pc[p] = "trunc" /\ count' = count /\ off[p] \in 1 .. Len(lines)
        /\ lines' = SubSeq(lines, 1, off[p]) /\ status' = status /\ ~partial'
    BY <1>3 DEF Truncate, CutInv, Offers, Cutter
  <2>2. Others(p) /\ pc'[p] \in {"launch", "header"}
    <3>1. CASE mode[p] = "PLAY"
      BY <1>0, <1>3, <3>1, LeaveMoves, "launch" \in PCs DEF Truncate, Restart, PCs
    <3>2. CASE mode[p] # "PLAY"
      BY <1>0, <1>3, <3>2 DEF Truncate, Goto, Others, LocalType
    <3> QED
      BY <3>1, <3>2
  <2>3. \A q \in Procs \ {p} : view'[q].expected # count'
    BY <2>1, <2>2 DEF CutInv, Cutter, Others
  <2> QED
    BY <2>1, <2>2, <2>3
<1> QED
  BY <1>1, <1>2, <1>3 DEF Recover

LEMMA LegalRecover ==
  ASSUME CutInv, LegalInv, NEW p \in Procs, Recover(p)
  PROVE  LegalInv'
<1>0. FileType
  BY TypeParts DEF CutInv
<1>1. pc'[p] \notin Playing /\ Others(p)
  BY RecoverMoves, NotPlaying
<1>2. CASE UNCHANGED <<lines, count, partial, status, writer>>
  BY <1>1, <1>2, LegalOut, LegalPlain DEF Free
<1>3. CASE ~UNCHANGED <<lines, count, partial, status, writer>>
  <2>1. /\ \A q \in Procs \ {p} : view'[q].expected # count'
        /\ lines' = lines \/ \E m \in 1 .. Len(lines) : lines' = SubSeq(lines, 1, m)
    BY <1>3, RecoverMoves
  <2>2. Accepted(lines')
    BY <1>0, <2>1, AcceptedPrefix DEF LegalInv
  <2>3. ASSUME NEW q \in Procs PROVE LegalAt(q)'
    <3>1. CASE q = p
      BY <1>1, <3>1, LegalOut
    <3>2. CASE q # p
      BY <1>1, <2>1, <3>2
      DEF Others, LegalInv, LegalAt, Asked, NoGap, SaveComes, Acceptable, Current
    <3> QED
      BY <3>1, <3>2
  <2> QED
    BY <2>2, <2>3 DEF LegalInv
<1> QED
  BY <1>2, <1>3

LEMMA LegalInit == Init => LegalInv
<1> SUFFICES ASSUME Init PROVE LegalInv
  OBVIOUS
<1>1. Accepted(lines)
  <2>1. Len(lines) = 1
    BY DEF Init
  <2> QED
    BY <2>1 DEF Accepted
<1>2. \A p \in Procs : LegalAt(p)
  BY NotPlaying DEF Init, LegalAt, Asked, NoGap, SaveComes, Acceptable
<1> QED
  BY <1>1, <1>2 DEF LegalInv

LEMMA LegalNext == CutInv /\ ViewInv /\ LegalInv /\ [Next]_vars => LegalInv'
<1> SUFFICES ASSUME CutInv, ViewInv, LegalInv, [Next]_vars PROVE LegalInv'
  OBVIOUS
<1>1. CASE UNCHANGED vars
  BY <1>1 DEF vars, LegalInv, LegalAt, Asked, NoGap, SaveComes, Acceptable, Current, Free
<1>2. ASSUME NEW p \in Procs,
             \/ Load(p) \/ Read(p) \/ Write(p) \/ Finish(p) \/ Recover(p)
             \/ User(p) \/ Fault(p)
      PROVE  LegalInv'
  BY <1>2, LegalLoad, LegalRead, LegalBegin, LegalEndWrite, LegalFinish, LegalRecover,
     LegalUser, LegalFault DEF Write
<1> QED
  BY <1>1, <1>2 DEF Next

\* Who writes to the file writes what the engine wants after the lines in it.
THEOREM LegalSteps == Spec => []LegalInv
BY RecoveryProtocol, ViewsAreGood, LegalInit, LegalNext, PTL DEF Spec

\* The file can be replayed: each line is what the engine wanted after the
\* lines before it (start_updating_logfile, log_recover_core), for every engine.
THEOREM FileIsReplayable == Spec => []Replayable
<1>1. ViewInv /\ LegalInv => Replayable
  BY DEF ViewInv, GoodSaves, LegalInv, Accepted, Replayable
<1> QED
  BY <1>1, ViewsAreGood, LegalSteps, PTL

-----------------------------------------------------------------------------
(***************************************************************************)
(* The end of the game.                                                    *)
(***************************************************************************)

\* Nothing follows the end.
LastOver(f) == \A i \in 1 .. Len(f) - 1 : f[i].kind # "over"

HeaderDone == status = "done" => lines[Len(lines)].kind = "over" /\ ~partial

\* Who plays on has not consumed the end, who ends the game has written it.
PlaysOn(p) == pc[p] \in Playing \ {"over"} /\ Current(p) =>
  lines[view[p].eog].kind # "over"
EndsGame(p) == pc[p] \in {"over", "closing"} /\ Current(p)
Ends(p) == EndsGame(p) => lines[view[p].eog].kind = "over"

\* The line that is about to be replayed is input or a time line.
Replayed(p) == pc[p] = "replay" => Needs(p) \in {"input", "time"}

\* A recovery takes the end back before it cuts.
CutsPlayed(p) == pc[p] = "trunc" => status = "save"

OverAt(p) == PlaysOn(p) /\ Ends(p) /\ Replayed(p) /\ CutsPlayed(p)
EndsAlone == \A p, q \in Procs : EndsGame(p) /\ EndsGame(q) => p = q

OverInv == /\ LastOver(lines) /\ HeaderDone /\ EndsAlone
           /\ \A p \in Procs : OverAt(p)

\* A step of p that neither changes the lines nor ends the game.
LEMMA OverPlain ==
  ASSUME CutInv, OverInv, NEW p \in Procs, Others(p), UNCHANGED <<lines, count, status>>,
         status = "done" => partial' = partial,
         pc'[p] \notin {"over", "closing", "trunc"},
         pc'[p] \in Playing /\ Current(p)' => lines[view'[p].eog].kind # "over",
         Replayed(p)'
  PROVE  OverInv'
<1>1. ASSUME NEW q \in Procs PROVE OverAt(q)'
  <2>1. CASE q = p
    BY <2>1 DEF OverAt, PlaysOn, Ends, EndsGame, CutsPlayed
  <2>2. CASE q # p
    BY <2>2 DEF Others, OverInv, OverAt, PlaysOn, Ends, EndsGame, Replayed, CutsPlayed,
                Current, Needs
  <2> QED
    BY <2>1, <2>2
<1>2. EndsAlone'
  BY DEF Others, OverInv, EndsAlone, EndsGame, Current
<1>3. LastOver(lines)' /\ HeaderDone'
  BY DEF OverInv, HeaderDone
<1> QED
  BY <1>1, <1>2, <1>3 DEF OverInv

\* Nothing is claimed of a process that has left the game.
LEMMA OverOut ==
  ASSUME CutInv, OverInv, NEW p \in Procs, Others(p), UNCHANGED <<lines, count, status>>,
         status = "done" => partial' = partial,
         pc'[p] \in {"launch", "idle", "check", "status", "undo", "header", "sync", "offer"}
  PROVE  OverInv'
<1>1. /\ pc'[p] \notin Playing /\ pc'[p] \notin {"over", "closing", "trunc"}
      /\ pc'[p] # "replay"
  BY NotPlaying
<1> QED
  BY <1>1, OverPlain DEF Replayed

\* A process plays on with what it has consumed.
LEMMA OverOn ==
  ASSUME CutInv, OverInv, NEW p \in Procs, Others(p), UNCHANGED <<lines, count, status>>,
         status = "done" => partial' = partial,
         pc[p] \in Playing \ {"over"}, pc'[p] \in Playing \ {"over", "replay"},
         view'[p].expected = view[p].expected, view'[p].eog = view[p].eog
  PROVE  OverInv'
<1>1. pc'[p] \notin {"over", "closing", "trunc"} /\ pc'[p] # "replay"
  BY DEF Playing
<1>2. pc'[p] \in Playing /\ Current(p)' => lines[view'[p].eog].kind # "over"
  BY DEF OverInv, OverAt, PlaysOn, Current
<1> QED
  BY <1>1, <1>2, OverPlain DEF Replayed

LEMMA OverLoad ==
  ASSUME CutInv, OverInv, NEW p \in Procs, Load(p)
  PROVE  OverInv'
<1>0. FileType /\ LocalType
  BY TypeParts DEF CutInv
<1>1. UNCHANGED <<lines, count, partial, status>>
  BY DEF Load, ChooseMode, CheckStatus, UndoQuit, ReadHeader, Sync, fileVars
<1>2. CASE ChooseMode(p) \/ CheckStatus(p) \/ UndoQuit(p) \/ ReadHeader(p)
  <2>1. Others(p) /\ pc'[p] \in {"status", "undo", "header", "check", "sync"}
    BY <1>0, <1>2 DEF ChooseMode, CheckStatus, UndoQuit, ReadHeader, Goto, Others, LocalType
  <2> QED
    BY <1>1, <2>1, OverOut
<1>3. CASE Sync(p) /\ BeginRecover(p, Len(lines))
  <2>1. Others(p) /\ pc'[p] \in {"launch", "idle", "check"}
    BY <1>0, <1>3, BeginRecoverMoves, StartOfTurnType
  <2> QED
    BY <1>1, <2>1, OverOut
<1>4. CASE Sync(p) /\ ~BeginRecover(p, Len(lines))
  <2>1. PICK k \in SaveLines : view' = [view EXCEPT ![p] = Loaded(@.expected, k)]
    BY <1>4 DEF Sync
  <2>2. Others(p) /\ pc'[p] = "run" /\ view'[p].eog = k
    BY <1>0, <1>4, <2>1 DEF Sync, Goto, Others, LocalType, Loaded
  <2>3. lines[k].kind # "over"
    BY DEF SaveLines, SaveKinds
  <2> QED
    BY <1>1, <2>2, <2>3, OverPlain DEF Replayed
<1> QED
  BY <1>2, <1>3, <1>4 DEF Load

LEMMA OverRead ==
  ASSUME CutInv, OverInv, NEW p \in Procs, Read(p)
  PROVE  OverInv'
<1>0. FileType /\ LocalType
  BY TypeParts DEF CutInv
<1>1. UNCHANGED <<lines, count, partial, status>>
  BY DEF Read, ReadTorn, ReadOver, SeeLine, ReplayLine, LineVanished, Mismatch, NoLine,
         ReplaySave, NoSaveLine, fileVars
<1>2. CASE Others(p) /\ pc'[p] \in {"launch", "idle", "check"}
  BY <1>1, <1>2, OverOut
<1>3. CASE ReadTorn(p) \/ LineVanished(p) \/ Mismatch(p)
  BY <1>0, <1>2, <1>3, BeginRecoverMoves, DesyncMoves, StartOfTurnType
  DEF ReadTorn, LineVanished, Mismatch
<1>4. CASE Exit(p)
  BY <1>0, <1>2, <1>4, LeaveMoves, "idle" \in PCs DEF Exit, PCs
<1>5. CASE BeginRecover(p, StartOfTurn(p))
  BY <1>0, <1>2, <1>5, BeginRecoverMoves, StartOfTurnType
<1>6. CASE \/ NoSaveLine(p)
           \/ NoLine(p) /\ ~Exit(p) /\ ~BeginRecover(p, StartOfTurn(p))
  <2>1. /\ Others(p) /\ pc[p] \in {"savereplay", "run"} /\ pc'[p] \in {"run", "ask", "record"}
        /\ view'[p].expected = view[p].expected /\ view'[p].eog = view[p].eog
    BY <1>0, <1>6 DEF NoSaveLine, NoLine, WantsLine, Goto, Others, LocalType, View
  <2>2. pc[p] \in Playing \ {"over"} /\ pc'[p] \in Playing \ {"over", "replay"}
    BY <2>1, NotPlaying
  <2> QED
    BY <1>1, <2>1, <2>2, OverOn
<1>7. CASE SeeLine(p)
  <2>1. /\ Others(p) /\ pc[p] = "run" /\ pc'[p] = "replay" /\ view'[p] = view[p]
        /\ Needs(p) \in {"input", "time"}
    BY <1>0, <1>7 DEF SeeLine, WantsLine, Goto, Others, LocalType
  <2>2. Needs(p)' \in {"input", "time"}
    BY <2>1 DEF Needs
  <2>3. Current(p)' => lines[view'[p].eog].kind # "over"
    BY <1>1, <2>1, NotPlaying DEF OverInv, OverAt, PlaysOn, Current
  <2> QED
    BY <1>1, <2>1, <2>2, <2>3, OverPlain DEF Replayed
<1>8. CASE ReplayLine(p) \/ (ReplaySave(p) /\ ~Exit(p))
  <2>1. /\ Others(p) /\ pc'[p] = "run" /\ view'[p].eog = view[p].eog + 1
        /\ NextLine(p).kind # "over"
    <3>1. CASE ReplayLine(p)
      <4>1. view'[p] = Consumed(view[p], NextLine(p), view[p].eog + 1)
        BY <1>0, <3>1 DEF ReplayLine, LocalType
      <4>2. view'[p].eog = view[p].eog + 1
        BY <1>0, <4>1 DEF Consumed, LocalType, View
      <4>3. Needs(p) # "over"
        BY <3>1 DEF ReplayLine, OverInv, OverAt, Replayed
      <4> QED
        BY <1>0, <3>1, <4>2, <4>3 DEF ReplayLine, Goto, Others, LocalType
    <3>2. CASE ReplaySave(p) /\ ~Exit(p)
      <4> DEFINE n == view[p].eog + 1
                 h == Append(IF lines[n].kind = "backup" THEN << >> ELSE view[p].bsave,
                             lines[n])
                 v == [view[p] EXCEPT !.state = h, !.eog = n, !.bsl = n, !.bsave = h,
                                      !.gap = "no"]
      <4>1. /\ Others(p) /\ pc'[p] = "run" /\ NextLine(p).kind \in SaveKinds
            /\ view'[p] = Loaded(view[p].expected, n) \/ view'[p] = v
        BY <1>0, <3>2 DEF ReplaySave, Goto, Others, LocalType
      <4>2. Loaded(view[p].expected, n).eog = n /\ v.eog = n
        BY <1>0 DEF Loaded, LocalType, View
      <4> QED
        BY <4>1, <4>2 DEF SaveKinds
    <3> QED
      BY <1>8, <3>1, <3>2
  <2>2. lines[view'[p].eog].kind # "over"
    BY <2>1 DEF NextLine
  <2> QED
    BY <1>1, <2>1, <2>2, OverPlain DEF Replayed
<1> QED
  BY <1>3, <1>4, <1>5, <1>6, <1>7, <1>8 DEF Read, ReadOver

LEMMA OverBegin ==
  ASSUME CutInv, OverInv, NEW p \in Procs, BeginWrite(p) \/ SaveTurn(p)
  PROVE  OverInv'
<1>0. FileType /\ LocalType
  BY TypeParts DEF CutInv
<1>1. UNCHANGED <<lines, count, status>>
  BY <1>0 DEF BeginWrite, SaveTurn, fileVars
<1>2. CASE Refused(p)
  <2>1. UNCHANGED partial
    BY <1>0, <1>2, RefusedMoves DEF BeginWrite, SaveTurn, fileVars, Goto, LocalType
  <2> QED
    BY <1>0, <1>1, <1>2, <2>1, RefusedMoves, OverOut
<1>3. CASE ~Refused(p)
  <2>1. /\ Others(p) /\ pc[p] \in {"record", "run"} /\ pc'[p] \in {"write", "savereplay"}
        /\ view'[p] = view[p]
        /\ status = "done" => partial' = partial
    BY <1>0, <1>3 DEF BeginWrite, SaveTurn, CanUpdate, fileVars, Goto, Others, LocalType
  <2>2. pc[p] \in Playing \ {"over"} /\ pc'[p] \in Playing \ {"over", "replay"}
    BY <2>1, NotPlaying
  <2> QED
    BY <1>1, <2>1, <2>2, OverOn
<1> QED
  BY <1>2, <1>3

LEMMA OverUser ==
  ASSUME CutInv, OverInv, NEW p \in Procs, User(p)
  PROVE  OverInv'
<1>0. FileType /\ LocalType
  BY TypeParts DEF CutInv
<1>1. UNCHANGED <<lines, count, partial, status>>
  BY DEF User, Open, Answer, Quit, ServerCancel, Detach, Seek, Decline, fileVars
<1>2. CASE Exit(p) \/ Refused(p)
  <2>1. Others(p) /\ pc'[p] \in {"idle", "launch"}
    BY <1>0, <1>2, LeaveMoves, RefusedMoves, "idle" \in PCs DEF Exit, PCs
  <2> QED
    BY <1>1, <2>1, OverOut
<1>3. CASE Open(p) \/ Seek(p)
  <2>1. Others(p) /\ pc'[p] \in {"launch", "sync"}
    BY <1>0, <1>3 DEF Open, Seek, Goto, Others, LocalType
  <2> QED
    BY <1>1, <2>1, OverOut
<1>4. CASE Answer(p) \/ Quit(p) \/ ServerCancel(p)
  <2>1. /\ Others(p) /\ pc[p] = "ask" /\ pc'[p] \in {"record", "run"}
        /\ view'[p] = view[p]
    BY <1>0, <1>4 DEF Answer, Quit, ServerCancel, Goto, Others, LocalType
  <2>2. pc[p] \in Playing \ {"over"} /\ pc'[p] \in Playing \ {"over", "replay"}
    BY <2>1, NotPlaying
  <2> QED
    BY <1>1, <2>1, <2>2, OverOn
<1> QED
  BY <1>2, <1>3, <1>4 DEF User, Detach, Decline

LEMMA OverFinish ==
  ASSUME CutInv, ViewInv, OverInv, NEW p \in Procs, Finish(p)
  PROVE  OverInv'
<1>0. FileType /\ LocalType
  BY TypeParts DEF CutInv
<1>1. UNCHANGED <<lines, count, partial>>
  BY DEF Finish, Die, LogGameOver, Close, fileVars
<1>2. CASE Exit(p) \/ Refused(p)
  <2>1. Others(p) /\ pc'[p] \in {"idle", "launch"}
    BY <1>0, <1>2, LeaveMoves, RefusedMoves, "idle" \in PCs DEF Exit, PCs
  <2>2. status' = status
    BY <1>0, <1>2, <2>1 DEF Finish, Die, LogGameOver, Close, fileVars, Goto, LocalType
  <2> QED
    BY <1>1, <2>1, <2>2, OverOut
<1>3. CASE Die(p) /\ ~Exit(p)
  <2>1. /\ Others(p) /\ pc[p] = "run" /\ pc'[p] = "record" /\ view'[p] = view[p]
        /\ status' = status
    BY <1>0, <1>3 DEF Die, fileVars, Goto, Others, LocalType
  <2>2. pc[p] \in Playing \ {"over"} /\ pc'[p] \in Playing \ {"over", "replay"}
    BY <2>1, NotPlaying
  <2> QED
    BY <1>1, <2>1, <2>2, OverOn
<1>4. CASE LogGameOver(p) /\ ~Refused(p)
  <2>1. /\ Others(p) /\ pc[p] = "over" /\ pc'[p] = "closing" /\ view'[p] = view[p]
        /\ CanUpdate(p) /\ Free /\ status' = "done"
    BY <1>0, <1>4 DEF LogGameOver, Goto, Others, LocalType
  <2>2. EndsGame(p) /\ view[p].eog = Len(lines) /\ ~partial
    BY <2>1 DEF CanUpdate, CountMatches, AtEof, EndsGame, Current
  <2>3. lines[view[p].eog].kind = "over"
    BY <2>2 DEF OverInv, OverAt, Ends
  <2>4. ASSUME NEW q \in Procs PROVE OverAt(q)'
    <3>1. CASE q = p
      BY <1>1, <2>1, <2>3, <3>1, NotPlaying
      DEF OverAt, PlaysOn, Ends, Replayed, CutsPlayed, Playing
    <3>2. CASE q # p
      BY <1>1, <2>1, <3>2, OneWriter
      DEF Others, OverInv, OverAt, PlaysOn, Ends, EndsGame, Replayed, CutsPlayed, Current, Needs
    <3> QED
      BY <3>1, <3>2
  <2>5. EndsAlone'
    <3> SUFFICES ASSUME NEW a \in Procs, NEW b \in Procs, EndsGame(a)', EndsGame(b)'
                 PROVE  a = b
      BY DEF EndsAlone
    <3>1. EndsGame(a) /\ EndsGame(b)
      BY <1>1, <2>1, <2>2 DEF Others, EndsGame, Current
    <3> QED
      BY <3>1 DEF OverInv, EndsAlone
  <2>6. LastOver(lines)' /\ HeaderDone'
    BY <1>1, <2>2, <2>3 DEF OverInv, HeaderDone
  <2> QED
    BY <2>4, <2>5, <2>6 DEF OverInv
<1> QED
  BY <1>2, <1>3, <1>4 DEF Finish, Close

\* The end is written by the only process that can end the game.
LEMMA OverEndWrite ==
  ASSUME CutInv, ViewInv, OverInv, NEW p \in Procs, EndWrite(p)
  PROVE  OverInv'
<1>0. FileType /\ LocalType /\ lines \in History /\ Len(lines) \in Nat
  BY TypeParts DEF CutInv, FileType, History
<1> DEFINE e == ask[p]
           m == Len(lines)
<1>1. /\ pc[p] = "write" /\ lines' = Append(lines, e) /\ count' = count /\ Others(p)
      /\ pc'[p] = (IF e.kind = "over" THEN "over" ELSE "run")
      /\ view'[p].eog = m + 1 /\ e \in Event /\ status' = status
  BY <1>0 DEF EndWrite, Goto, Others, LocalType, Consumed, View
<1>2. Current(p) /\ view[p].eog = m /\ status = "save" /\ pc[p] \in Playing \ {"over"}
  BY <1>1, NotPlaying DEF ViewInv, WriterAtEnd
<1>3. lines[m].kind # "over"
  BY <1>2 DEF OverInv, OverAt, PlaysOn
<1>4. Len(lines') = m + 1 /\ lines'[m + 1] = e /\ \A i \in 1 .. m : lines'[i] = lines[i]
  BY <1>0, <1>1, AppendProperties DEF History
<1>5. LastOver(lines')
  <2>1. \A i \in 1 .. m : i \in 1 .. m - 1 \/ i = m
    BY <1>0
  <2>2. \A i \in 1 .. m : lines[i].kind # "over"
    BY <1>3, <2>1 DEF OverInv, LastOver
  <2>3. Len(lines') - 1 = m
    BY <1>0, <1>4
  <2> QED
    BY <1>4, <2>2, <2>3 DEF LastOver
<1>6. ASSUME NEW q \in Procs, pc[q] \in InGame, Current(q)
      PROVE  view[q].eog \in 1 .. m /\ lines[view[q].eog].kind # "over"
  <2>1. view[q].eog \in 1 .. m
    BY <1>6 DEF ViewInv, ViewsGood, GoodView
  <2>2. CASE view[q].eog = m
    BY <1>3, <2>1, <2>2
  <2>3. CASE view[q].eog # m
    <3>1. view[q].eog \in 1 .. m - 1
      BY <1>0, <2>1, <2>3
    <3> QED
      BY <2>1, <3>1 DEF OverInv, LastOver
  <2> QED
    BY <2>2, <2>3
<1>7. \A q \in Procs : ~EndsGame(q)
  BY <1>6 DEF OverInv, OverAt, Ends, EndsGame, InGame, Playing
<1>8. ASSUME NEW q \in Procs PROVE OverAt(q)'
  <2>1. CASE q = p
    BY <1>1, <1>2, <1>4, <2>1 DEF OverAt, PlaysOn, Ends, EndsGame, Replayed, CutsPlayed
  <2>2. CASE q # p
    <3>1. PlaysOn(q)'
      <4> SUFFICES ASSUME pc[q] \in Playing \ {"over"}, Current(q)
                   PROVE  lines'[view[q].eog].kind # "over"
        BY <1>1, <2>2 DEF Others, PlaysOn, Current
      <4>1. view[q].eog \in 1 .. m /\ lines[view[q].eog].kind # "over"
        BY <1>6 DEF InGame
      <4> QED
        BY <1>4, <4>1
    <3>2. Ends(q)'
      BY <1>1, <1>7, <2>2 DEF Others, Ends, EndsGame, Current
    <3>3. Replayed(q)' /\ CutsPlayed(q)'
      BY <1>1, <2>2 DEF Others, OverInv, OverAt, Replayed, CutsPlayed, Needs
    <3> QED
      BY <3>1, <3>2, <3>3 DEF OverAt
  <2> QED
    BY <2>1, <2>2
<1>9. EndsAlone'
  BY <1>1, <1>7 DEF Others, EndsAlone, EndsGame, Current
<1>10. HeaderDone'
  BY <1>1, <1>2 DEF HeaderDone
<1> QED
  BY <1>5, <1>8, <1>9, <1>10 DEF OverInv

LEMMA OverRecover ==
  ASSUME CutInv, OverInv, NEW p \in Procs, Recover(p)
  PROVE  OverInv'
<1>0. FileType /\ LocalType
  BY TypeParts DEF CutInv
<1>1. CASE UNCHANGED <<lines, count, partial, status, writer>> /\ pc'[p] # "trunc"
  BY <1>1, RecoverMoves, OverOut
<1>2. CASE ~(UNCHANGED <<lines, count, partial, status, writer>> /\ pc'[p] # "trunc")
  <2>1. /\ Others(p) /\ \A q \in Procs \ {p} : view'[q].expected # count'
        /\ status' = "save"
        /\ lines' = lines \/ \E m \in 1 .. Len(lines) : lines' = SubSeq(lines, 1, m)
        /\ pc'[p] \in {"trunc", "idle", "launch", "offer", "header"}
    BY <1>2, RecoverMoves DEF OverInv, OverAt, CutsPlayed
  <2>2. LastOver(lines')
    <3>1. CASE lines' = lines
      BY <3>1 DEF OverInv
    <3>2. ASSUME NEW m \in 1 .. Len(lines), lines' = SubSeq(lines, 1, m)
          PROVE  LastOver(lines')
      <4>1. Len(lines) \in Nat /\ \A i \in 1 .. Len(lines) : lines[i] \in Event
        BY <1>0 DEF FileType, History
      <4>2. Len(lines') = m /\ \A i \in 1 .. m : lines'[i] = lines[i]
        BY <3>2, <4>1, SubSeqProperties
      <4>3. \A i \in 1 .. m - 1 : i \in 1 .. m /\ i \in 1 .. Len(lines) - 1
        BY <4>1
      <4> QED
        BY <4>2, <4>3 DEF OverInv, LastOver
    <3> QED
      BY <2>1, <3>1, <3>2
  <2>3. ASSUME NEW q \in Procs PROVE OverAt(q)' /\ ~EndsGame(q)'
    <3>1. CASE q = p
      BY <2>1, <3>1, NotPlaying
      DEF OverAt, PlaysOn, Ends, EndsGame, Replayed, CutsPlayed
    <3>2. CASE q # p
      BY <2>1, <3>2
      DEF Others, OverInv, OverAt, PlaysOn, Ends, EndsGame, Replayed, CutsPlayed, Current, Needs
    <3> QED
      BY <3>1, <3>2
  <2>4. EndsAlone' /\ HeaderDone'
    BY <2>1, <2>3 DEF EndsAlone, HeaderDone
  <2> QED
    BY <2>2, <2>3, <2>4 DEF OverInv
<1> QED
  BY <1>1, <1>2

LEMMA OverFault ==
  ASSUME CutInv, ViewInv, OverInv, NEW p \in Procs, Fault(p)
  PROVE  OverInv'
<1>1. status = "done" => partial' = partial
  <2>1. status = "done" => pc[p] \notin {"write", "trunc"}
    BY DEF ViewInv, WriterAtEnd, OverInv, OverAt, CutsPlayed
  <2> QED
    BY <2>1, FaultMoves
<1> QED
  BY <1>1, FaultMoves, OverOut

LEMMA OverInit == Init => OverInv
<1> SUFFICES ASSUME Init PROVE OverInv
  OBVIOUS
<1>1. Len(lines) = 1 /\ status = "save" /\ \A p \in Procs : pc[p] = "idle"
  BY DEF Init
<1> QED
  BY <1>1, NotPlaying
  DEF OverInv, LastOver, HeaderDone, EndsAlone, EndsGame, OverAt, PlaysOn, Ends, Replayed, CutsPlayed

LEMMA OverNext == CutInv /\ ViewInv /\ OverInv /\ [Next]_vars => OverInv'
<1> SUFFICES ASSUME CutInv, ViewInv, OverInv, [Next]_vars PROVE OverInv'
  OBVIOUS
<1>1. CASE UNCHANGED vars
  BY <1>1 DEF vars, OverInv, LastOver, HeaderDone, EndsAlone, EndsGame, OverAt, PlaysOn,
              Ends, Replayed, CutsPlayed, Current, Needs
<1>2. ASSUME NEW p \in Procs,
             \/ Load(p) \/ Read(p) \/ Write(p) \/ Finish(p) \/ Recover(p)
             \/ User(p) \/ Fault(p)
      PROVE  OverInv'
  BY <1>2, OverLoad, OverRead, OverBegin, OverEndWrite, OverFinish, OverRecover,
     OverUser, OverFault DEF Write
<1> QED
  BY <1>1, <1>2 DEF Next

\* The end of the game is written once, by the process that then ends the game.
THEOREM EndsOnce == Spec => []OverInv
BY RecoveryProtocol, ViewsAreGood, OverInit, OverNext, PTL DEF Spec

\* The header says "done" only when the file ends in "Q", and nothing follows
\* a "Q" (log_game_over, start_updating_logfile, log_recover_core).
THEOREM DoneIsOver == Spec => []DoneMeansOver
<1>1. OverInv => DoneMeansOver
  BY DEF OverInv, LastOver, HeaderDone, DoneMeansOver
<1> QED
  BY <1>1, EndsOnce, PTL

\* Of the processes that have the current recovery count at most one is in a
\* game over (doc/saves.txt:234), however many processes share the file.
THEOREM OneProcessEnds == Spec => []OneEndPerCount
<1>1. OverInv => OneEndPerCount
  <2> SUFFICES ASSUME OverInv PROVE OneEndPerCount
    OBVIOUS
  <2> DEFINE S == {p \in InGameOver : view[p].expected = count}
  <2>1. \A p \in S : p \in Procs /\ EndsGame(p)
    BY DEF InGameOver, EndsGame, Current
  <2>2. S = {} \/ \E p \in S : S = {p}
    BY <2>1 DEF OverInv, EndsAlone
  <2> HIDE DEF S
  <2>3. Cardinality(S) <= 1
    <3>1. CASE S = {}
      BY <3>1, FS_EmptySet
    <3>2. CASE \E p \in S : S = {p}
      BY <3>2, FS_Singleton
    <3> QED
      BY <2>2, <3>1, <3>2
  <2> QED
    BY <2>3 DEF OneEndPerCount, S
<1> QED
  BY <1>1, EndsOnce, PTL

-----------------------------------------------------------------------------
(***************************************************************************)
(* The file implements a shared game.                                      *)
(***************************************************************************)

\* The steps that change neither the lines nor the header of the file.
Quiet(p) == \/ Load(p) \/ Read(p) \/ User(p) \/ BeginWrite(p) \/ SaveTurn(p)
            \/ Die(p) \/ Close(p)

LEMMA QuietKeepsFile ==
  ASSUME NEW p \in Procs, Quiet(p)
  PROVE  UNCHANGED <<lines, count, status>>
BY DEF Quiet, Load, ChooseMode, CheckStatus, UndoQuit, ReadHeader, Sync, Read, ReadTorn,
       ReadOver, SeeLine, ReplayLine, LineVanished, Mismatch, NoLine, ReplaySave, NoSaveLine,
       User, Open, Answer, Quit, ServerCancel, Detach, Seek, Decline, BeginWrite, SaveTurn,
       Die, Close, fileVars

\* The process that cuts the file goes on cutting it, and nobody else begins.
LEMMA QuietKeepsCut ==
  ASSUME CutInv, NEW p \in Procs, Quiet(p)
  PROVE  Others(p) /\ pc[p] # "trunc" /\ pc'[p] # "trunc"
<1>0. FileType /\ LocalType
  BY TypeParts DEF CutInv
<1>1. pc[p] # "trunc"
  BY DEF Quiet, Load, ChooseMode, CheckStatus, UndoQuit, ReadHeader, Sync, Read, ReadTorn,
         ReadOver, SeeLine, ReplayLine, LineVanished, Mismatch, NoLine, ReplaySave, NoSaveLine,
         WantsLine, User, Open, Answer, Quit, ServerCancel, Detach, Seek, Decline, BeginWrite,
         SaveTurn, Die, Close
<1>2. CASE Exit(p) \/ Refused(p)
  BY <1>0, <1>1, <1>2, LeaveMoves, RefusedMoves, "idle" \in PCs DEF Exit, PCs
<1>3. CASE \E o \in Nat : BeginRecover(p, o)
  BY <1>0, <1>1, <1>3, BeginRecoverMoves
<1>4. CASE LineVanished(p) \/ Mismatch(p)
  BY <1>0, <1>1, <1>4, DesyncMoves DEF LineVanished, Mismatch
<1> DEFINE on == ~Exit(p) /\ ~Refused(p) /\ ~\E o \in Nat : BeginRecover(p, o)
<1>5. CASE Load(p) /\ on
  <2>1. Len(lines) \in Nat
    BY <1>0 DEF FileType
  <2> QED
    BY <1>0, <1>1, <1>5, <2>1
    DEF Load, ChooseMode, CheckStatus, UndoQuit, ReadHeader, Sync, Goto, Others, LocalType
<1>6. CASE Read(p) /\ on /\ ~LineVanished(p) /\ ~Mismatch(p)
  <2>1. Len(lines) \in Nat /\ StartOfTurn(p) \in Nat
    BY <1>0, StartOfTurnType DEF FileType
  <2> QED
    BY <1>0, <1>1, <1>6, <2>1
    DEF Read, ReadTorn, ReadOver, SeeLine, ReplayLine, NoLine, ReplaySave, NoSaveLine,
        Goto, Others, LocalType
<1>7. CASE User(p) /\ on
  BY <1>0, <1>1, <1>7
  DEF User, Open, Answer, Quit, ServerCancel, Detach, Seek, Decline, Goto, Others, LocalType
<1>8. CASE (BeginWrite(p) \/ SaveTurn(p) \/ Die(p) \/ Close(p)) /\ on
  BY <1>0, <1>1, <1>8 DEF BeginWrite, SaveTurn, Die, Close, Goto, Others, LocalType
<1> QED
  BY <1>2, <1>3, <1>4, <1>5, <1>6, <1>7, <1>8 DEF Quiet

\* Whoever relies on something relies on a prefix of the file.
LEMMA ReliedPrefix ==
  ASSUME ViewInv, NEW p \in Procs
  PROVE  Relied(p) \in {Nobody} \cup Shared!Prefixes(lines)
<1>1. CASE pc[p] \in Playing /\ Current(p)
  <2>1. GoodView(view[p], lines)
    BY <1>1 DEF ViewInv, ViewsGood, InGame
  <2>2. view[p].eog \in 0 .. Len(lines)
    BY <2>1 DEF GoodView
  <2>3. view[p].state \in Shared!Prefixes(lines)
    BY <2>1, <2>2 DEF GoodView, Shared!Prefixes
  <2> QED
    BY <1>1, <2>3 DEF Relied, Current
<1>2. CASE ~(pc[p] \in Playing /\ Current(p))
  BY <1>2 DEF Relied, Current
<1> QED
  BY <1>1, <1>2

KnowsPrefixes ==
  [p \in Procs |-> Relied(p)] \in [Procs -> {Nobody} \cup Shared!Prefixes(lines)]

LEMMA KnownPrefixes == ViewInv => KnowsPrefixes
<1> SUFFICES ASSUME ViewInv PROVE KnowsPrefixes
  OBVIOUS
<1>1. \A p \in Procs : Relied(p) \in {Nobody} \cup Shared!Prefixes(lines)
  BY ReliedPrefix
<1> QED
  BY <1>1 DEF KnowsPrefixes

LEMMA KnownNext == ViewInv' => KnowsPrefixes'
BY KnownPrefixes, PTL

LEMMA QuietLearns ==
  ASSUME CutInv, ViewInv', NEW p \in Procs, UNCHANGED <<lines, count, status>>,
         Others(p), pc[p] # "trunc", pc'[p] # "trunc"
  PROVE  Shared!Learn
<1>1. \A q \in Procs : pc'[q] = "trunc" <=> pc[q] = "trunc"
  BY DEF Others
<1>2. KnowsPrefixes'
  BY KnownNext
<1> QED
  BY <1>1, <1>2 DEF Shared!Learn, KnowsPrefixes

\* Nobody cuts the file while somebody writes to it, or while it is free.
LEMMA NoneCuts ==
  ASSUME CutInv, NEW p \in Procs, Free \/ pc[p] = "write"
  PROVE  ~\E q \in Procs : pc[q] = "trunc"
BY NobodyAssumption DEF CutInv, Writers, Free

\* A line is added by a process that knows all lines.
LEMMA EndWriteExtends ==
  ASSUME CutInv, ViewInv, LegalInv, NEW p \in Procs, EndWrite(p)
  PROVE  Shared!Extend(p)
<1>0. FileType /\ LocalType /\ lines \in History /\ Len(lines) \in Nat
  BY TypeParts DEF CutInv, FileType, History
<1> DEFINE e == ask[p]
           m == Len(lines)
<1>1. /\ pc[p] = "write" /\ lines' = Append(lines, e) /\ count' = count /\ Others(p)
      /\ pc'[p] \in {"over", "run"} /\ status' = status /\ e \in Event
      /\ view'[p] = Consumed(view[p], e, m + 1)
  BY <1>0 DEF EndWrite, Goto, Others, LocalType
<1>2. Current(p) /\ view[p].state = lines /\ status = "save"
  <2>1. Current(p) /\ view[p].eog = m /\ GoodView(view[p], lines) /\ status = "save"
    BY <1>1, NotInGame DEF ViewInv, WriterAtEnd, ViewsGood
  <2> QED
    BY <1>0, <2>1, SubSeqFull DEF GoodView, History
<1>3. Legal(lines, e.kind)
  BY <1>1, <1>2 DEF LegalInv, LegalAt, Acceptable
<1>4. /\ e.kind \in Kinds /\ e.val \in Vals \cup {NoVal}
      /\ e = [kind |-> e.kind, val |-> e.val]
  BY <1>1 DEF Event
<1>5. Relied(p) = lines
  BY <1>1, <1>2, NotPlaying DEF Relied, Current
<1>6. Relied(p)' = lines'
  <2>1. view'[p].state = lines' /\ view'[p].expected = count'
    BY <1>0, <1>1, <1>2 DEF Consumed, LocalType, View, Current
  <2> QED
    BY <1>1, <2>1, NotPlaying DEF Relied
<1>7. ASSUME NEW q \in Procs, q # p PROVE Relied(q)' = Relied(q)
  BY <1>1, <1>7 DEF Others, Relied
<1>8. [q \in Procs |-> Relied(q)]' = [[q \in Procs |-> Relied(q)] EXCEPT ![p] = lines']
  BY <1>6, <1>7
<1>9. ~(\E q \in Procs : pc[q] = "trunc") /\ ~(\E q \in Procs : pc'[q] = "trunc")
  BY <1>1, NoneCuts DEF Others
<1>10. \E k \in Kinds, v \in Vals \cup {NoVal} :
         Legal(lines, k) /\ lines' = Append(lines, [kind |-> k, val |-> v])
  BY <1>1, <1>3, <1>4
<1> QED
  BY <1>1, <1>2, <1>5, <1>8, <1>9, <1>10 DEF Shared!Extend

\* The header says "done" when the file has the end.
LEMMA GameOverEnds ==
  ASSUME CutInv, ViewInv', OverInv, NEW p \in Procs, LogGameOver(p), CanUpdate(p)
  PROVE  Shared!End
<1>0. LocalType
  BY TypeParts DEF CutInv
<1>1. /\ pc[p] = "over" /\ UNCHANGED <<lines, count>> /\ Free /\ Others(p)
      /\ pc'[p] = "closing" /\ status' = "done"
  BY <1>0 DEF LogGameOver, Goto, Others, LocalType
<1>2. lines[Len(lines)].kind = "over"
  BY <1>1 DEF CanUpdate, CountMatches, AtEof, OverInv, OverAt, Ends, EndsGame, Current
<1>3. ~(\E q \in Procs : pc[q] = "trunc") /\ ~(\E q \in Procs : pc'[q] = "trunc")
  BY <1>1, NoneCuts DEF Others
<1>4. KnowsPrefixes'
  BY KnownNext
<1> QED
  BY <1>1, <1>2, <1>3, <1>4 DEF Shared!End, KnowsPrefixes

\* A recovery begins a new epoch.
LEMMA RecoveryBegins ==
  ASSUME CutInv, NEW p \in Procs, Free, Others(p), lines' = lines, count' = count + 1,
         pc'[p] = "trunc", status' = "save",
         \A q \in Procs \ {p} : view'[q].expected # count'
  PROVE  Shared!Begin
<1>1. ~(\E q \in Procs : pc[q] = "trunc") /\ \E q \in Procs : pc'[q] = "trunc"
  BY NoneCuts
<1>2. ASSUME NEW q \in Procs PROVE Relied(q)' = Nobody
  BY NotPlaying DEF Relied, Playing
<1>3. [q \in Procs |-> Relied(q)]' = [q \in Procs |-> Nobody]
  BY <1>2
<1> QED
  BY <1>1, <1>3 DEF Shared!Begin

\* The cut settles the epoch, and so does the death of the process that cuts.
LEMMA CutSettles ==
  ASSUME CutInv, NEW p \in Procs, Others(p), pc[p] = "trunc", pc'[p] # "trunc",
         pc'[p] \notin Playing, UNCHANGED <<count, status>>,
         lines' = lines \/ lines' = SubSeq(lines, 1, off[p])
  PROVE  Shared!Settle
<1>0. Len(lines) \in Nat /\ Len(lines) >= 1 /\ lines \in History
  BY TypeParts DEF CutInv, FileType, History
<1>1. (\E q \in Procs : pc[q] = "trunc") /\ ~\E q \in Procs : pc'[q] = "trunc"
  BY OneWriter DEF Others
<1>2. off[p] \in 1 .. Len(lines) /\ \A q \in Procs \ {p} : view[q].expected # count
  BY DEF CutInv, Offers, Cutter
<1>3. ASSUME NEW q \in Procs PROVE Relied(q) = Nobody /\ Relied(q)' = Nobody
  BY <1>2, NotPlaying DEF Relied, Others
<1>4. [q \in Procs |-> Relied(q)]' = [q \in Procs |-> Relied(q)]
  BY <1>3
<1>5. \E n \in 1 .. Len(lines) : lines' = SubSeq(lines, 1, n)
  <2>1. lines = SubSeq(lines, 1, Len(lines))
    BY <1>0, SubSeqFull DEF History
  <2> QED
    BY <1>0, <1>2, <2>1
<1>6. PICK n \in 1 .. Len(lines) : lines' = SubSeq(lines, 1, n)
  BY <1>5
<1>7. lines' \in Shared!Prefixes(lines)
  <2>1. n \in 0 .. Len(lines)
    BY <1>0
  <2> QED
    BY <1>6, <2>1 DEF Shared!Prefixes
<1>8. lines' # << >>
  <2>1. Len(lines') = n
    BY <1>0, <1>6, SubSeqProperties DEF History
  <2>2. Len(<< >>) = 0
    OBVIOUS
  <2> QED
    BY <1>0, <2>1, <2>2
<1> QED
  BY <1>1, <1>4, <1>7, <1>8 DEF Shared!Settle

LEMMA GameInit == Init => Shared!Init
<1> SUFFICES ASSUME Init PROVE Shared!Init
  OBVIOUS
<1>1. lines = <<[kind |-> "backup", val |-> NoVal]>>
  BY DEF Init, Ev
<1>2. \E k \in Kinds, v \in Vals \cup {NoVal} : lines = <<[kind |-> k, val |-> v]>>
  BY <1>1 DEF Kinds, SaveKinds
<1>3. \A p \in Procs : Relied(p) = Nobody
  BY NotPlaying DEF Init, Relied
<1>4. count = 1 /\ status = "save" /\ \A p \in Procs : pc[p] # "trunc"
  BY DEF Init
<1>5. [p \in Procs |-> Relied(p)] = [p \in Procs |-> Nobody]
  BY <1>3
<1> QED
  BY <1>2, <1>4, <1>5 DEF Shared!Init

LEMMA GameNext ==
  CutInv /\ ViewInv /\ ViewInv' /\ LegalInv /\ OverInv /\ [Next]_vars
    => [Shared!Next]_Shared!vars
<1> SUFFICES ASSUME CutInv, ViewInv, ViewInv', LegalInv, OverInv, [Next]_vars
             PROVE  [Shared!Next]_Shared!vars
  OBVIOUS
<1>1. CASE UNCHANGED vars
  BY <1>1 DEF vars, Shared!vars, Relied
<1> SUFFICES ASSUME NEW p \in Procs,
                    \/ Load(p) \/ Read(p) \/ Write(p) \/ Finish(p) \/ Recover(p)
                    \/ User(p) \/ Fault(p)
             PROVE  Shared!Next
  BY <1>1 DEF Next
<1>2. CASE Quiet(p)
  BY <1>2, QuietKeepsFile, QuietKeepsCut, QuietLearns DEF Shared!Next
<1>3. CASE EndWrite(p)
  BY <1>3, EndWriteExtends DEF Shared!Next
<1>4. CASE LogGameOver(p)
  <2>1. CASE CanUpdate(p)
    BY <1>4, <2>1, GameOverEnds DEF Shared!Next
  <2>2. CASE ~CanUpdate(p)
    <3>1. LocalType
      BY TypeParts DEF CutInv
    <3>2. /\ Others(p) /\ pc[p] # "trunc" /\ pc'[p] # "trunc"
          /\ UNCHANGED <<lines, count, status>>
      BY <1>4, <2>2, <3>1, RefusedMoves DEF LogGameOver
    <3> QED
      BY <3>2, QuietLearns DEF Shared!Next
  <2> QED
    BY <2>1, <2>2
<1>5. CASE Recover(p)
  <2>1. CASE UNCHANGED <<lines, count, partial, status, writer>> /\ pc'[p] # "trunc"
    <3>1. Others(p) /\ pc[p] # "trunc"
      BY <1>5, <2>1, RecoverMoves, NobodyAssumption
      DEF Recover, CheckOffset, LockToRecover, Truncate, CutInv, Writers
    <3> QED
      BY <2>1, <3>1, QuietLearns DEF Shared!Next
  <2>2. CASE /\ Free /\ lines' = lines /\ count' = count + 1 /\ pc'[p] = "trunc"
             /\ status' = "save"
             /\ \A q \in Procs \ {p} : view'[q].expected # count'
    BY <1>5, <2>2, RecoverMoves, RecoveryBegins DEF Shared!Next
  <2>3. CASE /\ pc[p] = "trunc" /\ pc'[p] # "trunc" /\ count' = count /\ status' = status
             /\ lines' = SubSeq(lines, 1, off[p])
    <3>1. Others(p) /\ pc'[p] \notin Playing
      BY <1>5, RecoverMoves, NotPlaying
    <3> QED
      BY <2>3, <3>1, CutSettles DEF Shared!Next
  <2> QED
    BY <1>5, <2>1, <2>2, <2>3, RecoverMoves
<1>6. CASE Fault(p)
  <2>1. /\ Others(p) /\ pc'[p] # "trunc" /\ pc'[p] \notin Playing
        /\ UNCHANGED <<lines, count, status>>
    BY <1>6, FaultMoves, NotPlaying
  <2>2. CASE pc[p] = "trunc"
    BY <2>1, <2>2, CutSettles DEF Shared!Next
  <2>3. CASE pc[p] # "trunc"
    BY <2>1, <2>3, QuietLearns DEF Shared!Next
  <2> QED
    BY <2>2, <2>3
<1> QED
  BY <1>2, <1>3, <1>4, <1>5, <1>6 DEF Quiet, Write, Finish

\* The save file implements the shared game of module SharedGame, for every
\* engine, any number of processes and whatever fails: a line is added only by
\* a process that knows the whole file (start_updating_logfile), and the file is
\* cut only in a new epoch, in which nobody relies on what it read before.
THEOREM FileIsShared == Spec => SharesOneGame
<1>1. Spec => Shared!Init /\ [][Shared!Next]_Shared!vars
  BY RecoveryProtocol, ViewsAreGood, LegalSteps, EndsOnce, GameInit, GameNext, PTL DEF Spec
<1> QED
  BY <1>1 DEF SharesOneGame, Shared!Spec
=============================================================================

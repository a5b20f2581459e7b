------------------------------- MODULE LogSync -------------------------------
(***************************************************************************)
(* Loading and seeking in a save file: log_sync of libnethack/src/log.c,   *)
(* the chain of save backups that it follows, and the seek commands of a   *)
(* replay in nh_play_game (allmain.c).                                     *)
(*                                                                         *)
(* A save backup holds the offset of the backup before it; the first one   *)
(* holds a hint where the last one is.  log_sync reads line after line     *)
(* under no more than a monitor lock (get_save_backup_offset drops the     *)
(* read lock), so the file may grow while it runs.                         *)
(*                                                                         *)
(* Line n of the file starts at byte Pos(n); lines are counted from the    *)
(* first save backup on.  Names that end in "_bug" are the mistakes that   *)
(* the properties are tried against.                                       *)
(***************************************************************************)
EXTENDS Integers, Sequences, FiniteSetsExt

CONSTANTS
  Player,    \* the process that plays
  Viewer,    \* the process that replays
  Fifty,     \* the 50 turns of the seek commands
  Steps,     \* how many turns a command may take
  MaxLines,  \* bound on the length of the file
  MaxCuts    \* bound on recoveries

Procs == {Player, Viewer}

ASSUME StepsAssumption ==
  /\ Player # Viewer
  /\ Steps \subseteq Nat /\ Fifty \in Nat
  /\ MaxLines \in Nat \ {0} /\ MaxCuts \in Nat

VARIABLES
  lines,   \* the lines: kind, turn counter and back pointer
  hint,    \* the last backup, according to the first one
  bsl,     \* binary_save_location, 0 if the file is not loaded
  sbl,     \* save_backup_location
  pc,      \* "out", "idle", or where the process is in log_sync
  goal,    \* the target of log_sync, its unit and what it was called for
  before,  \* binary_save_location when log_sync was called
  cuts     \* recoveries so far

vars == <<lines, hint, bsl, sbl, pc, goal, before, cuts>>

Kinds == {"backup", "diff", "input"}
Units == {"bytes", "turns", "eof"}
Keys  == {"open", "back one", "back fifty", "on fifty", "turn one", "end", "grope"}

Line(k, m, b) == [kind |-> k, moves |-> m, back |-> b]
Goal(u, n, k) == [unit |-> u, at |-> n, key |-> k]

-----------------------------------------------------------------------------
\* The file

Pos(n) == 2 * n
Size == Pos(Len(lines) + 1)

Saves   == {n \in 1 .. Len(lines) : lines[n].kind # "input"}
Backups == {n \in 1 .. Len(lines) : lines[n].kind = "backup"}

\* get_save_backup_offset: the back pointer in line n, -1 if line n is no backup.
BackupOffset(n) ==
  IF n \notin Backups THEN -1 ELSE IF n = 1 THEN hint ELSE lines[n].back

\* The first save line after line n, 0 if there is none.
NextSave_bug(n) ==
  LET later == {m \in Saves : m >= n} IN IF later = {} THEN 0 ELSE Min(later)
NextSave(n) == LET later == {m \in Saves : m > n} IN IF later = {} THEN 0 ELSE Min(later)

\* relative_to_target: how far save n lies beyond the target g.
Relative(n, g) ==
  CASE g.unit = "turns" -> lines[n].moves - g.at
    [] g.unit = "bytes" -> Pos(n) - g.at
    [] OTHER            -> Pos(n) - Size

-----------------------------------------------------------------------------
\* log_sync

Set(f, p, x) == [f EXCEPT ![p] = x]

Begin(p, g) ==
  /\ pc' = Set(pc, p, IF bsl[p] = 0 THEN "load" ELSE "ahead")
  /\ goal' = Set(goal, p, g)
  /\ before' = Set(before, p, bsl[p])
  /\ UNCHANGED <<lines, hint, bsl, sbl, cuts>>

\* A newly loaded file: start from the backup that the hint names, if it is one.
HintIsRight_bug(n) == TRUE
HintIsRight(n) == BackupOffset(n) >= 0
LoadBackup(p, n) == sbl' = Set(sbl, p, n) /\ bsl' = Set(bsl, p, n)
Load(p) ==
  /\ pc[p] = "load"
  /\ LoadBackup(p, IF HintIsRight(hint) THEN hint ELSE 1)
  /\ pc' = Set(pc, p, "ahead")
  /\ UNCHANGED <<lines, hint, goal, before, cuts>>

\* Ahead of the target: move back to the save backup ...
Ahead(p) ==
  /\ pc[p] = "ahead"
  /\ IF bsl[p] # sbl[p] /\ Relative(bsl[p], goal[p]) > 0
     THEN LoadBackup(p, sbl[p]) ELSE UNCHANGED <<bsl, sbl>>
  /\ pc' = Set(pc, p, "back")
  /\ UNCHANGED <<lines, hint, goal, before, cuts>>

\* ... and to earlier ones, unless this is the first one, whose pointer is the
\* hint.  (The pointers only ever lead back, so that the code's last_sloc never
\* stops this loop.)
CanGoBack(p) == sbl[p] > 1
Back(p) ==
  /\ pc[p] = "back"
  /\ IF Relative(bsl[p], goal[p]) > 0 /\ CanGoBack(p)
     THEN LoadBackup(p, BackupOffset(sbl[p])) /\ UNCHANGED pc
     ELSE pc' = Set(pc, p, "walk") /\ UNCHANGED <<bsl, sbl>>
  /\ UNCHANGED <<lines, hint, goal, before, cuts>>

\* Behind the target: move forwards, save line by save line, unless the next
\* one is beyond it.
Reaches_bug(n, g) == Relative(n, g) <= 1
Reaches(n, g) == Relative(n, g) <= 0
BackupAt_bug(p, n) == sbl[p]
BackupAt(p, n) == IF n \in Backups THEN n ELSE sbl[p]
Walk(p) ==
  /\ pc[p] = "walk"
  /\ LET n == NextSave(bsl[p])
     IN  IF Relative(bsl[p], goal[p]) < 0 /\ n # 0 /\ Reaches(n, goal[p])
         THEN /\ bsl' = Set(bsl, p, n)
              /\ sbl' = Set(sbl, p, BackupAt(p, n))
              /\ UNCHANGED pc
         ELSE /\ pc' = Set(pc, p, "idle")
              /\ UNCHANGED <<bsl, sbl>>
  /\ UNCHANGED <<lines, hint, goal, before, cuts>>

-----------------------------------------------------------------------------
\* The player

\* nh_play_game
Open(p) == pc[p] = "out" /\ Begin(p, Goal("eof", 0, "open"))

AtEnd == bsl[Player] # 0 /\ NextSave(bsl[Player]) = 0

\* Lines that are written in the middle of a turn.
Input ==
  /\ pc[Player] = "idle" /\ AtEnd /\ Len(lines) < MaxLines
  /\ lines' = Append(lines, Line("input", 0, 0))
  /\ UNCHANGED <<hint, bsl, sbl, pc, goal, before, cuts>>

\* log_neutral_turnstate and log_backup_save: a turn has ended.
SavedAs_bug(k, m) == Line(k, m, IF k = "backup" THEN bsl[Player] ELSE 0)
SavedAs(k, m) == Line(k, m, IF k = "backup" THEN sbl[Player] ELSE 0)
Save ==
  /\ pc[Player] = "idle" /\ AtEnd /\ Len(lines) < MaxLines
  /\ \E k \in {"backup", "diff"}, s \in Steps :
       /\ lines' = Append(lines, SavedAs(k, lines[bsl[Player]].moves + s))
       /\ bsl' = Set(bsl, Player, Len(lines'))
       /\ IF k = "backup"
          THEN sbl' = Set(sbl, Player, Len(lines')) /\ hint' = Len(lines')
          ELSE UNCHANGED <<sbl, hint>>
  /\ UNCHANGED <<pc, goal, before, cuts>>

\* Recovery cuts the file and leaves the hint as it was.  What it does to a
\* process that goes on reading is the subject of SaveLog; here the viewer has
\* not loaded the file.
Cut ==
  /\ pc[Player] = "idle" /\ pc[Viewer] = "out" /\ cuts < MaxCuts
  /\ cuts' = cuts + 1
  /\ \E n \in 1 .. Len(lines) - 1 : lines' = SubSeq(lines, 1, n)
  /\ pc' = Set(pc, Player, "out")
  /\ bsl' = Set(bsl, Player, 0) /\ sbl' = Set(sbl, Player, 0)
  /\ UNCHANGED <<hint, goal, before>>

-----------------------------------------------------------------------------
\* The viewer in replay mode

Moves(p) == lines[bsl[p]].moves
Less(a, b) == IF a < b THEN a ELSE b

\* The directions of a replay, each with the target the code computes for it.
BackOne   == Goal("bytes", Less(Pos(bsl[Viewer]) - 1, 1), "back one")
BackFifty == Goal("turns", Less(Moves(Viewer) - Fifty, 1), "back fifty")
OnFifty   == Goal("turns", Moves(Viewer) + Fifty, "on fifty")
TurnOne   == Goal("turns", 1, "turn one")
EndOfLog  == Goal("eof", 0, "end")

\* "grope" seeks to any turn.
Seek ==
  /\ pc[Viewer] = "idle"
  /\ \/ \E g \in {BackOne, BackFifty, OnFifty, TurnOne, EndOfLog} : Begin(Viewer, g)
     \/ \E t \in {line.moves : line \in {lines[n] : n \in Saves}} :
          Begin(Viewer, Goal("turns", t, "grope"))

\* The next turn is replayed: log_replay_save_line.
Forward ==
  /\ pc[Viewer] = "idle" /\ NextSave(bsl[Viewer]) # 0
  /\ LET n == NextSave(bsl[Viewer])
     IN  bsl' = Set(bsl, Viewer, n) /\ sbl' = Set(sbl, Viewer, BackupAt(Viewer, n))
  /\ UNCHANGED <<lines, hint, pc, goal, before, cuts>>

-----------------------------------------------------------------------------
Init ==
  /\ lines = <<Line("backup", 1, 0)>> /\ hint = 1
  /\ bsl = [p \in Procs |-> 0] /\ sbl = bsl /\ before = bsl
  /\ pc = [p \in Procs |-> "out"]
  /\ goal = [p \in Procs |-> Goal("eof", 0, "open")]
  /\ cuts = 0

LogSync(p) == Load(p) \/ Ahead(p) \/ Back(p) \/ Walk(p)
Next == \/ \E p \in Procs : Open(p) \/ LogSync(p)
        \/ Input \/ Save \/ Cut \/ Seek \/ Forward

Spec == Init /\ [][Next]_vars
FairSpec == Spec /\ \A p \in Procs : WF_vars(LogSync(p))

-----------------------------------------------------------------------------
(***************************************************************************)
(* Properties                                                              *)
(***************************************************************************)

\* Every variable keeps its type.
TypeOK ==
  /\ lines \in Seq([kind : Kinds, moves : Nat, back : Nat]) /\ Len(lines) \in 1 .. MaxLines
  /\ hint \in 1 .. MaxLines
  /\ bsl \in [Procs -> 0 .. Len(lines)] /\ sbl \in [Procs -> 0 .. Len(lines)]
  /\ pc \in [Procs -> {"out", "load", "ahead", "back", "walk", "idle"}]
  /\ goal \in [Procs -> [unit : Units, at : Int, key : Keys]]
  /\ before \in [Procs -> 0 .. MaxLines]
  /\ cuts \in 0 .. MaxCuts

\* When log_sync has ended, the gamestate is that of a save at or before the
\* target, or of the first save, and no save that it could see was nearer
\* (the comment at log.c:2196).
Reached ==
  \A p \in Procs :
    pc[p] = "walk" /\ pc'[p] = "idle" =>
      /\ bsl[p] \in Saves
      /\ bsl[p] = 1 \/ Relative(bsl[p], goal[p]) <= 0
      /\ \A n \in Saves : n > bsl[p] => Relative(n, goal[p]) >= 0
SyncReachesTarget == [][Reached]_vars

\* log_sync ends, however long the file and whatever the target.
SyncEnds == \A p \in Procs : pc[p] = "ahead" ~> pc[p] = "idle"

\* Once loaded, save_backup_location is the last backup at or before the binary
\* save, so that seeking back from it passes no backup by.
BackupBehind ==
  \A p \in Procs :
    pc[p] \in {"walk", "idle"} =>
      /\ sbl[p] \in Backups /\ sbl[p] <= bsl[p]
      /\ \A n \in Backups : n <= bsl[p] => n <= sbl[p]

\* The backups form one chain, in the order of the file, whatever was cut
\* off (log_backup_save, doc/saves.txt on save backup lines).
ChainWhole ==
  \A n \in Backups \ {1} :
    /\ lines[n].back \in Backups /\ lines[n].back < n
    /\ \A m \in Backups : m < n => m <= lines[n].back

\* allmain.c:566 "Move backwards one command", allmain.c:579 "Move backwards 50
\* turns": the key passes no save by that is far enough back.
BackKeysStop ==
  [][\A n, m \in Saves :
       /\ pc[Viewer] = "walk" /\ pc'[Viewer] = "idle"
       /\ before[Viewer] = n /\ m < n
       /\ \/ goal[Viewer].key = "back one"
          \/ goal[Viewer].key = "back fifty" /\ lines[m].moves + Fifty <= lines[n].moves
       => m <= bsl[Viewer]]_vars

=============================================================================

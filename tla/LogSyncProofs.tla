---------------------------- MODULE LogSyncProofs ----------------------------
(***************************************************************************)
(* What log_sync does in a save file of any length, for any target: types, *)
(* the chain of backups, the place of the last backup, and that it stops   *)
(* at the save that is nearest to its target.                              *)
(***************************************************************************)
EXTENDS LogSync, SequenceTheorems, WellFoundedInduction, TLAPS

-----------------------------------------------------------------------------
\* Types

LineType == [kind : Kinds, moves : Nat, back : Nat]

FileType ==
  /\ lines \in Seq(LineType) /\ Len(lines) \in 1 .. MaxLines
  /\ hint \in 1 .. MaxLines /\ cuts \in 0 .. MaxCuts

ReadType ==
  /\ bsl \in [Procs -> 0 .. Len(lines)] /\ sbl \in [Procs -> 0 .. Len(lines)]
  /\ pc \in [Procs -> {"out", "load", "ahead", "back", "walk", "idle"}]
  /\ goal \in [Procs -> [unit : Units, at : Int, key : Keys]]
  /\ before \in [Procs -> 0 .. MaxLines]

LEMMA Types == TypeOK <=> FileType /\ ReadType
BY DEF TypeOK, FileType, ReadType, LineType

LEMMA LineFacts ==
  ASSUME FileType
  PROVE  /\ Len(lines) \in Nat /\ Len(lines) >= 1
         /\ \A n \in 1 .. Len(lines) : lines[n] \in LineType
         /\ \A n \in Saves : n \in 1 .. Len(lines) /\ lines[n].moves \in Nat
         /\ Backups \subseteq Saves
<1>1. Len(lines) \in Nat /\ Len(lines) >= 1
  BY DEF FileType
<1>2. \A n \in 1 .. Len(lines) : lines[n] \in LineType
  BY DEF FileType
<1>3. \A n \in Saves : n \in 1 .. Len(lines) /\ lines[n].moves \in Nat
  BY <1>2 DEF Saves, LineType
<1>4. Backups \subseteq Saves
  BY DEF Saves, Backups
<1> QED
  BY <1>1, <1>2, <1>3, <1>4

-----------------------------------------------------------------------------
\* The next save line

LEMMA Least ==
  ASSUME NEW S, S \subseteq Nat, S # {}
  PROVE  \E x \in S : \A y \in S : x <= y
<1> DEFINE R == OpToRel(<, Nat)
<1>1. \E x \in S : \A y \in S : <<y, x>> \notin R
  BY NatLessThanWellFounded, WFMin
<1>2. ASSUME NEW y \in Nat, NEW z \in Nat, y < z PROVE <<y, z>> \in R
  BY <1>2 DEF OpToRel
<1> HIDE DEF R
<1>3. PICK x \in S : \A y \in S : <<y, x>> \notin R
  BY <1>1
<1>4. \A y \in S : ~(y < x)
  BY <1>2, <1>3
<1>5. \A y \in S : x <= y
  BY <1>4
<1> QED
  BY <1>5

LEMMA NextSaveIs ==
  ASSUME FileType, NEW b \in Nat
  PROVE  \/ NextSave(b) = 0 /\ \A m \in Saves : m <= b
         \/ NextSave(b) \in Saves /\ NextSave(b) > b /\ \A m \in Saves : m > b => NextSave(b) <= m
<1> DEFINE later == {m \in Saves : m > b}
<1>1. later \subseteq Nat /\ Saves \subseteq Nat
  BY LineFacts
<1>2. CASE later = {}
  <2>1. NextSave(b) = 0
    BY <1>2 DEF NextSave
  <2>2. \A m \in Saves : m <= b
    BY <1>1, <1>2
  <2> QED
    BY <2>1, <2>2
<1>3. CASE later # {}
  <2>1. NextSave(b) = Min(later)
    BY <1>3 DEF NextSave
  <2> HIDE DEF later
  <2>2. \E x \in later : \A y \in later : x <= y
    BY <1>1, <1>3, Least
  <2>3. Min(later) \in later /\ \A y \in later : Min(later) <= y
    BY <2>2 DEF Min
  <2> QED
    BY <2>1, <2>3 DEF later
<1> QED
  BY <1>2, <1>3

-----------------------------------------------------------------------------
(***************************************************************************)
(* The invariant.                                                          *)
(***************************************************************************)

FirstBackup == lines[1].kind = "backup"

\* Turns do not run backwards.
Ordered == \A m, n \in Saves : m < n => lines[m].moves <= lines[n].moves

FileInv == FirstBackup /\ ChainWhole /\ Ordered

\* b, s: a save line and the last backup up to there.
Placed(b, s) ==
  /\ b \in Saves /\ s \in Backups /\ s <= b
  /\ \A n \in Backups : n <= b => n <= s

\* Where p is in log_sync.
Reading(p) ==
  IF pc[p] \in {"out", "load"} THEN bsl[p] = 0 /\ sbl[p] = 0 ELSE Placed(bsl[p], sbl[p])

\* What going back has achieved when the walk begins.
Approach(p) ==
  /\ pc[p] = "back" => bsl[p] = sbl[p] \/ Relative(bsl[p], goal[p]) <= 0
  /\ pc[p] = "walk" => bsl[p] = 1 \/ Relative(bsl[p], goal[p]) <= 0

ReadInv == \A p \in Procs : Reading(p) /\ Approach(p)

SyncInv == FileType /\ ReadType /\ FileInv /\ ReadInv

LEMMA SaveInFile ==
  ASSUME FileType, NEW b, NEW s, Placed(b, s)
  PROVE  b \in 1 .. Len(lines) /\ s \in 1 .. Len(lines) /\ s \in 0 .. Len(lines) /\ b \in 0 .. Len(lines)
BY LineFacts DEF Placed

\* Two save lines are as far from a target as they are apart.
LEMMA RelativeGrows ==
  ASSUME FileType, FileInv, NEW m \in Saves, NEW n \in Saves, m < n,
         NEW g \in [unit : Units, at : Int, key : Keys]
  PROVE  Relative(m, g) \in Int /\ Relative(n, g) \in Int /\ Relative(m, g) <= Relative(n, g)
<1>1. m \in Nat /\ n \in Nat /\ lines[m].moves \in Nat /\ lines[n].moves \in Nat
  BY LineFacts
<1>2. lines[m].moves <= lines[n].moves
  BY DEF FileInv, Ordered
<1>3. Len(lines) \in Nat /\ g.at \in Int
  BY LineFacts
<1>4. CASE g.unit = "turns"
  BY <1>1, <1>2, <1>3, <1>4 DEF Relative
<1>5. CASE g.unit = "bytes"
  BY <1>1, <1>3, <1>5 DEF Relative, Pos
<1>6. CASE g.unit = "eof"
  BY <1>1, <1>3, <1>6 DEF Relative, Pos, Size
<1>7. g.unit \in {"turns", "bytes", "eof"}
  BY DEF Units
<1> QED
  BY <1>4, <1>5, <1>6, <1>7

LEMMA RelativeType ==
  ASSUME FileType, NEW m \in Saves, NEW g \in [unit : Units, at : Int, key : Keys]
  PROVE  Relative(m, g) \in Int
BY LineFacts DEF Relative, Pos, Size

\* A process goes on in a file that stays as it is.
LEMMA ReadStep ==
  ASSUME SyncInv, NEW p \in Procs, UNCHANGED <<lines, hint, cuts>>,
         NEW b, NEW s, NEW x, NEW g, NEW o,
         bsl' = Set(bsl, p, b), sbl' = Set(sbl, p, s), pc' = Set(pc, p, x),
         goal' = Set(goal, p, g), before' = Set(before, p, o),
         g \in [unit : Units, at : Int, key : Keys], o \in 0 .. MaxLines,
         x \in {"out", "load", "ahead", "back", "walk", "idle"},
         IF x \in {"out", "load"} THEN b = 0 /\ s = 0 ELSE Placed(b, s),
         x = "back" => b = s \/ Relative(b, g) <= 0,
         x = "walk" => b = 1 \/ Relative(b, g) <= 0
  PROVE  SyncInv'
<1>1. FileType' /\ FileInv'
  BY DEF SyncInv, FileType, FileInv, FirstBackup, ChainWhole, Ordered, Saves, Backups
<1>2. b \in 0 .. Len(lines) /\ s \in 0 .. Len(lines)
  BY SaveInFile, LineFacts DEF SyncInv
<1>3. ReadType'
  BY <1>2 DEF SyncInv, ReadType, Set
<1>4. /\ bsl'[p] = b /\ sbl'[p] = s /\ pc'[p] = x /\ goal'[p] = g
      /\ \A q \in Procs \ {p} : /\ bsl'[q] = bsl[q] /\ sbl'[q] = sbl[q] /\ pc'[q] = pc[q]
                                /\ goal'[q] = goal[q]
  BY DEF SyncInv, ReadType, Set
<1>5. ASSUME NEW q \in Procs PROVE (Reading(q) /\ Approach(q))'
  <2>1. CASE q = p
    BY <1>4, <2>1 DEF Reading, Approach, Placed, Saves, Backups, Relative, Size
  <2>2. CASE q # p
    <3>1. Reading(q) /\ Approach(q)
      BY DEF SyncInv, ReadInv
    <3> QED
      BY <1>4, <2>2, <3>1 DEF Reading, Approach, Placed, Saves, Backups, Relative, Size
  <2> QED
    BY <2>1, <2>2
<1> QED
  BY <1>1, <1>3, <1>5 DEF SyncInv, ReadInv

LEMMA SetSame ==
  ASSUME NEW f, NEW S, NEW T, f \in [S -> T], NEW x \in S
  PROVE  f = Set(f, x, f[x])
BY DEF Set

LEMMA SetType ==
  ASSUME NEW f, NEW S, NEW T, NEW U, f \in [S -> T], T \subseteq U, NEW x \in S, NEW y \in U
  PROVE  Set(f, x, y) \in [S -> U]
BY DEF Set

\* A step of p in a loaded file moves it to another save line, or not.
LEMMA MoveStep ==
  ASSUME SyncInv, NEW p \in Procs, UNCHANGED <<lines, hint, cuts, goal, before>>,
         NEW b, NEW s, NEW x,
         bsl' = Set(bsl, p, b), sbl' = Set(sbl, p, s), pc' = Set(pc, p, x),
         x \in {"ahead", "back", "walk", "idle"}, Placed(b, s),
         x = "back" => b = s \/ Relative(b, goal[p]) <= 0,
         x = "walk" => b = 1 \/ Relative(b, goal[p]) <= 0
  PROVE  SyncInv'
<1>1. /\ goal[p] \in [unit : Units, at : Int, key : Keys] /\ before[p] \in 0 .. MaxLines
      /\ goal' = Set(goal, p, goal[p]) /\ before' = Set(before, p, before[p])
  BY SetSame DEF SyncInv, ReadType
<1> QED
  BY <1>1, ReadStep

LEMMA BackupIsPlaced ==
  ASSUME FileType, NEW n \in Backups
  PROVE  Placed(n, n)
BY LineFacts DEF Placed

\* A backup leads to the backup before it, the first one to the hint.
LEMMA BackupLeads ==
  ASSUME FileType, FileInv, NEW n \in 1 .. MaxLines
  PROVE  /\ HintIsRight(n) <=> n \in Backups
         /\ n \in Backups /\ n > 1 => BackupOffset(n) \in Backups
<1>1. \A m \in Backups : m \in 1 .. Len(lines) /\ lines[m].back \in Nat
  BY LineFacts DEF Backups, LineType
<1>2. n \in Backups => BackupOffset(n) \in Nat
  BY <1>1 DEF BackupOffset, FileType
<1>3. HintIsRight(n) <=> n \in Backups
  BY <1>2 DEF HintIsRight, BackupOffset
<1>4. n \in Backups /\ n > 1 => BackupOffset(n) \in Backups
  BY DEF BackupOffset, FileInv, ChainWhole
<1> QED
  BY <1>3, <1>4

LEMMA SyncBegin ==
  ASSUME SyncInv, NEW p \in Procs, pc[p] \in {"out", "idle"},
         NEW g \in [unit : Units, at : Int, key : Keys], Begin(p, g)
  PROVE  SyncInv'
<1> DEFINE x == IF bsl[p] = 0 THEN "load" ELSE "ahead"
<1>1. /\ bsl' = Set(bsl, p, bsl[p]) /\ sbl' = Set(sbl, p, sbl[p]) /\ pc' = Set(pc, p, x)
      /\ goal' = Set(goal, p, g) /\ before' = Set(before, p, bsl[p])
      /\ UNCHANGED <<lines, hint, cuts>>
  BY SetSame DEF SyncInv, ReadType, Begin
<1>2. Reading(p) /\ FileType
  BY DEF SyncInv, ReadInv
<1>3. IF x = "load" THEN bsl[p] = 0 /\ sbl[p] = 0 ELSE Placed(bsl[p], sbl[p])
  <2>1. Placed(bsl[p], sbl[p]) => bsl[p] # 0
    BY <1>2, SaveInFile
  <2> QED
    BY <1>2, <2>1 DEF Reading
<1>4. bsl[p] \in 0 .. MaxLines
  BY StepsAssumption DEF SyncInv, ReadType, FileType
<1> QED
  BY <1>1, <1>3, <1>4, ReadStep

LEMMA SyncLoad ==
  ASSUME SyncInv, NEW p \in Procs, Load(p)
  PROVE  SyncInv'
<1> DEFINE n == IF HintIsRight(hint) THEN hint ELSE 1
<1>1. /\ bsl' = Set(bsl, p, n) /\ sbl' = Set(sbl, p, n) /\ pc' = Set(pc, p, "ahead")
      /\ UNCHANGED <<lines, hint, cuts, goal, before>>
  BY DEF Load, LoadBackup
<1>2. n \in Backups
  <2>1. 1 \in Backups
    BY LineFacts DEF SyncInv, FileInv, FirstBackup, Backups
  <2>2. hint \in 1 .. MaxLines
    BY DEF SyncInv, FileType
  <2> QED
    BY <2>1, <2>2, BackupLeads DEF SyncInv
<1>3. Placed(n, n)
  BY <1>2, BackupIsPlaced DEF SyncInv
<1> QED
  BY <1>1, <1>3, MoveStep

LEMMA SyncAhead ==
  ASSUME SyncInv, NEW p \in Procs, Ahead(p)
  PROVE  SyncInv'
<1>1. Placed(bsl[p], sbl[p]) /\ FileType
  BY DEF SyncInv, ReadInv, Reading, Ahead
<1>2. Relative(bsl[p], goal[p]) \in Int
  BY <1>1, RelativeType DEF SyncInv, ReadType, Placed
<1>3. CASE bsl[p] # sbl[p] /\ Relative(bsl[p], goal[p]) > 0
  <2>1. Placed(sbl[p], sbl[p])
    BY <1>1, BackupIsPlaced DEF Placed
  <2>2. /\ bsl' = Set(bsl, p, sbl[p]) /\ sbl' = Set(sbl, p, sbl[p]) /\ pc' = Set(pc, p, "back")
        /\ UNCHANGED <<lines, hint, cuts, goal, before>>
    BY <1>3 DEF Ahead, LoadBackup
  <2> QED
    BY <2>1, <2>2, MoveStep
<1>4. CASE ~(bsl[p] # sbl[p] /\ Relative(bsl[p], goal[p]) > 0)
  <2>1. /\ bsl' = Set(bsl, p, bsl[p]) /\ sbl' = Set(sbl, p, sbl[p]) /\ pc' = Set(pc, p, "back")
        /\ UNCHANGED <<lines, hint, cuts, goal, before>>
    BY <1>4, SetSame DEF Ahead, SyncInv, ReadType
  <2>2. bsl[p] = sbl[p] \/ Relative(bsl[p], goal[p]) <= 0
    BY <1>2, <1>4
  <2> QED
    BY <1>1, <2>1, <2>2, MoveStep
<1> QED
  BY <1>3, <1>4

LEMMA SyncBack ==
  ASSUME SyncInv, NEW p \in Procs, Back(p)
  PROVE  SyncInv'
<1>1. /\ Placed(bsl[p], sbl[p]) /\ FileType /\ FileInv
      /\ bsl[p] = sbl[p] \/ Relative(bsl[p], goal[p]) <= 0
  BY DEF SyncInv, ReadInv, Reading, Approach, Back
<1>2. Relative(bsl[p], goal[p]) \in Int
  BY <1>1, RelativeType DEF SyncInv, ReadType, Placed
<1>3. sbl[p] \in 1 .. MaxLines /\ sbl[p] \in Backups
  BY <1>1, SaveInFile, StepsAssumption DEF FileType, Placed
<1>4. CASE Relative(bsl[p], goal[p]) > 0 /\ CanGoBack(p)
  <2> DEFINE n == BackupOffset(sbl[p])
  <2>1. Placed(n, n)
    BY <1>1, <1>3, <1>4, BackupLeads, BackupIsPlaced DEF CanGoBack
  <2>2. /\ bsl' = Set(bsl, p, n) /\ sbl' = Set(sbl, p, n) /\ pc' = pc /\ pc[p] = "back"
        /\ UNCHANGED <<lines, hint, cuts, goal, before>>
    BY <1>4 DEF Back, LoadBackup
  <2>3. pc' = Set(pc, p, "back")
    BY <2>2, SetSame DEF SyncInv, ReadType
  <2> QED
    BY <2>1, <2>2, <2>3, MoveStep
<1>5. CASE ~(Relative(bsl[p], goal[p]) > 0 /\ CanGoBack(p))
  <2>1. /\ bsl' = Set(bsl, p, bsl[p]) /\ sbl' = Set(sbl, p, sbl[p]) /\ pc' = Set(pc, p, "walk")
        /\ UNCHANGED <<lines, hint, cuts, goal, before>>
    BY <1>5, SetSame DEF Back, SyncInv, ReadType
  <2>2. bsl[p] = 1 \/ Relative(bsl[p], goal[p]) <= 0
    BY <1>1, <1>2, <1>3, <1>5 DEF CanGoBack
  <2> QED
    BY <1>1, <2>1, <2>2, MoveStep
<1> QED
  BY <1>4, <1>5

\* From a save line to the next one, and to its backup if it is one.
LEMMA NextIsPlaced ==
  ASSUME FileType, NEW p, Placed(bsl[p], sbl[p]), NextSave(bsl[p]) # 0
  PROVE  Placed(NextSave(bsl[p]), BackupAt(p, NextSave(bsl[p])))
<1> DEFINE b == bsl[p]
           n == NextSave(b)
<1>1. b \in Nat /\ b \in 1 .. Len(lines) /\ sbl[p] \in 1 .. Len(lines)
  BY SaveInFile
<1>2. n \in Saves /\ n > b /\ \A m \in Saves : m > b => n <= m
  BY <1>1, NextSaveIs
<1>3. Backups \subseteq Saves /\ \A m \in Saves : m \in 1 .. Len(lines)
  BY LineFacts
<1> HIDE DEF n, b
<1>4. CASE n \in Backups
  BY <1>4, BackupIsPlaced DEF BackupAt, n, b
<1>5. CASE n \notin Backups
  <2>1. BackupAt(p, n) = sbl[p]
    BY <1>5 DEF BackupAt
  <2>2. sbl[p] \in Backups /\ sbl[p] <= b /\ \A m \in Backups : m <= b => m <= sbl[p]
    BY DEF Placed, b
  <2>3. \A m \in Backups : m <= n => m <= b
    BY <1>1, <1>2, <1>3, <1>5 DEF b
  <2>4. Placed(n, sbl[p])
    BY <1>1, <1>2, <1>3, <2>2, <2>3 DEF Placed, b
  <2> QED
    BY <2>1, <2>4 DEF n, b
<1> QED
  BY <1>4, <1>5

LEMMA SyncWalk ==
  ASSUME SyncInv, NEW p \in Procs, Walk(p)
  PROVE  SyncInv'
<1>1. Placed(bsl[p], sbl[p]) /\ FileType
  BY DEF SyncInv, ReadInv, Reading, Walk
<1> DEFINE n == NextSave(bsl[p])
<1>2. CASE Relative(bsl[p], goal[p]) < 0 /\ n # 0 /\ Reaches(n, goal[p])
  <2>1. /\ bsl' = Set(bsl, p, n) /\ sbl' = Set(sbl, p, BackupAt(p, n))
        /\ pc' = pc /\ pc[p] = "walk" /\ UNCHANGED <<lines, hint, cuts, goal, before>>
    BY <1>2 DEF Walk
  <2>2. pc' = Set(pc, p, "walk")
    BY <2>1, SetSame DEF SyncInv, ReadType
  <2> QED
    BY <1>1, <1>2, <2>1, <2>2, NextIsPlaced, MoveStep DEF Reaches
<1>3. CASE ~(Relative(bsl[p], goal[p]) < 0 /\ n # 0 /\ Reaches(n, goal[p]))
  <2>1. /\ bsl' = Set(bsl, p, bsl[p]) /\ sbl' = Set(sbl, p, sbl[p]) /\ pc' = Set(pc, p, "idle")
        /\ UNCHANGED <<lines, hint, cuts, goal, before>>
    BY <1>3, SetSame DEF Walk, SyncInv, ReadType
  <2> QED
    BY <1>1, <2>1, MoveStep
<1> QED
  BY <1>2, <1>3

LEMMA SyncForward == SyncInv /\ Forward => SyncInv'
<1> SUFFICES ASSUME SyncInv, Forward PROVE SyncInv'
  OBVIOUS
<1>1. Placed(bsl[Viewer], sbl[Viewer]) /\ FileType /\ Viewer \in Procs
  BY DEF SyncInv, ReadInv, Reading, Forward, Procs
<1> DEFINE n == NextSave(bsl[Viewer])
<1>2. /\ bsl' = Set(bsl, Viewer, n) /\ sbl' = Set(sbl, Viewer, BackupAt(Viewer, n))
      /\ pc' = Set(pc, Viewer, "idle") /\ UNCHANGED <<lines, hint, cuts, goal, before>>
      /\ n # 0
  BY <1>1, SetSame DEF Forward, SyncInv, ReadType
<1>3. Placed(n, BackupAt(Viewer, n))
  BY <1>1, <1>2, NextIsPlaced
<1> QED
  BY <1>1, <1>2, <1>3, MoveStep

-----------------------------------------------------------------------------
\* The file grows.

LEMMA Grown ==
  ASSUME FileType, NEW e \in LineType, lines' = Append(lines, e)
  PROVE  LET m == Len(lines)
         IN  /\ lines' \in Seq(LineType) /\ Len(lines') = m + 1
             /\ lines'[m + 1] = e /\ \A n \in 1 .. m : lines'[n] = lines[n]
             /\ Saves' = Saves \cup (IF e.kind = "input" THEN {} ELSE {m + 1})
             /\ Backups' = Backups \cup (IF e.kind = "backup" THEN {m + 1} ELSE {})
<1> DEFINE m == Len(lines)
<1>1. /\ lines' \in Seq(LineType) /\ Len(lines') = m + 1
      /\ lines'[m + 1] = e /\ \A n \in 1 .. m : lines'[n] = lines[n]
  BY AppendProperties DEF FileType
<1>2. m \in Nat /\ 1 .. m + 1 = (1 .. m) \cup {m + 1} /\ m + 1 \notin 1 .. m
  BY LineFacts
<1>3. Saves' = Saves \cup (IF e.kind = "input" THEN {} ELSE {m + 1})
  BY <1>1, <1>2 DEF Saves
<1>4. Backups' = Backups \cup (IF e.kind = "backup" THEN {m + 1} ELSE {})
  BY <1>1, <1>2 DEF Backups
<1> QED
  BY <1>1, <1>3, <1>4

\* A line at the end keeps the file good, and readers where they are.
LEMMA FileGrows ==
  ASSUME SyncInv, NEW e \in LineType, lines' = Append(lines, e), Len(lines) < MaxLines,
         e.kind = "backup" => e.back \in Backups /\ \A n \in Backups : n <= e.back,
         e.kind # "input" => \A n \in Saves : lines[n].moves <= e.moves
  PROVE  FileInv' /\ \A b, s : Placed(b, s) => Placed(b, s)'
<1> DEFINE m == Len(lines)
<1>0. FileType /\ FileInv
  BY DEF SyncInv
<1>1. /\ Len(lines') = m + 1
      /\ lines'[m + 1] = e /\ \A n \in 1 .. m : lines'[n] = lines[n]
      /\ Saves' = Saves \cup (IF e.kind = "input" THEN {} ELSE {m + 1})
      /\ Backups' = Backups \cup (IF e.kind = "backup" THEN {m + 1} ELSE {})
  BY <1>0, Grown
<1>2. m \in Nat /\ m >= 1 /\ Backups \subseteq Saves /\ \A n \in Saves : n \in 1 .. m
  BY <1>0, LineFacts
<1> HIDE DEF m
<1>3. FirstBackup'
  BY <1>0, <1>1, <1>2 DEF FileInv, FirstBackup
<1>4. Ordered'
  BY <1>0, <1>1, <1>2 DEF FileInv, Ordered
<1>5. ASSUME NEW n \in Backups', n # 1
      PROVE  /\ lines'[n].back \in Backups' /\ lines'[n].back < n
             /\ \A k \in Backups' : k < n => k <= lines'[n].back
  <2>1. CASE n \in Backups
    <3>1. /\ lines[n].back \in Backups /\ lines[n].back < n
          /\ \A k \in Backups : k < n => k <= lines[n].back
      BY <1>0, <1>5, <2>1 DEF FileInv, ChainWhole
    <3>2. n \in 1 .. m /\ lines'[n] = lines[n]
      BY <1>1, <1>2, <2>1
    <3> QED
      BY <1>1, <1>2, <3>1, <3>2
  <2>2. CASE n \notin Backups
    BY <1>1, <1>2, <1>5, <2>2
  <2> QED
    BY <2>1, <2>2
<1>6. ChainWhole'
  BY <1>5 DEF ChainWhole
<1>7. ASSUME NEW b, NEW s, Placed(b, s) PROVE Placed(b, s)'
  BY <1>1, <1>2, <1>7 DEF Placed
<1> QED
  BY <1>3, <1>4, <1>6, <1>7 DEF FileInv

\* The player is at the end of the file, and so is its last backup.
LEMMA PlayerAtEnd ==
  ASSUME SyncInv, pc[Player] = "idle", AtEnd
  PROVE  /\ Player \in Procs /\ Placed(bsl[Player], sbl[Player])
         /\ \A n \in Saves : n <= bsl[Player]
         /\ \A n \in Backups : n <= sbl[Player]
<1>1. Player \in Procs /\ FileType
  BY DEF Procs, SyncInv
<1>2. Placed(bsl[Player], sbl[Player])
  BY <1>1 DEF SyncInv, ReadInv, Reading
<1>3. bsl[Player] \in Nat
  BY <1>1, <1>2, SaveInFile
<1>4. NextSave(bsl[Player]) = 0 /\ 0 \notin Saves
  BY <1>1, LineFacts DEF AtEnd
<1>5. \A n \in Saves : n <= bsl[Player]
  BY <1>1, <1>3, <1>4, NextSaveIs
<1>6. \A n \in Backups : n <= sbl[Player]
  BY <1>1, <1>2, <1>5, LineFacts DEF Placed
<1> QED
  BY <1>1, <1>2, <1>5, <1>6

\* Where a process is in log_sync does not change when the file grows.
LEMMA ReaderStays ==
  ASSUME SyncInv, NEW e \in LineType, lines' = Append(lines, e), NEW q \in Procs,
         pc'[q] = pc[q], bsl'[q] = bsl[q], sbl'[q] = sbl[q], goal'[q] = goal[q],
         \A b, s : Placed(b, s) => Placed(b, s)'
  PROVE  (Reading(q) /\ Approach(q))'
<1>0. FileType /\ Reading(q) /\ Approach(q) /\ goal[q] \in [unit : Units, at : Int, key : Keys]
  BY DEF SyncInv, ReadInv, ReadType
<1>1. Reading(q)'
  BY <1>0 DEF Reading
<1>2. ASSUME pc[q] \in {"back", "walk"}, Relative(bsl[q], goal[q]) <= 0
      PROVE  Relative(bsl[q], goal[q])' <= 0
  <2> DEFINE b == bsl[q]
             g == goal[q]
  <2>1. b \in Saves /\ b \in 1 .. Len(lines)
    BY <1>0, <1>2, SaveInFile DEF Reading, Placed
  <2>2. Len(lines') = Len(lines) + 1 /\ Len(lines) \in Nat /\ lines'[b] = lines[b]
    BY <1>0, <2>1, Grown, LineFacts
  <2>3. CASE g.unit = "turns"
    BY <1>2, <2>2, <2>3 DEF Relative
  <2>4. CASE g.unit = "bytes"
    BY <1>2, <2>2, <2>4 DEF Relative, Pos
  <2>5. CASE g.unit = "eof"
    BY <1>2, <2>1, <2>2, <2>5 DEF Relative, Pos, Size
  <2>6. g.unit \in {"turns", "bytes", "eof"}
    BY <1>0 DEF Units
  <2> QED
    BY <2>3, <2>4, <2>5, <2>6
<1>3. Approach(q)'
  BY <1>0, <1>2 DEF Approach
<1> QED
  BY <1>1, <1>3

LEMMA SyncInput == SyncInv /\ Input => SyncInv'
<1> SUFFICES ASSUME SyncInv, Input PROVE SyncInv'
  OBVIOUS
<1> DEFINE e == Line("input", 0, 0)
<1>1. e \in LineType /\ e.kind = "input"
  BY DEF Line, LineType, Kinds
<1>2. /\ lines' = Append(lines, e) /\ Len(lines) < MaxLines
      /\ UNCHANGED <<hint, bsl, sbl, pc, goal, before, cuts>>
  BY DEF Input
<1> HIDE DEF e
<1>3. /\ lines' \in Seq(LineType) /\ Len(lines') = Len(lines) + 1
      /\ Len(lines) \in Nat /\ Len(lines) >= 1
  BY <1>1, <1>2, Grown, LineFacts DEF SyncInv
<1>4. FileType'
  BY <1>2, <1>3, StepsAssumption DEF SyncInv, FileType
<1>5. ReadType'
  BY <1>2, <1>3 DEF SyncInv, ReadType
<1>6. FileInv' /\ \A b, s : Placed(b, s) => Placed(b, s)'
  BY <1>1, <1>2, FileGrows
<1>7. ASSUME NEW q \in Procs PROVE (Reading(q) /\ Approach(q))'
  BY <1>1, <1>2, <1>6, ReaderStays
<1> QED
  BY <1>4, <1>5, <1>6, <1>7 DEF SyncInv, ReadInv

LEMMA SyncSave == SyncInv /\ Save => SyncInv'
<1> SUFFICES ASSUME SyncInv, Save PROVE SyncInv'
  OBVIOUS
<1>1. PICK k \in {"backup", "diff"}, s \in Steps :
        /\ lines' = Append(lines, SavedAs(k, lines[bsl[Player]].moves + s))
        /\ bsl' = Set(bsl, Player, Len(lines'))
        /\ IF k = "backup"
           THEN sbl' = Set(sbl, Player, Len(lines')) /\ hint' = Len(lines')
           ELSE UNCHANGED <<sbl, hint>>
  BY DEF Save
<1>2. /\ pc[Player] = "idle" /\ AtEnd /\ Len(lines) < MaxLines
      /\ UNCHANGED <<pc, goal, before, cuts>>
  BY DEF Save
<1> DEFINE e == SavedAs(k, lines[bsl[Player]].moves + s)
           m == Len(lines)
           last == IF k = "backup" THEN m + 1 ELSE sbl[Player]
<1>3. /\ Player \in Procs /\ Placed(bsl[Player], sbl[Player]) /\ FileType
      /\ \A n \in Saves : n <= bsl[Player]
      /\ \A n \in Backups : n <= sbl[Player]
  BY <1>2, PlayerAtEnd DEF SyncInv
<1>4. /\ lines[bsl[Player]].moves \in Nat /\ bsl[Player] \in Saves
      /\ sbl[Player] \in Nat /\ sbl[Player] \in Backups
      /\ sbl[Player] \in 1 .. m
  BY <1>3, LineFacts, SaveInFile DEF Placed
<1>5. e \in LineType /\ e.kind = k /\ e.moves = lines[bsl[Player]].moves + s
  BY <1>4, StepsAssumption DEF SavedAs, Line, LineType, Kinds
<1>6. k = "backup" => e.back = sbl[Player]
  BY DEF SavedAs, Line
<1>7. \A n \in Saves : lines[n].moves <= e.moves
  <2>1. ASSUME NEW n \in Saves PROVE lines[n].moves <= lines[bsl[Player]].moves
    BY <1>3, <1>4, LineFacts DEF SyncInv, FileInv, Ordered
  <2> QED
    BY <1>3, <1>4, <1>5, <2>1, LineFacts, StepsAssumption
<1> HIDE DEF e
<1>8. lines' = Append(lines, e)
  BY <1>1 DEF e
<1>9. /\ lines' \in Seq(LineType) /\ Len(lines') = m + 1 /\ m \in Nat /\ m >= 1
      /\ Saves' = Saves \cup {m + 1}
      /\ Backups' = Backups \cup (IF k = "backup" THEN {m + 1} ELSE {})
  BY <1>3, <1>5, <1>8, Grown, LineFacts
<1>10. FileInv' /\ \A b, t : Placed(b, t) => Placed(b, t)'
  BY <1>2, <1>3, <1>4, <1>5, <1>6, <1>7, <1>8, FileGrows
<1>11. FileType'
  BY <1>1, <1>2, <1>9, StepsAssumption DEF SyncInv, FileType
<1>12. bsl' = Set(bsl, Player, m + 1) /\ sbl' = Set(sbl, Player, last)
  BY <1>1, <1>3, <1>9, SetSame DEF SyncInv, ReadType
<1>13. ReadType'
  <2>1. m + 1 \in 0 .. Len(lines') /\ last \in 0 .. Len(lines')
    BY <1>4, <1>9
  <2>2. bsl' \in [Procs -> 0 .. Len(lines')] /\ sbl' \in [Procs -> 0 .. Len(lines')]
    <3>1. (0 .. m) \subseteq (0 .. Len(lines'))
      BY <1>9
    <3>2. bsl \in [Procs -> 0 .. m] /\ sbl \in [Procs -> 0 .. m]
      BY DEF SyncInv, ReadType
    <3> HIDE DEF m, last
    <3> QED
      BY <1>3, <1>12, <2>1, <3>1, <3>2, SetType
  <2> QED
    BY <1>2, <2>2 DEF SyncInv, ReadType
<1>14. /\ bsl'[Player] = m + 1 /\ sbl'[Player] = last
       /\ \A q \in Procs \ {Player} : bsl'[q] = bsl[q] /\ sbl'[q] = sbl[q]
  BY <1>3, <1>12 DEF SyncInv, ReadType, Set
<1>15. Placed(bsl[Player], sbl[Player])'
  <2>1. \A n \in Backups : n \in 1 .. m /\ n <= sbl[Player]
    BY <1>3, LineFacts
  <2>2. \A n \in Backups' : n <= last
    BY <1>9, <1>4, <2>1
  <2>3. last \in Backups' /\ last <= m + 1
    BY <1>4, <1>9
  <2>4. bsl'[Player] \in Saves' /\ sbl'[Player] = last
    BY <1>9, <1>14
  <2> QED
    BY <1>14, <2>2, <2>3, <2>4 DEF Placed
<1>16. (Reading(Player) /\ Approach(Player))'
  BY <1>2, <1>15 DEF Reading, Approach
<1>17. ASSUME NEW q \in Procs PROVE (Reading(q) /\ Approach(q))'
  BY <1>2, <1>5, <1>8, <1>10, <1>14, <1>16, ReaderStays
<1> QED
  BY <1>10, <1>11, <1>13, <1>17 DEF SyncInv, ReadInv

\* What is left when the end of the file is cut off is a good file.
LEMMA SyncCut == SyncInv /\ Cut => SyncInv'
<1> SUFFICES ASSUME SyncInv, Cut PROVE SyncInv'
  OBVIOUS
<1>1. PICK n \in 1 .. Len(lines) - 1 : lines' = SubSeq(lines, 1, n)
  BY DEF Cut
<1>2. /\ pc[Viewer] = "out" /\ cuts < MaxCuts /\ cuts' = cuts + 1
      /\ pc' = Set(pc, Player, "out")
      /\ bsl' = Set(bsl, Player, 0) /\ sbl' = Set(sbl, Player, 0)
      /\ UNCHANGED <<hint, goal, before>>
  BY DEF Cut
<1>3. FileType /\ FileInv /\ ReadType /\ Len(lines) \in Nat /\ n \in 1 .. Len(lines)
  BY LineFacts DEF SyncInv
<1>4. /\ lines' \in Seq(LineType) /\ Len(lines') = n
      /\ \A i \in 1 .. n : lines'[i] = lines[i]
  BY <1>1, <1>3, SubSeqProperties DEF FileType
<1>5. /\ Saves' = {i \in Saves : i <= n} /\ Backups' = {i \in Backups : i <= n}
  BY <1>3, <1>4 DEF Saves, Backups
<1>6. FileType'
  BY <1>2, <1>3, <1>4, StepsAssumption DEF FileType
<1>7. FirstBackup'
  BY <1>3, <1>4 DEF FileInv, FirstBackup
<1>8. \A i \in Saves' : i \in Saves /\ i \in 1 .. n /\ lines'[i] = lines[i]
  BY <1>3, <1>4, <1>5, LineFacts
<1>9. Ordered'
  BY <1>3, <1>8 DEF FileInv, Ordered
<1>10. ASSUME NEW i \in Backups', i # 1
       PROVE  /\ lines'[i].back \in Backups' /\ lines'[i].back < i
              /\ \A j \in Backups' : j < i => j <= lines'[i].back
  <2>1. i \in Backups /\ i <= n /\ i \in 1 .. n /\ lines'[i] = lines[i]
    BY <1>3, <1>4, <1>5, <1>10, LineFacts
  <2>2. /\ lines[i].back \in Backups /\ lines[i].back < i
        /\ \A j \in Backups : j < i => j <= lines[i].back
    BY <1>3, <1>10, <2>1 DEF FileInv, ChainWhole
  <2>3. lines[i].back \in Nat
    BY <1>3, <2>2, LineFacts
  <2> QED
    BY <1>5, <2>1, <2>2, <2>3
<1>11. ChainWhole'
  BY <1>10 DEF ChainWhole
<1>12. /\ Viewer \in Procs /\ Player \in Procs /\ Procs = {Player, Viewer}
       /\ bsl[Viewer] = 0 /\ sbl[Viewer] = 0
  BY <1>2 DEF Procs, SyncInv, ReadInv, Reading
<1>13. \A p \in Procs : pc'[p] = "out" /\ bsl'[p] = 0 /\ sbl'[p] = 0
  BY <1>2, <1>3, <1>12 DEF ReadType, Set
<1>14. ReadType'
  <2>1. DOMAIN bsl' = Procs /\ DOMAIN sbl' = Procs
    BY <1>2, <1>3 DEF ReadType, Set
  <2>2. bsl' = [p \in Procs |-> 0] /\ sbl' = [p \in Procs |-> 0]
    BY <1>2, <1>3, <1>13 DEF ReadType, Set
  <2>3. 0 \in 0 .. Len(lines')
    BY <1>3, <1>4
  <2>4. pc' \in [Procs -> {"out", "load", "ahead", "back", "walk", "idle"}]
    BY <1>2, <1>3 DEF ReadType, Set
  <2> QED
    BY <1>2, <1>3, <2>2, <2>3, <2>4 DEF ReadType
<1>15. ReadInv'
  BY <1>13 DEF ReadInv, Reading, Approach
<1> QED
  BY <1>6, <1>7, <1>9, <1>11, <1>14, <1>15 DEF SyncInv, FileInv

-----------------------------------------------------------------------------
\* Commands of the viewer

LEMMA SyncOpen == \A p \in Procs : SyncInv /\ Open(p) => SyncInv'
<1> SUFFICES ASSUME NEW p \in Procs, SyncInv, Open(p) PROVE SyncInv'
  OBVIOUS
<1>1. Goal("eof", 0, "open") \in [unit : Units, at : Int, key : Keys]
  BY DEF Goal, Units, Keys
<1> QED
  BY <1>1, SyncBegin DEF Open

LEMMA SyncSeek == SyncInv /\ Seek => SyncInv'
<1> SUFFICES ASSUME SyncInv, Seek PROVE SyncInv'
  OBVIOUS
<1> DEFINE GoalType == [unit : Units, at : Int, key : Keys]
<1>1. Viewer \in Procs /\ pc[Viewer] = "idle" /\ FileType
  BY DEF Procs, Seek, SyncInv
<1>2. bsl[Viewer] \in Nat /\ Moves(Viewer) \in Nat
  <2>1. Placed(bsl[Viewer], sbl[Viewer])
    BY <1>1 DEF SyncInv, ReadInv, Reading
  <2> QED
    BY <1>1, <2>1, LineFacts DEF Placed, Moves
<1>3. \A a, b \in Int : Less(a, b) \in Int
  BY DEF Less
<1>4. /\ BackOne \in GoalType /\ BackFifty \in GoalType /\ OnFifty \in GoalType
      /\ TurnOne \in GoalType /\ EndOfLog \in GoalType
  <2>1. BackOne \in GoalType
    <3>1. Less(Pos(bsl[Viewer]) - 1, 1) \in Int
      <4>1. Pos(bsl[Viewer]) - 1 \in Int
        BY <1>2 DEF Pos
      <4> QED
        BY <1>3, <4>1
    <3> QED
      BY <3>1 DEF BackOne, Goal, Units, Keys
  <2>2. BackFifty \in GoalType
    <3>1. Less(Moves(Viewer) - Fifty, 1) \in Int
      BY <1>2, <1>3, StepsAssumption
    <3> QED
      BY <3>1 DEF BackFifty, Goal, Units, Keys
  <2>3. OnFifty \in GoalType
    <3>1. Moves(Viewer) + Fifty \in Int
      BY <1>2, StepsAssumption
    <3> QED
      BY <3>1 DEF OnFifty, Goal, Units, Keys
  <2>4. TurnOne \in GoalType /\ EndOfLog \in GoalType
    BY DEF TurnOne, EndOfLog, Goal, Units, Keys
  <2> QED
    BY <2>1, <2>2, <2>3, <2>4
<1>5. ASSUME NEW t \in {line.moves : line \in {lines[n] : n \in Saves}}
      PROVE  Goal("turns", t, "grope") \in GoalType
  <2>1. PICK n \in Saves : t = lines[n].moves
    BY <1>5
  <2>2. t \in Int
    BY <1>1, <2>1, LineFacts
  <2> QED
    BY <2>2 DEF Goal, Units, Keys
<1>6. PICK g \in GoalType : Begin(Viewer, g)
  BY <1>4, <1>5 DEF Seek
<1> QED
  BY <1>1, <1>6, SyncBegin

-----------------------------------------------------------------------------
(***************************************************************************)
(* Theorems                                                                *)
(***************************************************************************)

LEMMA SyncInit == Init => SyncInv
<1> SUFFICES ASSUME Init PROVE SyncInv
  OBVIOUS
<1> DEFINE e == Line("backup", 1, 0)
<1>1. e \in LineType /\ e.kind = "backup"
  BY DEF Line, LineType, Kinds
<1>2. lines \in Seq(LineType) /\ Len(lines) = 1 /\ lines[1] = e
  BY <1>1 DEF Init
<1> HIDE DEF e
<1>3. FileType
  BY <1>2, StepsAssumption DEF Init, FileType
<1>4. Saves = {1} /\ Backups = {1}
  BY <1>1, <1>2 DEF Saves, Backups
<1>5. FileInv
  BY <1>1, <1>2, <1>4 DEF FileInv, FirstBackup, ChainWhole, Ordered
<1>6. ReadType
  BY <1>2, StepsAssumption DEF Init, ReadType, Goal, Units, Keys
<1>7. ReadInv
  BY DEF Init, ReadInv, Reading, Approach
<1> QED
  BY <1>3, <1>5, <1>6, <1>7 DEF SyncInv

LEMMA SyncNext == SyncInv /\ [Next]_vars => SyncInv'
<1> SUFFICES ASSUME SyncInv, [Next]_vars PROVE SyncInv'
  OBVIOUS
<1>1. ASSUME NEW p \in Procs, Open(p) PROVE SyncInv'
  BY <1>1, SyncOpen
<1>2. ASSUME NEW p \in Procs, LogSync(p) PROVE SyncInv'
  BY <1>2, SyncLoad, SyncAhead, SyncBack, SyncWalk DEF LogSync
<1>3. CASE Input
  BY <1>3, SyncInput
<1>4. CASE Save
  BY <1>4, SyncSave
<1>5. CASE Cut
  BY <1>5, SyncCut
<1>6. CASE Seek
  BY <1>6, SyncSeek
<1>7. CASE Forward
  BY <1>7, SyncForward
<1>8. CASE UNCHANGED vars
  BY <1>8 DEF vars, SyncInv, FileType, ReadType, FileInv, ReadInv, FirstBackup, ChainWhole,
              Ordered, Reading, Approach, Placed, Saves, Backups, Relative, Size
<1> QED
  BY <1>1, <1>2, <1>3, <1>4, <1>5, <1>6, <1>7, <1>8 DEF Next

\* Whatever the length of the file, the recoveries and the targets, log_sync
\* keeps to save lines, with the last backup behind each.
THEOREM SyncIsRight == Spec => []SyncInv
BY SyncInit, SyncNext, PTL DEF Spec

\* Every variable keeps its type; in particular log_sync never leaves the file.
THEOREM SyncTypeOK == Spec => []TypeOK
<1>1. SyncInv => TypeOK
  BY Types DEF SyncInv
<1> QED
  BY <1>1, SyncIsRight, PTL

\* The backups of a save file form one chain (log_backup_save), also after a
\* recovery has left the hint behind the end of the file.
THEOREM ChainIsWhole == Spec => []ChainWhole
<1>1. SyncInv => ChainWhole
  BY DEF SyncInv, FileInv
<1> QED
  BY <1>1, SyncIsRight, PTL

\* save_backup_location is the last backup at or before the binary save.
THEOREM BackupIsBehind == Spec => []BackupBehind
<1>1. SyncInv => BackupBehind
  BY DEF SyncInv, ReadInv, Reading, Placed, BackupBehind
<1> QED
  BY <1>1, SyncIsRight, PTL

\* Only the walk ends log_sync, and no save line ahead is nearer to the target.
LEMMA WalkReaches == SyncInv /\ [Next]_vars => [Reached]_vars
<1> SUFFICES ASSUME SyncInv, Next, NEW p \in Procs, pc[p] = "walk", pc'[p] = "idle"
             PROVE  /\ bsl[p] \in Saves
                    /\ bsl[p] = 1 \/ Relative(bsl[p], goal[p]) <= 0
                    /\ \A n \in Saves : n > bsl[p] => Relative(n, goal[p]) >= 0
  BY DEF Reached
<1> DEFINE b == bsl[p]
           g == goal[p]
<1>1. /\ FileType /\ FileInv /\ Placed(b, sbl[p])
      /\ b = 1 \/ Relative(b, g) <= 0
      /\ g \in [unit : Units, at : Int, key : Keys]
  BY DEF SyncInv, ReadInv, ReadType, Reading, Approach
<1>2. b \in Saves /\ b \in Nat
  BY <1>1, SaveInFile DEF Placed
<1>3. ~(Relative(b, g) < 0 /\ NextSave(b) # 0 /\ Reaches(NextSave(b), g))
  BY DEF SyncInv, ReadType, Next, Open, LogSync, Load, Ahead, Back, Walk, Input, Save, Cut,
         Seek, Forward, Begin, Set, Procs
<1>4. ASSUME NEW n \in Saves, n > b PROVE Relative(n, g) >= 0
  <2>1. NextSave(b) # 0 /\ NextSave(b) \in Saves /\ NextSave(b) <= n
    BY <1>1, <1>2, <1>4, NextSaveIs, LineFacts
  <2>2. /\ Relative(b, g) \in Int /\ Relative(n, g) \in Int /\ Relative(b, g) <= Relative(n, g)
    BY <1>1, <1>2, <1>4, RelativeGrows, LineFacts
  <2>3. /\ Relative(NextSave(b), g) \in Int
        /\ Relative(NextSave(b), g) <= Relative(n, g)
    BY <1>1, <2>1, <2>2, RelativeGrows, LineFacts
  <2> QED
    BY <1>3, <2>1, <2>2, <2>3 DEF Reaches
<1> QED
  BY <1>1, <1>2, <1>4

\* log_sync stops at a save at or before its target, or at the first save when
\* the target lies before it, and no save ahead of it lies before the target: it
\* never stops short of a save that it could have gone on to (log.c:2196).
THEOREM SyncIsExact == Spec => SyncReachesTarget
BY SyncIsRight, WalkReaches, PTL DEF Spec, SyncReachesTarget
=============================================================================

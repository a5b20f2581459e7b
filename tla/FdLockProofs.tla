----------------------------- MODULE FdLockProofs -----------------------------
(***************************************************************************)
(* What the lock on the save file promises for any number of processes and *)
(* any number of timeouts and kills: a lock is kept until it is given back, *)
(* and a process that relies on one has heard of every write.               *)
(*                                                                         *)
(* That argument does not count signals.  It rests on who may hold what:    *)
(* the kernel lets nobody hold a lock beside a writer (Exclusive), the file *)
(* cannot be written while a process holds a lock on it (HoldersKnow), and  *)
(* a process never lets its lock go except in the handler, which locks the  *)
(* file again and then looks at it (NeverEmptyHanded).                      *)
(*                                                                         *)
(* The signals are counted at the end of the module: as long as nothing     *)
(* times out, each process has been sent exactly the answers and releases   *)
(* that it waits for (SignalsBalance).                                      *)
(***************************************************************************)
EXTENDS FdLock, SumTheorems, TLAPS

-----------------------------------------------------------------------------
\* The inductive invariant

\* A write lock excludes every other lock.
Exclusive ==
  \A p, q \in Procs : p # q /\ fl[p] = "write" => fl[q] = "none"

\* A process outside change_fd_lock, and outside the handlers, has the lock
\* that it asked for; at a read or a write lock the requests stay masked.
Believed ==
  \A p \in Procs :
    pc[p] = "free" =>
      /\ lt[p] \in {"read", "write"} => hand[p] = "no" /\ shut[p]
      /\ hand[p] = "no" /\ lt[p] \in {"monitor", "read", "write"} =>
           fl[p] = FcntlType(lt[p])

\* Requests are counted only by the handler, answers only in change_fd_lock.
Counted ==
  \A p \in Procs :
    /\ hand[p] # "select" => inc[p] = 0
    /\ pc[p] \in {"free", "dead"} => out[p] = 0

\* A writer is not interrupted before it has given its lock back: nobody can
\* stand in its way, so that it never waits with the requests unmasked.
WritersUndisturbed ==
  \A p \in Procs :
    lt[p] = "write" =>
      /\ pc[p] \in {"free", "try"} /\ hand[p] = "no"
      /\ fl[p] = "write" /\ out[p] = 0
      /\ want[p] \in {"none", "monitor"}

\* Only a handler leaves a process that uses the file without any lock.
NeverEmptyHanded ==
  \A p \in Procs : hand[p] = "no" /\ lt[p] # "none" => fl[p] # "none"

\* Who holds any lock has heard of every write.
HoldersKnow == \A p \in Procs : fl[p] # "none" => ~stale[p]

Safe == /\ Exclusive /\ Believed /\ Counted
        /\ WritersUndisturbed /\ NeverEmptyHanded /\ HoldersKnow
IInv == TypeOK /\ Safe

-----------------------------------------------------------------------------
\* Types

LEMMA SentTyped ==
  ASSUME NEW pending \in [Procs -> [Signals -> [Procs -> Nat]]],
         NEW p \in Procs, NEW q \in Procs, NEW s \in Signals
  PROVE  Sent(pending, p, q, s) \in [Procs -> [Signals -> [Procs -> Nat]]]
<1>1. pending[q] \in [Signals -> [Procs -> Nat]] /\ pending[q][s] \in [Procs -> Nat]
  OBVIOUS
<1>2. [pending[q][s] EXCEPT ![p] = @ + 1] \in [Procs -> Nat]
  BY <1>1
<1>3. [pending[q] EXCEPT ![s][p] = @ + 1] \in [Signals -> [Procs -> Nat]]
  BY <1>1, <1>2
<1>4. [pending EXCEPT ![q][s][p] = @ + 1] \in [Procs -> [Signals -> [Procs -> Nat]]]
  BY <1>3
<1> QED
  BY <1>4 DEF Sent

LEMMA TakenTyped ==
  ASSUME TypeOK, NEW p \in Procs, NEW q \in Procs, NEW s \in Signals,
         pend[p][s][q] > 0
  PROVE  Taken(p, s, q) \in [Procs -> [Signals -> [Procs -> Nat]]]
<1>1. /\ pend \in [Procs -> [Signals -> [Procs -> Nat]]]
      /\ pend[p] \in [Signals -> [Procs -> Nat]]
      /\ pend[p][s] \in [Procs -> Nat]
  BY DEF TypeOK
<1>2. [pend[p][s] EXCEPT ![q] = @ - 1] \in [Procs -> Nat]
  BY <1>1
<1>3. [pend[p] EXCEPT ![s][q] = @ - 1] \in [Signals -> [Procs -> Nat]]
  BY <1>1, <1>2
<1>4. [pend EXCEPT ![p][s][q] = @ - 1] \in [Procs -> [Signals -> [Procs -> Nat]]]
  BY <1>1, <1>3
<1> QED
  BY <1>4 DEF Taken

LEMMA FlushedTyped ==
  ASSUME TypeOK, NEW p \in Procs
  PROVE  Flushed(pend, p) \in [Procs -> [Signals -> [Procs -> Nat]]]
<1>1. /\ pend \in [Procs -> [Signals -> [Procs -> Nat]]]
      /\ watch \in [Procs -> [Procs -> Nat]]
  BY DEF TypeOK
<1>2. ASSUME NEW q \in Procs, NEW s \in Signals
      PROVE  [pend[q] EXCEPT ![s][p] = @ + watch[p][q]] \in [Signals -> [Procs -> Nat]]
  <2>1. pend[q] \in [Signals -> [Procs -> Nat]] /\ pend[q][s] \in [Procs -> Nat]
    BY <1>1
  <2>2. [pend[q][s] EXCEPT ![p] = @ + watch[p][q]] \in [Procs -> Nat]
    BY <1>1, <2>1
  <2> QED
    BY <2>1, <2>2
<1>3. \A q \in Procs : (IF q < p THEN 2 ELSE 3) \in Signals
  BY DEF Signals
<1>4. \A q \in Procs :
        [pend[q] EXCEPT ![IF q < p THEN 2 ELSE 3][p] = @ + watch[p][q]]
          \in [Signals -> [Procs -> Nat]]
  BY <1>2, <1>3
<1> QED
  BY <1>1, <1>4 DEF Flushed

LEMMA NothingTyped ==
  /\ Nothing \in [Procs -> Nat]
  /\ [s \in Signals |-> Nothing] \in [Signals -> [Procs -> Nat]]
BY DEF Nothing

LEMMA InitTypes == Init => TypeOK
BY NothingTyped, LimitsAssumption DEF Init, TypeOK, Locks, Nothing

\* Visible never names anything but a signal.
LEMMA VisibleSignals ==
  ASSUME NEW p \in Procs
  PROVE  Visible(p) \subseteq Signals
BY DEF Visible, InCall, Signals, Answer

LEMMA HandleTypes ==
  ASSUME TypeOK, NEW p \in Procs, Handle(p)
  PROVE  TypeOK'
<1>1. CASE HandleRequest(p)
  <2>1. PICK s \in Requests, q \in Procs :
          /\ Takes(p, s, q)
          /\ inc' = [inc EXCEPT ![p] = @ + 1]
          /\ fl' = [fl EXCEPT ![p] = "none"]
          /\ pend' = Answered(Taken(p, s, q), p, q)
          /\ hand' = [hand EXCEPT ![p] = "select"]
          /\ UNCHANGED <<lt, shut, pc, want, out, watch, stale, ops, faults>>
    BY <1>1 DEF HandleRequest
  <2>2. s \in Signals /\ pend[p][s][q] > 0 /\ Answer \in Signals
    BY <2>1, VisibleSignals DEF Takes, Signals, Answer
  <2>3. pend' \in [Procs -> [Signals -> [Procs -> Nat]]]
    BY <2>1, <2>2, TakenTyped, SentTyped DEF Answered
  <2>4. /\ fl' \in [Procs -> {"none", "read", "write"}]
        /\ hand' \in [Procs -> {"no", "select", "relock"}]
    BY <2>1 DEF TypeOK
  <2>5. inc' \in [Procs -> Nat]
    BY <2>1 DEF TypeOK
  <2> QED
    BY <2>1, <2>3, <2>4, <2>5 DEF TypeOK
<1>2. CASE HandleAnother(p)
  <2>1. PICK s \in Requests, q \in Procs :
          /\ Takes(p, s, q)
          /\ inc' = [inc EXCEPT ![p] = @ + 1]
          /\ pend' = Answered(Taken(p, s, q), p, q)
          /\ UNCHANGED <<fl, lt, shut, pc, want, hand, out, watch, stale, ops, faults>>
    BY <1>2 DEF HandleAnother
  <2>2. s \in Signals /\ pend[p][s][q] > 0 /\ Answer \in Signals
    BY <2>1, VisibleSignals DEF Takes, Signals, Answer
  <2>3. pend' \in [Procs -> [Signals -> [Procs -> Nat]]]
    BY <2>1, <2>2, TakenTyped, SentTyped DEF Answered
  <2>4. inc' \in [Procs -> Nat]
    BY <2>1 DEF TypeOK
  <2> QED
    BY <2>1, <2>3, <2>4 DEF TypeOK
<1>3. CASE HandleRelease(p)
  <2>1. PICK s \in Releases, q \in Procs :
          /\ Takes(p, s, q)
          /\ inc' = [inc EXCEPT ![p] = Minus(@)]
          /\ pend' = Taken(p, s, q)
          /\ UNCHANGED <<fl, lt, shut, pc, want, hand, out, watch, stale, ops, faults>>
    BY <1>3 DEF HandleRelease
  <2>2. pend' \in [Procs -> [Signals -> [Procs -> Nat]]]
    BY <2>1, VisibleSignals, TakenTyped DEF Takes
  <2>3. inc' \in [Procs -> Nat]
    BY <2>1 DEF TypeOK, Minus
  <2> QED
    BY <2>1, <2>2, <2>3 DEF TypeOK
<1>4. CASE HandleAnswer(p)
  <2>1. PICK q \in Procs :
          /\ Takes(p, Answer, q)
          /\ out' = [out EXCEPT ![p] = Minus(@)]
          /\ pend' = Taken(p, Answer, q)
          /\ UNCHANGED <<fl, lt, shut, pc, want, hand, inc, watch, stale, ops, faults>>
    BY <1>4 DEF HandleAnswer
  <2>2. pend' \in [Procs -> [Signals -> [Procs -> Nat]]]
    BY <2>1, VisibleSignals, TakenTyped DEF Takes
  <2>3. out' \in [Procs -> Nat]
    BY <2>1 DEF TypeOK, Minus
  <2> QED
    BY <2>1, <2>2, <2>3 DEF TypeOK
<1>5. CASE SelectEnds(p)
  BY <1>5 DEF TypeOK, SelectEnds
<1>6. CASE Relock(p)
  BY <1>6 DEF TypeOK, Relock
<1> QED
  BY <1>1, <1>2, <1>3, <1>4, <1>5, <1>6 DEF Handle

\* What a return from change_fd_lock leaves in the variables that it sets.
LEMMA ReturnTypes ==
  ASSUME TypeOK, NEW p \in Procs, NEW l \in Locks, Return(p, l)
  PROVE  /\ pend' \in [Procs -> [Signals -> [Procs -> Nat]]]
         /\ lt' \in [Procs -> Locks] /\ shut' \in [Procs -> BOOLEAN]
         /\ pc' \in [Procs -> {"free", "try", "who", "dead"}]
         /\ want' \in [Procs -> Locks \ {"panic"}]
         /\ watch' \in [Procs -> [Procs -> Nat]]
<1>1. pend' \in [Procs -> [Signals -> [Procs -> Nat]]]
  BY FlushedTyped DEF Return
<1>2. watch' \in [Procs -> [Procs -> Nat]]
  BY NothingTyped DEF Return, TypeOK
<1>3. want' \in [Procs -> Locks \ {"panic"}]
  BY DEF Return, TypeOK, Locks
<1>4. /\ lt' \in [Procs -> Locks] /\ shut' \in [Procs -> BOOLEAN]
      /\ pc' \in [Procs -> {"free", "try", "who", "dead"}]
  BY DEF Return, TypeOK
<1> QED
  BY <1>1, <1>2, <1>3, <1>4

LEMMA LoopTypes ==
  ASSUME TypeOK, NEW p \in Procs, Loop(p)
  PROVE  TypeOK'
<1>1. CASE Lock(p)
  <2>1. want[p] \in Locks \ {"panic"} /\ FcntlType(want[p]) \in {"none", "read", "write"}
    BY DEF TypeOK, FcntlType, Locks
  <2>2. Return(p, want[p])
    BY <1>1 DEF Lock
  <2>3. fl' \in [Procs -> {"none", "read", "write"}] /\ stale' \in [Procs -> BOOLEAN]
    BY <1>1, <2>1 DEF Lock, TypeOK
  <2> QED
    BY <1>1, <2>1, <2>2, <2>3, ReturnTypes DEF Lock, TypeOK
<1>2. CASE Refuse(p)
  BY <1>2 DEF TypeOK, Refuse
<1>3. CASE Ask(p)
  <2>1. CASE UNCHANGED <<pend, out, watch>>
    BY <1>3, <2>1 DEF TypeOK, Ask
  <2>2. CASE \E q \in Blockers(p, want[p]) :
               /\ out' = [out EXCEPT ![p] = @ + 1]
               /\ pend' = Sent(pend, p, q, RequestTo(p, q))
               /\ watch' = [watch EXCEPT ![p][q] = @ + 1]
    <3>1. PICK q \in Procs :
            /\ out' = [out EXCEPT ![p] = @ + 1]
            /\ pend' = Sent(pend, p, q, RequestTo(p, q))
            /\ watch' = [watch EXCEPT ![p][q] = @ + 1]
      BY <2>2 DEF Blockers
    <3>2. pend' \in [Procs -> [Signals -> [Procs -> Nat]]]
      <4>1. RequestTo(p, q) \in Signals
        BY DEF RequestTo, Signals
      <4>2. pend \in [Procs -> [Signals -> [Procs -> Nat]]]
        BY DEF TypeOK
      <4>3. Sent(pend, p, q, RequestTo(p, q)) \in [Procs -> [Signals -> [Procs -> Nat]]]
        BY <4>1, <4>2, SentTyped
      <4> QED
        BY <3>1, <4>3
    <3>3. watch' \in [Procs -> [Procs -> Nat]]
      BY <3>1 DEF TypeOK
    <3> QED
      BY <1>3, <3>1, <3>2, <3>3 DEF TypeOK, Ask
  <2> QED
    BY <1>3, <2>1, <2>2 DEF Ask
<1> QED
  BY <1>1, <1>2, <1>3 DEF Loop

LEMMA CallTypes ==
  ASSUME TypeOK, NEW p \in Procs, NEW t \in Locks, Call(p, t)
  PROVE  TypeOK'
<1>1. t \in Locks \ {"panic"}
  BY DEF Call, NextLocks, TypeOK, Locks
<1>2. pend' \in [Procs -> [Signals -> [Procs -> Nat]]]
  BY NothingTyped DEF Call, TypeOK
<1>3. ops' \in [Procs -> 0 .. MaxOps]
  BY LimitsAssumption DEF Call, TypeOK
<1>4. stale' \in [Procs -> BOOLEAN]
  BY DEF Call, TypeOK
<1> QED
  BY <1>1, <1>2, <1>3, <1>4 DEF Call, TypeOK

LEMMA FaultTypes ==
  ASSUME TypeOK, NEW p \in Procs, SelectTimeout(p) \/ Alarm(p) \/ Die(p)
  PROVE  TypeOK'
<1>1. CASE SelectTimeout(p)
  BY <1>1, LimitsAssumption DEF TypeOK, SelectTimeout
<1>2. CASE Alarm(p)
  <2>1. PICK l \in Locks : Return(p, l)
    BY <1>2 DEF Alarm, Locks
  <2> QED
    BY <1>2, <2>1, ReturnTypes, LimitsAssumption DEF Alarm, TypeOK
<1>3. CASE Die(p)
  <2>1. /\ pend' \in [Procs -> [Signals -> [Procs -> Nat]]]
        /\ watch' \in [Procs -> [Procs -> Nat]]
    BY <1>3, NothingTyped DEF Die, TypeOK
  <2>2. faults' \in 0 .. MaxFaults
    BY <1>3, LimitsAssumption DEF Die, TypeOK
  <2>3. stale' \in [Procs -> BOOLEAN]
    BY <1>3 DEF Die, TypeOK
  <2>4. lt' \in [Procs -> Locks] /\ fl' \in [Procs -> {"none", "read", "write"}]
    BY <1>3 DEF Die, TypeOK, Locks
  <2> QED
    BY <1>3, <2>1, <2>2, <2>3, <2>4 DEF Die, TypeOK
<1> QED
  BY <1>1, <1>2, <1>3

-----------------------------------------------------------------------------
\* Handlers

\* A process takes a request only where it may lose its lock: outside
\* change_fd_lock at a monitor lock or after a panic, inside it when it waits.
LEMMA RequestsMasked ==
  ASSUME IInv, NEW p \in Procs, NEW s \in Requests, NEW q \in Procs,
         Takes(p, s, q)
  PROVE  /\ pc[p] \in {"free", "try"}
         /\ pc[p] = "free" => lt[p] \notin {"read", "write"}
         /\ lt[p] # "write"
<1>1. s \in Visible(p) /\ s # Answer /\ hand[p] \in {"no", "select", "relock"}
  BY DEF Takes, Requests, Answer, IInv, TypeOK
<1>2. pc[p] \in {"free", "try"} /\ (pc[p] = "free" => ~shut[p])
  BY <1>1 DEF Visible
<1>3. pc[p] = "free" => lt[p] \notin {"read", "write"}
  BY <1>2 DEF IInv, Safe, Believed
<1>4. CASE pc[p] = "try"
  <2>1. hand[p] = "select" \/ Waiting(p)
    BY <1>1, <1>4 DEF Visible
  <2>2. hand[p] = "no" => inc[p] = 0
    BY DEF IInv, Safe, Counted
  <2> QED
    BY <1>2, <1>4, <2>1, <2>2 DEF Waiting, IInv, Safe, WritersUndisturbed
<1> QED
  BY <1>2, <1>3, <1>4

LEMMA RequestSafe ==
  ASSUME IInv, NEW p \in Procs, HandleRequest(p)
  PROVE  Safe'
<1>1. PICK s \in Requests, q \in Procs : Takes(p, s, q)
  BY DEF HandleRequest
<1>2. /\ fl' = [fl EXCEPT ![p] = "none"]
      /\ hand' = [hand EXCEPT ![p] = "select"]
      /\ inc' = [inc EXCEPT ![p] = @ + 1]
      /\ UNCHANGED <<lt, shut, pc, want, out, stale>>
  BY DEF HandleRequest
<1>3. /\ pc[p] \in {"free", "try"} /\ lt[p] # "write"
      /\ pc[p] = "free" => lt[p] \notin {"read", "write"}
  BY <1>1, RequestsMasked
<1>4. Exclusive'
  BY <1>2 DEF IInv, TypeOK, Safe, Exclusive
<1>5. Believed'
  BY <1>2, <1>3 DEF IInv, TypeOK, Safe, Believed
<1>6. Counted'
  BY <1>2 DEF IInv, TypeOK, Safe, Counted
<1>7. WritersUndisturbed'
  BY <1>2, <1>3 DEF IInv, TypeOK, Safe, WritersUndisturbed
<1>8. NeverEmptyHanded' /\ HoldersKnow'
  BY <1>2 DEF IInv, TypeOK, Safe, NeverEmptyHanded, HoldersKnow
<1> QED
  BY <1>4, <1>5, <1>6, <1>7, <1>8 DEF Safe

LEMMA AnotherSafe ==
  ASSUME IInv, NEW p \in Procs, HandleAnother(p)
  PROVE  Safe'
<1>1. /\ hand[p] = "select"
      /\ inc' = [inc EXCEPT ![p] = @ + 1]
      /\ UNCHANGED <<fl, lt, shut, pc, want, hand, out, stale>>
  BY DEF HandleAnother
<1>2. Counted'
  BY <1>1 DEF IInv, TypeOK, Safe, Counted
<1> QED
  BY <1>1, <1>2 DEF IInv, Safe, Exclusive, Believed, WritersUndisturbed,
                    NeverEmptyHanded, HoldersKnow

LEMMA ReleaseSafe ==
  ASSUME IInv, NEW p \in Procs, HandleRelease(p)
  PROVE  Safe'
<1>1. /\ inc' = [inc EXCEPT ![p] = Minus(@)]
      /\ UNCHANGED <<fl, lt, shut, pc, want, hand, out, stale>>
  BY DEF HandleRelease
<1>2. Counted'
  BY <1>1 DEF IInv, TypeOK, Safe, Counted, Minus
<1> QED
  BY <1>1, <1>2 DEF IInv, Safe, Exclusive, Believed, WritersUndisturbed,
                    NeverEmptyHanded, HoldersKnow

LEMMA AnswerSafe ==
  ASSUME IInv, NEW p \in Procs, HandleAnswer(p)
  PROVE  Safe'
<1>1. /\ out' = [out EXCEPT ![p] = Minus(@)]
      /\ UNCHANGED <<fl, lt, shut, pc, want, hand, inc, stale>>
  BY DEF HandleAnswer
<1>2. Counted' /\ WritersUndisturbed'
  BY <1>1 DEF IInv, TypeOK, Safe, Counted, WritersUndisturbed, Minus
<1> QED
  BY <1>1, <1>2 DEF IInv, Safe, Exclusive, Believed, NeverEmptyHanded, HoldersKnow

LEMMA SelectSafe ==
  ASSUME IInv, NEW p \in Procs, SelectEnds(p) \/ SelectTimeout(p)
  PROVE  Safe'
<1>1. /\ hand[p] = "select" /\ hand' = [hand EXCEPT ![p] = "relock"]
      /\ inc' = [inc EXCEPT ![p] = 0]
      /\ UNCHANGED <<fl, lt, shut, pc, want, out, stale>>
  BY DEF SelectEnds, SelectTimeout, IInv, TypeOK
<1>2. Believed' /\ Counted'
  BY <1>1 DEF IInv, TypeOK, Safe, Believed, Counted
<1>3. WritersUndisturbed' /\ NeverEmptyHanded'
  BY <1>1 DEF IInv, TypeOK, Safe, WritersUndisturbed, NeverEmptyHanded
<1> QED
  BY <1>1, <1>2, <1>3 DEF IInv, Safe, Exclusive, HoldersKnow

\* The handler gets its lock back only when nobody writes, and then it looks.
LEMMA RelockSafe ==
  ASSUME IInv, NEW p \in Procs, Relock(p)
  PROVE  Safe'
<1>1. /\ hand[p] = "relock" /\ Blockers(p, "read") = {}
      /\ fl' = [fl EXCEPT ![p] = "read"]
      /\ hand' = [hand EXCEPT ![p] = "no"]
      /\ stale' = [stale EXCEPT ![p] = FALSE]
      /\ UNCHANGED <<lt, shut, pc, want, inc, out>>
  BY DEF Relock
<1>2. \A q \in Procs \ {p} : fl[q] # "write"
  BY <1>1 DEF Blockers
<1>3. Exclusive'
  BY <1>1, <1>2 DEF IInv, TypeOK, Safe, Exclusive
<1>4. Believed'
  BY <1>1 DEF IInv, TypeOK, Safe, Believed, FcntlType
<1>5. Counted' /\ WritersUndisturbed'
  BY <1>1 DEF IInv, TypeOK, Safe, Counted, WritersUndisturbed
<1>6. NeverEmptyHanded' /\ HoldersKnow'
  BY <1>1 DEF IInv, TypeOK, Safe, NeverEmptyHanded, HoldersKnow
<1> QED
  BY <1>3, <1>4, <1>5, <1>6 DEF Safe

-----------------------------------------------------------------------------
\* change_fd_lock

LEMMA LockSafe ==
  ASSUME IInv, NEW p \in Procs, Lock(p)
  PROVE  Safe'
<1>1. /\ pc[p] = "try" /\ hand[p] = "no" /\ inc[p] = 0 /\ out[p] = 0
      /\ Blockers(p, want[p]) = {} /\ want[p] \in {"none", "monitor", "read", "write"}
  BY DEF Lock, Waiting, IInv, TypeOK, Locks
<1>2. /\ fl' = [fl EXCEPT ![p] = FcntlType(want[p])]
      /\ lt' = [lt EXCEPT ![p] = want[p]]
      /\ pc' = [pc EXCEPT ![p] = "free"]
      /\ shut' = [shut EXCEPT ![p] = want[p] \in {"read", "write"}]
      /\ want' = [want EXCEPT ![p] = "none"]
      /\ UNCHANGED <<hand, inc, out>>
  BY DEF Lock, Return
<1>3. stale' = IF lt[p] = "none" \/ want[p] = "none"
               THEN [stale EXCEPT ![p] = FALSE] ELSE stale
  BY DEF Lock
<1>4. /\ want[p] = "write" => \A q \in Procs \ {p} : fl[q] = "none"
      /\ want[p] \in {"monitor", "read"} => \A q \in Procs \ {p} : fl[q] # "write"
  BY <1>1 DEF Blockers
<1>5. Exclusive'
  BY <1>1, <1>2, <1>4 DEF IInv, TypeOK, Safe, Exclusive, FcntlType
<1>6. Believed'
  BY <1>1, <1>2 DEF IInv, TypeOK, Safe, Believed
<1>7. Counted' /\ WritersUndisturbed'
  BY <1>1, <1>2 DEF IInv, TypeOK, Safe, Counted, WritersUndisturbed, FcntlType
<1>8. NeverEmptyHanded'
  BY <1>1, <1>2 DEF IInv, TypeOK, Safe, NeverEmptyHanded, FcntlType
<1>9. HoldersKnow'
  <2>1. lt[p] # "none" => ~stale[p]
    BY <1>1 DEF IInv, Safe, NeverEmptyHanded, HoldersKnow
  <2>2. ~stale'[p]
    BY <1>3, <2>1 DEF IInv, TypeOK
  <2> QED
    BY <1>2, <1>3, <2>2 DEF IInv, TypeOK, Safe, HoldersKnow
<1> QED
  BY <1>5, <1>6, <1>7, <1>8, <1>9 DEF Safe

LEMMA RefuseSafe ==
  ASSUME IInv, NEW p \in Procs, Refuse(p)
  PROVE  Safe'
<1>1. /\ pc[p] = "try" /\ Blockers(p, want[p]) # {}
      /\ pc' = [pc EXCEPT ![p] = "who"]
      /\ UNCHANGED <<fl, lt, shut, want, hand, inc, out, stale>>
  BY DEF Refuse
<1>2. lt[p] # "write"
  <2> SUFFICES ASSUME lt[p] = "write"
               PROVE  FALSE
    OBVIOUS
  <2>1. fl[p] = "write" /\ want[p] \in {"none", "monitor"}
    BY DEF IInv, Safe, WritersUndisturbed
  <2>2. \A q \in Procs \ {p} : fl[q] = "none"
    BY <2>1 DEF IInv, Safe, Exclusive
  <2> QED
    BY <1>1, <2>1, <2>2 DEF Blockers
<1>3. Believed' /\ Counted' /\ WritersUndisturbed'
  BY <1>1, <1>2 DEF IInv, TypeOK, Safe, Believed, Counted, WritersUndisturbed
<1> QED
  BY <1>1, <1>3 DEF IInv, Safe, Exclusive, NeverEmptyHanded, HoldersKnow

LEMMA AskSafe ==
  ASSUME IInv, NEW p \in Procs, Ask(p)
  PROVE  Safe'
<1>1. /\ pc[p] = "who" /\ pc' = [pc EXCEPT ![p] = "try"]
      /\ UNCHANGED <<fl, lt, shut, want, hand, inc, stale>>
  BY DEF Ask
<1>2. \A q \in Procs : q # p => out'[q] = out[q]
  BY DEF Ask, IInv, TypeOK
<1>3. lt[p] # "write"
  BY <1>1 DEF IInv, Safe, WritersUndisturbed
<1>4. Believed' /\ Counted' /\ WritersUndisturbed'
  BY <1>1, <1>2, <1>3 DEF IInv, TypeOK, Safe, Believed, Counted, WritersUndisturbed
<1> QED
  BY <1>1, <1>4 DEF IInv, Safe, Exclusive, NeverEmptyHanded, HoldersKnow

\* The write ends while the writer still excludes everybody else.
LEMMA CallSafe ==
  ASSUME IInv, NEW p \in Procs, NEW t \in Locks, Call(p, t)
  PROVE  Safe'
<1>1. /\ pc[p] = "free" /\ hand[p] = "no" /\ t \in NextLocks(p)
      /\ pc' = [pc EXCEPT ![p] = "try"]
      /\ want' = [want EXCEPT ![p] = t]
      /\ stale' = IF lt[p] = "write" THEN [q \in Procs |-> q # p \/ stale[q]] ELSE stale
      /\ UNCHANGED <<fl, lt, shut, hand, inc, out>>
  BY DEF Call
<1>2. lt[p] = "write" => t \in {"none", "monitor"}
  BY <1>1 DEF NextLocks
<1>3. lt[p] = "write" => \A q \in Procs \ {p} : fl[q] = "none"
  BY DEF IInv, Safe, WritersUndisturbed, Exclusive
<1>4. Believed' /\ Counted'
  BY <1>1 DEF IInv, TypeOK, Safe, Believed, Counted
<1>5. WritersUndisturbed'
  BY <1>1, <1>2 DEF IInv, TypeOK, Safe, WritersUndisturbed
<1>6. HoldersKnow'
  BY <1>1, <1>3 DEF IInv, TypeOK, Safe, HoldersKnow
<1> QED
  BY <1>1, <1>4, <1>5, <1>6 DEF IInv, Safe, Exclusive, NeverEmptyHanded

-----------------------------------------------------------------------------
\* Faults

LEMMA AlarmSafe ==
  ASSUME IInv, NEW p \in Procs, Alarm(p)
  PROVE  Safe'
<1>1. /\ pc[p] = "try" /\ hand[p] = "no"
      /\ inc' = [inc EXCEPT ![p] = 0] /\ out' = [out EXCEPT ![p] = 0]
      /\ UNCHANGED <<fl, hand, stale>>
  BY DEF Alarm
<1>2. /\ pc' = [pc EXCEPT ![p] = "free"]
      /\ lt' = [lt EXCEPT ![p] = IF lt[p] = "none" THEN "none" ELSE "panic"]
      /\ shut' = [shut EXCEPT ![p] = want[p] \in {"read", "write"}]
      /\ want' = [want EXCEPT ![p] = "none"]
  BY DEF Alarm, Return
<1>3. Believed'
  BY <1>1, <1>2 DEF IInv, TypeOK, Safe, Believed
<1>4. Counted' /\ WritersUndisturbed'
  BY <1>1, <1>2 DEF IInv, TypeOK, Safe, Counted, WritersUndisturbed
<1>5. NeverEmptyHanded'
  BY <1>1, <1>2 DEF IInv, TypeOK, Safe, NeverEmptyHanded
<1> QED
  BY <1>1, <1>3, <1>4, <1>5 DEF IInv, Safe, Exclusive, HoldersKnow

\* Who dies at a write lock may have written: nobody else holds a lock then.
LEMMA DieSafe ==
  ASSUME IInv, NEW p \in Procs, Die(p)
  PROVE  Safe'
<1>1. /\ pc' = [pc EXCEPT ![p] = "dead"] /\ fl' = [fl EXCEPT ![p] = "none"]
      /\ lt' = [lt EXCEPT ![p] = "none"] /\ hand' = [hand EXCEPT ![p] = "no"]
      /\ inc' = [inc EXCEPT ![p] = 0] /\ out' = [out EXCEPT ![p] = 0]
      /\ UNCHANGED <<shut, want>>
  BY DEF Die
<1>2. stale' = IF lt[p] = "write" THEN [q \in Procs |-> TRUE] ELSE stale
  BY DEF Die
<1>3. lt[p] = "write" => \A q \in Procs \ {p} : fl[q] = "none"
  BY DEF IInv, Safe, WritersUndisturbed, Exclusive
<1>4. Exclusive' /\ Believed'
  BY <1>1 DEF IInv, TypeOK, Safe, Exclusive, Believed
<1>5. Counted' /\ WritersUndisturbed' /\ NeverEmptyHanded'
  BY <1>1 DEF IInv, TypeOK, Safe, Counted, WritersUndisturbed, NeverEmptyHanded
<1>6. HoldersKnow'
  BY <1>1, <1>2, <1>3 DEF IInv, TypeOK, Safe, HoldersKnow
<1> QED
  BY <1>4, <1>5, <1>6 DEF Safe

-----------------------------------------------------------------------------
\* The theorems

LEMMA InitSafe == Init => Safe
BY DEF Init, Nothing, Safe, Exclusive, Believed, Counted, WritersUndisturbed,
       NeverEmptyHanded, HoldersKnow

LEMMA StutterSafe == IInv /\ UNCHANGED vars => IInv'
BY DEF vars, IInv, TypeOK, Safe, Exclusive, Believed, Counted,
       WritersUndisturbed, NeverEmptyHanded, HoldersKnow

LEMMA StepSafe ==
  ASSUME IInv, NEW p \in Procs,
         \/ Handle(p) \/ Loop(p) \/ \E t \in Locks : Call(p, t)
         \/ SelectTimeout(p) \/ Alarm(p) \/ Die(p)
  PROVE  IInv'
<1>1. TypeOK
  BY DEF IInv
<1>2. CASE Handle(p)
  BY <1>1, <1>2, HandleTypes, RequestSafe, AnotherSafe, ReleaseSafe, AnswerSafe,
     SelectSafe, RelockSafe DEF IInv, Handle
<1>3. CASE Loop(p)
  BY <1>1, <1>3, LoopTypes, LockSafe, RefuseSafe, AskSafe DEF IInv, Loop
<1>4. CASE \E t \in Locks : Call(p, t)
  BY <1>1, <1>4, CallTypes, CallSafe DEF IInv
<1>5. CASE SelectTimeout(p) \/ Alarm(p) \/ Die(p)
  BY <1>1, <1>5, FaultTypes, SelectSafe, AlarmSafe, DieSafe DEF IInv
<1> QED
  BY <1>2, <1>3, <1>4, <1>5

\* For any processes, whatever times out or is killed: who may hold what, as
\* change_fd_lock and its handlers arrange it between them.
THEOREM LockProtocol == Spec => []IInv
<1>1. Init => IInv
  BY InitTypes, InitSafe DEF IInv
<1>2. IInv /\ [Next]_vars => IInv'
  BY StepSafe, StutterSafe DEF Next
<1> QED
  BY <1>1, <1>2, PTL DEF Spec

\* Every variable of the lock keeps its type.
THEOREM LockTypes == Spec => []TypeOK
<1>1. IInv => TypeOK
  BY DEF IInv
<1> QED
  BY <1>1, LockProtocol, PTL

\* Between two calls of change_fd_lock no handler takes a read or a write lock
\* away (the masks that change_fd_lock leaves behind), for any processes.
THEOREM LocksAreKept == Spec => []LockKept
<1>1. IInv => LockKept
  BY DEF IInv, Safe, Believed, LockKept, FcntlType
<1> QED
  BY <1>1, LockProtocol, PTL

\* files.c:348: who relies on a lock has heard of every write, and none of them
\* is going on, for any processes and any number of timeouts and kills.
THEOREM WritesAreHeard == Spec => []Informed
<1>1. IInv => Informed
  <2> SUFFICES ASSUME IInv, NEW p \in Procs, pc[p] = "free", hand[p] = "no",
                      lt[p] \in {"monitor", "read", "write"}
               PROVE  /\ ~stale[p]
                      /\ lt[p] # "write" => \A q \in Procs : fl[q] # "write"
    BY DEF Informed
  <2>1. fl[p] = FcntlType(lt[p])
    BY DEF IInv, Safe, Believed
  <2>2. fl[p] # "none" /\ (lt[p] # "write" => fl[p] = "read")
    BY <2>1 DEF FcntlType
  <2> QED
    BY <2>2 DEF IInv, Safe, HoldersKnow, Exclusive
<1> QED
  BY <1>1, LockProtocol, PTL

-----------------------------------------------------------------------------
(***************************************************************************)
(* Nobody waits for a signal that is not on its way, as long as nothing    *)
(* times out and no process leaves the file.  The signals are counted for  *)
(* each pair of processes; the counters of a process are sums of those.    *)
(***************************************************************************)
Freeing(p, q) == IF q < p THEN 2 ELSE 3

\* What p has sent to q that q has not taken, and the releases that q has still
\* to get from p for requests of p's that q has taken.
Asked(p, q) == pend[q][RequestTo(p, q)][p]
Freed(p, q) == pend[q][Freeing(p, q)][p]
Due(p, q) == Freed(p, q) + watch[p][q] - Asked(p, q)

AnswersTo(p) == [q \in Procs |-> pend[p][Answer][q] + Asked(p, q)]
DueTo(p) == [q \in Procs |-> Due(q, p)]

\* Nobody leaves the file, and who has been asked has it open.
Stays ==
  \A p \in Procs :
    /\ lt[p] # "panic" /\ pc[p] # "dead"
    /\ pc[p] \in {"try", "who"} => want[p] # "none"
    /\ \A q \in Procs : watch[p][q] > 0 => ~Ignores(q)

\* Signals of two numbers are used between two processes, by their order.
KindsMatch ==
  \A p, q \in Procs :
    /\ \A s \in Requests : pend[q][s][p] > 0 => s = RequestTo(p, q)
    /\ \A s \in Releases : pend[q][s][p] > 0 => s = Freeing(p, q)

\* Who has not opened the file gets no signals and holds no lock.
Unopened ==
  \A p \in Procs : Ignores(p) =>
    /\ fl[p] = "none" /\ hand[p] = "no"
    /\ \A s \in Signals : \A q \in Procs : pend[p][s][q] = 0

Counts ==
  /\ \A p \in Procs : out[p] = SumFunction(AnswersTo(p))
  /\ \A p, q \in Procs : Due(p, q) >= 0
  /\ \A p \in Procs : inc[p] = SumFunction(DueTo(p))

Balance == Stays /\ Unopened /\ KindsMatch /\ Counts

\* The invariant of the weather in which nothing is lost
Calm == ~Uninit /\ faults = 0
Balanced == IInv /\ (Calm => Balance)

LEMMA TakenIs ==
  ASSUME TypeOK, NEW p \in Procs, NEW s \in Signals, NEW q \in Procs
  PROVE  \A a, b \in Procs : \A t \in Signals :
           /\ a = p /\ t = s /\ b = q => Taken(p, s, q)[a][t][b] = pend[a][t][b] - 1
           /\ ~(a = p /\ t = s /\ b = q) => Taken(p, s, q)[a][t][b] = pend[a][t][b]
<1>1. pend \in [Procs -> [Signals -> [Procs -> Nat]]]
  BY DEF TypeOK
<1> QED
  BY <1>1 DEF Taken

LEMMA Kinds ==
  /\ Requests \subseteq Signals /\ Releases \subseteq Signals /\ Answer \in Signals
  /\ Answer \notin Requests /\ Answer \notin Releases
  /\ \A s \in Requests : s \notin Releases
  /\ \A p, q \in Procs : RequestTo(p, q) \in Requests /\ Freeing(p, q) \in Releases
BY DEF Requests, Releases, Signals, Answer, RequestTo, Freeing

LEMMA PendNat ==
  ASSUME TypeOK
  PROVE  /\ \A a, b \in Procs : \A t \in Signals : pend[a][t][b] \in Nat
         /\ \A a, b \in Procs : watch[a][b] \in Nat
BY DEF TypeOK

LEMMA CountNat ==
  ASSUME TypeOK
  PROVE  /\ \A p, q \in Procs : Asked(p, q) \in Nat /\ Freed(p, q) \in Nat /\ Due(p, q) \in Int
         /\ \A p, q \in Procs : AnswersTo(p)[q] \in Nat /\ DueTo(p)[q] \in Int
         /\ \A p \in Procs : DOMAIN AnswersTo(p) = Procs /\ DOMAIN DueTo(p) = Procs
<1>1. \A p, q \in Procs : Asked(p, q) \in Nat /\ Freed(p, q) \in Nat /\ watch[p][q] \in Nat
                          /\ pend[p][Answer][q] \in Nat
  BY PendNat, Kinds DEF Asked, Freed
<1> QED
  BY <1>1 DEF Due, AnswersTo, DueTo

\* Whose requests are taken, waits for the answer.
LEMMA AskerListens ==
  ASSUME IInv, Balance, NEW p \in Procs, NEW q \in Procs, Asked(q, p) > 0
  PROVE  ~Ignores(q)
<1>1. TypeOK
  BY DEF IInv
<1>2. AnswersTo(q)[p] > 0
  BY <1>1, PendNat, CountNat, Kinds DEF AnswersTo
<1>3. AnswersTo(q)[p] <= out[q]
  <2>1. AnswersTo(q)[p] <= SumFunctionOnSet(AnswersTo(q), Procs)
    BY <1>1, CountNat, ProcsAssumption, SumAtLeast
  <2> QED
    BY <1>1, <2>1, CountNat DEF Balance, Counts, SumFunction
<1>4. out[q] # 0
  BY <1>1, <1>2, <1>3, CountNat DEF TypeOK
<1>5. pc[q] \notin {"free", "dead"} /\ pc[q] \in {"free", "try", "who", "dead"}
  BY <1>4 DEF IInv, Safe, Counted, TypeOK
<1>6. want[q] # "none"
  BY <1>5 DEF Balance, Stays
<1> QED
  BY <1>5, <1>6 DEF Ignores

\* The sums after a step that changes one summand, or none
LEMMA CountsFrom ==
  ASSUME TypeOK, TypeOK', Counts, NEW p \in Procs,
         \A a \in Procs : a # p => out'[a] = out[a] /\ inc'[a] = inc[a]
                                   /\ AnswersTo(a)' = AnswersTo(a) /\ DueTo(a)' = DueTo(a),
         \/ out'[p] = out[p] /\ AnswersTo(p)' = AnswersTo(p)
         \/ \E q \in Procs :
              /\ \A b \in Procs : b # q => AnswersTo(p)'[b] = AnswersTo(p)[b]
              /\ AnswersTo(p)'[q] - AnswersTo(p)[q] = out'[p] - out[p],
         \/ inc'[p] = inc[p] /\ DueTo(p)' = DueTo(p)
         \/ \E q \in Procs :
              /\ \A b \in Procs : b # q => DueTo(p)'[b] = DueTo(p)[b]
              /\ DueTo(p)'[q] - DueTo(p)[q] = inc'[p] - inc[p],
         \A a, b \in Procs : Due(a, b)' >= 0
  PROVE  Counts'
<1>1. /\ IsFiniteSet(Procs)
      /\ out \in [Procs -> Nat] /\ out' \in [Procs -> Nat]
      /\ inc \in [Procs -> Nat] /\ inc' \in [Procs -> Nat]
  BY ProcsAssumption DEF TypeOK
<1>2. /\ \A a, b \in Procs : AnswersTo(a)[b] \in Int /\ DueTo(a)[b] \in Int
      /\ \A a \in Procs : DOMAIN AnswersTo(a) = Procs /\ DOMAIN DueTo(a) = Procs
  BY CountNat
<1>3. /\ \A a, b \in Procs : AnswersTo(a)'[b] \in Int /\ DueTo(a)'[b] \in Int
      /\ \A a \in Procs : DOMAIN AnswersTo(a)' = Procs /\ DOMAIN DueTo(a)' = Procs
  <2>1. /\ \A a, b \in Procs : \A t \in Signals : pend'[a][t][b] \in Nat
        /\ \A a, b \in Procs : watch'[a][b] \in Nat
    BY DEF TypeOK
  <2>2. \A a, b \in Procs : /\ Asked(a, b)' \in Nat /\ Freed(a, b)' \in Nat
                            /\ pend'[a][Answer][b] \in Nat
    BY <2>1, Kinds DEF Asked, Freed, RequestTo, Freeing
  <2>3. \A a, b \in Procs : Due(a, b)' \in Int
    BY <2>1, <2>2 DEF Due
  <2> QED
    BY <2>2, <2>3 DEF AnswersTo, DueTo
<1>4. \A a \in Procs : /\ out[a] = SumFunctionOnSet(AnswersTo(a), Procs)
                       /\ inc[a] = SumFunctionOnSet(DueTo(a), Procs)
  BY <1>2 DEF Counts, SumFunction
<1>6. out'[p] = SumFunctionOnSet(AnswersTo(p)', Procs)
  <2>1. CASE out'[p] = out[p] /\ AnswersTo(p)' = AnswersTo(p)
    BY <1>4, <2>1
  <2>2. ASSUME NEW q \in Procs,
               \A b \in Procs : b # q => AnswersTo(p)'[b] = AnswersTo(p)[b],
               AnswersTo(p)'[q] - AnswersTo(p)[q] = out'[p] - out[p]
        PROVE  out'[p] = SumFunctionOnSet(AnswersTo(p)', Procs)
    <3> DEFINE f == AnswersTo(p)
               h == AnswersTo(p)'
               m == out[p]
               n == out'[p]
    <3>1. m \in Int /\ n \in Int
      BY <1>1
    <3>2. \A b \in Procs : f[b] \in Int /\ h[b] \in Int
      BY <1>2, <1>3
    <3>3. /\ \A b \in Procs : b # q => h[b] = f[b]
          /\ h[q] - f[q] = n - m /\ m = SumFunctionOnSet(f, Procs)
      BY <1>4, <2>2
    <3> HIDE DEF f, h, m, n
    <3>4. q \in Procs
      BY <2>2
    <3>5. SumFunctionOnSet(h, Procs) = SumFunctionOnSet(f, Procs) - f[q] + h[q]
      BY <1>1, <3>2, <3>3, <3>4, SumChange
    <3>6. f[q] \in Int /\ h[q] \in Int
      BY <3>2, <3>4
    <3>7. n = SumFunctionOnSet(h, Procs)
      BY <3>1, <3>3, <3>5, <3>6
    <3> QED
      BY <3>7 DEF h, n
  <2> QED
    BY <2>1, <2>2
<1>7. inc'[p] = SumFunctionOnSet(DueTo(p)', Procs)
  <2>1. CASE inc'[p] = inc[p] /\ DueTo(p)' = DueTo(p)
    BY <1>4, <2>1
  <2>2. ASSUME NEW q \in Procs,
               \A b \in Procs : b # q => DueTo(p)'[b] = DueTo(p)[b],
               DueTo(p)'[q] - DueTo(p)[q] = inc'[p] - inc[p]
        PROVE  inc'[p] = SumFunctionOnSet(DueTo(p)', Procs)
    <3> DEFINE f == DueTo(p)
               h == DueTo(p)'
               m == inc[p]
               n == inc'[p]
    <3>1. m \in Int /\ n \in Int
      BY <1>1
    <3>2. \A b \in Procs : f[b] \in Int /\ h[b] \in Int
      BY <1>2, <1>3
    <3>3. /\ \A b \in Procs : b # q => h[b] = f[b]
          /\ h[q] - f[q] = n - m /\ m = SumFunctionOnSet(f, Procs)
      BY <1>4, <2>2
    <3> HIDE DEF f, h, m, n
    <3>4. q \in Procs
      BY <2>2
    <3>5. SumFunctionOnSet(h, Procs) = SumFunctionOnSet(f, Procs) - f[q] + h[q]
      BY <1>1, <3>2, <3>3, <3>4, SumChange
    <3>6. f[q] \in Int /\ h[q] \in Int
      BY <3>2, <3>4
    <3>7. n = SumFunctionOnSet(h, Procs)
      BY <3>1, <3>3, <3>5, <3>6
    <3> QED
      BY <3>7 DEF h, n
  <2> QED
    BY <2>1, <2>2
<1>8. \A a \in Procs : /\ out'[a] = SumFunctionOnSet(AnswersTo(a)', Procs)
                       /\ inc'[a] = SumFunctionOnSet(DueTo(a)', Procs)
  <2> TAKE a \in Procs
  <2>1. CASE a = p
    BY <1>6, <1>7, <2>1
  <2>2. CASE a # p
    BY <1>4, <2>2
  <2> QED
    BY <2>1, <2>2
<1> QED
  BY <1>3, <1>8 DEF Counts, SumFunction

\* p takes a request of q's: the answer takes the place of the request, and the
\* release becomes due.
LEMMA RequestBalance ==
  ASSUME IInv, IInv', Balance, NEW p \in Procs, HandleRequest(p) \/ HandleAnother(p)
  PROVE  Balance'
<1>1. PICK s \in Requests, q \in Procs :
        /\ Takes(p, s, q)
        /\ inc' = [inc EXCEPT ![p] = @ + 1]
        /\ pend' = Answered(Taken(p, s, q), p, q)
        /\ UNCHANGED <<lt, pc, want, out, watch>>
        /\ \A a \in Procs : a # p => fl'[a] = fl[a] /\ hand'[a] = hand[a]
  <2>1. TypeOK
    BY DEF IInv
  <2> QED
    BY <2>1 DEF HandleRequest, HandleAnother, TypeOK
<1>2. TypeOK /\ TypeOK' /\ s \in Signals /\ Answer \in Signals /\ s # Answer
  BY Kinds DEF IInv
<1>3. pend[p][s][q] > 0
  BY <1>1 DEF Takes
<1>4. s = RequestTo(q, p) /\ Asked(q, p) > 0
  BY <1>1, <1>3 DEF Balance, KindsMatch, Asked
<1>5. ~Ignores(q)
  BY <1>4, AskerListens
<1>6. \A a, b \in Procs : \A t \in Signals :
        /\ a = p /\ t = s /\ b = q => pend'[a][t][b] = pend[a][t][b] - 1
        /\ a = q /\ t = Answer /\ b = p => pend'[a][t][b] = pend[a][t][b] + 1
        /\ ~(a = p /\ t = s /\ b = q) /\ ~(a = q /\ t = Answer /\ b = p)
             => pend'[a][t][b] = pend[a][t][b]
  <2> DEFINE x == Taken(p, s, q)
  <2>1. x \in [Procs -> [Signals -> [Procs -> Nat]]]
    BY <1>2, <1>3, TakenTyped
  <2>2. \A a, b \in Procs : \A t \in Signals :
          /\ a = p /\ t = s /\ b = q => x[a][t][b] = pend[a][t][b] - 1
          /\ ~(a = p /\ t = s /\ b = q) => x[a][t][b] = pend[a][t][b]
    BY <1>2, TakenIs
  <2> HIDE DEF x
  <2>3. pend' = Sent(x, p, q, Answer)
    BY <1>1 DEF Answered, x
  <2>4. \A a, b \in Procs : \A t \in Signals :
          /\ a = q /\ t = Answer /\ b = p => pend'[a][t][b] = x[a][t][b] + 1
          /\ ~(a = q /\ t = Answer /\ b = p) => pend'[a][t][b] = x[a][t][b]
    <3>1. \A a, b \in Procs : \A t \in Signals :
            /\ a = q /\ t = Answer /\ b = p => Sent(x, p, q, Answer)[a][t][b] = x[a][t][b] + 1
            /\ ~(a = q /\ t = Answer /\ b = p) => Sent(x, p, q, Answer)[a][t][b] = x[a][t][b]
      BY <1>2, <1>5, <2>1 DEF Sent
    <3> QED
      BY <2>3, <3>1
  <2> QED
    BY <1>2, <2>2, <2>4
<1>7. \A a, b \in Procs : /\ RequestTo(a, b) \in Signals /\ RequestTo(a, b) # Answer
                          /\ Freeing(a, b) \in Signals /\ Freeing(a, b) # Answer
                          /\ Freeing(a, b) # s
  BY Kinds
<1>8. \A a, b \in Procs : /\ pend[a][Answer][b] \in Nat /\ Asked(a, b) \in Nat
                          /\ Freed(a, b) \in Nat /\ watch[a][b] \in Nat
  BY <1>2, PendNat, CountNat
<1>9. \A a, b \in Procs : /\ a = q /\ b = p => Asked(a, b)' = Asked(a, b) - 1
                          /\ ~(a = q /\ b = p) => Asked(a, b)' = Asked(a, b)
                          /\ Freed(a, b)' = Freed(a, b)
  BY <1>4, <1>6, <1>7 DEF Asked, Freed, RequestTo, Freeing
<1>10. \A a, b \in Procs : /\ a = q /\ b = p => pend'[a][Answer][b] = pend[a][Answer][b] + 1
                           /\ ~(a = q /\ b = p) => pend'[a][Answer][b] = pend[a][Answer][b]
  BY <1>2, <1>6
<1>11. \A a, b \in Procs : pend'[a][Answer][b] + Asked(a, b)' = pend[a][Answer][b] + Asked(a, b)
  BY <1>8, <1>9, <1>10
<1>12. \A a \in Procs : AnswersTo(a)' = AnswersTo(a)
  BY <1>11 DEF AnswersTo
<1>13. \A a, b \in Procs : /\ a = q /\ b = p => Due(a, b)' = Due(a, b) + 1
                           /\ ~(a = q /\ b = p) => Due(a, b)' = Due(a, b)
  BY <1>1, <1>8, <1>9 DEF Due
<1>14. Counts'
  <2>1. \A a \in Procs : /\ \A b \in Procs : DueTo(a)[b] = Due(b, a) /\ DueTo(a)'[b] = Due(b, a)'
                         /\ a # p => DueTo(a)' = DueTo(a)
    BY <1>13 DEF DueTo
  <2>2. /\ \A b \in Procs : b # q => DueTo(p)'[b] = DueTo(p)[b]
        /\ DueTo(p)'[q] - DueTo(p)[q] = inc'[p] - inc[p]
    <3>1. Due(q, p) \in Int /\ inc[p] \in Nat /\ inc'[p] = inc[p] + 1
      BY <1>1, <1>2, CountNat DEF TypeOK
    <3>2. DueTo(p)'[q] = DueTo(p)[q] + 1 /\ DueTo(p)[q] = Due(q, p)
      BY <1>13, <2>1
    <3>3. \A b \in Procs : b # q => DueTo(p)'[b] = DueTo(p)[b]
      BY <1>13, <2>1
    <3> HIDE DEF DueTo
    <3> QED
      BY <3>1, <3>2, <3>3
  <2>3. \A a, b \in Procs : Due(a, b)' >= 0
    <3>1. \A a, b \in Procs : Due(a, b) >= 0 /\ Due(a, b) \in Int
      BY <1>2, CountNat DEF Balance, Counts
    <3> QED
      BY <1>13, <3>1
  <2>4. \A a \in Procs : a # p => out'[a] = out[a] /\ inc'[a] = inc[a]
    BY <1>1, <1>2 DEF TypeOK
  <2> QED
    BY <1>1, <1>2, <1>12, <2>1, <2>2, <2>3, <2>4, CountsFrom DEF Balance
<1>15. Stays'
  BY <1>1 DEF Balance, Stays, Ignores
<1>16. KindsMatch'
  <2>1. \A a, b \in Procs : \A t \in Signals : t # Answer => pend'[a][t][b] <= pend[a][t][b]
    <3>1. \A a, b \in Procs : \A t \in Signals : pend[a][t][b] \in Nat
      BY <1>2, PendNat
    <3> QED
      BY <1>6, <3>1
  <2>2. \A a, b \in Procs : \A t \in Signals :
          pend[a][t][b] \in Nat /\ (t # Answer /\ pend'[a][t][b] > 0 => pend[a][t][b] > 0)
    <3>1. \A a, b \in Procs : \A t \in Signals : pend[a][t][b] \in Nat /\ pend'[a][t][b] \in Nat
      BY <1>2 DEF TypeOK
    <3> QED
      BY <2>1, <3>1
  <2> QED
    BY <2>2, Kinds DEF Balance, KindsMatch, RequestTo, Freeing
<1>17. Unopened'
  <2>1. \A a \in Procs : Ignores(a)' => Ignores(a) /\ a # p /\ a # q
    <3>1. ~Ignores(p)
      BY <1>2, <1>3 DEF Balance, Unopened
    <3> QED
      BY <1>1, <1>5, <3>1 DEF Ignores
  <2> QED
    BY <1>1, <1>6, <2>1 DEF Balance, Unopened
<1> QED
  BY <1>14, <1>15, <1>16, <1>17 DEF Balance

\* A step that neither sends nor takes a signal keeps the balance if it keeps
\* what is asked for.
LEMMA QuietBalance ==
  ASSUME IInv', Balance, UNCHANGED <<pend, out, inc, watch>>, Stays', Unopened'
  PROVE  Balance'
<1>1. KindsMatch'
  BY DEF Balance, KindsMatch, RequestTo, Freeing
<1>2. \A a, b \in Procs : Asked(a, b)' = Asked(a, b) /\ Due(a, b)' = Due(a, b)
  BY DEF Asked, Due, Freed, RequestTo, Freeing
<1>3. \A a \in Procs : AnswersTo(a)' = AnswersTo(a) /\ DueTo(a)' = DueTo(a)
  BY <1>2 DEF AnswersTo, DueTo
<1>4. Counts'
  BY <1>2, <1>3 DEF Balance, Counts
<1> QED
  BY <1>1, <1>4 DEF Balance

\* p takes an answer: it waits for one less.
LEMMA AnswerBalance ==
  ASSUME IInv, IInv', Balance, NEW p \in Procs, HandleAnswer(p)
  PROVE  Balance'
<1>1. PICK q \in Procs :
        /\ Takes(p, Answer, q)
        /\ out' = [out EXCEPT ![p] = Minus(@)]
        /\ pend' = Taken(p, Answer, q)
        /\ UNCHANGED <<fl, hand, lt, pc, want, inc, watch>>
  BY DEF HandleAnswer
<1>2. TypeOK /\ TypeOK' /\ Answer \in Signals
  BY Kinds DEF IInv
<1>3. pend[p][Answer][q] > 0
  BY <1>1 DEF Takes
<1>4. \A a, b \in Procs : \A t \in Signals :
        /\ a = p /\ t = Answer /\ b = q => pend'[a][t][b] = pend[a][t][b] - 1
        /\ ~(a = p /\ t = Answer /\ b = q) => pend'[a][t][b] = pend[a][t][b]
  BY <1>1, <1>2, TakenIs
<1>5. \A a, b \in Procs : Asked(a, b)' = Asked(a, b) /\ Due(a, b)' = Due(a, b)
  BY <1>1, <1>4, Kinds DEF Asked, Due, Freed, RequestTo, Freeing
<1>6. \A a, b \in Procs :
        /\ AnswersTo(a)[b] = pend[a][Answer][b] + Asked(a, b)
        /\ AnswersTo(a)'[b] = pend'[a][Answer][b] + Asked(a, b)
        /\ pend[a][Answer][b] \in Nat /\ Asked(a, b) \in Nat
  BY <1>2, <1>5, PendNat, CountNat DEF AnswersTo
<1>7. AnswersTo(p)[q] > 0 /\ AnswersTo(p)[q] \in Nat
  BY <1>3, <1>6
<1>8. out'[p] = out[p] - 1
  <2>1. AnswersTo(p)[q] <= SumFunctionOnSet(AnswersTo(p), Procs)
    BY <1>2, CountNat, ProcsAssumption, SumAtLeast
  <2>2. out[p] = SumFunctionOnSet(AnswersTo(p), Procs) /\ out[p] \in Nat
    BY <1>2, CountNat DEF Balance, Counts, SumFunction, TypeOK
  <2>3. out'[p] = Minus(out[p])
    BY <1>1, <1>2 DEF TypeOK
  <2> HIDE DEF AnswersTo
  <2> QED
    BY <1>7, <2>1, <2>2, <2>3 DEF Minus
<1>9. AnswersTo(p)'[q] - AnswersTo(p)[q] = out'[p] - out[p]
  <2>1. pend'[p][Answer][q] = pend[p][Answer][q] - 1 /\ out[p] \in Nat
    BY <1>2, <1>4 DEF TypeOK
  <2>2. /\ AnswersTo(p)[q] = pend[p][Answer][q] + Asked(p, q)
        /\ AnswersTo(p)'[q] = pend'[p][Answer][q] + Asked(p, q)
        /\ pend[p][Answer][q] \in Nat /\ Asked(p, q) \in Nat
    BY <1>6
  <2> HIDE DEF AnswersTo, Asked
  <2> QED
    BY <1>8, <2>1, <2>2
<1>10. \A b \in Procs : b # q => AnswersTo(p)'[b] = AnswersTo(p)[b]
  BY <1>2, <1>4, <1>6
<1>11. \A a \in Procs : DueTo(a)' = DueTo(a) /\ (a # p => AnswersTo(a)' = AnswersTo(a))
  BY <1>2, <1>4, <1>5 DEF DueTo, AnswersTo
<1>12. Counts'
  <2>1. \A a \in Procs : inc'[a] = inc[a] /\ (a # p => out'[a] = out[a])
    BY <1>1, <1>2 DEF TypeOK
  <2>2. \A a, b \in Procs : Due(a, b)' >= 0
    BY <1>5 DEF Balance, Counts
  <2> QED
    BY <1>2, <1>9, <1>10, <1>11, <2>1, <2>2, CountsFrom DEF Balance
<1>13. Stays'
  BY <1>1 DEF Balance, Stays, Ignores
<1>14. KindsMatch'
  BY <1>4, Kinds DEF Balance, KindsMatch, RequestTo, Freeing
<1>15. Unopened'
  <2>1. \A a \in Procs : Ignores(a)' => Ignores(a) /\ a # p
    BY <1>1, <1>2, <1>3 DEF Balance, Unopened, Ignores
  <2> QED
    BY <1>1, <1>4, <2>1 DEF Balance, Unopened
<1> QED
  BY <1>12, <1>13, <1>14, <1>15 DEF Balance

\* p takes a release of q's.  It has taken all of q's requests, which come first.
LEMMA ReleaseBalance ==
  ASSUME IInv, IInv', Balance, NEW p \in Procs, HandleRelease(p)
  PROVE  Balance'
<1>1. PICK s \in Releases, q \in Procs :
        /\ Takes(p, s, q)
        /\ inc' = [inc EXCEPT ![p] = Minus(@)]
        /\ pend' = Taken(p, s, q)
        /\ UNCHANGED <<fl, hand, lt, pc, want, out, watch>>
  BY DEF HandleRelease
<1>2. TypeOK /\ TypeOK' /\ s \in Signals /\ s # Answer /\ Answer \in Signals
  BY Kinds DEF IInv
<1>3. pend[p][s][q] > 0
  BY <1>1 DEF Takes
<1>4. s = Freeing(q, p)
  BY <1>1, <1>3 DEF Balance, KindsMatch
<1>5. Asked(q, p) = 0
  <2>1. RequestTo(q, p) \in Visible(p) /\ RequestTo(q, p) < s /\ RequestTo(q, p) \in Signals
    <3>1. s \in Visible(p) /\ s \in {2, 3}
      BY <1>1 DEF Takes, Releases
    <3>2. s = 2 => Visible(p) = Signals
      BY <3>1 DEF Visible, InCall, Answer
    <3>3. Visible(p) \in {Signals, InCall}
      BY <3>1 DEF Visible, InCall, Answer
    <3> QED
      BY <1>4, <3>1, <3>2, <3>3 DEF RequestTo, Freeing, Signals, InCall
  <2>2. pend[p][RequestTo(q, p)][q] > 0 => s <= RequestTo(q, p)
    BY <1>1, <2>1 DEF Takes
  <2>3. pend[p][RequestTo(q, p)][q] \in Nat /\ s \in Nat /\ RequestTo(q, p) \in Nat
    BY <1>2, <2>1, PendNat DEF Signals
  <2> QED
    BY <2>1, <2>2, <2>3 DEF Asked
<1>6. \A a, b \in Procs : \A t \in Signals :
        /\ a = p /\ t = s /\ b = q => pend'[a][t][b] = pend[a][t][b] - 1
        /\ ~(a = p /\ t = s /\ b = q) => pend'[a][t][b] = pend[a][t][b]
  BY <1>1, <1>2, TakenIs
<1>7. \A a, b \in Procs :
        /\ RequestTo(a, b) \in Signals /\ RequestTo(a, b) # s /\ Freeing(a, b) \in Signals
        /\ Asked(a, b) \in Nat /\ Freed(a, b) \in Nat /\ watch[a][b] \in Nat
        /\ Due(a, b) \in Int
  BY <1>2, CountNat, PendNat, Kinds
<1>8. \A a, b \in Procs : /\ Asked(a, b)' = Asked(a, b)
                          /\ a = q /\ b = p => Freed(a, b)' = Freed(a, b) - 1
                          /\ ~(a = q /\ b = p) => Freed(a, b)' = Freed(a, b)
  BY <1>4, <1>6, <1>7 DEF Asked, Freed, RequestTo, Freeing
<1>9. \A a, b \in Procs : /\ a = q /\ b = p => Due(a, b)' = Due(a, b) - 1
                          /\ ~(a = q /\ b = p) => Due(a, b)' = Due(a, b)
  BY <1>1, <1>7, <1>8 DEF Due
<1>10. Due(q, p) > 0
  <2>1. Freed(q, p) > 0
    BY <1>3, <1>4 DEF Freed
  <2>2. Due(q, p) = Freed(q, p) + watch[q][p] - Asked(q, p) /\ watch[q][p] \in Nat
        /\ Freed(q, p) \in Nat
    BY <1>7 DEF Due
  <2> HIDE DEF Due, Freed, Asked
  <2> QED
    BY <1>5, <2>1, <2>2
<1>11. \A a, b \in Procs : Due(a, b) >= 0 /\ Due(a, b)' >= 0
  <2>1. \A a, b \in Procs : Due(a, b) >= 0
    BY DEF Balance, Counts
  <2> QED
    BY <1>7, <1>9, <1>10, <2>1
<1>12. \A a \in Procs : AnswersTo(a)' = AnswersTo(a) /\ (a # p => DueTo(a)' = DueTo(a))
  BY <1>2, <1>6, <1>8, <1>9 DEF AnswersTo, DueTo
<1>13. \A a, b \in Procs : DueTo(a)[b] = Due(b, a) /\ DueTo(a)'[b] = Due(b, a)'
  BY DEF DueTo
<1>14. inc[p] > 0 /\ inc[p] \in Nat
  <2>1. \A b \in Procs : DueTo(p)[b] \in Nat
    BY <1>7, <1>11, <1>13
  <2>2. DueTo(p)[q] <= SumFunctionOnSet(DueTo(p), Procs)
    BY <2>1, ProcsAssumption, SumAtLeast
  <2>3. inc[p] = SumFunctionOnSet(DueTo(p), Procs) /\ inc[p] \in Nat
    BY <1>2, CountNat DEF Balance, Counts, SumFunction, TypeOK
  <2>4. DueTo(p)[q] > 0 /\ DueTo(p)[q] \in Nat
    BY <1>10, <1>13, <2>1
  <2> HIDE DEF DueTo
  <2> QED
    BY <2>2, <2>3, <2>4
<1>15. /\ \A b \in Procs : b # q => DueTo(p)'[b] = DueTo(p)[b]
       /\ DueTo(p)'[q] - DueTo(p)[q] = inc'[p] - inc[p]
  <2>1. inc'[p] = inc[p] - 1
    BY <1>1, <1>2, <1>14 DEF Minus, TypeOK
  <2>2. DueTo(p)'[q] = DueTo(p)[q] - 1 /\ DueTo(p)[q] \in Int
    BY <1>7, <1>9, <1>13
  <2>3. \A b \in Procs : b # q => DueTo(p)'[b] = DueTo(p)[b]
    BY <1>9, <1>13
  <2> HIDE DEF DueTo
  <2> QED
    BY <1>14, <2>1, <2>2, <2>3
<1>16. Counts'
  <2>1. \A a \in Procs : out'[a] = out[a] /\ (a # p => inc'[a] = inc[a])
    BY <1>1, <1>2 DEF TypeOK
  <2> QED
    BY <1>2, <1>11, <1>12, <1>15, <2>1, CountsFrom DEF Balance
<1>17. Stays'
  BY <1>1 DEF Balance, Stays, Ignores
<1>18. KindsMatch'
  <2>1. \A a, b \in Procs : \A t \in Signals :
          pend[a][t][b] \in Nat /\ (pend'[a][t][b] > 0 => pend[a][t][b] > 0)
    <3>1. \A a, b \in Procs : \A t \in Signals : pend[a][t][b] \in Nat
      BY <1>2, PendNat
    <3> QED
      BY <1>3, <1>6, <3>1
  <2> QED
    BY <2>1, Kinds DEF Balance, KindsMatch, RequestTo, Freeing
<1>19. Unopened'
  <2>1. \A a \in Procs : Ignores(a)' => Ignores(a) /\ a # p
    BY <1>1, <1>2, <1>3 DEF Balance, Unopened, Ignores
  <2> QED
    BY <1>1, <1>6, <2>1 DEF Balance, Unopened
<1> QED
  BY <1>16, <1>17, <1>18, <1>19 DEF Balance

\* p asks q, which is in its way: it waits for the answer, and owes a release.
LEMMA AskBalance ==
  ASSUME IInv, IInv', Balance, NEW p \in Procs, Ask(p)
  PROVE  Balance'
<1>1. /\ pc[p] = "who" /\ pc' = [pc EXCEPT ![p] = "try"]
      /\ UNCHANGED <<fl, hand, lt, want, inc>>
      /\ \/ UNCHANGED <<pend, out, watch>>
         \/ \E q \in Blockers(p, want[p]) :
              /\ out' = [out EXCEPT ![p] = @ + 1]
              /\ pend' = Sent(pend, p, q, RequestTo(p, q))
              /\ watch' = [watch EXCEPT ![p][q] = @ + 1]
  BY DEF Ask
<1>2. TypeOK /\ TypeOK'
  BY DEF IInv
<1>3. \A a \in Procs : Ignores(a)' = Ignores(a)
  BY <1>1, <1>2 DEF Ignores, TypeOK
<1>4. CASE UNCHANGED <<pend, out, watch>>
  <2>1. Stays'
    BY <1>1, <1>2, <1>3, <1>4 DEF Balance, Stays, TypeOK
  <2>2. Unopened'
    BY <1>1, <1>3, <1>4 DEF Balance, Unopened
  <2> QED
    BY <1>1, <1>4, <2>1, <2>2, QuietBalance
<1>5. ASSUME NEW q \in Blockers(p, want[p]),
             out' = [out EXCEPT ![p] = @ + 1],
             pend' = Sent(pend, p, q, RequestTo(p, q)),
             watch' = [watch EXCEPT ![p][q] = @ + 1]
      PROVE  Balance'
  <2> DEFINE s == RequestTo(p, q)
  <2>1. q \in Procs /\ fl[q] # "none" /\ s \in Signals /\ s \in Requests /\ s # Answer
        /\ Answer \in Signals
    BY Kinds, <1>5 DEF Blockers
  <2>2. ~Ignores(q)
    BY <2>1 DEF Balance, Unopened
  <2>3. \A a, b \in Procs : \A t \in Signals :
          /\ a = q /\ t = s /\ b = p => pend'[a][t][b] = pend[a][t][b] + 1
          /\ ~(a = q /\ t = s /\ b = p) => pend'[a][t][b] = pend[a][t][b]
    BY <1>2, <1>5, <2>1, <2>2 DEF Sent, TypeOK
  <2>4. \A a, b \in Procs :
          /\ a = p /\ b = q => watch'[a][b] = watch[a][b] + 1
          /\ ~(a = p /\ b = q) => watch'[a][b] = watch[a][b]
    BY <1>2, <1>5, <2>1 DEF TypeOK
  <2>5. \A a, b \in Procs :
          /\ RequestTo(a, b) \in Signals /\ Freeing(a, b) \in Signals /\ Freeing(a, b) # s
          /\ Asked(a, b) \in Nat /\ Freed(a, b) \in Nat /\ watch[a][b] \in Nat
          /\ Due(a, b) \in Int /\ pend[a][Answer][b] \in Nat
    BY <1>2, <2>1, CountNat, PendNat, Kinds
  <2>6. \A a, b \in Procs : /\ a = p /\ b = q => Asked(a, b)' = Asked(a, b) + 1
                            /\ ~(a = p /\ b = q) => Asked(a, b)' = Asked(a, b)
                            /\ Freed(a, b)' = Freed(a, b)
    BY <2>3, <2>5 DEF Asked, Freed, RequestTo, Freeing
  <2>7. \A a, b \in Procs : Due(a, b)' = Due(a, b)
    <3> TAKE a, b \in Procs
    <3> DEFINE k == Freed(a, b)
               l == watch[a][b]
               m == Asked(a, b)
    <3>1. k \in Nat /\ l \in Nat /\ m \in Nat
      BY <2>5
    <3>2. Due(a, b) = k + l - m /\ Due(a, b)' = Freed(a, b)' + watch'[a][b] - Asked(a, b)'
      BY DEF Due
    <3>3. CASE a = p /\ b = q
      <4>1. Due(a, b)' = k + (l + 1) - (m + 1)
        BY <2>4, <2>6, <3>2, <3>3
      <4> HIDE DEF k, l, m
      <4> QED
        BY <3>1, <3>2, <4>1
    <3>4. CASE ~(a = p /\ b = q)
      BY <2>4, <2>6, <3>2, <3>4
    <3> QED
      BY <3>3, <3>4
  <2>8. \A a, b \in Procs : /\ AnswersTo(a)[b] = pend[a][Answer][b] + Asked(a, b)
                            /\ AnswersTo(a)'[b] = pend[a][Answer][b] + Asked(a, b)'
    BY <2>1, <2>3 DEF AnswersTo
  <2>9. \A a \in Procs : DueTo(a)' = DueTo(a) /\ (a # p => AnswersTo(a)' = AnswersTo(a))
    BY <2>1, <2>3, <2>6, <2>7 DEF DueTo, AnswersTo
  <2>10. /\ \A b \in Procs : b # q => AnswersTo(p)'[b] = AnswersTo(p)[b]
         /\ AnswersTo(p)'[q] - AnswersTo(p)[q] = out'[p] - out[p]
    <3>1. out'[p] = out[p] + 1 /\ out[p] \in Nat
      BY <1>2, <1>5 DEF TypeOK
    <3>2. AnswersTo(p)'[q] = AnswersTo(p)[q] + 1 /\ AnswersTo(p)[q] \in Nat
      BY <2>1, <2>5, <2>6, <2>8
    <3>3. \A b \in Procs : b # q => AnswersTo(p)'[b] = AnswersTo(p)[b]
      BY <2>6, <2>8
    <3> HIDE DEF AnswersTo
    <3> QED
      BY <3>1, <3>2, <3>3
  <2>11. Counts'
    <3>1. \A a \in Procs : inc'[a] = inc[a] /\ (a # p => out'[a] = out[a])
      BY <1>1, <1>2, <1>5 DEF TypeOK
    <3>2. \A a, b \in Procs : Due(a, b)' >= 0
      BY <2>7 DEF Balance, Counts
    <3> QED
      BY <1>2, <2>1, <2>9, <2>10, <3>1, <3>2, CountsFrom DEF Balance
  <2>12. Stays'
    BY <1>1, <1>2, <1>3, <2>2, <2>4 DEF Balance, Stays, TypeOK
  <2>13. Unopened'
    BY <1>1, <1>3, <2>2, <2>3 DEF Balance, Unopened
  <2>14. KindsMatch'
    BY <2>1, <2>3, Kinds DEF Balance, KindsMatch, RequestTo, Freeing
  <2> QED
    BY <2>11, <2>12, <2>13, <2>14 DEF Balance
<1> QED
  BY <1>1, <1>4, <1>5

\* p has its lock, and what it owes to others is on its way.
LEMMA LockBalance ==
  ASSUME IInv, IInv', Balance, NEW p \in Procs, Lock(p)
  PROVE  Balance'
<1>1. /\ pc[p] = "try" /\ pc' = [pc EXCEPT ![p] = "free"]
      /\ lt' = [lt EXCEPT ![p] = want[p]] /\ want' = [want EXCEPT ![p] = "none"]
      /\ pend' = Flushed(pend, p) /\ watch' = [watch EXCEPT ![p] = Nothing]
      /\ fl' = [fl EXCEPT ![p] = FcntlType(want[p])]
      /\ UNCHANGED <<hand, inc, out>>
  BY DEF Lock, Return
<1>2. TypeOK /\ TypeOK' /\ Answer \in Signals
  BY Kinds DEF IInv
<1>3. want[p] \notin {"none", "panic"}
  BY <1>1, <1>2 DEF Balance, Stays, TypeOK
<1>4. \A a \in Procs : Ignores(a)' = Ignores(a) /\ (Ignores(a) => a # p)
  BY <1>1, <1>2, <1>3 DEF Ignores, TypeOK
<1>5. \A a, b \in Procs : \A t \in Signals :
        /\ ~Ignores(a) /\ t = Freeing(p, a) /\ b = p => pend'[a][t][b] = pend[a][t][b] + watch[p][a]
        /\ ~(~Ignores(a) /\ t = Freeing(p, a) /\ b = p) => pend'[a][t][b] = pend[a][t][b]
  <2> TAKE a \in Procs
  <2>1. CASE Ignores(a)
    BY <1>1, <2>1 DEF Flushed
  <2>2. CASE ~Ignores(a)
    <3>1. pend'[a] = [pend[a] EXCEPT ![Freeing(p, a)][p] = @ + watch[p][a]]
      BY <1>1, <2>2 DEF Flushed, Freeing
    <3>2. pend[a] \in [Signals -> [Procs -> Nat]] /\ Freeing(p, a) \in Signals
      BY <1>2, Kinds DEF TypeOK
    <3> QED
      BY <2>2, <3>1, <3>2
  <2> QED
    BY <2>1, <2>2
<1>6. \A a, b \in Procs : /\ a = p => watch'[a][b] = 0
                          /\ a # p => watch'[a][b] = watch[a][b]
  BY <1>1, <1>2 DEF TypeOK, Nothing
<1>7. \A a, b \in Procs :
        /\ RequestTo(a, b) \in Signals /\ RequestTo(a, b) # Freeing(p, b)
        /\ Freeing(a, b) \in Signals /\ Freeing(p, b) # Answer
        /\ Asked(a, b) \in Nat /\ Freed(a, b) \in Nat /\ watch[a][b] \in Nat
        /\ Due(a, b) \in Int /\ pend[a][Answer][b] \in Nat
  BY <1>2, CountNat, PendNat, Kinds
<1>8. \A b \in Procs : Ignores(b) => watch[p][b] = 0
  BY <1>7 DEF Balance, Stays
<1>9. \A a, b \in Procs : /\ Asked(a, b)' = Asked(a, b)
                          /\ a = p => Freed(a, b)' = Freed(a, b) + watch[a][b]
                          /\ a # p => Freed(a, b)' = Freed(a, b)
  BY <1>5, <1>7, <1>8 DEF Asked, Freed, RequestTo, Freeing
<1>10. \A a, b \in Procs : Due(a, b)' = Due(a, b)
  <2> TAKE a, b \in Procs
  <2> DEFINE k == Freed(a, b)
             l == watch[a][b]
             m == Asked(a, b)
  <2>1. k \in Nat /\ l \in Nat /\ m \in Nat
    BY <1>7
  <2>2. Due(a, b) = k + l - m /\ Due(a, b)' = Freed(a, b)' + watch'[a][b] - Asked(a, b)'
    BY DEF Due
  <2>3. CASE a = p
    <3>1. Due(a, b)' = (k + l) + 0 - m
      BY <1>6, <1>9, <2>2, <2>3
    <3> HIDE DEF k, l, m
    <3> QED
      BY <2>1, <2>2, <3>1
  <2>4. CASE a # p
    BY <1>6, <1>9, <2>2, <2>4
  <2> QED
    BY <2>3, <2>4
<1>11. \A a \in Procs : DueTo(a)' = DueTo(a) /\ AnswersTo(a)' = AnswersTo(a)
  BY <1>2, <1>5, <1>7, <1>9, <1>10 DEF DueTo, AnswersTo
<1>12. Counts'
  BY <1>1, <1>10, <1>11 DEF Balance, Counts
<1>13. Stays'
  BY <1>1, <1>2, <1>3, <1>4, <1>6 DEF Balance, Stays, TypeOK
<1>14. Unopened'
  BY <1>1, <1>2, <1>4, <1>5 DEF Balance, Unopened, TypeOK
<1>15. KindsMatch'
  <2>1. \A a, b \in Procs : \A t \in Signals :
          /\ pend[a][t][b] \in Nat
          /\ pend'[a][t][b] > 0 => pend[a][t][b] > 0 \/ t = Freeing(b, a)
    <3>1. \A a, b \in Procs : \A t \in Signals : pend[a][t][b] \in Nat
      BY <1>2, PendNat
    <3> QED
      BY <1>5, <3>1
  <2>2. \A a, b \in Procs : Freeing(b, a) \notin Requests
    BY Kinds
  <2> QED
    BY <2>1, <2>2, Kinds DEF Balance, KindsMatch, RequestTo, Freeing
<1> QED
  BY <1>12, <1>13, <1>14, <1>15 DEF Balance

LEMMA OtherBalance ==
  ASSUME IInv, IInv', Balance, ~Uninit, NEW p \in Procs,
         SelectEnds(p) \/ Relock(p) \/ Refuse(p) \/ \E t \in Locks : Call(p, t)
  PROVE  Balance'
<1>1. TypeOK /\ TypeOK'
  BY DEF IInv
<1>2. CASE SelectEnds(p) \/ Relock(p)
  <2>1. /\ UNCHANGED <<pend, lt, pc, want, out, inc, watch>> /\ hand[p] # "no"
        /\ \A a \in Procs : a # p => fl'[a] = fl[a] /\ hand'[a] = hand[a]
    BY <1>1, <1>2 DEF SelectEnds, Relock, TypeOK
  <2>2. \A a \in Procs : Ignores(a)' = Ignores(a) /\ (Ignores(a) => a # p)
    BY <2>1 DEF Ignores, Balance, Unopened
  <2>3. Stays' /\ Unopened'
    BY <2>1, <2>2 DEF Balance, Stays, Unopened
  <2> QED
    BY <2>1, <2>3, QuietBalance
<1>3. CASE Refuse(p)
  <2>1. /\ pc[p] = "try" /\ pc' = [pc EXCEPT ![p] = "who"]
        /\ UNCHANGED <<fl, pend, lt, want, hand, inc, out, watch>>
    BY <1>3 DEF Refuse
  <2>2. \A a \in Procs : Ignores(a)' = Ignores(a)
    BY <1>1, <2>1 DEF Ignores, TypeOK
  <2>3. Stays' /\ Unopened'
    BY <1>1, <2>1, <2>2 DEF Balance, Stays, Unopened, TypeOK
  <2> QED
    BY <2>1, <2>3, QuietBalance
<1>4. ASSUME NEW t \in Locks, Call(p, t) PROVE Balance'
  <2>1. t \in NextLocks(p) /\ lt[p] # "panic"
    BY <1>4 DEF Call, Balance, Stays
  <2>2. t # "none"
    BY <1>1, <2>1 DEF NextLocks, TypeOK, Locks
  <2>3. /\ pc[p] = "free" /\ pc' = [pc EXCEPT ![p] = "try"] /\ want' = [want EXCEPT ![p] = t]
        /\ UNCHANGED <<fl, pend, lt, hand, inc, out, watch>>
    BY <1>4, <2>2 DEF Call
  <2>4. \A a \in Procs : Ignores(a)' => Ignores(a)
    BY <1>1, <2>2, <2>3 DEF Ignores, TypeOK
  <2>5. Stays' /\ Unopened'
    BY <1>1, <2>2, <2>3, <2>4 DEF Balance, Stays, Unopened, TypeOK
  <2> QED
    BY <2>3, <2>5, QuietBalance
<1> QED
  BY <1>2, <1>3, <1>4

LEMMA InitBalance ==
  ASSUME Init
  PROVE  Balance
<1>1. /\ \A a, b \in Procs : \A t \in Signals : pend[a][t][b] = 0
      /\ \A a, b \in Procs : watch[a][b] = 0
      /\ \A a \in Procs : /\ fl[a] = "none" /\ hand[a] = "no" /\ pc[a] = "free" /\ lt[a] = "none"
                          /\ inc[a] = 0 /\ out[a] = 0
  BY DEF Init, Nothing
<1>2. Stays /\ Unopened /\ KindsMatch
  BY <1>1, Kinds DEF Stays, Unopened, KindsMatch
<1>3. \A a, b \in Procs : Asked(a, b) = 0 /\ Due(a, b) = 0
  BY <1>1, Kinds DEF Asked, Due, Freed
<1>4. \A a \in Procs : AnswersTo(a) = Nothing /\ DueTo(a) = Nothing
  BY <1>1, <1>3, Kinds DEF AnswersTo, DueTo, Nothing
<1>5. SumFunction(Nothing) = 0
  <2> DEFINE n == SumFunctionOnSet(Nothing, Procs)
  <2>1. /\ \A q \in Procs : Nothing[q] \in Int /\ Nothing[q] = Nothing[q] + Nothing[q]
        /\ DOMAIN Nothing = Procs
    BY DEF Nothing
  <2>2. n = n + n
    BY <2>1, ProcsAssumption, SumPlus
  <2>3. n \in Int
    BY <2>1, ProcsAssumption, SumInt
  <2>4. SumFunction(Nothing) = n
    BY <2>1 DEF SumFunction
  <2> HIDE DEF n
  <2> QED
    BY <2>2, <2>3, <2>4
<1>6. Counts
  BY <1>1, <1>3, <1>4, <1>5 DEF Counts
<1> QED
  BY <1>2, <1>6 DEF Balance

LEMMA StepBalanced ==
  ASSUME Balanced, [Next]_vars
  PROVE  Balanced'
<1>1. IInv'
  BY StepSafe, StutterSafe DEF Next, Balanced
<1>2. SUFFICES ASSUME Calm' PROVE Balance'
  BY <1>1 DEF Balanced
<1>3. CASE UNCHANGED vars
  <2>1. Calm /\ Balance
    BY <1>2, <1>3 DEF Calm, vars, Balanced
  <2>2. Stays' /\ Unopened'
    BY <1>3, <2>1 DEF vars, Balance, Stays, Unopened, Ignores
  <2> QED
    BY <1>1, <1>3, <2>1, <2>2, QuietBalance DEF vars
<1>4. ASSUME NEW p \in Procs, SelectTimeout(p) \/ Alarm(p) \/ Die(p) PROVE Balance'
  <2>1. faults \in Nat /\ faults' = faults + 1 /\ faults' = 0
    BY <1>2, <1>4, LimitsAssumption DEF SelectTimeout, Alarm, Die, Calm, Balanced, IInv, TypeOK
  <2> QED
    BY <2>1
<1>5. ASSUME NEW p \in Procs, Handle(p) \/ Loop(p) \/ \E t \in Locks : Call(p, t)
      PROVE  Balance'
  <2>1. faults' = faults
    BY <1>5 DEF Handle, Loop, Call, HandleRequest, HandleAnother, HandleRelease, HandleAnswer,
                SelectEnds, Relock, Lock, Refuse, Ask
  <2>2. IInv /\ Balance /\ ~Uninit
    BY <1>2, <2>1 DEF Calm, Balanced
  <2> QED
    BY <1>1, <1>5, <2>2, RequestBalance, ReleaseBalance, AnswerBalance, LockBalance, AskBalance,
       OtherBalance DEF Handle, Loop
<1> QED
  BY <1>3, <1>4, <1>5 DEF Next

\* For any processes, as long as nothing times out, nobody is killed and nobody
\* leaves the file: the signals between each two of them balance.
THEOREM SignalsBalance == Spec => []Balanced
<1>1. Init => Balanced
  BY InitTypes, InitSafe, InitBalance DEF Balanced, IInv
<1> QED
  BY <1>1, StepBalanced, PTL DEF Spec

LEMMA PendingIs ==
  ASSUME TypeOK, KindsMatch, NEW p \in Procs, NEW q \in Procs
  PROVE  /\ Pending(p, q, {Answer}) = pend[q][Answer][p]
         /\ Pending(p, q, Requests) = Asked(p, q)
         /\ Pending(p, q, Releases) = Freed(p, q)
<1>1. \A t \in Signals : pend[q][t][p] \in Nat
  BY PendNat
<1>2. \A ss \in SUBSET Signals :
        Pending(p, q, ss) = SumFunctionOnSet([s \in ss |-> pend[q][s][p]], ss)
  BY DEF Pending, SumFunction
<1>3. Pending(p, q, {Answer}) = pend[q][Answer][p]
  <2> DEFINE f == [s \in {Answer} |-> pend[q][s][p]]
  <2>1. f[Answer] = pend[q][Answer][p] /\ f[Answer] \in Int
    BY <1>1, Kinds
  <2>2. Pending(p, q, {Answer}) = SumFunctionOnSet(f, {Answer})
    BY <1>2, Kinds
  <2> HIDE DEF f
  <2> QED
    BY <2>1, <2>2, SumOne
<1>4. Pending(p, q, Requests) = pend[q][0][p] + pend[q][1][p]
  <2> DEFINE f == [s \in Requests |-> pend[q][s][p]]
  <2>1. /\ f[0] = pend[q][0][p] /\ f[0] \in Int
        /\ f[1] = pend[q][1][p] /\ f[1] \in Int
    BY <1>1 DEF Requests, Signals
  <2>2. Pending(p, q, Requests) = SumFunctionOnSet(f, Requests)
    BY <1>2, Kinds
  <2> HIDE DEF f
  <2> QED
    <3> DEFINE x == 0
               y == 1
    <3>1. x # y
      OBVIOUS
    <3>2. f[x] \in Int /\ f[y] \in Int
      BY <2>1
    <3> HIDE DEF x, y
    <3>3. SumFunctionOnSet(f, {x, y}) = f[x] + f[y]
      BY <3>1, <3>2, SumTwo
    <3> QED
      BY <2>1, <2>2, <3>3 DEF Requests, x, y
<1>5. Pending(p, q, Releases) = pend[q][2][p] + pend[q][3][p]
  <2> DEFINE f == [s \in Releases |-> pend[q][s][p]]
  <2>1. /\ f[2] = pend[q][2][p] /\ f[2] \in Int
        /\ f[3] = pend[q][3][p] /\ f[3] \in Int
    BY <1>1 DEF Releases, Signals
  <2>2. Pending(p, q, Releases) = SumFunctionOnSet(f, Releases)
    BY <1>2, Kinds
  <2> HIDE DEF f
  <2> QED
    <3> DEFINE x == 2
               y == 3
    <3>1. x # y
      OBVIOUS
    <3>2. f[x] \in Int /\ f[y] \in Int
      BY <2>1
    <3> HIDE DEF x, y
    <3>3. SumFunctionOnSet(f, {x, y}) = f[x] + f[y]
      BY <3>1, <3>2, SumTwo
    <3> QED
      BY <2>1, <2>2, <3>3 DEF Releases, x, y
<1>6. /\ \A s \in Requests : s # RequestTo(p, q) => pend[q][s][p] = 0
      /\ \A s \in Releases : s # Freeing(p, q) => pend[q][s][p] = 0
  BY <1>1, Kinds DEF KindsMatch
<1>7. pend[q][0][p] \in Nat /\ pend[q][1][p] \in Nat /\ pend[q][2][p] \in Nat /\ pend[q][3][p] \in Nat
  BY <1>1 DEF Signals
<1> QED
  BY <1>3, <1>4, <1>5, <1>6, <1>7 DEF Asked, Freed, RequestTo, Freeing, Requests, Releases

\* files.c:792: as long as nothing times out, and nobody leaves the file, each
\* answer that a process waits for is on its way, for any processes.
THEOREM AnswersAreComing ==
  ASSUME ~Uninit
  PROVE  Spec => [](faults = 0 => AnswersComing)
<1>1. ASSUME Balanced, faults = 0 PROVE AnswersComing
  <2>1. TypeOK /\ Balance
    BY <1>1 DEF Balanced, IInv, Calm
  <2>2. SUFFICES ASSUME NEW p \in Procs
                 PROVE  out[p] = AllPending(p, {Answer})
                                 + SumFunction([q \in Procs |-> Pending(p, q, Requests)])
    BY DEF AnswersComing
  <2> DEFINE f == [q \in Procs |-> Pending(q, p, {Answer})]
             h == [q \in Procs |-> Pending(p, q, Requests)]
  <2>3. /\ \A q \in Procs : f[q] \in Int /\ h[q] \in Int /\ AnswersTo(p)[q] = f[q] + h[q]
        /\ DOMAIN f = Procs /\ DOMAIN h = Procs /\ DOMAIN AnswersTo(p) = Procs
    <3>1. \A q \in Procs : f[q] = pend[p][Answer][q] /\ h[q] = Asked(p, q)
      BY <2>1, PendingIs DEF Balance
    <3>2. \A q \in Procs : pend[p][Answer][q] \in Nat /\ Asked(p, q) \in Nat
      BY <2>1, PendNat, CountNat, Kinds
    <3>3. \A q \in Procs : AnswersTo(p)[q] = pend[p][Answer][q] + Asked(p, q)
      BY DEF AnswersTo
    <3>4. DOMAIN AnswersTo(p) = Procs
      BY DEF AnswersTo
    <3>5. DOMAIN f = Procs /\ DOMAIN h = Procs
      OBVIOUS
    <3> HIDE DEF f, h, AnswersTo
    <3> QED
      BY <3>1, <3>2, <3>3, <3>4, <3>5
  <2>4. out[p] = SumFunctionOnSet(AnswersTo(p), Procs)
    BY <2>1, <2>3 DEF Balance, Counts, SumFunction
  <2>5. /\ AllPending(p, {Answer}) = SumFunctionOnSet(f, Procs)
        /\ SumFunction(h) = SumFunctionOnSet(h, Procs)
    BY DEF AllPending, SumFunction
  <2> DEFINE k == AnswersTo(p)
  <2>6. \A q \in Procs : f[q] \in Int /\ h[q] \in Int /\ k[q] = f[q] + h[q]
    BY <2>3
  <2> HIDE DEF f, h, k
  <2>7. SumFunctionOnSet(k, Procs) = SumFunctionOnSet(f, Procs) + SumFunctionOnSet(h, Procs)
    BY <2>6, ProcsAssumption, SumPlus
  <2> QED
    BY <2>4, <2>5, <2>7 DEF h, k
<1>2. Balanced => (faults = 0 => AnswersComing)
  BY <1>1
<1> QED
  BY <1>2, SignalsBalance, PTL

\* The same for the releases that a process in its handler waits for: each one is
\* on its way or its sender still has this process among those it will tell.
THEOREM ReleasesAreComing ==
  ASSUME ~Uninit
  PROVE  Spec => [](faults = 0 => ReleasesComing)
<1>1. ASSUME Balanced, faults = 0 PROVE ReleasesComing
  <2>1. TypeOK /\ Balance
    BY <1>1 DEF Balanced, IInv, Calm
  <2>2. SUFFICES ASSUME NEW p \in Procs
                 PROVE  inc[p] + AllPending(p, Requests)
                          = AllPending(p, Releases) + SumFunction([q \in Procs |-> watch[q][p]])
    BY DEF ReleasesComing
  <2> DEFINE f == [q \in Procs |-> Pending(q, p, Requests)]
             g == [q \in Procs |-> Pending(q, p, Releases)]
             h == [q \in Procs |-> watch[q][p]]
             k == [q \in Procs |-> Freed(q, p) + watch[q][p]]
             d == DueTo(p)
  <2>3. /\ \A q \in Procs : f[q] \in Int /\ g[q] \in Int /\ h[q] \in Int /\ d[q] \in Int
        /\ \A q \in Procs : k[q] = g[q] + h[q] /\ k[q] = d[q] + f[q]
        /\ DOMAIN d = Procs
    <3>1. \A q \in Procs : f[q] = Asked(q, p) /\ g[q] = Freed(q, p) /\ h[q] = watch[q][p]
      BY <2>1, PendingIs DEF Balance
    <3>2. \A q \in Procs : Asked(q, p) \in Nat /\ Freed(q, p) \in Nat /\ watch[q][p] \in Nat
      BY <2>1, PendNat, CountNat
    <3>3. \A q \in Procs : d[q] = Freed(q, p) + watch[q][p] - Asked(q, p)
      BY DEF DueTo, Due
    <3>4. DOMAIN d = Procs
      BY DEF DueTo
    <3>5. \A q \in Procs : k[q] = Freed(q, p) + watch[q][p]
      OBVIOUS
    <3> HIDE DEF f, g, h, k, d
    <3> QED
      BY <3>1, <3>2, <3>3, <3>4, <3>5
  <2>4. inc[p] = SumFunctionOnSet(d, Procs)
    BY <2>1, <2>3 DEF Balance, Counts, SumFunction
  <2>5. /\ AllPending(p, Requests) = SumFunctionOnSet(f, Procs)
        /\ AllPending(p, Releases) = SumFunctionOnSet(g, Procs)
        /\ SumFunction(h) = SumFunctionOnSet(h, Procs)
    BY DEF AllPending, SumFunction
  <2> HIDE DEF f, g, h, k, d
  <2>6. SumFunctionOnSet(k, Procs) = SumFunctionOnSet(g, Procs) + SumFunctionOnSet(h, Procs)
    BY <2>3, ProcsAssumption, SumPlus
  <2>7. SumFunctionOnSet(k, Procs) = SumFunctionOnSet(d, Procs) + SumFunctionOnSet(f, Procs)
    BY <2>3, ProcsAssumption, SumPlus
  <2> QED
    BY <2>4, <2>5, <2>6, <2>7 DEF h
<1>2. Balanced => (faults = 0 => ReleasesComing)
  BY <1>1
<1> QED
  BY <1>2, SignalsBalance, PTL
=============================================================================

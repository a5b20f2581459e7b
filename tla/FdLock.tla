-------------------------------- MODULE FdLock --------------------------------
(***************************************************************************)
(* The lock on the save file, as change_fd_lock and its signal handlers in *)
(* libnethack/src/files.c implement it on Linux.                           *)
(*                                                                         *)
(* A process at a monitor lock holds an fcntl read lock and gives it up    *)
(* when another process asks for it with signal 0 (sent to a lower PID) or *)
(* 1 (sent to a higher PID); it answers with signal 4, waits for signal 2  *)
(* or 3, which says that the lock was placed, then locks the file again,   *)
(* which blocks until the write is over, and sends a server cancel.        *)
(* Processes at a read or a write lock keep the requests masked.           *)
(*                                                                         *)
(* Signal n of the module is SIGRTMIN+n.  Several signals of one number to *)
(* one process are kept as counts per sender; which sender's comes first   *)
(* is left open.                                                           *)
(*                                                                         *)
(* Names that end in "_bug" are the mistakes that the properties are tried *)
(* against.                                                                *)
(***************************************************************************)
EXTENDS Integers, FiniteSets, Functions

CONSTANTS
  Procs,     \* process IDs
  Uninit,    \* TRUE: processes may also leave the file (log_uninit)
  MaxOps,    \* bound on the locks that each process asks for
  MaxFaults  \* bound on timeouts and kills

ASSUME ProcsAssumption == Procs \subseteq Nat /\ IsFiniteSet(Procs)
ASSUME LimitsAssumption ==
  /\ Uninit \in BOOLEAN /\ MaxOps \in Nat /\ MaxFaults \in Nat

Signals == 0 .. 4
Requests == {0, 1}       \* "unlock the file"
Releases == {2, 3}       \* "you may lock it again"
Answer == 4              \* "I unlocked it"

\* LT_NONE, LT_MONITOR, LT_READ and LT_WRITE; "panic": a lock was refused.
Locks == {"none", "monitor", "read", "write", "panic"}

VARIABLES
  fl,       \* the fcntl lock each process holds: "none", "read" or "write"
  pend,     \* pend[p][s][q]: signals s from q that p has not taken yet
  lt,       \* the lock that each process has asked for and got
  shut,     \* shut[p]: p was left with signals 0 to 3 masked
  pc,       \* "free": outside change_fd_lock; "try", "who": in its loop; "dead"
  want,     \* the lock that change_fd_lock was called for
  hand,     \* the signal handler: "no", "select" or "relock"
  inc,      \* unmatched_sigrtmin1s_incoming
  out,      \* unmatched_sigrtmin1s_outgoing
  watch,    \* watch[p][q]: how often q is in p's logfile_watchers
  stale,    \* the file was written and p has not heard of it
  ops,      \* locks asked for
  faults    \* timeouts and kills

vars == <<fl, pend, lt, shut, pc, want, hand, inc, out, watch, stale, ops, faults>>

Nothing == [q \in Procs |-> 0]

-----------------------------------------------------------------------------
\* Locks

\* F_SETLK: p can place a lock of type t.
Blockers(p, t) ==
  CASE t = "write" -> {q \in Procs \ {p} : fl[q] # "none"}
    [] t = "none"  -> {}
    [] OTHER       -> {q \in Procs \ {p} : fl[q] = "write"}

FcntlType_bug(t) == IF t = "monitor" THEN "none" ELSE t
FcntlType(t) == IF t = "monitor" THEN "read" ELSE t

-----------------------------------------------------------------------------
\* Signals

\* LT_NONE sets every handler to SIG_IGN, which throws pending signals away.
Ignores(q) == \/ pc[q] = "dead"
              \/ pc[q] = "free" /\ lt[q] = "none"
              \/ pc[q] \in {"try", "who"} /\ want[q] = "none"

\* pending signals once p has sent s to q
Sent(pending, p, q, s) ==
  IF Ignores(q) THEN pending ELSE [pending EXCEPT ![q][s][p] = @ + 1]

\* handle_sigrtmin1 and handle_sigrtmin1_recursive: p answers q's request.
Answered_bug(pending, p, q) == pending
Answered(pending, p, q) == Sent(pending, p, q, Answer)

RequestTo_bug(p, q) == 0
RequestTo(p, q) == IF q < p THEN 0 ELSE 1

\* flush_logfile_watchers
Flushed_bug(pending, p) == pending
Flushed(pending, p) ==
  [q \in Procs |->
     IF Ignores(q) THEN pending[q]
     ELSE [pending[q] EXCEPT ![IF q < p THEN 2 ELSE 3][p] = @ + watch[p][q]]]

\* The signals that p would take now.  In sigsuspend, and in a handler that
\* interrupted it, 0 and 2 are masked: processes with higher PIDs wait.
Waiting(p) == inc[p] > 0 \/ out[p] > 0
InCall == {1, 3, 4}
Visible_bug(p) ==
  IF hand[p] = "relock" THEN {}
  ELSE CASE pc[p] = "free" -> Signals
         [] pc[p] = "try" -> IF hand[p] = "select" \/ Waiting(p) THEN InCall ELSE {}
         [] OTHER -> {}
Visible(p) ==
  IF hand[p] = "relock" THEN {}
  ELSE CASE pc[p] = "free" -> IF shut[p] THEN {Answer} ELSE Signals
         [] pc[p] = "try" -> IF hand[p] = "select" \/ Waiting(p) THEN InCall ELSE {}
         [] OTHER -> {}

\* Lower signals come first.
Takes(p, s, q) ==
  /\ s \in Visible(p) /\ pend[p][s][q] > 0
  /\ \A t \in Visible(p), r \in Procs : pend[p][t][r] > 0 => s <= t

Taken(p, s, q) == [pend EXCEPT ![p][s][q] = @ - 1]
Minus_bug(n) == n - 1
Minus(n) == IF n > 0 THEN n - 1 ELSE 0

\* handle_sigrtmin1: give the lock up and say so.
HandleRequest(p) ==
  \E s \in Requests, q \in Procs :
    /\ hand[p] = "no" /\ Takes(p, s, q)
    /\ inc' = [inc EXCEPT ![p] = @ + 1]
    /\ fl' = [fl EXCEPT ![p] = "none"]
    /\ pend' = Answered(Taken(p, s, q), p, q)
    /\ hand' = [hand EXCEPT ![p] = "select"]
    /\ UNCHANGED <<lt, shut, pc, want, out, watch, stale, ops, faults>>

\* handle_sigrtmin1_recursive: the lock has been given up already.
HandleAnother(p) ==
  \E s \in Requests, q \in Procs :
    /\ hand[p] = "select" /\ Takes(p, s, q)
    /\ inc' = [inc EXCEPT ![p] = @ + 1]
    /\ pend' = Answered(Taken(p, s, q), p, q)
    /\ UNCHANGED <<fl, lt, shut, pc, want, hand, out, watch, stale, ops, faults>>

\* handle_sigrtmin2
HandleRelease(p) ==
  \E s \in Releases, q \in Procs :
    /\ Takes(p, s, q)
    /\ inc' = [inc EXCEPT ![p] = Minus(@)]
    /\ pend' = Taken(p, s, q)
    /\ UNCHANGED <<fl, lt, shut, pc, want, hand, out, watch, stale, ops, faults>>

\* handle_sigrtmin4
HandleAnswer(p) ==
  \E q \in Procs :
    /\ Takes(p, Answer, q)
    /\ out' = [out EXCEPT ![p] = Minus(@)]
    /\ pend' = Taken(p, Answer, q)
    /\ UNCHANGED <<fl, lt, shut, pc, want, hand, inc, watch, stale, ops, faults>>

\* The end of the pselect loop of handle_sigrtmin1: nobody wants the lock any
\* more, or nothing has come for three seconds.
SelectEnds(p) ==
  /\ hand[p] = "select" /\ inc[p] = 0
  /\ hand' = [hand EXCEPT ![p] = "relock"]
  /\ UNCHANGED <<fl, pend, lt, shut, pc, want, inc, out, watch, stale, ops, faults>>

SelectTimeout(p) ==
  /\ hand[p] = "select" /\ inc[p] > 0 /\ faults < MaxFaults
  /\ faults' = faults + 1
  /\ inc' = [inc EXCEPT ![p] = 0]
  /\ hand' = [hand EXCEPT ![p] = "relock"]
  /\ UNCHANGED <<fl, pend, lt, shut, pc, want, out, watch, stale, ops>>

\* F_SETLKW, then the server cancel that makes p look at the file again.
Relock(p) ==
  /\ hand[p] = "relock" /\ Blockers(p, "read") = {}
  /\ fl' = [fl EXCEPT ![p] = "read"]
  /\ hand' = [hand EXCEPT ![p] = "no"]
  /\ stale' = [stale EXCEPT ![p] = FALSE]
  /\ UNCHANGED <<pend, lt, shut, pc, want, inc, out, watch, ops, faults>>

-----------------------------------------------------------------------------
\* change_fd_lock

\* What the callers in log.c ask for: log_init, log_uninit, the pairs around
\* each access to the file, and the recovery that follows a panic.
NextLocks(p) ==
  CASE lt[p] = "none"    -> {"monitor"}
    [] lt[p] = "monitor" -> {"read", "write"} \cup (IF Uninit THEN {"none"} ELSE {})
    [] lt[p] = "read"    -> {"monitor", "read"} \cup (IF Uninit THEN {"none"} ELSE {})
    [] lt[p] = "write"   -> {"monitor"} \cup (IF Uninit THEN {"none"} ELSE {})
    [] lt[p] = "panic"   -> {"read", "none"}

IsRelease(p, t) == t = "none" \/ (lt[p] \in {"read", "write"} /\ t = "monitor")

\* A call: the file was written if the lock was a write lock, handlers are set,
\* signals are masked.
Call(p, t) ==
  /\ pc[p] = "free" /\ hand[p] = "no" /\ t \in NextLocks(p)
  /\ IF IsRelease(p, t) THEN UNCHANGED ops
     ELSE ops[p] < MaxOps /\ ops' = [ops EXCEPT ![p] = @ + 1]
  /\ pc' = [pc EXCEPT ![p] = "try"]
  /\ want' = [want EXCEPT ![p] = t]
  /\ stale' = IF lt[p] = "write" THEN [q \in Procs |-> q # p \/ stale[q]] ELSE stale
  /\ pend' = IF t = "none" THEN [pend EXCEPT ![p] = [s \in Signals |-> Nothing]] ELSE pend
  /\ UNCHANGED <<fl, lt, shut, hand, inc, out, watch, faults>>

\* p returns from change_fd_lock with the lock l: it tells the processes that
\* it made wait, and unmasks the requests at a monitor lock or none.
Return(p, l) ==
  /\ pc' = [pc EXCEPT ![p] = "free"]
  /\ lt' = [lt EXCEPT ![p] = l]
  /\ shut' = [shut EXCEPT ![p] = want[p] \in {"read", "write"}]
  /\ want' = [want EXCEPT ![p] = "none"]
  /\ pend' = Flushed(pend, p)
  /\ watch' = [watch EXCEPT ![p] = Nothing]

\* fcntl places the lock.
Lock(p) ==
  /\ pc[p] = "try" /\ hand[p] = "no" /\ ~Waiting(p)
  /\ Blockers(p, want[p]) = {}
  /\ fl' = [fl EXCEPT ![p] = FcntlType(want[p])]
  /\ stale' = IF lt[p] = "none" \/ want[p] = "none"
              THEN [stale EXCEPT ![p] = FALSE] ELSE stale
  /\ Return(p, want[p])
  /\ UNCHANGED <<hand, inc, out, ops, faults>>

\* fcntl does not; F_GETLK comes next.
Refuse(p) ==
  /\ pc[p] = "try" /\ hand[p] = "no" /\ ~Waiting(p)
  /\ Blockers(p, want[p]) # {}
  /\ pc' = [pc EXCEPT ![p] = "who"]
  /\ UNCHANGED <<fl, pend, lt, shut, want, hand, inc, out, watch, stale, ops, faults>>

\* Ask a process that is in the way to unlock the file, or try again if none is.
Ask(p) ==
  /\ pc[p] = "who"
  /\ pc' = [pc EXCEPT ![p] = "try"]
  /\ \/ /\ Blockers(p, want[p]) = {}
        /\ UNCHANGED <<pend, out, watch>>
     \/ \E q \in Blockers(p, want[p]) :
          /\ out' = [out EXCEPT ![p] = @ + 1]
          /\ pend' = Sent(pend, p, q, RequestTo(p, q))
          /\ watch' = [watch EXCEPT ![p][q] = @ + 1]
  /\ UNCHANGED <<fl, lt, shut, want, hand, inc, stale, ops, faults>>

\* SIGALRM: the signals got lost.  log_init gives up, the other callers panic.
Alarm(p) ==
  /\ pc[p] = "try" /\ hand[p] = "no" /\ faults < MaxFaults
  /\ faults' = faults + 1
  /\ inc' = [inc EXCEPT ![p] = 0]
  /\ out' = [out EXCEPT ![p] = 0]
  /\ Return(p, IF lt[p] = "none" THEN "none" ELSE "panic")
  /\ UNCHANGED <<fl, hand, stale, ops>>

\* A process is killed, or aborts when it cannot lock the file again.
Die(p) ==
  /\ pc[p] # "dead" /\ faults < MaxFaults
  /\ faults' = faults + 1
  /\ pc' = [pc EXCEPT ![p] = "dead"]
  /\ fl' = [fl EXCEPT ![p] = "none"]
  /\ lt' = [lt EXCEPT ![p] = "none"]
  /\ hand' = [hand EXCEPT ![p] = "no"]
  /\ pend' = [pend EXCEPT ![p] = [s \in Signals |-> Nothing]]
  /\ watch' = [watch EXCEPT ![p] = Nothing]
  /\ inc' = [inc EXCEPT ![p] = 0] /\ out' = [out EXCEPT ![p] = 0]
  /\ stale' = IF lt[p] = "write" THEN [q \in Procs |-> TRUE] ELSE stale
  /\ UNCHANGED <<shut, want, ops>>

-----------------------------------------------------------------------------
Init ==
  /\ fl = [p \in Procs |-> "none"]
  /\ pend = [p \in Procs |-> [s \in Signals |-> Nothing]]
  /\ lt = [p \in Procs |-> "none"] /\ shut = [p \in Procs |-> FALSE]
  /\ pc = [p \in Procs |-> "free"] /\ want = [p \in Procs |-> "none"]
  /\ hand = [p \in Procs |-> "no"]
  /\ inc = Nothing /\ out = Nothing
  /\ watch = [p \in Procs |-> Nothing]
  /\ stale = [p \in Procs |-> FALSE]
  /\ ops = Nothing /\ faults = 0

Handle(p) == \/ HandleRequest(p) \/ HandleAnother(p) \/ HandleRelease(p)
             \/ HandleAnswer(p) \/ SelectEnds(p) \/ Relock(p)
Loop(p) == Lock(p) \/ Refuse(p) \/ Ask(p)
Release(p) == lt[p] \in {"read", "write"} /\ \E t \in {"monitor", "none"} : Call(p, t)

Next == \E p \in Procs :
          \/ Handle(p) \/ Loop(p) \/ \E t \in Locks : Call(p, t)
          \/ SelectTimeout(p) \/ Alarm(p) \/ Die(p)

Spec == Init /\ [][Next]_vars

\* Processes run, signals arrive, and no lock is kept for ever.
Fairness == \A p \in Procs : WF_vars(Handle(p)) /\ WF_vars(Loop(p)) /\ WF_vars(Release(p))
FairSpec == Spec /\ Fairness

-----------------------------------------------------------------------------
(***************************************************************************)
(* Properties                                                              *)
(***************************************************************************)

\* Every variable keeps its type.
TypeOK ==
  /\ fl \in [Procs -> {"none", "read", "write"}]
  /\ pend \in [Procs -> [Signals -> [Procs -> Nat]]]
  /\ lt \in [Procs -> Locks] /\ shut \in [Procs -> BOOLEAN]
  /\ pc \in [Procs -> {"free", "try", "who", "dead"}]
  /\ want \in [Procs -> Locks \ {"panic"}]
  /\ hand \in [Procs -> {"no", "select", "relock"}]
  /\ inc \in [Procs -> Nat] /\ out \in [Procs -> Nat]
  /\ watch \in [Procs -> [Procs -> Nat]] /\ stale \in [Procs -> BOOLEAN]
  /\ ops \in [Procs -> 0 .. MaxOps] /\ faults \in 0 .. MaxFaults

\* A process that believes in a read or a write lock has it: no handler takes
\* it away until change_fd_lock is called again (the masks of change_fd_lock).
LockKept ==
  \A p \in Procs :
    pc[p] = "free" /\ lt[p] \in {"read", "write"} =>
      fl[p] = lt[p] /\ hand[p] = "no"

\* files.c:348 "if a file is write-locked by any process, all processes have
\* been informed of the write": a process that relies on a lock, a monitor
\* lock too, has heard of every write that was made, whatever timed out or
\* died, and none of them is going on.
Informed ==
  \A p \in Procs :
    pc[p] = "free" /\ hand[p] = "no" /\ lt[p] \in {"monitor", "read", "write"} =>
      /\ ~stale[p]
      /\ lt[p] # "write" => \A q \in Procs : fl[q] # "write"

\* The number of signals of the kinds ss from p to q that q has not taken.
Pending(p, q, ss) == SumFunction([s \in ss |-> pend[q][s][p]])
AllPending(p, ss) == SumFunction([q \in Procs |-> Pending(q, p, ss)])

\* files.c:792 "if we know a reason why the file would be locked, we block on a
\* signal, because we're going to get one": as long as nothing times out, each
\* answer that a process waits for is on its way, and so is each release.
AnswersComing ==
  \A p \in Procs :
    out[p] = AllPending(p, {Answer})
             + SumFunction([q \in Procs |-> Pending(p, q, Requests)])
ReleasesComing ==
  \A p \in Procs :
    inc[p] + AllPending(p, Requests)
      = AllPending(p, Releases) + SumFunction([q \in Procs |-> watch[q][p]])

\* A lock that was asked for is got.
LockGranted == \A p \in Procs : pc[p] = "try" ~> pc[p] = "free"

=============================================================================

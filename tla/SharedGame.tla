------------------------------ MODULE SharedGame ------------------------------
(***************************************************************************)
(* What the save file promises to the processes that share a game: there  *)
(* is one history, a process adds to it only when it knows all of it, and  *)
(* the end of the history is taken back only by starting a new epoch, in   *)
(* which nobody relies on what was known before.                           *)
(***************************************************************************)
EXTENDS Naturals, Sequences

CONSTANTS
  Procs,      \* the processes
  Kinds,      \* kinds of events
  Vals,       \* contents of events
  Legal(_, _),\* Legal(h, k): an event of kind k may follow the history h
  Unknown     \* what a process knows that relies on nothing

VARIABLES
  hist,       \* the history of the game
  known,      \* known[p]: the part of the history that p relies on
  epoch,      \* how often the history was taken back
  cutting,    \* an epoch has begun and its history is not yet settled
  over        \* the game is over

vars == <<hist, known, epoch, cutting, over>>

Prefixes(h) == {SubSeq(h, 1, n) : n \in 0 .. Len(h)}

\* Processes learn more of the history, or stop relying on what they knew.
Learn ==
  /\ known' \in [Procs -> {Unknown} \cup Prefixes(hist)]
  /\ UNCHANGED <<hist, epoch, cutting, over>>

\* p, which knows the whole history, adds to it.
Extend(p) ==
  /\ ~over /\ ~cutting
  /\ known[p] = hist
  /\ \E k \in Kinds, v \in Vals :
       /\ Legal(hist, k)
       /\ hist' = Append(hist, [kind |-> k, val |-> v])
  /\ known' = [known EXCEPT ![p] = hist']
  /\ UNCHANGED <<epoch, cutting, over>>

\* The game is over once its history ends it.
End ==
  /\ ~cutting
  /\ hist[Len(hist)].kind = "over" /\ over' = TRUE
  /\ known' \in [Procs -> {Unknown} \cup Prefixes(hist)]
  /\ UNCHANGED <<hist, epoch, cutting>>

\* A new epoch: what the processes knew counts for nothing.
Begin ==
  /\ ~cutting
  /\ epoch' = epoch + 1 /\ cutting' = TRUE /\ over' = FALSE
  /\ known' = [p \in Procs |-> Unknown]
  /\ UNCHANGED hist

\* The history is taken back to one of its prefixes, or stays as it was.
Settle ==
  /\ cutting /\ cutting' = FALSE
  /\ hist' \in Prefixes(hist) \ {<< >>}
  /\ UNCHANGED known
  /\ UNCHANGED <<epoch, over>>

Init ==
  /\ \E k \in Kinds, v \in Vals : hist = <<[kind |-> k, val |-> v]>>
  /\ known = [p \in Procs |-> Unknown]
  /\ epoch = 1 /\ cutting = FALSE /\ over = FALSE

Next == Learn \/ (\E p \in Procs : Extend(p)) \/ End \/ Begin \/ Settle

Spec == Init /\ [][Next]_vars
===============================================================================

--------------------------------- MODULE Turn ---------------------------------
(***************************************************************************)
(* Who acts in a turn: the loop of you_moved (allmain.c), movemon,          *)
(* can_act_this_turn, mcalcmove and adjust_move_offset (mon.c),             *)
(* mon_adjust_speed (worn.c), and what makemon gives a new monster.         *)
(*                                                                         *)
(* Nobody has a counter of movement points.  Each turn an actor has between*)
(* speed and speed + 11 points, and which of these 12 numbers it is follows*)
(* from the turn counter, the speed and a fixed offset.  An action costs 12*)
(* points, and one counter, flags.actions, serves all actors.              *)
(*                                                                         *)
(* moves is kept modulo 12: the code uses it in these computations only     *)
(* modulo 12, with products wide enough not to overflow.                   *)
(***************************************************************************)
EXTENDS Integers, FiniteSets

CONSTANTS
  Mons,         \* structs for monsters
  Hero,
  Forms,        \* base speeds of the monsters' species
  Offsets,      \* offsets that the dice may give a monster of a new level
  Amounts,      \* movement amounts that the dice may give the hero
  MaxWeb,       \* longest time in a web
  MaxEffects    \* bound on the changes that actions bring about

ASSUME TurnAssumption ==
  /\ Hero \notin Mons /\ IsFiniteSet(Mons)
  /\ Forms \subseteq Nat /\ Amounts \subseteq Nat
  /\ Offsets \subseteq 0 .. 11
  /\ MaxWeb \in Nat \ {0} /\ MaxEffects \in Nat

VARIABLES
  moves,      \* the turn counter, modulo 12
  actions,    \* flags.actions
  act,        \* each actor's speed and offset, a record
  on,         \* monsters on the level
  pc,         \* "hero": his action is next; "pass": movemon; "boundary"
  todo,       \* monsters that movemon has not reached
  moved,      \* somebody_can_move
  effects     \* changes so far

vars == <<moves, actions, act, on, pc, todo, moved, effects>>

NORMAL_SPEED == 12
Actors == Mons \cup {Hero}

-----------------------------------------------------------------------------
\* Speeds

\* mcalcmove without its side effects: a web slows a monster for some time, and
\* nitro is a burst of speed.  mmove is u.moveamt for the hero.
mcalcmove(mmove, mspeed, webbed, nitro) ==
  LET base == IF webbed THEN (2 * mmove + 1) \div 3 ELSE mmove
      pace == CASE mspeed = "MSLOW" -> (2 * base + 1) \div 3
                [] mspeed = "MFAST" -> (4 * base + 2) \div 3
                [] OTHER -> base
  IN IF ~nitro THEN pace
     ELSE pace + (IF mspeed = "MSLOW" THEN NORMAL_SPEED ELSE 2 * NORMAL_SPEED)
Rate(r) == mcalcmove(r.mmove, r.mspeed, r.web > 0, r.nitro)

\* What mcalcmove leaves: each call counts against the web and ends the burst.
Spent(r) == [r EXCEPT !.web = IF @ > 0 THEN @ - 1 ELSE 0, !.nitro = FALSE]

\* Movement points modulo 12, and movement points, of r in turn n
Position(r, n) == (n * Rate(r) + r.offset) % NORMAL_SPEED
Points(r, n) ==
  LET s == Rate(r)
  IN s + ((Position(r, n) + NORMAL_SPEED - (s % NORMAL_SPEED)) % NORMAL_SPEED)
Share(r) == Points(r, moves) \div NORMAL_SPEED

\* can_act_this_turn
CanAct(r) == actions < Share(r)

\* adjust_move_offset
Adjusted_bug(r, old, new) == [r EXCEPT !.offset = (@ + moves * (new - old)) % NORMAL_SPEED]
Adjusted(r, old, new) ==
  LET inc == IF new < old THEN NORMAL_SPEED - ((old - new) % NORMAL_SPEED)
             ELSE (new - old) % NORMAL_SPEED
      dec == (moves * inc) % NORMAL_SPEED
  IN [r EXCEPT !.offset = (@ + NORMAL_SPEED - dec) % NORMAL_SPEED]

-----------------------------------------------------------------------------
\* due is for the properties: the points that the actor has been given less
\* those that it has spent.  deal says what happened to its speed this turn:
\* "kept"; "adjusted" by adjust_move_offset; "loose", changed without it; "new".

NewActor(mmove, offset) ==
  [mmove |-> mmove, mspeed |-> "none", web |-> 0, nitro |-> FALSE,
   offset |-> offset, due |-> 0, deal |-> "kept"]
Gone == NewActor(0, 0)
Started(r) == [r EXCEPT !.due = Points(r, 1)]

Spend(r) == [r EXCEPT !.due = @ - NORMAL_SPEED]
Loose(r) == [r EXCEPT !.deal = "loose"]

\* The game starts, in turn 1: the hero has normal speed, monsters have any offset.
Init ==
  /\ moves = 1 /\ actions = 0 /\ pc = "hero" /\ moved = FALSE /\ effects = 0
  /\ on \in SUBSET Mons /\ todo = {}
  /\ \E form \in [Mons -> Forms], off \in [Mons -> Offsets] :
       act = [a \in Actors |-> Started(IF a = Hero THEN NewActor(NORMAL_SPEED, 0)
                                      ELSE IF a \in on THEN NewActor(form[a], off[a])
                                      ELSE Gone)]

\* mon_adjust_speed: haste, slowing and speed boots.  It calls mcalcmove twice.
AdjustSpeed(r, mspeed) ==
  LET q == [Spent(r) EXCEPT !.mspeed = mspeed]
      x == Adjusted(q, Rate(r), Rate(q))
  IN Spent(IF r.web > 0 \/ r.nitro THEN Loose(x)
           ELSE IF x.deal = "kept" THEN [x EXCEPT !.deal = "adjusted"] ELSE x)

\* What may happen to a monster: mon_adjust_speed; newcham, after which the
\* offset is the old one; a web; the burst of a thief that gets away.
Changes(r) ==
  {AdjustSpeed(r, s) : s \in {"none", "MSLOW", "MFAST"}} \cup
  {Loose([r EXCEPT !.mmove = f]) : f \in Forms} \cup
  {Loose([r EXCEPT !.web = n]) : n \in 1 .. MaxWeb} \cup
  {Loose([r EXCEPT !.nitro = TRUE])}

\* makemon, in a level that exists already
Born_bug(mmove) == [NewActor(mmove, mmove * (moves + NORMAL_SPEED - 1)) EXCEPT !.deal = "new"]
Born(mmove) ==
  [NewActor(mmove, (mmove * (moves + NORMAL_SPEED - 1)) % NORMAL_SPEED)
     EXCEPT !.deal = "new"]

\* What an action may bring about, x being act otherwise: nothing, a change of
\* a monster, the end of one, a new one.
Effect(x) ==
  \/ act' = x /\ UNCHANGED <<on, effects>>
  \/ /\ effects < MaxEffects /\ effects' = effects + 1
     /\ \/ /\ \E m \in on : \E r \in Changes(x[m]) : act' = [x EXCEPT ![m] = r]
           /\ UNCHANGED on
        \/ \E m \in on : act' = [x EXCEPT ![m] = Gone] /\ on' = on \ {m}
        \/ \E m \in Mons \ on, f \in Forms :
             act' = [x EXCEPT ![m] = Born(f)] /\ on' = on \cup {m}

-----------------------------------------------------------------------------
\* command_input: a command that takes time.  you_moved starts.
HeroActs ==
  /\ pc = "hero"
  /\ Effect([act EXCEPT ![Hero] = Spend(@)])
  /\ pc' = "pass" /\ todo' = on' /\ moved' = FALSE
  /\ UNCHANGED <<moves, actions>>

\* movemon reaches a monster.  One that is made now comes before those that it
\* has still to meet in the list, and waits for the next pass.
MonTurn(m) ==
  /\ pc = "pass" /\ m \in todo
  /\ IF CanAct(act[m])
     THEN /\ moved' = TRUE
          /\ Effect([act EXCEPT ![m] = Spend(Spent(@))])
     ELSE /\ act' = [act EXCEPT ![m] = Spent(@)]
          /\ UNCHANGED <<moved, on, effects>>
  /\ todo' = (todo \ {m}) \cap on'
  /\ UNCHANGED <<moves, actions, pc>>

\* movemon returns: it is the hero's turn, or there is another pass, or nobody
\* has an action left.
PassEnds ==
  /\ pc = "pass" /\ todo = {}
  /\ actions' = actions + 1
  /\ UNCHANGED <<moves, act, on, effects>>
  /\ LET can == (CanAct(act[Hero]))'
     IN /\ pc' = IF can THEN "hero" ELSE IF moved THEN "pass" ELSE "boundary"
        /\ todo' = IF pc' = "pass" THEN on ELSE {}
  /\ moved' = FALSE

\* you_move_amount
YouMoveAmount_bug(amt) == amt
YouMoveAmount(amt) == IF amt < 1 /\ moves = 0 THEN 1 ELSE amt

\* A new turn for actor r
NextTurn(r, n) ==
  [r EXCEPT !.due = CASE r.deal = "kept" -> @ + Rate(r)
                      [] r.deal = "adjusted" -> (@ % NORMAL_SPEED) + Rate(r)
                      [] OTHER -> Points(r, n),
            !.deal = IF r.web > 0 \/ r.nitro THEN "loose" ELSE "kept"]

\* The turn boundary.  A monster may appear.
Boundary ==
  /\ pc = "boundary"
  /\ \E amt \in Amounts :
       LET old == act[Hero].mmove
           new == YouMoveAmount(amt)
           next == (moves + 1) % NORMAL_SPEED
           hero == Adjusted([act[Hero] EXCEPT !.mmove = new], old, new)
           x == [act EXCEPT ![Hero] = hero]
       IN \/ /\ act' = [a \in Actors |-> IF a \in on \cup {Hero} THEN NextTurn(x[a], next)
                                        ELSE act[a]]
             /\ UNCHANGED <<on, effects>>
          \/ /\ effects < MaxEffects /\ effects' = effects + 1
             /\ \E m \in Mons \ on, f \in Forms :
                  /\ on' = on \cup {m}
                  /\ act' = [a \in Actors |-> IF a = m THEN NextTurn(Born(f), next)
                                             ELSE IF a \in on \cup {Hero} THEN NextTurn(x[a], next)
                                             ELSE act[a]]
  /\ moves' = (moves + 1) % NORMAL_SPEED /\ actions' = 0
  /\ pc' = IF (CanAct(act[Hero]))' THEN "hero" ELSE "pass"
  /\ todo' = IF pc' = "pass" THEN on' ELSE {}
  /\ moved' = FALSE

Loop == PassEnds \/ Boundary \/ \E m \in Mons : MonTurn(m)
Next == HeroActs \/ Loop

Spec == Init /\ [][Next]_vars
\* you_moved runs on; the player may take his time.
FairSpec == Spec /\ WF_vars(Loop)

-----------------------------------------------------------------------------
\* Properties

ActorType ==
  [mmove : Nat, mspeed : {"none", "MSLOW", "MFAST"}, web : 0 .. MaxWeb, nitro : BOOLEAN,
   offset : 0 .. (NORMAL_SPEED - 1), due : Int,
   deal : {"kept", "adjusted", "loose", "new"}]

TypeOK ==
  /\ moves \in 0 .. (NORMAL_SPEED - 1) /\ actions \in Nat
  /\ act \in [Actors -> ActorType]
  /\ on \subseteq Mons /\ todo \subseteq on
  /\ pc \in {"hero", "pass", "boundary"} /\ moved \in BOOLEAN
  /\ effects \in 0 .. MaxEffects

\* Nobody has a counter of points, yet everybody whose speed has not changed in
\* this turn gets what its speed promises: each turn adds its speed, an action
\* costs 12, nobody acts with fewer than 12 points, and no turn ends while
\* somebody has 12 left.  A change by mon_adjust_speed neither gives nor takes a
\* fraction of an action, nor does the hero's new amount at the turn boundary.
FairShare ==
  \A a \in on \cup {Hero} :
    act[a].deal = "kept" =>
      /\ act[a].due >= 0
      /\ pc = "boundary" => act[a].due < NORMAL_SPEED

\* However slow the hero is, and whatever the monsters do to each other's speed,
\* it is his turn again at some time: the case that you_move_amount has against
\* an infinite loop suffices.
HeroGetsTurn == pc # "hero" ~> pc = "hero"
=============================================================================

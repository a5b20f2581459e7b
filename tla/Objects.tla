------------------------------- MODULE Objects -------------------------------
(***************************************************************************)
(* Objects that are timed or lit, and the levels: the chains of mkobj.c,   *)
(* the timers of timeout.c, the light sources of light.c, stacking         *)
(* (invent.c), containers and the magic chest (pickup.c), monsters that    *)
(* carry objects to other levels (dog.c) and goto_level (do.c).            *)
(*                                                                         *)
(* Each level has a list of timers and a list of light sources, which point*)
(* at objects.  An object points back at one level, olev, and everything   *)
(* that looks for an object's timers and lights looks there.  Timers and   *)
(* lights of what the hero, his companions and the migrating monsters carry*)
(* follow the hero from level to level.                                    *)
(*                                                                         *)
(* Objs are the structs: a freed one is not used again.  There is one place*)
(* on each level, one bag, and one monster.  A list of timers is a set:    *)
(* timers that expire in the same turn run in any order.                   *)
(***************************************************************************)
EXTENDS Integers, FiniteSets, FiniteSetsExt, Functions

CONSTANTS
  Objs,       \* structs for objects
  Levels,     \* the levels
  Firsts,     \* what may be there at the start: [some of Objs -> [kind, quan, age]]
  Stages,     \* ages at which a burning object changes, 0 among them
  Close,      \* candles merge if their ages fall in one interval of this length
  RotTime,    \* a corpse rots after this time
  MaxTime     \* bound on the time

ASSUME ObjectsAssumption ==
  /\ IsFiniteSet(Objs) /\ Levels # {}
  /\ \A f \in Firsts :
       /\ DOMAIN f \subseteq Objs
       /\ \A o \in DOMAIN f :
            f[o] \in [kind : {"candle", "lamp", "corpse", "bag"}, quan : Nat \ {0}, age : Nat]
       /\ \A o, p \in DOMAIN f : f[o].kind = "bag" /\ f[p].kind = "bag" => o = p /\ f[o].quan = 1
  /\ Stages \subseteq Nat /\ 0 \in Stages /\ Close \in Nat \ {0}
  /\ RotTime \in Nat \ {0} /\ MaxTime \in Nat

VARIABLES
  w,      \* the objects, timers and lights (a record, see Init)
  hero,   \* the level the hero is on
  mon,    \* the monster: "here" on a level, in "limbo" on its way to one, "dead"
  now     \* moves

vars == <<w, hero, mon, now>>

Places == {"free", "floor", "invent", "minvent", "contained", "chest", "buried"}
Burning == {"candle", "lamp"}      \* kinds that can burn

\* The bag is the container of what is "contained".  strayed is for the
\* properties: a monster or the magic chest has once carried the object to
\* another level, where nobody called set_obj_level for it.
NoObj == [kind |-> "none", where |-> "none", lev |-> 0, quan |-> 0, age |-> 0,
          timed |-> 0, lit |-> FALSE, strayed |-> FALSE]

\* mksobj: only a corpse starts with a timer.
NewObj(f, l) == [NoObj EXCEPT !.kind = f.kind, !.quan = f.quan, !.age = f.age,
                              !.where = "floor", !.lev = l,
                              !.timed = IF f.kind = "corpse" THEN 1 ELSE 0]

Init ==
  /\ hero = CHOOSE l \in Levels : TRUE
  /\ mon = [st |-> "here", lev |-> hero]
  /\ now = 0
  /\ \E f \in Firsts :
       w = [obj |-> [o \in Objs |-> IF o \in DOMAIN f THEN NewObj(f[o], hero) ELSE NoObj],
            timers |-> {[lev |-> hero, at |-> RotTime, func |-> "rot", o |-> o] :
                          o \in {o \in DOMAIN f : f[o].kind = "corpse"}},
            lights |-> [l \in Levels |-> [o \in Objs |-> 0]],
            ub |-> FALSE]

Live(v) == {o \in Objs : v.obj[o].where \in Places}
Inside(v, o) == IF v.obj[o].kind = "bag"
                THEN {p \in Objs : v.obj[p].where = "contained"} ELSE {}
Bags(v) == {o \in Objs : v.obj[o].kind = "bag" /\ v.obj[o].where # "gone"}

-----------------------------------------------------------------------------
\* Timers and lights.  v is a world, as everywhere below.

StartTimer(v, o, after, func) ==
  [v EXCEPT !.timers = @ \cup {[lev |-> v.obj[o].lev, at |-> now + after,
                                func |-> func, o |-> o]},
            !.obj[o].timed = @ + 1]

\* del_light_source; impossible() if there is none
DelLight(v, o) == LET l == v.obj[o].lev
                  IN IF v.lights[l][o] > 0 THEN [v EXCEPT !.lights[l][o] = @ - 1] ELSE v

CleanupBurn(v, o, at) ==
  IF v.obj[o].lit
  THEN [DelLight(v, o) EXCEPT !.obj[o].age = @ + at - now, !.obj[o].lit = FALSE]
  ELSE v

Mine(v, o) == {t \in v.timers : t.o = o /\ t.lev = v.obj[o].lev}

\* What is done when timer t is stopped before it runs
Cleanup(v, o, t) == IF t.func = "burn" THEN CleanupBurn(v, o, t.at) ELSE v

StopTimer(v, o, func) ==
  LET T == {t \in Mine(v, o) : t.func = func}
  IN IF T = {} THEN v
     ELSE LET t == CHOOSE t \in T : \A u \in T : t.at <= u.at
          IN Cleanup([v EXCEPT !.timers = @ \ {t}, !.obj[o].timed = @ - 1], o, t)

\* begin_burn.  The light is put on the level that the hero is on.
BeginBurn(v, o, alreadyLit) ==
  LET age == v.obj[o].age
      turns == age - Max({s \in Stages : s < age})
      s == StartTimer(v, o, turns, "burn")
      x == [s EXCEPT !.obj[o] = [s.obj[o] EXCEPT !.lit = TRUE, !.age = age - turns]]
  IN IF age = 0 THEN v
     ELSE IF alreadyLit THEN x ELSE [x EXCEPT !.lights[hero][o] = @ + 1]

EndBurn(v, o, timerAttached) ==
  IF ~v.obj[o].lit THEN v
  ELSE IF timerAttached THEN StopTimer(v, o, "burn")
  ELSE [DelLight(v, o) EXCEPT !.obj[o].lit = FALSE]

\* transfer_timers and transfer_lights for the objects in S
Transfer(v, S, l) ==
  LET old(o) == v.obj[o].lev
      moves(o) == o \in S /\ v.obj[o].lit /\ old(o) # l
  IN [v EXCEPT !.timers = {IF t.o \in S /\ v.obj[t.o].timed > 0 /\ t.lev = old(t.o)
                           THEN [t EXCEPT !.lev = l] ELSE t : t \in v.timers},
               !.lights = [k \in Levels |-> [o \in Objs |->
                  IF ~moves(o) THEN v.lights[k][o]
                  ELSE IF k = l THEN v.lights[l][o] + v.lights[old(o)][o]
                  ELSE IF k = old(o) THEN 0
                  ELSE v.lights[k][o]]]]

\* set_obj_level for the objects in S, and for o and what is in it
SetLevels(v, S, l) ==
  [Transfer(v, S, l) EXCEPT !.obj = [o \in Objs |-> IF o \in S THEN [v.obj[o] EXCEPT !.lev = l]
                                                    ELSE v.obj[o]]]
SetLevel_bug(v, o, l) == [v EXCEPT !.obj[o].lev = l]
SetLevel(v, o, l) == SetLevels(v, {o} \cup Inside(v, o), l)

-----------------------------------------------------------------------------
\* Objects

Extract(v, o) == [v EXCEPT !.obj[o].where = "free"]

\* dealloc_obj for the objects in S, with obj_stop_timers.  The light of a lit object
\* is deleted once: in the cleanup of its timer, or without one.
Dealloc(v, S) ==
  [v EXCEPT !.timers = {t \in v.timers :
                          t.o \in S => v.obj[t.o].timed = 0 \/ t.lev # v.obj[t.o].lev},
            !.lights = [l \in Levels |-> [o \in Objs |->
               IF o \in S /\ v.obj[o].lit /\ l = v.obj[o].lev /\ v.lights[l][o] > 0
               THEN v.lights[l][o] - 1 ELSE v.lights[l][o]]],
            !.obj = [o \in Objs |->
               IF o \in S THEN [NoObj EXCEPT !.where = "gone", !.strayed = v.obj[o].strayed]
               ELSE v.obj[o]]]

\* obfree, without the bill: what is in a container goes with it.
Free(v, o) == Dealloc(v, {o} \cup Inside(v, o))

Unused(v) == {o \in Objs : v.obj[o].where = "none"}

\* splitobj.  Timers are copied on the level of the object, lights on the
\* level of the hero.
Split_bug(v, o, n, new) ==
  LET T == IF v.obj[o].timed > 0 THEN Mine(v, o) ELSE {}
  IN [v EXCEPT !.obj[o].quan = @ - n,
               !.obj[new] = [v.obj[o] EXCEPT !.quan = n, !.timed = 0, !.lit = FALSE],
               !.timers = @ \cup {[t EXCEPT !.o = new] : t \in T}]
Split(v, o, n, new) ==
  LET T == IF v.obj[o].timed > 0 THEN Mine(v, o) ELSE {}
      lights == IF v.obj[o].lit THEN v.lights[hero][o] ELSE 0
      x == [v EXCEPT !.obj[o].quan = @ - n]
  IN [x EXCEPT !.obj[new] = [v.obj[o] EXCEPT !.quan = n, !.timed = Cardinality(T),
                                             !.lit = lights > 0],
               !.timers = @ \cup {[t EXCEPT !.o = new] : t \in T},
               !.lights[hero][new] = lights]

\* n of stack o: a world and the object
Parts(v, o) ==
  LET new == CHOOSE p \in Unused(v) : TRUE
  IN {[v |-> v, o |-> o]} \cup
     IF Unused(v) = {} THEN {}
     ELSE {[v |-> Split(v, o, n, new), o |-> new] : n \in 1 .. (v.obj[o].quan - 1)}

Mergable(v, a, b) ==
  LET x == v.obj[a]
      y == v.obj[b]
  IN /\ x.kind = y.kind /\ x.kind \in {"candle", "corpse"}
     /\ x.lit = y.lit
     /\ x.kind = "candle" => x.age \div Close = y.age \div Close

\* The age of a stack with what joins it: the mean, but for lit candles
NewAge_bug(a, b) == (a.age * a.quan + b.age * b.quan) \div (a.quan + b.quan)
NewAge(a, b) == IF b.lit THEN a.age
                ELSE (a.age * a.quan + b.age * b.quan) \div (a.quan + b.quan)

\* merged: o becomes part of into.  obj_stop_timers is part of Free.
Merge_bug(v, into, o) ==
  [v EXCEPT !.obj[into].quan = @ + v.obj[o].quan]
Merge(v, into, o) ==
  LET a == v.obj[into]
      b == v.obj[o]
      x == [Extract(v, o) EXCEPT
              !.obj[into] = [a EXCEPT !.quan = @ + b.quan, !.age = NewAge(a, b)]]
  IN Free(IF b.lit THEN EndBurn(x, o, TRUE) ELSE x, o)

\* addinv, add_to_minv, add_to_container, add_to_magic_chest
AddTo(v, where, o) ==
  LET fits == {p \in Live(v) \ {o} : v.obj[p].where = where /\ Mergable(v, p, o)}
  IN IF fits # {} THEN Merge(v, CHOOSE p \in fits : TRUE, o)
     ELSE [v EXCEPT !.obj[o].where = where]

\* place_object and stackobj: here the older stack joins the new one.
Land(v, o, l) ==
  LET x == [SetLevel(v, o, l) EXCEPT !.obj[o].where = "floor"]
      fits == {p \in Live(x) \ {o} :
                 x.obj[p].where = "floor" /\ x.obj[p].lev = l /\ Mergable(x, o, p)}
  IN IF fits # {} THEN Merge(x, o, CHOOSE p \in fits : TRUE) ELSE x

\* The place of an object, or of the bag that it is in
Spot(o) == IF w.obj[o].where = "contained" THEN w.obj[CHOOSE b \in Bags(w) : TRUE].where
           ELSE w.obj[o].where
Here(o) == o \in Live(w) /\ w.obj[o].where = "floor" /\ w.obj[o].lev = hero
Held(o) == o \in Live(w) /\ w.obj[o].where = "invent"
Carried(o) == o \in Live(w) /\ w.obj[o].where = "minvent"
BagOpen == \E b \in Bags(w) : Here(b) \/ Held(b)

\* run_timers is at work as long as a timer of the hero's level is due.
Due == {t \in w.timers : t.lev = hero /\ t.at <= now}
Quiet == Due = {} /\ ~w.ub
MonHere == mon.st = "here" /\ mon.lev = hero

-----------------------------------------------------------------------------
\* Time

\* burn_object, which may be called late
BurnOut(v, o) ==
  LET x == EndBurn([v EXCEPT !.obj[o].age = 0], o, FALSE)
  IN IF v.obj[o].kind = "candle" THEN Free(Extract(x, o), o) ELSE x
BurnObject_bug(v, o, at) ==
  IF v.obj[o].age = 0 THEN BurnOut(v, o) ELSE BeginBurn(v, o, TRUE)
BurnObject(v, o, at) ==
  LET left == v.obj[o].age - (now - at)
  IN IF left <= 0 THEN BurnOut(v, o)
     ELSE BeginBurn([v EXCEPT !.obj[o].age = left], o, TRUE)

\* One turn of the loop of run_timers.  The timer of a freed object is
\* undefined behaviour.
Fire ==
  /\ Due # {} /\ ~w.ub
  /\ \E t \in Due :
       /\ \A u \in Due : t.at <= u.at
       /\ LET v == [w EXCEPT !.timers = @ \ {t}, !.obj[t.o].timed = @ - 1]
          IN w' = IF w.obj[t.o].where = "gone" THEN [w EXCEPT !.ub = TRUE]
                  ELSE IF t.func = "burn" THEN BurnObject(v, t.o, t.at)
                  ELSE Free(Extract(v, t.o), t.o)      \* rot_corpse, rot_organic
  /\ UNCHANGED <<hero, mon, now>>

\* A turn passes.
Tick ==
  /\ Quiet /\ now < MaxTime
  /\ now' = now + 1
  /\ UNCHANGED <<w, hero, mon>>

-----------------------------------------------------------------------------
\* The hero

\* pickup_object
PickUp(o) ==
  /\ Quiet /\ Here(o)
  /\ \E p \in Parts(w, o) : w' = AddTo(Extract(p.v, p.o), "invent", p.o)
  /\ UNCHANGED <<hero, mon, now>>

\* drop
Drop(o) ==
  /\ Quiet /\ Held(o)
  /\ \E p \in Parts(w, o) : w' = Land(Extract(p.v, p.o), p.o, hero)
  /\ UNCHANGED <<hero, mon, now>>

\* in_container: the light goes out.
PutIn(o, where) ==
  /\ Quiet /\ Held(o) /\ w.obj[o].kind # "bag"
  /\ where = "contained" => BagOpen
  /\ \E p \in Parts(w, o) :
       w' = AddTo(EndBurn(Extract(p.v, p.o), p.o, TRUE), where, p.o)
  /\ UNCHANGED <<hero, mon, now>>

\* out_container.  Only for the magic chest is the level set.
TakeOut(o) ==
  /\ Quiet /\ o \in Live(w)
  /\ w.obj[o].where = "chest" \/ (w.obj[o].where = "contained" /\ BagOpen)
  /\ \E p \in Parts(w, o) :
       LET x == Extract(p.v, p.o)
       IN w' = AddTo(IF w.obj[o].where = "chest" THEN SetLevel(x, p.o, hero) ELSE x,
                     "invent", p.o)
  /\ UNCHANGED <<hero, mon, now>>

\* use_lamp puts out: what is in hand joins each stack of the inventory that it fits,
\* which is then in hand.
Stacked(p, x) == IF Mergable(x.v, p, x.o)
                 THEN [v |-> Extract(Merge(x.v, p, x.o), p), o |-> p] ELSE x
Restack(v, o) ==
  LET x == FoldSet(Stacked, [v |-> Extract(v, o), o |-> o],
                   {p \in Live(v) \ {o} : v.obj[p].where = "invent"})
  IN [x.v EXCEPT !.obj[x.o].where = "invent"]

\* use_lamp
Light(o) ==
  /\ Quiet /\ Held(o) /\ w.obj[o].kind \in Burning /\ (w.obj[o].lit \/ w.obj[o].age > 0)
  /\ w' = IF w.obj[o].lit THEN Restack(EndBurn(w, o, TRUE), o) ELSE BeginBurn(w, o, FALSE)
  /\ UNCHANGED <<hero, mon, now>>

\* useup
UseUp(o) ==
  /\ Quiet /\ Held(o)
  /\ w' = IF w.obj[o].quan > 1 THEN [w EXCEPT !.obj[o].quan = @ - 1]
          ELSE Free(Extract(w, o), o)
  /\ UNCHANGED <<hero, mon, now>>

\* bury_an_obj: candles are organic, and may start to rot.
Bury(o) ==
  /\ Quiet /\ Here(o) /\ w.obj[o].kind \in {"candle", "corpse"}
  /\ LET x == Extract(EndBurn(w, o, TRUE), o)
     IN \E y \in {x} \cup IF w.obj[o].kind = "candle"
                           THEN {StartTimer(x, o, RotTime, "organic")} ELSE {} :
          w' = [y EXCEPT !.obj[o].where = "buried"]
  /\ UNCHANGED <<hero, mon, now>>

\* unearth_objs
Unearth(o) ==
  /\ Quiet /\ o \in Live(w) /\ w.obj[o].where = "buried" /\ w.obj[o].lev = hero
  /\ w' = Land(StopTimer(Extract(w, o), o, "organic"), o, hero)
  /\ UNCHANGED <<hero, mon, now>>

\* ship_object, deliver_object: an object falls to another level.
Fall(o, l) ==
  /\ Quiet /\ Here(o) /\ l # hero
  /\ w' = Land(Extract(w, o), o, l)
  /\ UNCHANGED <<hero, mon, now>>

\* obj_is_local and mon_is_local; follows: the monster comes with the hero.
IsLocal(o, follows) ==
  \/ Spot(o) \in {"floor", "buried"}
  \/ Spot(o) = "minvent" /\ mon.st = "here" /\ ~follows

\* goto_level: what is not local follows the hero; the level of what he carries
\* is set, that of what monsters carry is not.
Leave(l, follows) ==
  /\ Quiet /\ l # hero
  /\ follows => MonHere
  /\ LET comes(o) == o \in Live(w) /\ ~IsLocal(o, follows)
         own == {o \in Live(w) : Spot(o) = "invent"}
         x == [w EXCEPT
                 !.timers = {IF t.lev = hero /\ comes(t.o) THEN [t EXCEPT !.lev = l] ELSE t :
                               t \in w.timers},
                 !.lights = [k \in Levels |-> [o \in Objs |->
                    IF ~comes(o) THEN w.lights[k][o]
                    ELSE IF k = hero THEN 0
                    ELSE IF k = l THEN w.lights[l][o] + w.lights[hero][o]
                    ELSE w.lights[k][o]]],
                 !.obj = [o \in Objs |-> IF comes(o) /\ o \notin own
                                         THEN [w.obj[o] EXCEPT !.strayed = TRUE]
                                         ELSE w.obj[o]]]
     IN w' = SetLevels(x, own, l)
  /\ mon' = IF follows \/ (mon.st = "limbo" /\ mon.lev = l)
            THEN [st |-> "here", lev |-> l] ELSE mon
  /\ hero' = l
  /\ UNCHANGED now

-----------------------------------------------------------------------------
\* The monster, while it is on the hero's level

\* mpickobj
MonPick(o) ==
  /\ Quiet /\ MonHere /\ Here(o)
  /\ w' = AddTo(Extract(w, o), "minvent", o)
  /\ UNCHANGED <<hero, mon, now>>

\* mdrop_obj
MonDrop(o) ==
  /\ Quiet /\ MonHere /\ Carried(o)
  /\ w' = Land(Extract(w, o), o, hero)
  /\ UNCHANGED <<hero, mon, now>>

\* migrate_to_level
MonLeaves(l) ==
  /\ Quiet /\ MonHere /\ l # hero
  /\ mon' = [st |-> "limbo", lev |-> l]
  /\ UNCHANGED <<w, hero, now>>

\* relobj as it dies, or discard_minvent as it is removed from the game
MonDies ==
  /\ Quiet /\ MonHere
  /\ LET had == {o \in Objs : Carried(o)}
     IN \/ w' = FoldSet(LAMBDA o, x : IF x.obj[o].where = "minvent"
                                       THEN Land(Extract(x, o), o, hero) ELSE x, w, had)
        \/ w' = Dealloc(w, {o \in Live(w) : Spot(o) = "minvent"})
  /\ mon' = [mon EXCEPT !.st = "dead"]
  /\ UNCHANGED <<hero, now>>

Hero(o) == \/ PickUp(o) \/ Drop(o) \/ TakeOut(o) \/ Light(o) \/ UseUp(o)
           \/ \E where \in {"contained", "chest"} : PutIn(o, where)

Next == \/ Tick \/ Fire \/ MonDies
        \/ \E o \in Objs : Hero(o) \/ Bury(o) \/ Unearth(o) \/ MonPick(o) \/ MonDrop(o)
        \/ \E l \in Levels : \/ MonLeaves(l)
                             \/ \E o \in Objs : Fall(o, l)
                             \/ \E follows \in BOOLEAN : Leave(l, follows)

Spec == Init /\ [][Next]_vars

-----------------------------------------------------------------------------
\* Properties

TypeOK ==
  /\ \A o \in Objs :
       w.obj[o] \in [kind : Burning \cup {"corpse", "bag", "none"},
                     where : Places \cup {"none", "gone"}, lev : Levels \cup {0},
                     quan : Nat, age : Int, timed : Nat, lit : BOOLEAN, strayed : BOOLEAN]
  /\ w.timers \subseteq [lev : Levels, at : Nat, func : {"rot", "burn", "organic"}, o : Objs]
  /\ hero \in Levels /\ now \in 0 .. MaxTime
  /\ mon \in [st : {"here", "limbo", "dead"}, lev : Levels]

TimersOf(o) == {t \in w.timers : t.o = o}

\* The timers and lights of an object are where its olev points, as many as it
\* says, and are gone when it is freed: whatever is split, merged, lit, put away,
\* buried or dropped in between, unless the object has strayed.
Owned ==
  \A o \in Objs : ~w.obj[o].strayed =>
    LET x == w.obj[o]
        live == x.where \in Places
    IN /\ Cardinality(TimersOf(o)) = IF live THEN x.timed ELSE 0
       /\ \A t \in TimersOf(o) : t.lev = x.lev
       /\ \A l \in Levels :
            w.lights[l][o] = IF live /\ x.lit /\ l = x.lev THEN 1 ELSE 0

\* What is left to burn goes down by one each turn while the object is lit and
\* not otherwise: relighting, splitting, putting out, taking to another level and
\* coming back late neither win nor waste fuel, and a lit stack that takes in
\* another burns on as it did.  Unlit candles that merge take the mean of their
\* ages, which are close.
Fuel(v, t, o) == FoldSet(LAMBDA x, n : n + x.at - t, v.obj[o].age,
                         {x \in v.timers : x.o = o /\ x.func = "burn"})
FuelHonest ==
  [][\A o \in Live(w) \cap Live(w') :
       LET x == w.obj[o]
           y == w'.obj[o]
           before == Fuel(w, now, o)
           after == Fuel(w', now', o)
           spent == IF x.lit THEN now' - now ELSE 0
       IN \/ x.kind \notin Burning \/ y.strayed
          \/ after = before - spent
          \/ before <= 0 /\ after = 0
          \/ /\ y.quan > x.quan /\ ~x.lit /\ ~y.lit
             /\ after \div Close = before \div Close]_vars

\* Splitting, merging and moving neither make nor lose a piece of anything, and
\* mix no kinds: as many pieces are gone as one that is used up (with what is in
\* it), a stack that rots or burns down, or all that a monster takes out of the game.
Count(v, kind, S) == FoldSet(LAMBDA o, n : n + v.obj[o].quan, 0,
                             {o \in S : v.obj[o].kind = kind})
Conserved ==
  [][\A kind \in Burning \cup {"corpse", "bag"} :
       LET gone == Count(w, kind, Live(w)) - Count(w', kind, Live(w'))
           one(o) == IF w.obj[o].kind = kind THEN 1 ELSE 0
       IN \/ gone = 0
          \/ \E o \in Objs : UseUp(o) /\ gone = one(o) + Count(w, kind, Inside(w, o))
          \/ \E t \in Due \ w'.timers : Fire /\ gone = Count(w, kind, {t.o})
          \/ MonDies /\ gone = Count(w, kind, {o \in Live(w) : Spot(o) = "minvent"})]_vars

\* No timer points at a freed object: dealloc_obj frees the timers attached to
\* it.  They are looked for on the level that olev says, though.
NoGhosts == \A t \in w.timers : w.obj[t.o].where # "gone"
=============================================================================

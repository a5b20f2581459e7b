--------------------------- MODULE ObjectsProofs ---------------------------
(***************************************************************************)
(* What Objects promises for any objects, levels and times: the timers and *)
(* the light of an object are where it says, as many as it says, unless it *)
(* has strayed.                                                            *)
(*                                                                         *)
(* Each object is looked at alone, with its timers and its rays (how many  *)
(* lights it has on each level): what an operator does to the others is    *)
(* nothing.                                                                *)
(***************************************************************************)
EXTENDS Objects, SumTheorems

-----------------------------------------------------------------------------
\* The inductive invariant

ObjType == [kind : Burning \cup {"corpse", "bag", "none"}, where : Places \cup {"none", "gone"},
            lev : Levels \cup {0}, quan : Nat, age : Int, timed : Nat, lit : BOOLEAN,
            strayed : BOOLEAN]
Funcs == {"rot", "burn", "organic"}
TimerType == [lev : Levels, at : Nat, func : Funcs, o : Objs]
LightType == [Levels -> [Objs -> Nat]]
World == [obj : [Objs -> ObjType], timers : SUBSET TimerType, lights : LightType, ub : BOOLEAN]

Of(T, o) == {t \in T : t.o = o}
TimersIn(v, o) == Of(v.timers, o)
Rays(v, o) == [l \in Levels |-> v.lights[l][o]]

\* An object that is somewhere and has not strayed: its timers are on its level, as
\* many as it says; it has one timer to burn if it is lit, and one light, on its
\* level, and otherwise none.
Tracked(x, T, R) ==
  /\ Cardinality(T) = x.timed
  /\ \A t \in T : t.lev = x.lev
  /\ \A t, u \in T : t.func = u.func /\ t.func # "rot" => t = u
  /\ x.lit => \E t \in T : t.func = "burn"
  /\ ~x.lit => \A t \in T : t.func # "burn"
  /\ \A l \in Levels : /\ x.lit /\ l = x.lev => R[l] = 1
                       /\ ~(x.lit /\ l = x.lev) => R[l] = 0
Nothing(T, R) == T = {} /\ \A l \in Levels : R[l] = 0

\* An object x with its timers T and its rays R.  One that has strayed may have
\* fewer timers than it says, and may leave some behind.
Fine(x, T, R) ==
  /\ IsFiniteSet(T)
  /\ x.where \in Places =>
       /\ x.lev \in Levels /\ x.quan >= 1 /\ Cardinality(T) <= x.timed
       /\ ~x.strayed => Tracked(x, T, R)
  /\ x.where \notin Places =>
       /\ x.kind = "none"
       /\ x.where = "none" \/ ~x.strayed => Nothing(T, R)

FineAt(v, o) == Fine(v.obj[o], TimersIn(v, o), Rays(v, o))
Whole(v) == v \in World /\ \A o \in Objs : FineAt(v, o)

\* There is one bag at most, which is in no container; what is in it is on its level.
BagPlaces == {"free", "floor", "invent", "minvent"}
BagOK(v) ==
  /\ \A a, b \in Objs : v.obj[a].kind = "bag" /\ v.obj[b].kind = "bag" => a = b
  /\ \A b \in Objs : v.obj[b].kind = "bag" => v.obj[b].quan = 1 /\ v.obj[b].where \in BagPlaces
  /\ \A o \in Objs : v.obj[o].where = "contained" =>
       \E b \in Objs : v.obj[b].kind = "bag" /\ v.obj[b].lev = v.obj[o].lev

\* The levels of what is not on the floor: h is the hero's, m is the monster.
MonBag(v) == \E b \in Objs : v.obj[b].kind = "bag" /\ v.obj[b].where = "minvent"
InMon(v, o) == v.obj[o].where = "minvent" \/ (v.obj[o].where = "contained" /\ MonBag(v))
WithMon(l, h, m) == (m.st = "here" /\ l = m.lev) \/ (m.st = "limbo" /\ l = h)
Stands(v, o, h, m) ==
  /\ v.obj[o].where = "invent" => v.obj[o].lev = h
  /\ ~v.obj[o].strayed =>
       /\ v.obj[o].where = "chest" => v.obj[o].lev = h
       /\ InMon(v, o) => WithMon(v.obj[o].lev, h, m)

\* Candles rot only where they are buried.
Clean(v, o) == ~v.obj[o].strayed =>
                 \A t \in TimersIn(v, o) : t.func = "organic" => v.obj[o].where = "buried"
Placed(v, o, h, m) == Stands(v, o, h, m) /\ Clean(v, o)

Sound(v) == Whole(v) /\ BagOK(v)
Good(v, h, m) == Sound(v) /\ \A o \in Objs : Placed(v, o, h, m)

MonType == [st : {"here", "limbo", "dead"}, lev : Levels]
ObjInv == Good(w, hero, mon) /\ hero \in Levels /\ now \in 0 .. MaxTime /\ mon \in MonType

-----------------------------------------------------------------------------
\* Worlds

\* A world with other objects, timers and lights
Build(v, O, T, L) == [v EXCEPT !.obj = O, !.timers = T, !.lights = L]

\* Nothing about object p has changed.
Same(v, x, p) ==
  x.obj[p] = v.obj[p] /\ TimersIn(x, p) = TimersIn(v, p) /\ Rays(x, p) = Rays(v, p)

LEMMA WorldIs ==
  ASSUME NEW v \in World
  PROVE  /\ v.obj \in [Objs -> ObjType] /\ v.timers \in SUBSET TimerType
         /\ v.lights \in LightType /\ v.ub \in BOOLEAN
         /\ \A o \in Objs : v.obj[o] \in ObjType
BY DEF World

LEMMA ObjIs ==
  ASSUME NEW x \in ObjType
  PROVE  /\ x.kind \in Burning \cup {"corpse", "bag", "none"}
         /\ x.where \in Places \cup {"none", "gone"} /\ x.lev \in Levels \cup {0}
         /\ x.quan \in Nat /\ x.age \in Int /\ x.timed \in Nat /\ x.lit \in BOOLEAN
         /\ x.strayed \in BOOLEAN
BY DEF ObjType

LEMMA TimerIs ==
  ASSUME NEW t \in TimerType
  PROVE  t.lev \in Levels /\ t.at \in Nat /\ t.func \in Funcs /\ t.o \in Objs
BY DEF TimerType

LEMMA BuildIs ==
  ASSUME NEW v \in World, NEW O \in [Objs -> ObjType], NEW T \in SUBSET TimerType,
         NEW L \in LightType
  PROVE  LET x == Build(v, O, T, L)
         IN x \in World /\ x.obj = O /\ x.timers = T /\ x.lights = L /\ x.ub = v.ub
BY DEF World, Build

\* The same in two steps
Retimed(v, T, L) == [v EXCEPT !.timers = T, !.lights = L]
Remade(v, O) == [v EXCEPT !.obj = O]

LEMMA BuildTwice ==
  ASSUME NEW v \in World, NEW O, NEW T, NEW L
  PROVE  Remade(Retimed(v, T, L), O) = Build(v, O, T, L)
BY DEF World, Build, Remade, Retimed

\* Two timers are the same if their fields are.
LEMMA TimerEqual ==
  ASSUME NEW t \in TimerType, NEW u \in TimerType,
         t.lev = u.lev, t.at = u.at, t.func = u.func, t.o = u.o
  PROVE  t = u
BY DEF TimerType

LEMMA SameSelf ==
  \A v, p : Same(v, v, p)
BY DEF Same

LEMMA SameTwice ==
  \A v, x, y, p : Same(v, x, p) /\ Same(x, y, p) => Same(v, y, p)
BY DEF Same

\* What is untouched stays fine.
LEMMA WholeStep ==
  ASSUME NEW v, Whole(v), NEW x \in World,
         \A p \in Objs : Same(v, x, p) \/ FineAt(x, p)
  PROVE  Whole(x)
<1>1. ASSUME NEW p \in Objs, Same(v, x, p)
      PROVE  FineAt(x, p)
  <2>1. FineAt(v, p)
    BY DEF Whole
  <2> QED
    BY <1>1, <2>1, Zenon DEF FineAt, Same
<1> QED
  BY <1>1 DEF Whole

LEMMA GoodStep ==
  ASSUME NEW v, NEW h, NEW m, Good(v, h, m), NEW x, Sound(x),
         \A p \in Objs : Same(v, x, p) \/ Placed(x, p, h, m),
         MonBag(x) => MonBag(v)
  PROVE  Good(x, h, m)
<1>1. ASSUME NEW p \in Objs, Same(v, x, p)
      PROVE  Placed(x, p, h, m)
  <2>1. Placed(v, p, h, m)
    BY DEF Good
  <2> QED
    BY <1>1, <2>1 DEF Placed, Stands, Clean, Same, InMon
<1> QED
  BY <1>1 DEF Good

\* x is v but for the objects in S.
Only(v, x, S) == x \in World /\ \A p \in Objs \ S : Same(v, x, p)

-----------------------------------------------------------------------------
\* One object is changed, with timers and lights of its own or without.

Set(v, o, y, T, L) == Build(v, [v.obj EXCEPT ![o] = y], T, L)
Change(v, o, y) == Set(v, o, y, v.timers, v.lights)

\* The timers T and the lights L differ from those of v in those of o.
Aside(v, o, T, L) ==
  /\ T \in SUBSET TimerType /\ L \in LightType
  /\ \A t \in T : t.o # o => t \in v.timers
  /\ \A t \in v.timers : t.o # o => t \in T
  /\ \A k \in Levels, p \in Objs : p # o => L[k][p] = v.lights[k][p]

LEMMA SetIs ==
  ASSUME NEW v \in World, NEW o \in Objs, NEW y \in ObjType, NEW T, NEW L, Aside(v, o, T, L)
  PROVE  LET x == Set(v, o, y, T, L)
         IN /\ Only(v, x, {o}) /\ x.obj[o] = y /\ x.timers = T /\ x.lights = L
            /\ TimersIn(x, o) = Of(T, o)
<1> DEFINE O == [v.obj EXCEPT ![o] = y]
           x == Set(v, o, y, T, L)
<1>1. v.obj \in [Objs -> ObjType]
  BY WorldIs
<1>2. O \in [Objs -> ObjType] /\ O[o] = y /\ \A p \in Objs \ {o} : O[p] = v.obj[p]
  BY <1>1
<1> HIDE DEF O
<1>3. x \in World /\ x.obj = O /\ x.timers = T /\ x.lights = L
  BY <1>2, BuildIs DEF Set, O, Aside
<1> HIDE DEF x
<1>4. \A p \in Objs \ {o} : TimersIn(x, p) = TimersIn(v, p)
  BY <1>3 DEF TimersIn, Of, Aside
<1>5. ASSUME NEW p \in Objs \ {o}
      PROVE  Rays(x, p) = Rays(v, p)
  <2>1. \A k \in Levels : x.lights[k][p] = v.lights[k][p]
    BY <1>3 DEF Aside
  <2> QED
    BY <2>1 DEF Rays
<1>6. \A p \in Objs \ {o} : Same(v, x, p)
  BY <1>2, <1>3, <1>4, <1>5 DEF Same
<1>7. Only(v, x, {o})
  BY <1>3, <1>6 DEF Only
<1> QED
  BY <1>2, <1>3, <1>7, Zenon DEF x, TimersIn, Of

LEMMA ChangeIs ==
  ASSUME NEW v \in World, NEW o \in Objs, NEW y \in ObjType
  PROVE  LET x == Change(v, o, y)
         IN /\ Only(v, x, {o}) /\ x.obj[o] = y
            /\ x.timers = v.timers /\ x.lights = v.lights
            /\ TimersIn(x, o) = TimersIn(v, o) /\ Rays(x, o) = Rays(v, o)
<1> DEFINE x == Change(v, o, y)
           T == v.timers
           L == v.lights
<1>1. Aside(v, o, T, L)
  BY WorldIs DEF Aside
<1>2. x = Set(v, o, y, T, L)
  BY Zenon DEF Change
<1> HIDE DEF T, L, x
<1>3. Only(v, x, {o}) /\ x.obj[o] = y /\ x.timers = T /\ x.lights = L
  BY <1>1, <1>2, SetIs
<1> QED
  BY <1>3, Zenon DEF T, L, x, TimersIn, Of, Rays

\* What an object says about its timers and its light, and what it is
Alike(x, y) == /\ y.lev = x.lev /\ y.timed = x.timed /\ y.lit = x.lit /\ y.strayed = x.strayed
               /\ y.kind = x.kind

\* Neither the count nor where it is matters to the timers.
LEMMA FineAlike ==
  ASSUME NEW x \in ObjType, NEW y \in ObjType, NEW T, NEW R, Fine(x, T, R), Alike(x, y),
         x.where \in Places, y.where \in Places, y.quan >= 1
  PROVE  Fine(y, T, R)
BY DEF Fine, Tracked, Alike

LEMMA ChangeFine ==
  ASSUME NEW v, Whole(v), NEW o \in Objs, NEW y \in ObjType, Alike(v.obj[o], y),
         v.obj[o].where \in Places, y.where \in Places, y.quan >= 1
  PROVE  Whole(Change(v, o, y))
<1> DEFINE x == Change(v, o, y)
<1>1. v \in World /\ v.obj[o] \in ObjType /\ FineAt(v, o)
  BY WorldIs DEF Whole
<1>2. /\ Only(v, x, {o}) /\ x.obj[o] = y
      /\ TimersIn(x, o) = TimersIn(v, o) /\ Rays(x, o) = Rays(v, o)
  <2>1. v \in World
    BY <1>1
  <2> QED
    BY <2>1, ChangeIs
<1> HIDE DEF x
<1>3. FineAt(x, o)
  BY <1>1, <1>2, FineAlike DEF FineAt
<1> QED
  BY <1>2, <1>3, WholeStep DEF Only, x

-----------------------------------------------------------------------------
\* Objects are freed: Dealloc

LEMMA GoneIs ==
  ASSUME NEW s \in BOOLEAN
  PROVE  LET y == [NoObj EXCEPT !.where = "gone", !.strayed = s]
         IN y \in ObjType /\ y.where = "gone" /\ y.strayed = s /\ y.kind = "none"
<1>1. NoObj \in ObjType /\ NoObj.kind = "none"
  BY DEF NoObj, ObjType
<1>2. [NoObj EXCEPT !.where = "gone", !.strayed = s] \in ObjType
  BY <1>1 DEF ObjType
<1> QED
  BY <1>1, <1>2 DEF ObjType

\* Timers that go and rays that go when x is freed
KeptTimers(x, T) == {t \in T : x.timed = 0 \/ t.lev # x.lev}
KeptRays(x, R) == [l \in Levels |-> IF x.lit /\ l = x.lev /\ R[l] > 0 THEN R[l] - 1 ELSE R[l]]

LEMMA FineGone ==
  ASSUME NEW x \in ObjType, NEW T, NEW R \in [Levels -> Nat], Fine(x, T, R), x.where \in Places,
         NEW y, y.where = "gone", y.strayed = x.strayed, y.kind = "none"
  PROVE  Fine(y, KeptTimers(x, T), KeptRays(x, R))
<1> DEFINE K == KeptTimers(x, T)
           Q == KeptRays(x, R)
<1>1. IsFiniteSet(T) /\ K \in SUBSET T /\ IsFiniteSet(K)
  <2>1. IsFiniteSet(T) /\ K \in SUBSET T
    BY DEF Fine, KeptTimers
  <2> QED
    BY <2>1, FS_Subset
<1>2. ASSUME ~x.strayed
      PROVE  Nothing(K, Q)
  <2>1. Tracked(x, T, R)
    BY <1>2 DEF Fine
  <2>2. K = {}
    <3>1. CASE x.timed = 0
      <4>1. T = {}
        BY <1>1, <2>1, <3>1, FS_EmptySet DEF Tracked
      <4> QED
        BY <4>1, <1>1
    <3>2. CASE x.timed # 0
      BY <2>1, <3>2 DEF Tracked, KeptTimers
    <3> QED
      BY <3>1, <3>2
  <2>3. ASSUME NEW l \in Levels
        PROVE  Q[l] = 0
    BY <2>1 DEF Tracked, KeptRays
  <2> QED
    BY <2>2, <2>3 DEF Nothing
<1> QED
  BY <1>1, <1>2 DEF Fine, Places

LEMMA DeallocIs ==
  ASSUME NEW v, Whole(v), NEW S \in SUBSET Objs, \A o \in S : v.obj[o].where \in Places
  PROVE  LET x == Dealloc(v, S)
         IN /\ Whole(x) /\ Only(v, x, S)
            /\ \A o \in S : /\ x.obj[o].where = "gone" /\ x.obj[o].kind = "none"
                            /\ x.obj[o].strayed = v.obj[o].strayed
<1> DEFINE G(o) == [NoObj EXCEPT !.where = "gone", !.strayed = v.obj[o].strayed]
           O == [o \in Objs |-> IF o \in S THEN G(o) ELSE v.obj[o]]
           T == {t \in v.timers : t.o \in S => v.obj[t.o].timed = 0 \/ t.lev # v.obj[t.o].lev}
           N(l, o) == IF o \in S /\ v.obj[o].lit /\ l = v.obj[o].lev /\ v.lights[l][o] > 0
                      THEN v.lights[l][o] - 1 ELSE v.lights[l][o]
           L == [l \in Levels |-> [o \in Objs |-> N(l, o)]]
           x == Dealloc(v, S)
<1>1. v \in World
  BY DEF Whole
<1>2. /\ \A o \in Objs : v.obj[o] \in ObjType
      /\ \A l \in Levels, o \in Objs : v.lights[l][o] \in Nat
  BY <1>1, WorldIs DEF LightType
<1>3. \A o \in Objs : /\ G(o) \in ObjType /\ G(o).where = "gone" /\ G(o).kind = "none"
                      /\ G(o).strayed = v.obj[o].strayed
  <2> SUFFICES ASSUME NEW o \in Objs
               PROVE  /\ G(o) \in ObjType /\ G(o).where = "gone" /\ G(o).kind = "none"
                      /\ G(o).strayed = v.obj[o].strayed
    OBVIOUS
  <2>1. v.obj[o].strayed \in BOOLEAN
    BY <1>2, ObjIs
  <2> QED
    BY <2>1, GoneIs
<1> HIDE DEF G
<1>4. O \in [Objs -> ObjType]
  BY <1>2, <1>3
<1>5. T \in SUBSET TimerType
  BY <1>1, WorldIs
<1>6. L \in LightType
  <2>1. \A l \in Levels, o \in Objs : N(l, o) \in Nat
    BY <1>2
  <2> HIDE DEF N
  <2> QED
    BY <2>1 DEF LightType
<1>7. x = Build(v, O, T, L)
  BY Zenon DEF Dealloc, Build, G
<1>8. x \in World /\ x.obj = O /\ x.timers = T /\ x.lights = L
  <2> HIDE DEF O, T, L, x
  <2> QED
    BY <1>1, <1>4, <1>5, <1>6, <1>7, BuildIs
<1> HIDE DEF x
<1>9. ASSUME NEW p \in Objs \ S
      PROVE  Same(v, x, p)
  <2>1. x.obj[p] = v.obj[p]
    BY <1>8
  <2>2. TimersIn(x, p) = TimersIn(v, p)
    BY <1>8 DEF TimersIn, Of
  <2>3. \A l \in Levels : x.lights[l][p] = v.lights[l][p]
    BY <1>8
  <2> QED
    BY <2>1, <2>2, <2>3 DEF Same, Rays
<1>10. ASSUME NEW o \in S
       PROVE  FineAt(x, o) /\ x.obj[o] = G(o)
  <2>1. x.obj[o] = G(o)
    BY <1>8
  <2>2. TimersIn(x, o) = KeptTimers(v.obj[o], TimersIn(v, o))
    BY <1>8 DEF TimersIn, Of, KeptTimers
  <2>3. Rays(x, o) = KeptRays(v.obj[o], Rays(v, o))
    <3>1. ASSUME NEW l \in Levels
          PROVE  x.lights[l][o] = KeptRays(v.obj[o], Rays(v, o))[l]
      <4>1. x.lights[l][o] = N(l, o)
        BY <1>8
      <4> QED
        BY <4>1 DEF KeptRays, Rays
    <3>2. Rays(x, o) = [l \in Levels |-> KeptRays(v.obj[o], Rays(v, o))[l]]
      BY <3>1 DEF Rays
    <3> QED
      BY <3>2 DEF KeptRays
  <2>4. Rays(v, o) \in [Levels -> Nat]
    BY <1>2 DEF Rays
  <2>5. Fine(v.obj[o], TimersIn(v, o), Rays(v, o)) /\ v.obj[o].where \in Places
    BY DEF Whole, FineAt
  <2>6. Fine(G(o), KeptTimers(v.obj[o], TimersIn(v, o)), KeptRays(v.obj[o], Rays(v, o)))
    BY <1>2, <1>3, <2>4, <2>5, FineGone
  <2> QED
    BY <2>1, <2>2, <2>3, <2>6 DEF FineAt
<1>11. Whole(x)
  BY <1>8, <1>9, <1>10, WholeStep
<1> QED
  BY <1>3, <1>8, <1>9, <1>10, <1>11 DEF x, Only

-----------------------------------------------------------------------------
\* Objects go to another level: SetLevels

MovedTimer(x, t, l) == IF x.timed > 0 /\ t.lev = x.lev THEN [t EXCEPT !.lev = l] ELSE t
MovedTimers(x, T, l) == {MovedTimer(x, t, l) : t \in T}
MovedRays(x, R, l) ==
  [k \in Levels |-> IF ~(x.lit /\ x.lev # l) THEN R[k]
                    ELSE IF k = l THEN R[l] + R[x.lev]
                    ELSE IF k = x.lev THEN 0
                    ELSE R[k]]

LEMMA MovedTimerIs ==
  ASSUME NEW x, NEW t \in TimerType, NEW l \in Levels
  PROVE  /\ MovedTimer(x, t, l) \in TimerType /\ MovedTimer(x, t, l).at = t.at
         /\ MovedTimer(x, t, l).func = t.func /\ MovedTimer(x, t, l).o = t.o
         /\ x.timed > 0 /\ t.lev = x.lev => MovedTimer(x, t, l).lev = l
BY DEF MovedTimer, TimerType

\* No two timers become one if they were on the object's level.
LEMMA MovedCount ==
  ASSUME NEW x, NEW T \in SUBSET TimerType, IsFiniteSet(T), NEW l \in Levels
  PROVE  LET U == MovedTimers(x, T, l)
         IN /\ IsFiniteSet(U) /\ Cardinality(U) <= Cardinality(T)
            /\ x.timed > 0 /\ (\A t \in T : t.lev = x.lev) => Cardinality(U) = Cardinality(T)
<1> DEFINE U == MovedTimers(x, T, l)
           M(t) == MovedTimer(x, t, l)
           f == [t \in T |-> M(t)]
<1>1. \A t \in T : M(t) \in U
  BY DEF MovedTimers
<1>2. \A u \in U : \E t \in T : u = M(t)
  BY DEF MovedTimers
<1>3. ASSUME x.timed > 0, \A t \in T : t.lev = x.lev, NEW t \in T, NEW u \in T, M(t) = M(u)
      PROVE  t = u
  <2>1. t \in TimerType /\ u \in TimerType
    OBVIOUS
  <2>2. M(t).at = t.at /\ M(t).func = t.func /\ M(t).o = t.o
    BY <2>1, MovedTimerIs, Zenon
  <2>3. M(u).at = u.at /\ M(u).func = u.func /\ M(u).o = u.o
    BY <2>1, MovedTimerIs, Zenon
  <2> HIDE DEF M
  <2> QED
    BY <1>3, <2>1, <2>2, <2>3, TimerEqual
<1> HIDE DEF U, M
<1>4. f \in Surjection(T, U)
  BY <1>1, <1>2 DEF Surjection
<1>5. x.timed > 0 /\ (\A t \in T : t.lev = x.lev) => f \in Injection(T, U)
  BY <1>1, <1>3 DEF Injection, IsInjective
<1> HIDE DEF f
<1> QED
  BY <1>4, <1>5, FS_Surjection DEF U

LEMMA FineMoved ==
  ASSUME NEW x \in ObjType, NEW T \in SUBSET TimerType, NEW R \in [Levels -> Nat], Fine(x, T, R),
         x.where \in Places, NEW l \in Levels, NEW y \in ObjType, y.lev = l, y.where = x.where,
         y.quan = x.quan, y.timed = x.timed, y.lit = x.lit, y.strayed = x.strayed
  PROVE  Fine(y, MovedTimers(x, T, l), MovedRays(x, R, l))
<1> DEFINE U == MovedTimers(x, T, l)
           Q == MovedRays(x, R, l)
<1>1. IsFiniteSet(T) /\ Cardinality(T) <= x.timed /\ x.lev \in Levels /\ x.quan >= 1
      /\ x.timed \in Nat /\ Cardinality(T) \in Nat
  BY ObjIs, FS_CardinalityType DEF Fine
<1>2. IsFiniteSet(U) /\ Cardinality(U) <= Cardinality(T) /\ Cardinality(U) \in Nat
  BY <1>1, MovedCount, FS_CardinalityType
<1>3. Cardinality(U) <= x.timed
  BY <1>1, <1>2
<1>4. ASSUME ~x.strayed
      PROVE  Tracked(y, U, Q)
  <2>1. Tracked(x, T, R)
    BY <1>4 DEF Fine
  <2>2. CASE x.timed = 0
    <3>1. T = {}
      BY <1>1, <2>1, <2>2, FS_EmptySet DEF Tracked
    <3>2. U = {}
      BY <3>1 DEF MovedTimers
    <3>3. ~x.lit
      BY <2>1, <3>1 DEF Tracked
    <3>4. \A k \in Levels : Q[k] = 0
      BY <2>1, <3>3 DEF Tracked, MovedRays
    <3> HIDE DEF U, Q
    <3> QED
      BY <2>2, <3>2, <3>3, <3>4, FS_EmptySet DEF Tracked
  <2>3. CASE x.timed > 0
    <3>1. \A t \in T : t.lev = x.lev
      BY <2>1 DEF Tracked
    <3>2. Cardinality(U) = x.timed
      <4>1. Cardinality(T) = x.timed
        BY <2>1 DEF Tracked
      <4> QED
        BY <1>1, <2>3, <3>1, <4>1, MovedCount
    <3>3. \A t \in T : LET u == MovedTimer(x, t, l) IN u.lev = l /\ u.func = t.func
      BY <2>3, <3>1, MovedTimerIs
    <3>4. \A u \in U : \E t \in T : u = MovedTimer(x, t, l)
      BY DEF MovedTimers
    <3>5. \A t \in T : MovedTimer(x, t, l) \in U
      BY DEF MovedTimers
    <3>6. \A k \in Levels : /\ x.lit /\ k = l => Q[k] = 1
                            /\ ~(x.lit /\ k = l) => Q[k] = 0
      <4>1. ASSUME NEW k \in Levels
            PROVE  (x.lit /\ k = l => Q[k] = 1) /\ (~(x.lit /\ k = l) => Q[k] = 0)
        BY <1>1, <2>1 DEF Tracked, MovedRays
      <4> QED
        BY <4>1
    <3> HIDE DEF U, Q
    <3>7. \A u \in U : u.lev = l
      BY <3>3, <3>4
    <3>8. ASSUME NEW a \in U, NEW b \in U, a.func = b.func, a.func # "rot"
          PROVE  a = b
      <4>1. PICK t \in T : a = MovedTimer(x, t, l)
        BY <3>4
      <4>2. PICK u \in T : b = MovedTimer(x, u, l)
        BY <3>4
      <4>3. t.func = u.func /\ t.func # "rot"
        BY <3>3, <3>8, <4>1, <4>2
      <4> QED
        BY <2>1, <4>1, <4>2, <4>3 DEF Tracked
    <3>9. x.lit => \E u \in U : u.func = "burn"
      BY <2>1, <3>3, <3>5 DEF Tracked
    <3>10. ~x.lit => \A u \in U : u.func # "burn"
      BY <2>1, <3>3, <3>4 DEF Tracked
    <3> QED
      BY <3>2, <3>6, <3>7, <3>8, <3>9, <3>10 DEF Tracked
  <2> QED
    BY <1>1, <2>2, <2>3
<1> HIDE DEF U, Q
<1> QED
  BY <1>1, <1>2, <1>3, <1>4 DEF Fine, U, Q

\* Object p is what it was, with timers of the sorts that it had.
Kin(v, x, p) ==
  /\ x.obj[p].kind = v.obj[p].kind /\ x.obj[p].strayed = v.obj[p].strayed
  /\ \A u \in TimersIn(x, p) : \E t \in TimersIn(v, p) : u.func = t.func
Moved(v, x, p, l) == /\ Kin(v, x, p) /\ x.obj[p].lev = l
                     /\ x.obj[p].where = v.obj[p].where /\ x.obj[p].quan = v.obj[p].quan

Leveled(x, l) == [x EXCEPT !.lev = l]

LEMMA LeveledIs ==
  ASSUME NEW x \in ObjType, NEW l \in Levels
  PROVE  LET y == Leveled(x, l)
         IN /\ y \in ObjType /\ y.lev = l /\ y.where = x.where /\ y.kind = x.kind
            /\ y.quan = x.quan /\ y.timed = x.timed /\ y.lit = x.lit /\ y.strayed = x.strayed
BY DEF Leveled, ObjType

\* The timers of the objects in S as moved are those of each of them.
Shifted(v, x, o, l) == /\ x.obj[o] = Leveled(v.obj[o], l)
                       /\ TimersIn(x, o) = MovedTimers(v.obj[o], TimersIn(v, o), l)
                       /\ Rays(x, o) = MovedRays(v.obj[o], Rays(v, o), l)

LEMMA SetLevelsShift ==
  ASSUME NEW v \in World, NEW S \in SUBSET Objs, \A o \in S : v.obj[o].lev \in Levels,
         NEW l \in Levels
  PROVE  LET x == SetLevels(v, S, l)
         IN Only(v, x, S) /\ \A o \in S : Shifted(v, x, o, l)
<1> DEFINE O == [o \in Objs |-> IF o \in S THEN Leveled(v.obj[o], l) ELSE v.obj[o]]
           Mv(t) == IF t.o \in S /\ v.obj[t.o].timed > 0 /\ t.lev = v.obj[t.o].lev
                    THEN [t EXCEPT !.lev = l] ELSE t
           T == {Mv(t) : t \in v.timers}
           N(k, o) == IF ~(o \in S /\ v.obj[o].lit /\ v.obj[o].lev # l) THEN v.lights[k][o]
                      ELSE IF k = l THEN v.lights[l][o] + v.lights[v.obj[o].lev][o]
                      ELSE IF k = v.obj[o].lev THEN 0
                      ELSE v.lights[k][o]
           L == [k \in Levels |-> [o \in Objs |-> N(k, o)]]
           x == SetLevels(v, S, l)
<1>1. /\ \A o \in Objs : v.obj[o] \in ObjType
      /\ \A k \in Levels, o \in Objs : v.lights[k][o] \in Nat
      /\ v.timers \in SUBSET TimerType
  BY WorldIs DEF LightType
<1>2. \A t \in v.timers : Mv(t) = IF t.o \in S THEN MovedTimer(v.obj[t.o], t, l) ELSE t
  BY Zenon DEF MovedTimer
<1>3. ASSUME NEW t \in v.timers
      PROVE  Mv(t) \in TimerType /\ Mv(t).o = t.o
  <2>1. t \in TimerType
    BY <1>1
  <2>2. MovedTimer(v.obj[t.o], t, l) \in TimerType /\ MovedTimer(v.obj[t.o], t, l).o = t.o
    BY <2>1, MovedTimerIs, Zenon
  <2>3. Mv(t) = IF t.o \in S THEN MovedTimer(v.obj[t.o], t, l) ELSE t
    BY <1>2
  <2> HIDE DEF Mv
  <2> QED
    BY <2>1, <2>2, <2>3
<1>4. Transfer(v, S, l) = Retimed(v, T, L)
  BY Zenon DEF Transfer, Retimed
<1>5. x = Remade(Transfer(v, S, l), O)
  BY Zenon DEF SetLevels, Remade, Leveled
<1>6. O \in [Objs -> ObjType]
  <2>1. \A o \in Objs : Leveled(v.obj[o], l) \in ObjType
    BY <1>1, LeveledIs
  <2> QED
    BY <1>1, <2>1
<1>7. T \in SUBSET TimerType
  <2> HIDE DEF Mv
  <2> QED
    BY <1>3
<1>8. L \in LightType
  <2>1. \A k \in Levels, o \in Objs : N(k, o) \in Nat
    BY <1>1
  <2> HIDE DEF N
  <2> QED
    BY <2>1 DEF LightType
<1> HIDE DEF x, O, T, L
<1>9. x \in World /\ x.obj = O /\ x.timers = T /\ x.lights = L
  <2>1. x = Build(v, O, T, L)
    BY <1>4, <1>5, BuildTwice, Zenon
  <2> QED
    BY <2>1, <1>6, <1>7, <1>8, BuildIs
<1> HIDE DEF Mv
<1>10. ASSUME NEW p \in Objs \ S
       PROVE  Same(v, x, p)
  <2>1. x.obj[p] = v.obj[p]
    BY <1>9 DEF O
  <2>2. TimersIn(x, p) = TimersIn(v, p)
    <3>1. \A t \in v.timers : t.o = p => Mv(t) = t
      BY <1>2
    <3> QED
      BY <1>3, <1>9, <3>1 DEF TimersIn, Of, T
  <2>3. \A k \in Levels : x.lights[k][p] = v.lights[k][p]
    BY <1>9 DEF L
  <2> QED
    BY <2>1, <2>2, <2>3 DEF Same, Rays
<1>11. ASSUME NEW o \in S
       PROVE  Shifted(v, x, o, l)
  <2>1. x.obj[o] = Leveled(v.obj[o], l)
    BY <1>9 DEF O
  <2>2. TimersIn(x, o) = MovedTimers(v.obj[o], TimersIn(v, o), l)
    <3>1. \A t \in v.timers : t.o = o => Mv(t) = MovedTimer(v.obj[o], t, l)
      BY <1>2
    <3> QED
      BY <1>3, <1>9, <3>1 DEF TimersIn, Of, T, MovedTimers
  <2>3. Rays(x, o) = MovedRays(v.obj[o], Rays(v, o), l)
    <3>1. ASSUME NEW k \in Levels
          PROVE  x.lights[k][o] = MovedRays(v.obj[o], Rays(v, o), l)[k]
      <4>1. x.lights[k][o] = N(k, o)
        <5> HIDE DEF N
        <5> QED
          BY <1>9 DEF L
      <4>2. MovedRays(v.obj[o], Rays(v, o), l)[k] = N(k, o)
        BY DEF MovedRays, Rays
      <4> QED
        BY <4>1, <4>2, Zenon
    <3>2. Rays(x, o) = [k \in Levels |-> MovedRays(v.obj[o], Rays(v, o), l)[k]]
      BY <3>1 DEF Rays
    <3> QED
      BY <3>2 DEF MovedRays
  <2> QED
    BY <2>1, <2>2, <2>3 DEF Shifted
<1> QED
  BY <1>9, <1>10, <1>11, Zenon DEF x, Only

LEMMA MovedFunc ==
  ASSUME NEW x, NEW T \in SUBSET TimerType, NEW l \in Levels
  PROVE  \A u \in MovedTimers(x, T, l) : \E t \in T : u.func = t.func
<1>1. ASSUME NEW t \in T
      PROVE  MovedTimer(x, t, l).func = t.func
  <2>1. t \in TimerType
    OBVIOUS
  <2> QED
    BY <2>1, MovedTimerIs, Zenon
<1> QED
  BY <1>1 DEF MovedTimers

LEMMA SetLevelsIs ==
  ASSUME NEW v, Whole(v), NEW S \in SUBSET Objs, \A o \in S : v.obj[o].where \in Places,
         NEW l \in Levels
  PROVE  LET x == SetLevels(v, S, l)
         IN Whole(x) /\ Only(v, x, S) /\ \A o \in S : Moved(v, x, o, l)
<1> DEFINE x == SetLevels(v, S, l)
<1>1. v \in World /\ v.timers \in SUBSET TimerType /\ v.lights \in LightType
  BY WorldIs DEF Whole
<1>2. Only(v, x, S) /\ \A o \in S : Shifted(v, x, o, l)
  <2>1. \A o \in S : v.obj[o].lev \in Levels
    BY DEF Whole, FineAt, Fine
  <2> QED
    BY <1>1, <2>1, SetLevelsShift
<1> HIDE DEF x
<1>3. ASSUME NEW o \in S
      PROVE  FineAt(x, o) /\ Moved(v, x, o, l)
  <2> DEFINE a == v.obj[o]
             y == Leveled(a, l)
             T == TimersIn(v, o)
             R == Rays(v, o)
  <2>1. /\ a \in ObjType /\ T \in SUBSET TimerType /\ R \in [Levels -> Nat]
        /\ Fine(a, T, R) /\ a.where \in Places
    BY <1>1, WorldIs DEF TimersIn, Of, Rays, LightType, Whole, FineAt
  <2>2. Shifted(v, x, o, l)
    BY <1>2
  <2>3. /\ y \in ObjType /\ y.lev = l /\ y.where = a.where /\ y.kind = a.kind
        /\ y.quan = a.quan /\ y.timed = a.timed /\ y.lit = a.lit /\ y.strayed = a.strayed
    BY <2>1, LeveledIs
  <2> HIDE DEF a, y, T, R
  <2>4. Fine(y, MovedTimers(a, T, l), MovedRays(a, R, l))
    BY <2>1, <2>3, FineMoved
  <2>5. /\ x.obj[o] = y /\ TimersIn(x, o) = MovedTimers(a, T, l)
        /\ Rays(x, o) = MovedRays(a, R, l)
    BY <2>2, Zenon DEF Shifted, a, y, T, R
  <2>6. FineAt(x, o)
    BY <2>4, <2>5, Zenon DEF FineAt
  <2>7. \A u \in TimersIn(x, o) : \E t \in T : u.func = t.func
    <3>1. \A u \in MovedTimers(a, T, l) : \E t \in T : u.func = t.func
      BY <1>1, <2>1, MovedFunc
    <3> QED
      BY <2>5, <3>1
  <2> QED
    BY <2>3, <2>5, <2>6, <2>7 DEF Moved, Kin, a, T
<1>4. Whole(x)
  BY <1>2, <1>3, WholeStep DEF Only
<1> QED
  BY <1>2, <1>3, <1>4, Zenon DEF x

-----------------------------------------------------------------------------
\* The earliest timer, and the stage that is reached next

LEMMA NatMin ==
  ASSUME NEW S \in SUBSET Nat, S # {}
  PROVE  \E n \in S : \A m \in S : n <= m
<1> DEFINE R == OpToRel(<, Nat)
<1>1. IsWellFoundedOn(R, Nat)
  BY NatLessThanWellFounded
<1>2. \A a, b \in Nat : a < b => <<a, b>> \in R
  BY DEF OpToRel
<1> HIDE DEF R
<1>3. PICK n \in S : \A m \in S : <<m, n>> \notin R
  BY <1>1, WFMin
<1>4. ASSUME NEW m \in S
      PROVE  n <= m
  <2>1. m \in Nat /\ n \in Nat
    OBVIOUS
  <2>2. ~(m < n)
    BY <1>2, <1>3, <2>1
  <2> QED
    BY <2>1, <2>2
<1> QED
  BY <1>4

LEMMA FirstTimer ==
  ASSUME NEW T \in SUBSET TimerType, T # {}
  PROVE  \E t \in T : \A u \in T : t.at <= u.at
<1> DEFINE S == {t.at : t \in T}
<1>1. S \in SUBSET Nat /\ S # {}
  BY TimerIs
<1>2. \A t \in T : t.at \in S
  OBVIOUS
<1>3. \A n \in S : \E t \in T : n = t.at
  OBVIOUS
<1> HIDE DEF S
<1>4. PICK n \in S : \A m \in S : n <= m
  BY <1>1, NatMin
<1> QED
  BY <1>2, <1>3, <1>4

LEMMA StageIs ==
  ASSUME NEW age \in Int, age > 0
  PROVE  LET m == Max({s \in Stages : s < age}) IN m \in Nat /\ m < age
<1> DEFINE S == {s \in Stages : s < age}
           A == {age - s : s \in S}
<1>1. S \in SUBSET Nat /\ 0 \in S /\ \A s \in S : s < age
  BY ObjectsAssumption
<1>2. A \in SUBSET Nat /\ A # {}
  BY <1>1
<1>3. PICK n \in A : \A m \in A : n <= m
  BY <1>2, NatMin
<1>4. PICK x \in S : n = age - x
  BY <1>3
<1>5. \A y \in S : x >= y
  BY <1>1, <1>3, <1>4
<1> HIDE DEF S
<1>6. Max(S) \in S
  BY <1>5 DEF Max
<1> QED
  BY <1>1, <1>6 DEF S

-----------------------------------------------------------------------------
\* One light

SetLight(L, l, o, n) == [L EXCEPT ![l] = [L[l] EXCEPT ![o] = n]]

\* D is L with n lights of o on level l.
OneSet(L, D, l, o, n) ==
  /\ D \in LightType /\ D[l][o] = n
  /\ \A k \in Levels, p \in Objs : k # l \/ p # o => D[k][p] = L[k][p]

LEMMA SetLightIs ==
  ASSUME NEW L \in LightType, NEW l \in Levels, NEW o \in Objs, NEW n \in Nat
  PROVE  OneSet(L, SetLight(L, l, o, n), l, o, n)
<1>1. L[l] \in [Objs -> Nat]
  BY DEF LightType
<1> DEFINE F == [L[l] EXCEPT ![o] = n]
<1>2. F \in [Objs -> Nat] /\ F[o] = n /\ \A p \in Objs : p # o => F[p] = L[l][p]
  BY <1>1
<1>3. SetLight(L, l, o, n) = [L EXCEPT ![l] = F]
  BY DEF SetLight
<1> HIDE DEF F
<1>4. /\ [L EXCEPT ![l] = F] \in LightType /\ [L EXCEPT ![l] = F][l] = F
      /\ \A k \in Levels : k # l => [L EXCEPT ![l] = F][k] = L[k]
  BY <1>2 DEF LightType
<1> DEFINE D == [L EXCEPT ![l] = F]
<1> HIDE DEF D
<1>5. OneSet(L, D, l, o, n)
  BY <1>2, <1>4 DEF OneSet, D
<1> QED
  BY <1>3, <1>5, Zenon DEF D

\* del_light_source, on a level
Darker(v, l, o) == IF v.lights[l][o] > 0 THEN SetLight(v.lights, l, o, v.lights[l][o] - 1)
                   ELSE v.lights

LEMMA DarkerIs ==
  ASSUME NEW v \in World, NEW l \in Levels, NEW o \in Objs
  PROVE  /\ Darker(v, l, o) \in LightType
         /\ v.lights[l][o] = 1 => Darker(v, l, o)[l][o] = 0
         /\ \A k \in Levels, p \in Objs : k # l \/ p # o => Darker(v, l, o)[k][p] = v.lights[k][p]
<1>1. v.lights \in LightType /\ v.lights[l][o] \in Nat
  BY WorldIs DEF LightType
<1>2. CASE v.lights[l][o] > 0
  <2> DEFINE n == v.lights[l][o] - 1
             L == v.lights
             D == SetLight(L, l, o, n)
  <2>1. Darker(v, l, o) = D
    BY <1>2 DEF Darker
  <2>2. n \in Nat /\ (v.lights[l][o] = 1 => n = 0)
    BY <1>1, <1>2
  <2>3. L \in LightType
    BY <1>1
  <2> HIDE DEF n, L
  <2>4. OneSet(L, D, l, o, n)
    BY <2>2, <2>3, SetLightIs, Zenon
  <2> HIDE DEF D
  <2> QED
    BY <2>1, <2>2, <2>4 DEF OneSet, L
<1>3. CASE ~(v.lights[l][o] > 0)
  BY <1>1, <1>3 DEF Darker
<1> QED
  BY <1>2, <1>3

LEMMA DelLightIs ==
  ASSUME NEW v \in World, NEW o \in Objs, v.obj[o].lev \in Levels
  PROVE  DelLight(v, o) = Set(v, o, v.obj[o], v.timers, Darker(v, v.obj[o].lev, o))
<1> DEFINE l == v.obj[o].lev
           n == v.lights[l][o]
           O == [v.obj EXCEPT ![o] = v.obj[o]]
           D == Darker(v, l, o)
<1>1. O = v.obj
  BY WorldIs
<1>2. DelLight(v, o) = IF n > 0 THEN [v EXCEPT !.lights = SetLight(v.lights, l, o, n - 1)] ELSE v
  BY Zenon DEF DelLight, SetLight
<1>3. DelLight(v, o) = [v EXCEPT !.lights = D]
  BY <1>2 DEF Darker, World
<1>4. Set(v, o, v.obj[o], v.timers, D) = [v EXCEPT !.obj = O, !.timers = v.timers, !.lights = D]
  BY Zenon DEF Set, Build
<1> HIDE DEF O, D, n
<1>5. [v EXCEPT !.obj = O, !.timers = v.timers, !.lights = D] = [v EXCEPT !.lights = D]
  BY <1>1 DEF World
<1> QED
  BY <1>3, <1>4, <1>5, Zenon DEF D

-----------------------------------------------------------------------------
\* A timer goes.

Lessened(x, n) == [x EXCEPT !.timed = n]
Unlit(x, age) == [x EXCEPT !.age = age, !.lit = FALSE]

LEMMA LessenedIs ==
  ASSUME NEW x \in ObjType, NEW n \in Nat
  PROVE  LET y == Lessened(x, n)
         IN /\ y \in ObjType /\ y.kind = x.kind /\ y.where = x.where /\ y.lev = x.lev
            /\ y.quan = x.quan /\ y.age = x.age /\ y.timed = n /\ y.lit = x.lit
            /\ y.strayed = x.strayed
BY DEF Lessened, ObjType

LEMMA UnlitIs ==
  ASSUME NEW x \in ObjType, NEW n \in Int
  PROVE  LET y == Unlit(x, n)
         IN /\ y \in ObjType /\ y.kind = x.kind /\ y.where = x.where /\ y.lev = x.lev
            /\ y.quan = x.quan /\ y.timed = x.timed /\ y.lit = FALSE
            /\ y.strayed = x.strayed
BY DEF Unlit, ObjType

Untimed(v, o, t) == [v EXCEPT !.timers = v.timers \ {t},
                              !.obj = [v.obj EXCEPT ![o] = Lessened(v.obj[o], v.obj[o].timed - 1)]]

LEMMA UntimedSet ==
  ASSUME NEW v \in World, NEW o, NEW t
  PROVE  Untimed(v, o, t) = Set(v, o, Lessened(v.obj[o], v.obj[o].timed - 1), v.timers \ {t}, v.lights)
<1> DEFINE O == [v.obj EXCEPT ![o] = Lessened(v.obj[o], v.obj[o].timed - 1)]
           T == v.timers \ {t}
<1>1. Untimed(v, o, t) = [v EXCEPT !.timers = T, !.obj = O]
  BY Zenon DEF Untimed
<1>2. Set(v, o, Lessened(v.obj[o], v.obj[o].timed - 1), T, v.lights) = Build(v, O, T, v.lights)
  BY Zenon DEF Set
<1> HIDE DEF O, T
<1>3. [v EXCEPT !.timers = T, !.obj = O] = Build(v, O, T, v.lights)
  BY DEF World, Build
<1> QED
  BY <1>1, <1>2, <1>3, Zenon DEF T

\* y is x with one timer less.
Less(x, y) == /\ y.lev = x.lev /\ y.lit = x.lit /\ y.strayed = x.strayed /\ y.kind = x.kind
              /\ y.where = x.where /\ y.quan = x.quan /\ y.age = x.age /\ y.timed = x.timed - 1

\* After an object's timer t has gone
LEMMA UntimedIs ==
  ASSUME NEW v \in World, NEW o \in Objs, v.obj[o].timed > 0, NEW t, t.o = o
  PROVE  LET x == Untimed(v, o, t)
         IN /\ Only(v, x, {o}) /\ x.lights = v.lights
            /\ TimersIn(x, o) = TimersIn(v, o) \ {t} /\ Less(v.obj[o], x.obj[o])
<1> DEFINE y == v.obj[o]
           n == y.timed - 1
           z == Lessened(y, n)
           T == v.timers \ {t}
           x == Untimed(v, o, t)
<1>1. y \in ObjType /\ v.timers \in SUBSET TimerType /\ v.lights \in LightType
  BY WorldIs
<1>2. n \in Nat
  BY <1>1, ObjIs
<1>3. Aside(v, o, T, v.lights)
  BY <1>1 DEF Aside
<1>4. x = Set(v, o, z, T, v.lights)
  BY UntimedSet
<1>5. TimersIn(v, o) \ {t} = Of(T, o)
  BY DEF TimersIn, Of
<1> HIDE DEF y, n, T
<1>6. /\ z \in ObjType /\ z.kind = y.kind /\ z.where = y.where /\ z.lev = y.lev
      /\ z.quan = y.quan /\ z.age = y.age /\ z.timed = n /\ z.lit = y.lit
      /\ z.strayed = y.strayed
  BY <1>1, <1>2, LessenedIs
<1> HIDE DEF x, z
<1>7. Less(y, z)
  BY <1>6 DEF Less, n
<1>8. /\ Only(v, x, {o}) /\ x.obj[o] = z /\ x.timers = T /\ x.lights = v.lights
      /\ TimersIn(x, o) = Of(T, o)
  BY <1>3, <1>4, <1>6, SetIs
<1> QED
  BY <1>5, <1>7, <1>8, Zenon DEF x, y, T

\* The light of an object goes.
Snuff(v, o, age) == [DelLight(v, o) EXCEPT
                       !.obj = [DelLight(v, o).obj EXCEPT ![o] = Unlit(DelLight(v, o).obj[o], age)]]

\* In x the light of o is out; y is what o was.
Snuffed(v, x, o, y) ==
  /\ Only(v, x, {o}) /\ x.timers = v.timers /\ x.lights = Darker(v, y.lev, o)
  /\ TimersIn(x, o) = TimersIn(v, o)
  /\ x.obj[o].kind = y.kind /\ x.obj[o].where = y.where /\ x.obj[o].lev = y.lev
  /\ x.obj[o].quan = y.quan /\ x.obj[o].lit = FALSE
  /\ x.obj[o].timed = y.timed /\ x.obj[o].strayed = y.strayed

LEMMA SnuffIs ==
  ASSUME NEW v \in World, NEW o \in Objs, v.obj[o].lev \in Levels, NEW age \in Int
  PROVE  Snuffed(v, Snuff(v, o, age), o, v.obj[o])
<1> DEFINE y == v.obj[o]
           L == Darker(v, y.lev, o)
           d == DelLight(v, o)
           z == Unlit(y, age)
           x == Snuff(v, o, age)
<1>1. y \in ObjType /\ v.timers \in SUBSET TimerType /\ v.lights \in LightType
  BY WorldIs
<1>2. L \in LightType /\ \A k \in Levels, p \in Objs : p # o => L[k][p] = v.lights[k][p]
  BY DarkerIs
<1>3. Aside(v, o, v.timers, L)
  BY <1>1, <1>2 DEF Aside
<1>4. d = Set(v, o, y, v.timers, L)
  BY DelLightIs
<1>5. x = Change(d, o, Unlit(d.obj[o], age))
  BY <1>4 DEF Snuff, Change, Set, Build
<1> HIDE DEF y, L, d
<1>6. Only(v, d, {o}) /\ d.obj[o] = y /\ d.timers = v.timers /\ d.lights = L
      /\ TimersIn(d, o) = Of(v.timers, o)
  BY <1>1, <1>3, <1>4, SetIs
<1>7. /\ z \in ObjType /\ z.kind = y.kind /\ z.where = y.where /\ z.lev = y.lev
      /\ z.quan = y.quan /\ z.timed = y.timed /\ z.lit = FALSE /\ z.strayed = y.strayed
  BY <1>1, UnlitIs
<1>8. d \in World /\ x = Change(d, o, z)
  BY <1>5, <1>6, Zenon DEF Only
<1> HIDE DEF z, x
<1>9. Only(d, x, {o}) /\ x.obj[o] = z /\ x.timers = d.timers /\ x.lights = d.lights
      /\ TimersIn(x, o) = TimersIn(d, o)
  BY <1>7, <1>8, ChangeIs
<1>10. Only(v, x, {o})
  BY <1>6, <1>9, SameTwice DEF Only
<1> QED
  BY <1>6, <1>7, <1>9, <1>10, Zenon DEF Snuffed, x, y, L, TimersIn, Of

-----------------------------------------------------------------------------
\* An object whose timer to burn has gone and whose light may still be there

Loose(x, T, R) ==
  /\ IsFiniteSet(T) /\ x.where \in Places /\ x.lev \in Levels /\ x.quan >= 1
  /\ Cardinality(T) <= x.timed
  /\ ~x.strayed =>
       /\ Cardinality(T) = x.timed
       /\ \A t \in T : t.lev = x.lev
       /\ \A t, u \in T : t.func = u.func /\ t.func # "rot" => t = u
       /\ \A t \in T : t.func # "burn"
       /\ \A l \in Levels : /\ x.lit /\ l = x.lev => R[l] = 1
                            /\ ~(x.lit /\ l = x.lev) => R[l] = 0
LooseAt(v, o) == Loose(v.obj[o], TimersIn(v, o), Rays(v, o))

LEMMA OneLess ==
  ASSUME NEW T, IsFiniteSet(T), NEW t \in T, NEW n \in Nat, Cardinality(T) <= n
  PROVE  /\ IsFiniteSet(T \ {t}) /\ n > 0 /\ Cardinality(T \ {t}) <= n - 1
         /\ Cardinality(T) = n => Cardinality(T \ {t}) = n - 1
<1>1. Cardinality(T) \in Nat /\ IsFiniteSet(T \ {t}) /\ Cardinality(T \ {t}) = Cardinality(T) - 1
  BY FS_CardinalityType, FS_RemoveElement
<1>2. Cardinality(T) # 0
  BY FS_EmptySet
<1> QED
  BY <1>1, <1>2

LEMMA FineLess ==
  ASSUME NEW x \in ObjType, NEW T, NEW R, Fine(x, T, R), x.where \in Places,
         NEW t \in T, NEW y, Less(x, y)
  PROVE  /\ x.timed > 0
         /\ t.func # "burn" => Fine(y, T \ {t}, R)
         /\ t.func = "burn" => Loose(y, T \ {t}, R) /\ (~y.strayed => y.lit)
<1> DEFINE U == T \ {t}
           n == x.timed
<1>1. n \in Nat /\ x.lit \in BOOLEAN
  BY ObjIs
<1>2. IsFiniteSet(T) /\ Cardinality(T) <= n /\ x.lev \in Levels /\ x.quan >= 1
  BY DEF Fine
<1> HIDE DEF n
<1>3. /\ IsFiniteSet(U) /\ n > 0 /\ Cardinality(U) <= n - 1
      /\ Cardinality(T) = n => Cardinality(U) = n - 1
  BY <1>1, <1>2, OneLess
<1>4. \A u \in U : u \in T /\ u # t
  OBVIOUS
<1>5. \A u \in T : u # t => u \in U
  OBVIOUS
<1> HIDE DEF U
<1>6. ASSUME t.func # "burn"
      PROVE  Fine(y, U, R)
  <2>1. ASSUME ~y.strayed
        PROVE  Tracked(y, U, R)
    <3>1. Tracked(x, T, R)
      BY <2>1 DEF Fine, Less
    <3>2. Cardinality(U) = y.timed
      BY <1>3, <3>1 DEF Tracked, Less, n
    <3> QED
      BY <1>4, <1>5, <1>6, <3>1, <3>2 DEF Tracked, Less
  <2> QED
    BY <1>2, <1>3, <2>1 DEF Fine, Less, n
<1>7. ASSUME t.func = "burn"
      PROVE  Loose(y, U, R) /\ (~y.strayed => y.lit)
  <2>1. ASSUME ~y.strayed
        PROVE  /\ Cardinality(U) = y.timed /\ y.lit
               /\ \A u \in U : u.lev = y.lev
               /\ \A a, b \in U : a.func = b.func /\ a.func # "rot" => a = b
               /\ \A u \in U : u.func # "burn"
               /\ \A l \in Levels : /\ y.lit /\ l = y.lev => R[l] = 1
                                    /\ ~(y.lit /\ l = y.lev) => R[l] = 0
    <3>1. Tracked(x, T, R)
      BY <2>1 DEF Fine, Less
    <3>2. Cardinality(U) = y.timed
      BY <1>3, <3>1 DEF Tracked, Less, n
    <3>3. y.lit
      BY <1>1, <1>7, <3>1 DEF Tracked, Less
    <3>4. \A u \in U : u.func # "burn"
      BY <1>4, <1>7, <3>1 DEF Tracked
    <3> QED
      BY <1>4, <3>1, <3>2, <3>3, <3>4 DEF Tracked, Less
  <2> QED
    BY <1>2, <1>3, <2>1 DEF Loose, Less, n
<1> QED
  BY <1>3, <1>6, <1>7 DEF U, n

LEMMA LooseUnlit ==
  ASSUME NEW x \in ObjType, NEW T, NEW R, x.where \in Places, ~x.lit
  PROVE  Loose(x, T, R) <=> Fine(x, T, R)
BY DEF Loose, Fine, Tracked

\* y is x with the light out; the rays Q are R without it.
LEMMA LooseOut ==
  ASSUME NEW x \in ObjType, NEW T, NEW R, Loose(x, T, R), x.lit, NEW y \in ObjType, ~y.lit,
         y.kind = x.kind, y.where = x.where, y.lev = x.lev, y.quan = x.quan, y.timed = x.timed,
         y.strayed = x.strayed, NEW Q, \A k \in Levels : k # x.lev => Q[k] = R[k],
         R[x.lev] = 1 => Q[x.lev] = 0
  PROVE  Fine(y, T, Q)
<1>1. Loose(y, T, Q)
  BY DEF Loose
<1>2. y.where \in Places
  BY DEF Loose
<1> QED
  BY <1>1, <1>2, LooseUnlit

LEMMA SnuffFine ==
  ASSUME NEW v \in World, NEW o \in Objs, LooseAt(v, o), v.obj[o].lit, NEW age \in Int
  PROVE  FineAt(Snuff(v, o, age), o)
<1> DEFINE a == v.obj[o]
           x == Snuff(v, o, age)
           b == x.obj[o]
           L == Darker(v, a.lev, o)
           T == TimersIn(v, o)
           R == Rays(v, o)
           Q == Rays(x, o)
<1>1. a \in ObjType
  BY WorldIs
<1>2. Loose(a, T, R) /\ a.lit /\ a.lev \in Levels
  BY DEF LooseAt, Loose
<1>3. /\ v.lights[a.lev][o] = 1 => L[a.lev][o] = 0
      /\ \A k \in Levels : k # a.lev => L[k][o] = v.lights[k][o]
  BY <1>2, DarkerIs
<1>4. /\ Only(v, x, {o}) /\ x.lights = L /\ TimersIn(x, o) = T
      /\ b.kind = a.kind /\ b.where = a.where /\ b.lev = a.lev
      /\ b.quan = a.quan /\ b.lit = FALSE
      /\ b.timed = a.timed /\ b.strayed = a.strayed
  <2>1. Snuffed(v, x, o, a)
    BY <1>2, SnuffIs, Zenon
  <2> HIDE DEF x, a
  <2> QED
    BY <2>1, Zenon DEF Snuffed
<1> HIDE DEF x, L
<1>5. b \in ObjType
  BY <1>4, WorldIs DEF Only
<1>6. (\A k \in Levels : k # a.lev => Q[k] = R[k]) /\ (R[a.lev] = 1 => Q[a.lev] = 0)
  BY <1>2, <1>3, <1>4 DEF Rays
<1> HIDE DEF a, b, T, R, Q
<1>7. Fine(b, T, Q)
  BY <1>1, <1>2, <1>4, <1>5, <1>6, LooseOut
<1> QED
  BY <1>4, <1>7, Zenon DEF FineAt, x, b, T, Q

\* What an object is, where and how many
Keeps(v, x, o) == /\ x.obj[o].kind = v.obj[o].kind /\ x.obj[o].where = v.obj[o].where
                  /\ x.obj[o].lev = v.obj[o].lev /\ x.obj[o].quan = v.obj[o].quan
                  /\ x.obj[o].strayed = v.obj[o].strayed

\* x is v but for what o says of its timers and its light, and fewer of these.
Calmer(v, x, o) == /\ Whole(x) /\ Only(v, x, {o}) /\ Keeps(v, x, o)
                   /\ TimersIn(x, o) \subseteq TimersIn(v, o)

\* After a timer t is gone, with Untimed
LEMMA FineUntimed ==
  ASSUME NEW v, Whole(v), NEW o \in Objs, v.obj[o].where \in Places, NEW t \in TimersIn(v, o)
  PROVE  LET x == Untimed(v, o, t)
         IN /\ Only(v, x, {o}) /\ Keeps(v, x, o) /\ x.obj[o].lit = v.obj[o].lit
            /\ x.obj[o].age = v.obj[o].age
            /\ TimersIn(x, o) = TimersIn(v, o) \ {t}
            /\ t.func # "burn" => FineAt(x, o)
            /\ t.func = "burn" => LooseAt(x, o) /\ (~v.obj[o].strayed => v.obj[o].lit)
<1> DEFINE a == v.obj[o]
           x == Untimed(v, o, t)
           b == x.obj[o]
           T == TimersIn(v, o)
           R == Rays(v, o)
<1>1. v \in World /\ a \in ObjType /\ Fine(a, T, R)
  BY WorldIs DEF Whole, FineAt
<1>2. t \in T /\ t.o = o
  BY DEF TimersIn, Of
<1>3. a.timed > 0
  <2>1. Less(a, Lessened(a, a.timed - 1))
    BY <1>1 DEF Less, Lessened, ObjType
  <2> QED
    BY <1>1, <1>2, <2>1, FineLess
<1>4. /\ Only(v, x, {o}) /\ x.lights = v.lights
      /\ TimersIn(x, o) = T \ {t} /\ Less(a, b)
  BY <1>1, <1>2, <1>3, UntimedIs, SMTT(30)
<1>5. /\ t.func # "burn" => Fine(b, T \ {t}, R)
      /\ t.func = "burn" => Loose(b, T \ {t}, R) /\ (~b.strayed => b.lit)
  <2> HIDE DEF a, b, x, T, R
  <2> QED
    BY <1>1, <1>2, <1>4, FineLess DEF a
<1>6. Rays(x, o) = R
  BY <1>4 DEF Rays
<1> HIDE DEF x
<1>7. /\ t.func # "burn" => FineAt(x, o)
      /\ t.func = "burn" => LooseAt(x, o)
  BY <1>4, <1>5, <1>6, Zenon DEF FineAt, LooseAt
<1>8. Keeps(v, x, o) /\ b.lit = a.lit /\ b.strayed = a.strayed /\ b.age = a.age
  BY <1>4 DEF Keeps, Less
<1> QED
  BY <1>4, <1>5, <1>7, <1>8, Zenon DEF x

LEMMA StopTimerIs ==
  ASSUME NEW v, Whole(v), NEW o \in Objs, v.obj[o].where \in Places,
         NEW func \in {"burn", "organic"}, now \in Nat
  PROVE  LET x == StopTimer(v, o, func)
         IN /\ Calmer(v, x, o)
            /\ func = "organic" /\ ~v.obj[o].strayed =>
                 \A t \in TimersIn(x, o) : t.func # "organic"
<1> DEFINE T == {t \in Mine(v, o) : t.func = func}
           t == CHOOSE t \in T : \A u \in T : t.at <= u.at
           u == Untimed(v, o, t)
           x == StopTimer(v, o, func)
<1> SUFFICES Calmer(v, x, o) /\ (func = "organic" /\ ~v.obj[o].strayed =>
                                   \A t2 \in TimersIn(x, o) : t2.func # "organic")
  BY Zenon
<1>1. v \in World /\ v.timers \in SUBSET TimerType /\ Fine(v.obj[o], TimersIn(v, o), Rays(v, o))
  BY WorldIs DEF Whole, FineAt
<1>2. T = {t2 \in TimersIn(v, o) : t2.func = func /\ t2.lev = v.obj[o].lev} /\ T \in SUBSET TimerType
  BY <1>1 DEF Mine, TimersIn, Of
<1>3. ~v.obj[o].strayed => Tracked(v.obj[o], TimersIn(v, o), Rays(v, o))
  BY <1>1 DEF Fine
<1>4. CASE T = {}
  <2>1. x = v
    BY <1>4, Zenon DEF StopTimer
  <2>2. ~v.obj[o].strayed => \A t2 \in TimersIn(v, o) : t2.func # func
    BY <1>2, <1>3, <1>4 DEF Tracked
  <2>3. Calmer(v, v, o)
    BY <1>1, SameSelf DEF Calmer, Only, Keeps
  <2> QED
    BY <2>1, <2>2, <2>3
<1>5. CASE T # {}
  <2>1. x = Cleanup(u, o, t)
    BY <1>5, Zenon DEF StopTimer, Untimed, Lessened
  <2>2. t \in T
    <3>1. \E t2 \in T : \A u2 \in T : t2.at <= u2.at
      BY <1>2, <1>5, FirstTimer
    <3> QED
      BY <3>1
  <2>3. t \in TimersIn(v, o) /\ t.func = func /\ t \in TimerType
    BY <1>2, <2>2
  <2> HIDE DEF t, T, x
  <2>4. /\ Only(v, u, {o}) /\ Keeps(v, u, o) /\ u.obj[o].lit = v.obj[o].lit
        /\ TimersIn(u, o) = TimersIn(v, o) \ {t}
        /\ t.func # "burn" => FineAt(u, o)
        /\ t.func = "burn" => LooseAt(u, o) /\ (~v.obj[o].strayed => v.obj[o].lit)
    BY <2>3, FineUntimed
  <2> HIDE DEF u
  <2>5. u \in World /\ u.obj[o] \in ObjType /\ u.obj[o].where \in Places
    BY <2>4, WorldIs DEF Only, Keeps
  <2>6. CASE func = "organic"
    <3>1. x = u
      BY <2>1, <2>3, <2>6 DEF Cleanup
    <3>2. \A p \in Objs : Same(v, u, p) \/ FineAt(u, p)
      BY <2>3, <2>4, <2>6 DEF Only
    <3>3. Whole(u)
      BY <2>5, <3>2, WholeStep
    <3>4. ~v.obj[o].strayed => \A t2 \in TimersIn(u, o) : t2.func # "organic"
      BY <1>3, <2>3, <2>4, <2>6 DEF Tracked
    <3> QED
      BY <2>4, <3>1, <3>3, <3>4 DEF Calmer
  <2>7. CASE func = "burn"
    <3>1. x = CleanupBurn(u, o, t.at)
      BY <2>1, <2>3, <2>7 DEF Cleanup
    <3>2. FineAt(x, o) /\ Only(u, x, {o}) /\ Keeps(u, x, o) /\ TimersIn(x, o) = TimersIn(u, o)
      <4>1. CASE u.obj[o].lit
        <5> DEFINE age == DelLight(u, o).obj[o].age + t.at - now
        <5>1. x = Snuff(u, o, age)
          BY <3>1, <4>1, Zenon DEF CleanupBurn, Snuff, Unlit
        <5>2. u.obj[o].lev \in Levels
          BY <2>3, <2>4, <2>7 DEF LooseAt, Loose
        <5>3. age \in Int
          <6>1. DelLight(u, o).obj[o].age = u.obj[o].age
            BY DEF DelLight
          <6>2. u.obj[o].age \in Int /\ t.at \in Nat
            BY <2>3, <2>5, ObjIs, TimerIs
          <6> QED
            BY <6>1, <6>2
        <5> HIDE DEF age
        <5>4. FineAt(x, o)
          BY <2>3, <2>4, <2>5, <2>7, <4>1, <5>1, <5>3, SnuffFine
        <5> QED
          BY <2>5, <5>1, <5>2, <5>3, <5>4, SnuffIs, Zenon DEF Snuffed, Keeps
      <4>2. CASE ~u.obj[o].lit
        <5>1. x = u
          BY <3>1, <4>2 DEF CleanupBurn
        <5>2. FineAt(u, o)
          BY <2>3, <2>4, <2>5, <2>7, <4>2, LooseUnlit DEF LooseAt, FineAt
        <5> QED
          BY <2>5, <5>1, <5>2, SameSelf DEF Only, Keeps
      <4> QED
        BY <4>1, <4>2
    <3>3. Only(v, x, {o}) /\ Keeps(v, x, o)
      BY <2>4, <3>2, SameTwice DEF Only, Keeps
    <3>4. Whole(x)
      BY <3>2, <3>3, WholeStep DEF Only
    <3> QED
      BY <2>4, <2>7, <3>2, <3>3, <3>4 DEF Calmer
  <2> QED
    BY <2>6, <2>7
<1> QED
  BY <1>4, <1>5

LEMMA EndBurnIs ==
  ASSUME NEW v, Whole(v), NEW o \in Objs, v.obj[o].where \in Places, now \in Nat
  PROVE  Calmer(v, EndBurn(v, o, TRUE), o)
<1> DEFINE x == EndBurn(v, o, TRUE)
<1>1. CASE v.obj[o].lit
  <2>1. x = StopTimer(v, o, "burn")
    BY <1>1 DEF EndBurn
  <2> QED
    BY <2>1, StopTimerIs
<1>2. CASE ~v.obj[o].lit
  <2>1. x = v
    BY <1>2 DEF EndBurn
  <2>2. Calmer(v, v, o)
    BY SameSelf DEF Calmer, Only, Keeps, Whole
  <2> QED
    BY <2>1, <2>2
<1> QED
  BY <1>1, <1>2

\* end_burn without a timer, for an object that has lost it
LEMMA PutOutIs ==
  ASSUME NEW v \in World, NEW o \in Objs, LooseAt(v, o)
  PROVE  LET x == EndBurn(v, o, FALSE)
         IN /\ Only(v, x, {o}) /\ Keeps(v, x, o) /\ FineAt(x, o)
            /\ TimersIn(x, o) = TimersIn(v, o)
<1> DEFINE x == EndBurn(v, o, FALSE)
           age == v.obj[o].age
<1> SUFFICES /\ Only(v, x, {o}) /\ Keeps(v, x, o) /\ FineAt(x, o)
             /\ TimersIn(x, o) = TimersIn(v, o)
  BY Zenon
<1>1. v.obj[o] \in ObjType /\ age \in Int /\ v.obj[o].where \in Places /\ v.obj[o].lev \in Levels
  BY WorldIs, ObjIs DEF LooseAt, Loose
<1>2. CASE v.obj[o].lit
  <2>1. x = Snuff(v, o, age)
    <3> DEFINE d == DelLight(v, o)
    <3>1. d.obj[o] = v.obj[o]
      BY DEF DelLight
    <3>2. x = [d EXCEPT !.obj = [d.obj EXCEPT ![o] = [d.obj[o] EXCEPT !.lit = FALSE]]]
      BY <1>2, Zenon DEF EndBurn
    <3>3. Snuff(v, o, age) = [d EXCEPT !.obj = [d.obj EXCEPT ![o] = Unlit(d.obj[o], age)]]
      BY Zenon DEF Snuff
    <3>4. Unlit(v.obj[o], age) = [v.obj[o] EXCEPT !.lit = FALSE]
      BY <1>1 DEF Unlit, ObjType
    <3> HIDE DEF d
    <3> QED
      BY <3>1, <3>2, <3>3, <3>4, Zenon
  <2>2. FineAt(x, o)
    BY <1>1, <1>2, <2>1, SnuffFine
  <2>3. LET y == Snuff(v, o, age)
        IN Only(v, y, {o}) /\ Keeps(v, y, o) /\ TimersIn(y, o) = TimersIn(v, o)
    BY <1>1, SnuffIs DEF Snuffed, Keeps
  <2> QED
    BY <2>1, <2>2, <2>3, Zenon
<1>3. CASE ~v.obj[o].lit
  <2>1. x = v
    BY <1>3 DEF EndBurn
  <2>2. FineAt(v, o)
    BY <1>1, <1>3, LooseUnlit DEF LooseAt, FineAt
  <2> QED
    BY <2>1, <2>2, SameSelf DEF Only, Keeps
<1> QED
  BY <1>2, <1>3

-----------------------------------------------------------------------------
\* A timer comes.

NewTimer(v, o, at, func) == [lev |-> v.obj[o].lev, at |-> at, func |-> func, o |-> o]
Ticking(x, age, lit) == [x EXCEPT !.timed = x.timed + 1, !.age = age, !.lit = lit]

LEMMA TickingIs ==
  ASSUME NEW x \in ObjType, NEW age \in Int, NEW lit \in BOOLEAN
  PROVE  LET y == Ticking(x, age, lit)
         IN /\ y \in ObjType /\ y.kind = x.kind /\ y.where = x.where /\ y.lev = x.lev
            /\ y.quan = x.quan /\ y.timed = x.timed + 1 /\ y.lit = lit
            /\ y.strayed = x.strayed
<1>1. x.timed + 1 \in Nat
  BY ObjIs
<1>2. Ticking(x, age, lit) \in ObjType
  BY <1>1 DEF Ticking, ObjType
<1> QED
  BY <1>2 DEF Ticking, ObjType

\* Q are the rays once the light is on.
LEMMA FineLit ==
  ASSUME NEW x \in ObjType, NEW T, NEW R, Loose(x, T, R), NEW y,
         y.kind = x.kind, y.where = x.where, y.lev = x.lev, y.quan = x.quan,
         y.timed = x.timed + 1, y.lit, y.strayed = x.strayed,
         NEW t, t.func = "burn", t.lev = x.lev, NEW Q,
         ~x.strayed => \A l \in Levels : Q[l] = IF l = x.lev THEN 1 ELSE 0
  PROVE  Fine(y, T \cup {t}, Q)
<1> DEFINE U == T \cup {t}
           n == x.timed
<1>1. IsFiniteSet(T) /\ Cardinality(T) \in Nat /\ n \in Nat /\ Cardinality(T) <= n
  BY ObjIs, FS_CardinalityType DEF Loose
<1>2. /\ IsFiniteSet(U)
      /\ t \notin T => Cardinality(U) = Cardinality(T) + 1
      /\ t \in T => Cardinality(U) = Cardinality(T)
  BY <1>1, FS_AddElement
<1>3. Cardinality(U) <= n + 1
  BY <1>1, <1>2
<1>4. \A u : u \in U <=> u \in T \/ u = t
  OBVIOUS
<1> HIDE DEF U, n
<1>5. ASSUME ~x.strayed
      PROVE  Tracked(y, U, Q)
  <2>1. /\ Cardinality(T) = n
        /\ \A u \in T : u.lev = x.lev
        /\ \A a, b \in T : a.func = b.func /\ a.func # "rot" => a = b
        /\ \A u \in T : u.func # "burn"
    BY <1>5 DEF Loose, n
  <2>2. Cardinality(U) = y.timed
    BY <1>1, <1>2, <2>1 DEF n
  <2>3. \A l \in Levels : /\ y.lit /\ l = y.lev => Q[l] = 1
                          /\ ~(y.lit /\ l = y.lev) => Q[l] = 0
    BY <1>5
  <2> QED
    BY <1>4, <2>1, <2>2, <2>3 DEF Tracked
<1> QED
  BY <1>2, <1>3, <1>5 DEF Fine, Loose, U, n

\* StartTimer, and what begin_burn changes of the object besides
More(x) == [x EXCEPT !.timed = x.timed + 1]
Timed(v, o, t, y) == [v EXCEPT !.timers = v.timers \cup {t}, !.obj = [v.obj EXCEPT ![o] = y]]
Bright(v, o, already) ==
  IF already THEN v.lights ELSE SetLight(v.lights, hero, o, v.lights[hero][o] + 1)

LEMMA StartTimerSet ==
  ASSUME NEW v \in World, NEW o \in Objs, NEW after, NEW func
  PROVE  StartTimer(v, o, after, func) =
           Timed(v, o, NewTimer(v, o, now + after, func),
                 More(v.obj[o]))
BY Zenon DEF StartTimer, Timed, NewTimer, More

LEMMA BrightIs ==
  ASSUME NEW v \in World, NEW o \in Objs, hero \in Levels, NEW already
  PROVE  /\ Bright(v, o, already) \in LightType
         /\ \A k \in Levels, p \in Objs :
              k # hero \/ p # o => Bright(v, o, already)[k][p] = v.lights[k][p]
         /\ already => Bright(v, o, already)[hero][o] = v.lights[hero][o]
         /\ ~already => Bright(v, o, already)[hero][o] = v.lights[hero][o] + 1
<1> DEFINE L == v.lights
           n == L[hero][o] + 1
           D == SetLight(L, hero, o, n)
<1>1. L \in LightType /\ n \in Nat
  BY WorldIs DEF LightType
<1>2. Bright(v, o, already) = IF already THEN L ELSE D
  BY Zenon DEF Bright
<1>3. n = v.lights[hero][o] + 1 /\ L = v.lights
  OBVIOUS
<1> HIDE DEF n, L
<1>4. OneSet(L, D, hero, o, n)
  BY <1>1, SetLightIs, Zenon
<1> HIDE DEF D
<1> QED
  BY <1>1, <1>2, <1>3, <1>4 DEF OneSet

LEMMA BeginBurnSet ==
  ASSUME NEW v \in World, NEW o \in Objs, v.obj[o].age > 0, hero \in Levels, NEW already
  PROVE  LET a == v.obj[o]
             m == Max({s \in Stages : s < a.age})
         IN BeginBurn(v, o, already) =
              Set(v, o, Ticking(a, a.age - (a.age - m), TRUE),
                  v.timers \cup {NewTimer(v, o, now + (a.age - m), "burn")}, Bright(v, o, already))
<1> DEFINE a == v.obj[o]
           turns == a.age - Max({s \in Stages : s < a.age})
           t == NewTimer(v, o, now + turns, "burn")
           T == v.timers \cup {t}
           y0 == More(a)
           O == [v.obj EXCEPT ![o] = y0]
           s == StartTimer(v, o, turns, "burn")
           z == [s.obj[o] EXCEPT !.lit = TRUE, !.age = a.age - turns]
           y == Ticking(a, a.age - turns, TRUE)
           x == [s EXCEPT !.obj[o] = z]
           N == [v.obj EXCEPT ![o] = y]
           L == Bright(v, o, already)
<1>1. v.obj \in [Objs -> ObjType] /\ a \in ObjType
  BY WorldIs
<1>2. a.age # 0
  BY <1>1, ObjIs
<1>3. BeginBurn(v, o, already) = IF already THEN x ELSE [x EXCEPT !.lights[hero][o] = @ + 1]
  BY <1>2, Zenon DEF BeginBurn
<1>4. s = [v EXCEPT !.timers = T, !.obj = O]
  <2>1. s = Timed(v, o, t, y0)
    <3> HIDE DEF turns
    <3> QED
      BY StartTimerSet
  <2> QED
    BY <2>1, Zenon DEF Timed
<1> HIDE DEF turns, T, O, s
<1>5. s.obj = O /\ s.lights = v.lights
  BY <1>4 DEF World
<1>6. z = y
  <2>1. O[o] = y0
    BY <1>1 DEF O
  <2>2. y = [y0 EXCEPT !.lit = TRUE, !.age = a.age - turns]
    BY <1>1 DEF Ticking, More, ObjType
  <2> QED
    BY <1>5, <2>1, <2>2, Zenon
<1> HIDE DEF z, y
<1>7. [O EXCEPT ![o] = y] = N
  BY <1>1 DEF O
<1>8. x = [s EXCEPT !.obj = N]
  BY <1>5, <1>6, <1>7, Zenon
<1> HIDE DEF x, N
<1>9. x = [v EXCEPT !.timers = T, !.obj = N]
  BY <1>4, <1>8 DEF World
<1>10. BeginBurn(v, o, already) = [x EXCEPT !.lights = L]
  <2>1. x.lights = v.lights
    BY <1>5, <1>8
  <2>2. CASE already
    <3>1. L = v.lights
      BY <2>2 DEF Bright
    <3> QED
      BY <1>3, <1>9, <2>1, <2>2, <3>1 DEF World
  <2>3. CASE ~already
    <3>1. L = SetLight(v.lights, hero, o, v.lights[hero][o] + 1)
      BY <2>3 DEF Bright
    <3> QED
      BY <1>3, <2>1, <2>3, <3>1, Zenon DEF SetLight
  <2> QED
    BY <2>2, <2>3
<1> HIDE DEF L
<1>11. [x EXCEPT !.lights = L] = Build(v, N, T, L)
  BY <1>9 DEF Build, World
<1> QED
  BY <1>10, <1>11, Zenon DEF Set, N, y, T, turns, L

\* One timer more of an object, with lights of its own: the set it is
LightsBut(v, o, L) ==
  L \in LightType /\ \A k \in Levels, p \in Objs : p # o => L[k][p] = v.lights[k][p]
With(T, t) == T \cup {t}
TimerFor(v, o, t) == t \in TimerType /\ t.o = o

LEMMA NewTimerIs ==
  ASSUME NEW v, NEW o \in Objs, v.obj[o].lev \in Levels, NEW at \in Nat, NEW func \in Funcs
  PROVE  LET t == NewTimer(v, o, at, func)
         IN TimerFor(v, o, t) /\ t.lev = v.obj[o].lev /\ t.func = func
BY DEF NewTimer, TimerType, TimerFor

\* x is v, but o is y with the timers T, and the lights are L.
Became(v, x, o, y, T, L) ==
  Only(v, x, {o}) /\ x.obj[o] = y /\ x.lights = L /\ TimersIn(x, o) = T
SetWith(v, o, y, t, L) == Set(v, o, y, With(v.timers, t), L)

LEMMA TickingSet ==
  ASSUME NEW v \in World, NEW o \in Objs, NEW t, TimerFor(v, o, t), NEW y \in ObjType, NEW L,
         LightsBut(v, o, L)
  PROVE  Became(v, SetWith(v, o, y, t, L), o, y, With(TimersIn(v, o), t), L)
<1> DEFINE T == With(v.timers, t)
           x == Set(v, o, y, T, L)
<1>1. v.timers \in SUBSET TimerType
  BY WorldIs
<1>2. Aside(v, o, T, L)
  BY <1>1 DEF Aside, With, LightsBut, TimerFor
<1>3. Of(T, o) = With(TimersIn(v, o), t)
  BY DEF TimersIn, Of, With, TimerFor
<1> HIDE DEF T
<1>4. Only(v, x, {o}) /\ x.obj[o] = y /\ x.lights = L /\ TimersIn(x, o) = Of(T, o)
  BY <1>2, SetIs
<1> QED
  BY <1>3, <1>4, Zenon DEF T, Became, SetWith

LEMMA BeginBurnIs ==
  ASSUME NEW v \in World, NEW o \in Objs, LooseAt(v, o), v.obj[o].age > 0, hero \in Levels,
         now \in Nat, NEW already \in BOOLEAN,
         ~v.obj[o].strayed => v.obj[o].lev = hero /\ v.obj[o].lit = already
  PROVE  LET x == BeginBurn(v, o, already)
         IN /\ Only(v, x, {o}) /\ Keeps(v, x, o) /\ FineAt(x, o)
            /\ \A t \in TimersIn(x, o) : t \in TimersIn(v, o) \/ t.func = "burn"
<1> DEFINE a == v.obj[o]
           m == Max({s \in Stages : s < a.age})
           at == now + (a.age - m)
           age == a.age - (a.age - m)
           y == Ticking(a, age, TRUE)
           L == Bright(v, o, already)
           t == NewTimer(v, o, at, "burn")
           x == BeginBurn(v, o, already)
           R == Rays(v, o)
           Q == Rays(x, o)
           T == TimersIn(v, o)
<1> SUFFICES /\ Only(v, x, {o}) /\ Keeps(v, x, o) /\ FineAt(x, o)
             /\ \A u \in TimersIn(x, o) : u \in TimersIn(v, o) \/ u.func = "burn"
  BY Zenon
<1>1. a \in ObjType /\ a.age \in Int /\ a.lev \in Levels /\ Loose(a, T, R)
  BY WorldIs, ObjIs DEF LooseAt, Loose
<1>2. m \in Nat /\ m < a.age
  BY <1>1, StageIs
<1> HIDE DEF m
<1>3. at \in Nat /\ age \in Int
  BY <1>1, <1>2
<1>4. x = SetWith(v, o, y, t, L)
  BY BeginBurnSet, Zenon DEF m, With, SetWith
<1>5. /\ L \in LightType
      /\ \A k \in Levels, p \in Objs : k # hero \/ p # o => L[k][p] = v.lights[k][p]
      /\ already => L[hero][o] = v.lights[hero][o]
      /\ ~already => L[hero][o] = v.lights[hero][o] + 1
  BY BrightIs
<1> HIDE DEF at, age, L
<1>6. /\ y \in ObjType /\ y.kind = a.kind /\ y.where = a.where /\ y.lev = a.lev
      /\ y.quan = a.quan /\ y.timed = a.timed + 1 /\ y.lit = TRUE
      /\ y.strayed = a.strayed
  BY <1>1, <1>3, TickingIs
<1>7. TimerFor(v, o, t) /\ t.lev = a.lev /\ t.func = "burn"
  BY <1>1, <1>3, NewTimerIs DEF Funcs
<1> HIDE DEF y, x, t
<1>8. /\ Only(v, x, {o}) /\ x.obj[o] = y /\ x.lights = L /\ TimersIn(x, o) = With(T, t)
  <2>1. LightsBut(v, o, L)
    BY <1>5 DEF LightsBut
  <2> QED
    BY <1>1, <1>4, <1>6, <1>7, <2>1, TickingSet DEF Became
<1>9. ASSUME ~a.strayed
      PROVE  \A k \in Levels : Q[k] = IF k = a.lev THEN 1 ELSE 0
  <2>1. /\ a.lev = hero
        /\ a.lit = already
        /\ \A k \in Levels : /\ a.lit /\ k = a.lev => R[k] = 1
                             /\ ~(a.lit /\ k = a.lev) => R[k] = 0
    BY <1>1, <1>9 DEF Loose
  <2>2. \A k \in Levels : Q[k] = L[k][o] /\ R[k] = v.lights[k][o]
    BY <1>8 DEF Rays
  <2> QED
    BY <1>5, <2>1, <2>2
<1> HIDE DEF a, R, Q, T
<1>10. Fine(y, T \cup {t}, Q)
  BY <1>1, <1>6, <1>7, <1>9, FineLit
<1>11. FineAt(x, o)
  BY <1>8, <1>10, Zenon DEF FineAt, Q, With
<1>12. Keeps(v, x, o)
  BY <1>6, <1>8 DEF Keeps, a
<1> QED
  BY <1>7, <1>8, <1>11, <1>12 DEF T, With

LEMMA FineMore ==
  ASSUME NEW x \in ObjType, NEW T, NEW R, Fine(x, T, R), x.where \in Places, NEW y,
         y.kind = x.kind, y.where = x.where, y.lev = x.lev, y.quan = x.quan,
         y.timed = x.timed + 1, y.lit = x.lit, y.strayed = x.strayed,
         NEW t, t.func = "organic", t.lev = x.lev,
         ~x.strayed => \A u \in T : u.func # "organic"
  PROVE  Fine(y, T \cup {t}, R)
<1> DEFINE U == T \cup {t}
           n == x.timed
<1>1. IsFiniteSet(T) /\ Cardinality(T) \in Nat /\ n \in Nat /\ Cardinality(T) <= n
  BY ObjIs, FS_CardinalityType DEF Fine
<1>2. /\ IsFiniteSet(U)
      /\ t \notin T => Cardinality(U) = Cardinality(T) + 1
      /\ t \in T => Cardinality(U) = Cardinality(T)
  BY <1>1, FS_AddElement
<1>3. Cardinality(U) <= n + 1
  BY <1>1, <1>2
<1>4. \A u : u \in U <=> u \in T \/ u = t
  OBVIOUS
<1> HIDE DEF U, n
<1>5. ASSUME ~x.strayed
      PROVE  Tracked(y, U, R)
  <2>1. Tracked(x, T, R) /\ t \notin T
    BY <1>5 DEF Fine
  <2>2. Cardinality(U) = y.timed
    BY <1>1, <1>2, <2>1 DEF n, Tracked
  <2> QED
    BY <1>4, <1>5, <2>1, <2>2 DEF Tracked
<1> QED
  BY <1>2, <1>3, <1>5 DEF Fine, U, n

\* The timer of bury_an_obj
LEMMA StartTimerIs ==
  ASSUME NEW v, Whole(v), NEW o \in Objs, v.obj[o].where \in Places, now \in Nat,
         ~v.obj[o].strayed => \A t \in TimersIn(v, o) : t.func # "organic"
  PROVE  LET x == StartTimer(v, o, RotTime, "organic")
         IN Whole(x) /\ Only(v, x, {o}) /\ Keeps(v, x, o)
<1> DEFINE a == v.obj[o]
           at == now + RotTime
           t == NewTimer(v, o, at, "organic")
           T == With(v.timers, t)
           O == [v.obj EXCEPT ![o] = More(a)]
           y == Ticking(a, a.age, a.lit)
           L == v.lights
           x == StartTimer(v, o, RotTime, "organic")
<1> SUFFICES Whole(x) /\ Only(v, x, {o}) /\ Keeps(v, x, o)
  BY Zenon
<1>1. /\ v \in World /\ a \in ObjType /\ Fine(a, TimersIn(v, o), Rays(v, o)) /\ a.lev \in Levels
      /\ L \in LightType /\ a.age \in Int /\ a.lit \in BOOLEAN
  BY WorldIs, ObjIs DEF Whole, FineAt, Fine
<1>2. at \in Nat
  BY ObjectsAssumption
<1>3. y = More(a)
  BY <1>1 DEF Ticking, More, ObjType
<1>4. x = SetWith(v, o, y, t, L)
  <2>1. x = Timed(v, o, t, More(a))
    BY <1>1, StartTimerSet
  <2>2. x = [v EXCEPT !.timers = T, !.obj = O]
    BY <2>1, Zenon DEF Timed, With
  <2>3. SetWith(v, o, y, t, L) = Build(v, O, T, L)
    BY <1>3, Zenon DEF Set, SetWith
  <2> HIDE DEF T, O, x
  <2> QED
    BY <1>1, <2>2, <2>3 DEF World, Build
<1>5. TimerFor(v, o, t) /\ t.lev = a.lev /\ t.func = "organic"
  BY <1>1, <1>2, NewTimerIs DEF Funcs
<1> HIDE DEF t, x
<1>6. /\ y \in ObjType /\ y.kind = a.kind /\ y.where = a.where /\ y.lev = a.lev
      /\ y.quan = a.quan /\ y.timed = a.timed + 1 /\ y.lit = a.lit
      /\ y.strayed = a.strayed
  BY <1>1, TickingIs
<1> HIDE DEF y
<1>7. Only(v, x, {o}) /\ x.obj[o] = y /\ x.lights = L /\ TimersIn(x, o) = With(TimersIn(v, o), t)
  <2>1. LightsBut(v, o, L)
    BY <1>1 DEF LightsBut
  <2> HIDE DEF L
  <2> QED
    BY <1>1, <1>4, <1>5, <1>6, <2>1, TickingSet DEF Became
<1>8. Rays(x, o) = Rays(v, o)
  BY <1>7 DEF Rays
<1>9. Fine(y, TimersIn(v, o) \cup {t}, Rays(v, o))
  BY <1>1, <1>5, <1>6, FineMore
<1>10. FineAt(x, o)
  BY <1>7, <1>8, <1>9, Zenon DEF FineAt, With
<1>11. Whole(x)
  BY <1>7, <1>10, WholeStep DEF Only
<1>12. Keeps(v, x, o)
  BY <1>6, <1>7 DEF Keeps
<1> QED
  BY <1>7, <1>11, <1>12

-----------------------------------------------------------------------------
\* A stack is split: splitobj

CopiedTimer(t, new) == [t EXCEPT !.o = new]
Copied(T, new) == {CopiedTimer(t, new) : t \in T}
Counted(x, n) == [x EXCEPT !.quan = n]
Part(x, n, timed, lit) == [x EXCEPT !.quan = n, !.timed = timed, !.lit = lit]

LEMMA CopiedTimerIs ==
  ASSUME NEW t \in TimerType, NEW new \in Objs
  PROVE  LET u == CopiedTimer(t, new)
         IN u \in TimerType /\ u.o = new /\ u.lev = t.lev /\ u.func = t.func /\ u.at = t.at
BY DEF CopiedTimer, TimerType

LEMMA CountedIs ==
  ASSUME NEW x \in ObjType, NEW n \in Nat
  PROVE  LET y == Counted(x, n)
         IN y \in ObjType /\ y.where = x.where /\ y.quan = n /\ y.age = x.age /\ Alike(x, y)
BY DEF Counted, ObjType, Alike

IsPart(y, x, n, timed, lit) ==
  /\ y \in ObjType /\ y.kind = x.kind /\ y.where = x.where /\ y.lev = x.lev
  /\ y.quan = n /\ y.timed = timed /\ y.lit = lit /\ y.strayed = x.strayed

LEMMA PartIs ==
  ASSUME NEW x \in ObjType, NEW n \in Nat, NEW timed \in Nat, NEW lit \in BOOLEAN
  PROVE  IsPart(Part(x, n, timed, lit), x, n, timed, lit)
BY DEF IsPart, Part, ObjType

LEMMA CopiedCount ==
  ASSUME NEW T \in SUBSET TimerType, IsFiniteSet(T), NEW o, \A t \in T : t.o = o, NEW new \in Objs
  PROVE  IsFiniteSet(Copied(T, new)) /\ Cardinality(Copied(T, new)) = Cardinality(T)
<1> DEFINE U == Copied(T, new)
           M(t) == CopiedTimer(t, new)
           f == [t \in T |-> M(t)]
<1>1. \A t \in T : M(t) \in U
  BY DEF Copied
<1>2. \A u \in U : \E t \in T : u = M(t)
  BY DEF Copied
<1>3. ASSUME NEW t \in T, NEW u \in T, M(t) = M(u)
      PROVE  t = u
  <2>1. t \in TimerType /\ u \in TimerType
    OBVIOUS
  <2>2. M(t).at = t.at /\ M(t).func = t.func /\ M(t).lev = t.lev
    BY <2>1, CopiedTimerIs
  <2>3. M(u).at = u.at /\ M(u).func = u.func /\ M(u).lev = u.lev
    BY <2>1, CopiedTimerIs
  <2> HIDE DEF M
  <2> QED
    BY <1>3, <2>1, <2>2, <2>3, TimerEqual
<1> HIDE DEF U, M
<1>4. f \in Surjection(T, U)
  BY <1>1, <1>2 DEF Surjection
<1>5. f \in Injection(T, U)
  BY <1>1, <1>3 DEF Injection, IsInjective
<1> HIDE DEF f
<1> QED
  BY <1>4, <1>5, FS_Surjection DEF U

\* The new stack y: C are the copies of the timers K that were found, n lights were found.
LEMMA FinePart ==
  ASSUME NEW x \in ObjType, NEW T \in SUBSET TimerType, NEW R, Fine(x, T, R), x.where \in Places,
         hero \in Levels, ~x.strayed /\ x.lit => x.lev = hero,
         NEW new \in Objs, NEW K, K = IF x.timed > 0 THEN {t \in T : t.lev = x.lev} ELSE {},
         NEW C, C = Copied(K, new), IsFiniteSet(C), Cardinality(C) = Cardinality(K),
         NEW n, n = IF x.lit THEN R[hero] ELSE 0,
         NEW y, y.where = x.where, y.lev = x.lev, y.quan >= 1, y.timed = Cardinality(K),
         y.lit = (n > 0), y.strayed = x.strayed,
         NEW Q, Q[hero] = n, \A l \in Levels : l # hero => Q[l] = 0
  PROVE  Fine(y, C, Q)
<1>1. x.lev \in Levels /\ x.timed \in Nat /\ IsFiniteSet(T)
  BY ObjIs DEF Fine
<1>2. ASSUME ~x.strayed
      PROVE  Tracked(y, C, Q)
  <2>1. Tracked(x, T, R)
    BY <1>2 DEF Fine
  <2>2. K = T
    <3>1. CASE x.timed > 0
      BY <2>1, <3>1 DEF Tracked
    <3>2. CASE x.timed = 0
      <4>1. T = {}
        BY <1>1, <2>1, <3>2, FS_EmptySet DEF Tracked
      <4> QED
        BY <3>2, <4>1
    <3> QED
      BY <1>1, <3>1, <3>2
  <2>3. y.lit = x.lit
    BY <1>2, <2>1, ObjIs DEF Tracked
  <2>4. ASSUME NEW l \in Levels
        PROVE  /\ y.lit /\ l = y.lev => Q[l] = 1
               /\ ~(y.lit /\ l = y.lev) => Q[l] = 0
    BY <1>2, <2>1, <2>3, ObjIs DEF Tracked
  <2>5. \A t \in T : /\ CopiedTimer(t, new).lev = t.lev
                     /\ CopiedTimer(t, new).func = t.func
                     /\ CopiedTimer(t, new) \in C
    <3>1. ASSUME NEW t \in T
          PROVE  CopiedTimer(t, new).lev = t.lev /\ CopiedTimer(t, new).func = t.func
      <4>1. t \in TimerType
        OBVIOUS
      <4> QED
        BY <4>1, CopiedTimerIs
    <3> QED
      BY <2>2, <3>1 DEF Copied
  <2>6. \A u \in C : \E t \in T : u = CopiedTimer(t, new)
    BY <2>2 DEF Copied
  <2>7. ASSUME NEW u \in C
        PROVE  u.lev = y.lev
    <3>1. PICK t \in T : u = CopiedTimer(t, new)
      BY <2>6
    <3>2. t.lev = x.lev
      BY <2>1 DEF Tracked
    <3> QED
      BY <2>5, <3>1, <3>2
  <2>8. ASSUME NEW a \in C, NEW b \in C, a.func = b.func, a.func # "rot"
        PROVE  a = b
    <3>1. PICK t \in T : a = CopiedTimer(t, new)
      BY <2>6
    <3>2. PICK u \in T : b = CopiedTimer(u, new)
      BY <2>6
    <3>3. t.func = u.func /\ t.func # "rot"
      BY <2>5, <2>8, <3>1, <3>2
    <3> QED
      BY <2>1, <3>1, <3>2, <3>3 DEF Tracked
  <2>9. /\ y.lit => \E u \in C : u.func = "burn"
        /\ ~y.lit => \A u \in C : u.func # "burn"
    <3>1. CASE y.lit
      <4>1. PICK t \in T : t.func = "burn"
        BY <2>1, <2>3, <3>1 DEF Tracked
      <4> QED
        BY <2>5, <3>1, <4>1
    <3>2. CASE ~y.lit
      <4>1. \A t \in T : t.func # "burn"
        BY <2>1, <2>3, <3>2 DEF Tracked
      <4> QED
        BY <2>5, <2>6, <3>2, <4>1
    <3> QED
      BY <3>1, <3>2
  <2>10. Cardinality(C) = y.timed
    OBVIOUS
  <2> QED
    BY <2>4, <2>7, <2>8, <2>9, <2>10 DEF Tracked
<1>3. Cardinality(K) \in Nat
  <2>1. IsFiniteSet(K)
    <3>1. K \in SUBSET T
      BY <1>1
    <3> QED
      BY <1>1, <3>1, FS_Subset
  <2> QED
    BY <2>1, FS_CardinalityType
<1> QED
  BY <1>1, <1>2, <1>3 DEF Fine

\* What Split does, in steps
LEMMA SplitShape ==
  ASSUME NEW v, NEW o, NEW n, NEW new
  PROVE  LET a == v.obj[o]
             K == IF a.timed > 0 THEN Mine(v, o) ELSE {}
             light == IF a.lit THEN v.lights[hero][o] ELSE 0
             c == [v EXCEPT !.obj[o].quan = @ - n]
             N == [c.obj EXCEPT ![new] = Part(a, n, Cardinality(K), light > 0)]
         IN Split(v, o, n, new) =
              [c EXCEPT !.obj = N, !.timers = c.timers \cup Copied(K, new),
                        !.lights = SetLight(c.lights, hero, new, light)]
BY ZenonT(60) DEF Split, Part, Copied, CopiedTimer, SetLight

\* The stack o gives n of its objects to new.
LEMMA SplitIs ==
  ASSUME NEW v, Whole(v), NEW o \in Objs, v.obj[o].where \in Places, NEW new \in Objs,
         v.obj[new].where = "none", NEW n \in 1 .. (v.obj[o].quan - 1), hero \in Levels,
         ~v.obj[o].strayed /\ v.obj[o].lit => v.obj[o].lev = hero
  PROVE  LET x == Split(v, o, n, new)
             y == x.obj[new]
         IN /\ Whole(x) /\ Only(v, x, {o, new}) /\ new # o
            /\ Alike(v.obj[o], x.obj[o]) /\ x.obj[o].where = v.obj[o].where
            /\ TimersIn(x, o) = TimersIn(v, o)
            /\ y.kind = v.obj[o].kind /\ y.where = v.obj[o].where /\ y.lev = v.obj[o].lev
            /\ y.strayed = v.obj[o].strayed
            /\ \A u \in TimersIn(x, new) : \E t \in TimersIn(v, o) : u.func = t.func
<1> DEFINE a == v.obj[o]
           K == IF a.timed > 0 THEN Mine(v, o) ELSE {}
           C == Copied(K, new)
           light == IF a.lit THEN v.lights[hero][o] ELSE 0
           k == Cardinality(K)
           lit == light > 0
           y == Part(a, n, k, lit)
           left == Counted(a, a.quan - n)
           u == Change(v, o, left)
           T == v.timers \cup C
           L == SetLight(v.lights, hero, new, light)
           x == Split(v, o, n, new)
<1>1. /\ v \in World /\ a \in ObjType /\ Fine(a, TimersIn(v, o), Rays(v, o))
      /\ v.timers \in SUBSET TimerType /\ v.lights \in LightType
  BY WorldIs DEF Whole, FineAt
<1>2. /\ a.timed \in Nat /\ a.quan \in Nat /\ n \in Nat /\ n >= 1 /\ a.quan - n \in Nat
      /\ a.quan - n >= 1 /\ a.lit \in BOOLEAN
  BY <1>1, ObjIs
<1>3. new # o
  BY DEF Places
<1>4. TimersIn(v, new) = {} /\ \A l \in Levels : v.lights[l][new] = 0
  <2>1. Fine(v.obj[new], TimersIn(v, new), Rays(v, new))
    BY DEF Whole, FineAt
  <2>2. Nothing(TimersIn(v, new), Rays(v, new))
    BY <2>1 DEF Fine, Places
  <2> QED
    BY <2>2 DEF Nothing, Rays
<1>5. K = IF a.timed > 0 THEN {t \in TimersIn(v, o) : t.lev = a.lev} ELSE {}
  BY DEF Mine, TimersIn, Of
<1>6. K \in SUBSET TimersIn(v, o) /\ TimersIn(v, o) \in SUBSET TimerType /\ IsFiniteSet(TimersIn(v, o))
      /\ \A t \in TimersIn(v, o) : t.o = o
  BY <1>1, <1>5 DEF TimersIn, Of, Fine
<1>7. IsFiniteSet(K) /\ k \in Nat
  BY <1>6, FS_Subset, FS_CardinalityType
<1>8. light \in Nat
  BY <1>1 DEF LightType
<1> HIDE DEF K, k, light
<1>9. IsFiniteSet(C) /\ Cardinality(C) = k
  <2>1. K \in SUBSET TimerType /\ \A t \in K : t.o = o
    BY <1>6
  <2> QED
    BY <1>7, <2>1, CopiedCount DEF k
<1>10. C \in SUBSET TimerType /\ \A t \in C : t.o = new
  <2>1. ASSUME NEW t \in K
        PROVE  CopiedTimer(t, new) \in TimerType /\ CopiedTimer(t, new).o = new
    <3>1. t \in TimerType
      BY <1>6
    <3> QED
      BY <3>1, CopiedTimerIs
  <2> QED
    BY <2>1 DEF Copied
<1>11. left \in ObjType /\ left.where = a.where /\ left.quan >= 1 /\ Alike(a, left)
  BY <1>1, <1>2, CountedIs
<1>12. /\ y \in ObjType /\ y.kind = a.kind /\ y.where = a.where /\ y.lev = a.lev
       /\ y.quan = n /\ y.timed = k /\ y.lit = lit /\ y.strayed = a.strayed
  <2>1. lit \in BOOLEAN
    BY <1>8
  <2>2. a \in ObjType /\ n \in Nat /\ k \in Nat
    BY <1>1, <1>2, <1>7
  <2> HIDE DEF lit, a
  <2>3. IsPart(y, a, n, k, lit)
    BY <2>1, <2>2, PartIs, Zenon
  <2> HIDE DEF y
  <2> QED
    BY <2>3 DEF IsPart
<1>13. L \in LightType /\ L[hero][new] = light
       /\ \A l \in Levels, p \in Objs : l # hero \/ p # new => L[l][p] = v.lights[l][p]
  <2>1. OneSet(v.lights, L, hero, new, light)
    BY <1>1, <1>8, SetLightIs, Zenon
  <2> HIDE DEF L
  <2> QED
    BY <2>1, Zenon DEF OneSet
<1> HIDE DEF C, left, lit, L
<1>14. /\ Only(v, u, {o}) /\ u.obj[o] = left /\ u.timers = v.timers /\ u.lights = v.lights
       /\ TimersIn(u, o) = TimersIn(v, o)
  BY <1>1, <1>11, ChangeIs
<1>15. Whole(u)
  BY <1>1, <1>11, ChangeFine
<1>16. x = Set(u, new, y, T, L)
  <2> DEFINE c == [v EXCEPT !.obj[o].quan = @ - n]
             O == [v.obj EXCEPT ![o] = left]
             N == [c.obj EXCEPT ![new] = y]
  <2>1. x = [c EXCEPT !.obj = N, !.timers = c.timers \cup C,
                      !.lights = SetLight(c.lights, hero, new, light)]
    BY SplitShape, Zenon DEF K, light, lit, k, C
  <2>2. c = [v EXCEPT !.obj = O]
    BY Zenon DEF left, Counted
  <2>3. u = [v EXCEPT !.obj = O]
    BY <1>1 DEF Change, Set, Build, World
  <2>4. c = u
    BY <2>2, <2>3, Zenon
  <2> HIDE DEF c, u
  <2>5. c.timers = v.timers /\ c.lights = v.lights /\ c.obj = u.obj
    BY <1>14, <2>4
  <2>6. x = [u EXCEPT !.obj = N, !.timers = T, !.lights = L]
    BY <2>1, <2>4, <2>5, Zenon DEF L
  <2> QED
    BY <2>5, <2>6, Zenon DEF Set, Build
<1> HIDE DEF u, y, x
<1>17. Aside(u, new, T, L)
  BY <1>1, <1>10, <1>13, <1>14 DEF Aside
<1>18. u \in World
  BY <1>14 DEF Only
<1>19. Only(u, x, {new}) /\ x.obj[new] = y /\ x.lights = L /\ TimersIn(x, new) = Of(T, new)
  BY <1>12, <1>16, <1>17, <1>18, SetIs
<1>20. Of(T, new) = C
  BY <1>4, <1>10 DEF TimersIn, Of
<1>21. Fine(y, C, Rays(x, new))
  <2>1. light = IF a.lit THEN Rays(v, o)[hero] ELSE 0
    BY DEF light, Rays
  <2>2. Rays(x, new)[hero] = light /\ \A l \in Levels : l # hero => Rays(x, new)[l] = 0
    BY <1>4, <1>13, <1>19 DEF Rays
  <2>3. y.lit = (light > 0)
    BY <1>12 DEF lit
  <2> DEFINE R == Rays(v, o)
             Q == Rays(x, new)
             S == TimersIn(v, o)
  <2>4. /\ S \in SUBSET TimerType /\ Fine(a, S, R) /\ a.where \in Places
        /\ (~a.strayed /\ a.lit => a.lev = hero) /\ C = Copied(K, new)
        /\ K = IF a.timed > 0 THEN {t \in S : t.lev = a.lev} ELSE {}
        /\ k = Cardinality(K)
    BY <1>1, <1>5, <1>6 DEF C, k
  <2> HIDE DEF R, Q, S, a
  <2> QED
    BY <1>1, <1>2, <1>9, <1>12, <2>1, <2>2, <2>3, <2>4, FinePart DEF R, Q
<1>22. FineAt(x, new)
  BY <1>19, <1>20, <1>21, Zenon DEF FineAt
<1>23. Whole(x)
  BY <1>15, <1>19, <1>22, WholeStep DEF Only
<1>24. Same(u, x, o)
  BY <1>3, <1>19 DEF Only
<1>25. /\ Alike(a, x.obj[o]) /\ x.obj[o].where = a.where /\ TimersIn(x, o) = TimersIn(v, o)
       /\ x.obj[new] = y
  BY <1>11, <1>14, <1>19, <1>24, Zenon DEF Same
<1>26. \A t \in TimersIn(x, new) : \E b \in TimersIn(v, o) : t.func = b.func
  <2>1. ASSUME NEW t \in C
        PROVE  \E b \in TimersIn(v, o) : t.func = b.func
    <3>1. PICK b \in K : t = CopiedTimer(b, new)
      BY DEF C, Copied
    <3>2. b \in TimerType /\ b \in TimersIn(v, o)
      BY <1>6
    <3> QED
      BY <3>1, <3>2, CopiedTimerIs
  <2> QED
    BY <1>19, <1>20, <2>1
<1>27. Only(v, x, {o, new})
  <2>1. \A p \in Objs \ {o, new} : Same(v, u, p) /\ Same(u, x, p)
    BY <1>14, <1>19 DEF Only
  <2> QED
    BY <1>19, <2>1, SameTwice DEF Only
<1> QED
  BY <1>3, <1>12, <1>23, <1>25, <1>26, <1>27, Zenon DEF x, a

-----------------------------------------------------------------------------
\* The bag

LEMMA BagKept ==
  ASSUME NEW v, BagOK(v), NEW x,
         \A p \in Objs : x.obj[p].kind = "bag" =>
           v.obj[p].kind = "bag" /\ x.obj[p].quan = v.obj[p].quan /\ x.obj[p].where \in BagPlaces,
         \A p \in Objs : v.obj[p].kind = "bag" =>
           x.obj[p].kind = "bag" /\ x.obj[p].lev = v.obj[p].lev,
         \A p \in Objs : x.obj[p].where = "contained" =>
           \/ v.obj[p].where = "contained" /\ x.obj[p].lev = v.obj[p].lev
           \/ \E b \in Objs : v.obj[b].kind = "bag" /\ v.obj[b].lev = x.obj[p].lev
  PROVE  BagOK(x)
BY DEF BagOK

LEMMA SoundCalmer ==
  ASSUME NEW v, Sound(v), NEW o \in Objs, NEW x, Whole(x), Only(v, x, {o}), Keeps(v, x, o)
  PROVE  Sound(x)
<1>1. \A p \in Objs : /\ x.obj[p].kind = v.obj[p].kind /\ x.obj[p].where = v.obj[p].where
                      /\ x.obj[p].lev = v.obj[p].lev /\ x.obj[p].quan = v.obj[p].quan
  BY DEF Only, Keeps, Same
<1>2. BagOK(v) /\ \A p \in Objs : v.obj[p].kind = "bag" => v.obj[p].where \in BagPlaces
  BY DEF Sound, BagOK
<1>3. BagOK(x)
  BY <1>1, <1>2, BagKept
<1> QED
  BY <1>3 DEF Sound

\* An object is put somewhere, with nothing else changed but its count.
Goes(v, x, o, where) ==
  /\ Only(v, x, {o}) /\ x.obj[o].where = where /\ x.obj[o].kind = v.obj[o].kind
  /\ x.obj[o].lev = v.obj[o].lev /\ x.obj[o].strayed = v.obj[o].strayed
  /\ x.obj[o].quan = v.obj[o].quan /\ TimersIn(x, o) = TimersIn(v, o)
Put(x, where) == [x EXCEPT !.where = where]
PutAt(v, o, where) == [v EXCEPT !.obj = [v.obj EXCEPT ![o] = Put(v.obj[o], where)]]

LEMMA PutIs ==
  ASSUME NEW x \in ObjType, NEW where \in Places
  PROVE  LET y == Put(x, where)
         IN y \in ObjType /\ y.where = where /\ y.quan = x.quan /\ Alike(x, y)
BY DEF Put, ObjType, Alike

LEMMA PutAtIs ==
  ASSUME NEW v, Whole(v), NEW o \in Objs, v.obj[o].where \in Places, NEW where \in Places
  PROVE  LET x == PutAt(v, o, where) IN Whole(x) /\ Goes(v, x, o, where)
<1> DEFINE a == v.obj[o]
           y == Put(a, where)
           x == PutAt(v, o, where)
<1>1. v \in World /\ a \in ObjType /\ Fine(a, TimersIn(v, o), Rays(v, o))
  BY WorldIs DEF Whole, FineAt
<1>2. y \in ObjType /\ y.where = where /\ y.quan = a.quan /\ Alike(a, y)
  BY <1>1, PutIs
<1>3. x = Change(v, o, y)
  BY <1>1 DEF PutAt, Change, Set, Build, World
<1>4. y.quan >= 1
  BY <1>1, <1>2 DEF Fine
<1> HIDE DEF y
<1>5. Whole(Change(v, o, y))
  BY <1>2, <1>4, ChangeFine
<1>6. /\ Only(v, x, {o}) /\ x.obj[o] = y /\ TimersIn(x, o) = TimersIn(v, o)
  BY <1>1, <1>2, <1>3, ChangeIs
<1>7. Goes(v, x, o, where)
  BY <1>2, <1>6 DEF Goes, Alike
<1> QED
  BY <1>3, <1>5, <1>7

LEMMA GoesSound ==
  ASSUME NEW v, Sound(v), NEW o \in Objs, NEW where, NEW x, Whole(x), Goes(v, x, o, where),
         v.obj[o].kind = "bag" => where \in BagPlaces,
         where = "contained" =>
           \E b \in Objs : v.obj[b].kind = "bag" /\ v.obj[b].lev = v.obj[o].lev
  PROVE  Sound(x)
<1>1. \A p \in Objs : /\ x.obj[p].kind = v.obj[p].kind
                      /\ x.obj[p].where = IF p = o THEN where ELSE v.obj[p].where
                      /\ x.obj[p].lev = v.obj[p].lev /\ x.obj[p].quan = v.obj[p].quan
  BY DEF Only, Goes, Same
<1>2. BagOK(v) /\ \A p \in Objs : v.obj[p].kind = "bag" => v.obj[p].where \in BagPlaces
  BY DEF Sound, BagOK
<1>3. BagOK(x)
  BY <1>1, <1>2, BagKept
<1> QED
  BY <1>3 DEF Sound

LEMMA ExtractIs ==
  ASSUME NEW v, Sound(v), NEW o \in Objs, v.obj[o].where \in Places
  PROVE  LET x == Extract(v, o) IN Sound(x) /\ Goes(v, x, o, "free")
<1> DEFINE x == Extract(v, o)
<1>1. x = PutAt(v, o, "free")
  BY Zenon DEF Extract, PutAt, Put
<1> HIDE DEF x
<1>2. Whole(v) /\ "free" \in Places
  BY DEF Sound, Places
<1>3. Whole(x) /\ Goes(v, x, o, "free")
  BY <1>1, <1>2, PutAtIs
<1>4. Sound(x)
  BY <1>3, GoesSound DEF BagPlaces
<1> QED
  BY <1>3, <1>4 DEF x

-----------------------------------------------------------------------------
\* obfree and set_obj_level, with what is in the bag

LEMMA FreeIs ==
  ASSUME NEW v, Sound(v), NEW o \in Objs, v.obj[o].where \in Places
  PROVE  LET x == Free(v, o)
             S == {o} \cup Inside(v, o)
         IN /\ Sound(x) /\ Only(v, x, S)
            /\ \A p \in S : x.obj[p].where = "gone" /\ x.obj[p].kind = "none"
<1> DEFINE x == Free(v, o)
           S == {o} \cup Inside(v, o)
<1>1. S \in SUBSET Objs /\ \A p \in S : v.obj[p].where \in Places
  BY DEF Inside, Places
<1>2. x = Dealloc(v, S)
  BY DEF Free
<1>3. Whole(v) /\ BagOK(v)
  BY DEF Sound
<1>4. o \in S /\ \A p \in Objs : p \in S <=>
        p = o \/ (v.obj[o].kind = "bag" /\ v.obj[p].where = "contained")
  BY DEF Inside
<1> HIDE DEF S, x
<1>5. /\ Whole(x) /\ Only(v, x, S)
      /\ \A p \in S : x.obj[p].where = "gone" /\ x.obj[p].kind = "none"
  BY <1>1, <1>2, <1>3, DeallocIs
<1>6. \A p \in Objs \ S : x.obj[p] = v.obj[p]
  BY <1>5 DEF Only, Same
<1>7. BagOK(x)
  BY <1>1, <1>3, <1>4, <1>5, <1>6 DEF BagOK
<1> QED
  BY <1>5, <1>7, Zenon DEF S, x, Sound

LEMMA SetLevelIs ==
  ASSUME NEW v, Sound(v), NEW o \in Objs, v.obj[o].where \in Places \ {"contained"},
         NEW l \in Levels
  PROVE  LET x == SetLevel(v, o, l)
             S == {o} \cup Inside(v, o)
         IN Sound(x) /\ Only(v, x, S) /\ \A p \in S : Moved(v, x, p, l)
<1> DEFINE x == SetLevel(v, o, l)
           S == {o} \cup Inside(v, o)
<1>1. S \in SUBSET Objs /\ \A p \in S : v.obj[p].where \in Places
  BY DEF Inside, Places
<1>2. x = SetLevels(v, S, l)
  BY DEF SetLevel
<1>3. Whole(v) /\ BagOK(v)
  BY DEF Sound
<1>4. o \in S /\ \A p \in Objs : p \in S <=>
        p = o \/ (v.obj[o].kind = "bag" /\ v.obj[p].where = "contained")
  BY DEF Inside
<1> HIDE DEF S, x
<1>5. Whole(x) /\ Only(v, x, S) /\ \A p \in S : Moved(v, x, p, l)
  BY <1>1, <1>2, <1>3, SetLevelsIs
<1>6. \A p \in Objs \ S : x.obj[p] = v.obj[p]
  BY <1>5 DEF Only, Same
<1>7. \A p \in S : /\ x.obj[p].lev = l /\ x.obj[p].kind = v.obj[p].kind
                   /\ x.obj[p].where = v.obj[p].where /\ x.obj[p].quan = v.obj[p].quan
  BY <1>5 DEF Moved, Kin
<1>8. BagOK(x)
  BY <1>1, <1>3, <1>4, <1>6, <1>7 DEF BagOK
<1> QED
  BY <1>5, <1>8, Zenon DEF S, x, Sound

-----------------------------------------------------------------------------
\* A stack joins another: merged

Mixed(a, b) == [a EXCEPT !.quan = a.quan + b.quan,
                         !.age = IF b.lit THEN a.age
                                 ELSE (a.age * a.quan + b.age * b.quan) \div (a.quan + b.quan)]
Mix(v, into, y) == [v EXCEPT !.obj = [v.obj EXCEPT ![into] = y]]

LEMMA MixedIs ==
  ASSUME NEW a \in ObjType, NEW b \in ObjType, a.quan >= 1
  PROVE  LET y == Mixed(a, b)
         IN /\ y \in ObjType /\ Alike(a, y) /\ y.where = a.where /\ y.quan >= 1
<1> DEFINE n == a.age * a.quan + b.age * b.quan
           d == a.quan + b.quan
           y == Mixed(a, b)
<1>1. a.quan \in Nat /\ b.quan \in Nat /\ a.age \in Int /\ b.age \in Int
  BY ObjIs
<1>2. n \in Int /\ d \in Nat /\ d >= 1
  BY <1>1
<1> DEFINE age == IF b.lit THEN a.age ELSE n \div d
<1>3. age \in Int
  <2> HIDE DEF n, d
  <2> QED
    BY <1>1, <1>2
<1>4. y = [a EXCEPT !.quan = d, !.age = age]
  BY Zenon DEF Mixed
<1> HIDE DEF d, age
<1> QED
  BY <1>2, <1>3, <1>4 DEF ObjType, Alike

\* What joins another stack is gone; the stack stays where it is.
Joined(v, x, into, o) ==
  /\ Only(v, x, {into, o}) /\ x.obj[o].where = "gone" /\ x.obj[o].kind = "none"
  /\ Kin(v, x, into) /\ x.obj[into].where = v.obj[into].where
  /\ x.obj[into].lev = v.obj[into].lev

LEMMA MergeIs ==
  ASSUME NEW v, Sound(v), NEW into \in Objs, NEW o \in Objs, into # o,
         v.obj[into].where \in Places, v.obj[o].where \in Places, Mergable(v, into, o),
         now \in Nat
  PROVE  LET x == Merge(v, into, o) IN Sound(x) /\ Joined(v, x, into, o)
<1> DEFINE a == v.obj[into]
           b == v.obj[o]
           e == Extract(v, o)
           m == Mixed(a, b)
           y == Mix(e, into, m)
           z == IF b.lit THEN EndBurn(y, o, TRUE) ELSE y
           x == Merge(v, into, o)
<1>1. a \in ObjType /\ b \in ObjType /\ a.quan >= 1 /\ a.kind = b.kind /\ a.kind # "bag"
  <2>1. v \in World /\ FineAt(v, into) /\ a.kind = b.kind /\ a.kind # "bag"
    BY DEF Sound, Whole, Mergable
  <2> QED
    BY <2>1, WorldIs DEF FineAt, Fine
<1>2. x = Free(z, o)
  BY Zenon DEF Merge, Mix, Mixed, NewAge
<1>3. Sound(e) /\ Goes(v, e, o, "free")
  BY ExtractIs
<1> HIDE DEF e
<1>4. e \in World /\ Same(v, e, into) /\ e.obj[into] = a
  BY <1>3 DEF Goes, Only, Same
<1>5. m \in ObjType /\ Alike(a, m) /\ m.where = a.where /\ m.quan >= 1
  BY <1>1, MixedIs
<1> HIDE DEF m
<1>6. y = Change(e, into, m)
  BY <1>4 DEF Mix, Change, Set, Build, World
<1>7. Only(e, y, {into}) /\ y.obj[into] = m /\ TimersIn(y, into) = TimersIn(e, into)
  BY <1>4, <1>5, <1>6, ChangeIs
<1>8. Whole(y)
  BY <1>3, <1>4, <1>5, <1>6, ChangeFine DEF Sound
<1> HIDE DEF y
<1>9. Sound(y)
  <2>1. BagOK(e) /\ \A p \in Objs : e.obj[p].kind = "bag" => e.obj[p].where \in BagPlaces
    BY <1>3 DEF Sound, BagOK
  <2>2. \A p \in Objs : p # into => y.obj[p] = e.obj[p]
    BY <1>7 DEF Only, Same
  <2>3. /\ y.obj[into].kind # "bag" /\ e.obj[into].kind # "bag"
        /\ y.obj[into].where = e.obj[into].where /\ y.obj[into].lev = e.obj[into].lev
    BY <1>1, <1>4, <1>5, <1>7 DEF Alike
  <2>4. \A p \in Objs : y.obj[p].kind = "bag" \/ e.obj[p].kind = "bag" => y.obj[p] = e.obj[p]
    BY <2>2, <2>3
  <2>5. \A p \in Objs : y.obj[p].where = e.obj[p].where /\ y.obj[p].lev = e.obj[p].lev
    BY <2>2, <2>3
  <2>6. BagOK(y)
    BY <2>1, <2>4, <2>5, BagKept
  <2> QED
    BY <1>8, <2>6 DEF Sound
<1>10. Same(e, y, o) /\ y.obj[o].where = "free" /\ y.obj[o].kind = b.kind
  BY <1>3, <1>7 DEF Only, Goes, Same
<1>11. Sound(z) /\ Only(y, z, {o}) /\ z.obj[o].where = "free" /\ z.obj[o].kind = b.kind
  <2>1. CASE ~b.lit
    BY <1>7, <1>9, <1>10, <2>1, SameSelf DEF Only
  <2>2. CASE b.lit
    <3>1. y.obj[o].where \in Places
      BY <1>10 DEF Places
    <3>2. Calmer(y, EndBurn(y, o, TRUE), o)
      BY <1>8, <3>1, EndBurnIs
    <3>3. Calmer(y, z, o)
      BY <2>2, <3>2
    <3> HIDE DEF z
    <3>4. Sound(z)
      BY <1>9, <3>3, SoundCalmer DEF Calmer
    <3> QED
      BY <1>10, <3>3, <3>4 DEF Calmer, Keeps
  <2> QED
    BY <2>1, <2>2
<1> HIDE DEF z
<1>12. Inside(z, o) = {} /\ z.obj[o].where \in Places
  BY <1>1, <1>11 DEF Inside, Places
<1>13. Sound(x) /\ Only(z, x, {o}) /\ x.obj[o].where = "gone" /\ x.obj[o].kind = "none"
  BY <1>2, <1>11, <1>12, FreeIs
<1> HIDE DEF x
<1>14. Same(y, x, into)
  BY <1>11, <1>13, SameTwice DEF Only
<1>15. /\ Kin(v, x, into) /\ x.obj[into].where = v.obj[into].where
       /\ x.obj[into].lev = v.obj[into].lev
  BY <1>4, <1>5, <1>7, <1>14 DEF Same, Alike, Kin
<1>16. Only(v, x, {into, o})
  <2>1. \A p \in Objs \ {into, o} : Same(v, e, p) /\ Same(e, y, p) /\ Same(y, z, p) /\ Same(z, x, p)
    BY <1>3, <1>7, <1>11, <1>13 DEF Goes, Only
  <2>2. \A p \in Objs \ {into, o} : Same(v, x, p)
    BY <2>1, SameTwice
  <2> QED
    BY <1>13, <2>2 DEF Only
<1> QED
  BY <1>13, <1>15, <1>16, Zenon DEF x, Joined

-----------------------------------------------------------------------------
\* What the steps keep: Good, with one object o that need not be clean

GoodBut(v, o, h, m) ==
  Sound(v) /\ \A p \in Objs : Stands(v, p, h, m) /\ (p # o => Clean(v, p))

LEMMA GoodIsBut ==
  ASSUME NEW v, NEW o, NEW h, NEW m
  PROVE  Good(v, h, m) <=> GoodBut(v, o, h, m) /\ (o \in Objs => Clean(v, o))
BY DEF Good, GoodBut, Placed

LEMMA CleanSame ==
  \A v, x, p : Clean(v, p) /\ Same(v, x, p) => Clean(x, p)
BY DEF Clean, Same

LEMMA CleanKin ==
  \A v, x, p : Clean(v, p) /\ Kin(v, x, p) /\ x.obj[p].where = v.obj[p].where => Clean(x, p)
BY DEF Clean, Kin

LEMMA KeepsGood ==
  ASSUME NEW v, NEW o \in Objs, NEW h, NEW m, GoodBut(v, o, h, m), NEW x, Whole(x),
         Only(v, x, {o}), Keeps(v, x, o)
  PROVE  GoodBut(x, o, h, m)
<1>1. \A p \in Objs : /\ x.obj[p].kind = v.obj[p].kind /\ x.obj[p].where = v.obj[p].where
                      /\ x.obj[p].lev = v.obj[p].lev /\ x.obj[p].strayed = v.obj[p].strayed
  BY DEF Only, Keeps, Same
<1>2. ASSUME NEW p \in Objs
      PROVE  Stands(x, p, h, m)
  <2>1. Stands(v, p, h, m)
    BY DEF GoodBut
  <2> QED
    BY <1>1, <2>1 DEF Stands, InMon, MonBag
<1>3. Sound(x)
  BY SoundCalmer DEF GoodBut
<1>4. \A p \in Objs : p # o => Clean(x, p)
  BY CleanSame DEF GoodBut, Only
<1> QED
  BY <1>2, <1>3, <1>4 DEF GoodBut

LEMMA CalmerGood ==
  ASSUME NEW v, NEW o \in Objs, NEW h, NEW m, Good(v, h, m), NEW x, Calmer(v, x, o)
  PROVE  Good(x, h, m)
<1>1. GoodBut(x, o, h, m)
  BY GoodIsBut, KeepsGood DEF Calmer
<1>2. Clean(v, o)
  BY DEF Good, Placed
<1>3. Clean(x, o)
  BY <1>2 DEF Clean, Calmer, Keeps
<1> QED
  BY <1>1, <1>3, GoodIsBut

\* The level of an object is right for a new place.
Fits(l, where, h, m) == /\ where \in {"invent", "chest"} => l = h
                        /\ where = "minvent" => WithMon(l, h, m)

LEMMA GoesGood ==
  ASSUME NEW v, NEW o \in Objs, NEW h, NEW m, GoodBut(v, o, h, m), NEW x, Sound(x), NEW where,
         Goes(v, x, o, where), Fits(v.obj[o].lev, where, h, m), where = "contained" => ~MonBag(x)
  PROVE  GoodBut(x, o, h, m)
<1>1. \A p \in Objs : /\ x.obj[p].kind = v.obj[p].kind
                      /\ x.obj[p].where = IF p = o THEN where ELSE v.obj[p].where
                      /\ x.obj[p].lev = v.obj[p].lev /\ x.obj[p].strayed = v.obj[p].strayed
  BY DEF Only, Goes, Same
<1>2. ASSUME NEW p \in Objs
      PROVE  Stands(x, p, h, m)
  <2>1. CASE p = o
    BY <1>1, <2>1 DEF Stands, InMon, Fits
  <2>2. CASE p # o /\ MonBag(x) /\ ~MonBag(v)
    <3>1. PICK b \in Objs : x.obj[b].kind = "bag" /\ x.obj[b].where = "minvent"
      BY <2>2 DEF MonBag
    <3>2. b = o /\ where = "minvent"
      BY <1>1, <2>2, <3>1 DEF MonBag
    <3>3. x.obj[p].where = "contained" => x.obj[p].lev = v.obj[o].lev
      BY <1>1, <3>1, <3>2 DEF Sound, BagOK
    <3>4. Stands(v, p, h, m)
      BY DEF GoodBut
    <3> QED
      BY <1>1, <2>2, <3>2, <3>3, <3>4 DEF Stands, InMon, Fits
  <2>3. CASE p # o /\ (MonBag(x) => MonBag(v))
    <3>1. Stands(v, p, h, m)
      BY DEF GoodBut
    <3> QED
      BY <1>1, <2>3, <3>1 DEF Stands, InMon
  <2> QED
    BY <2>1, <2>2, <2>3
<1>3. \A p \in Objs : p # o => Clean(x, p)
  BY CleanSame DEF GoodBut, Only, Goes
<1> QED
  BY <1>2, <1>3 DEF GoodBut

LEMMA CleanGoes ==
  ASSUME NEW v, NEW x, NEW o, NEW where, Goes(v, x, o, where),
         ~v.obj[o].strayed /\ where # "buried" => \A t \in TimersIn(v, o) : t.func # "organic"
  PROVE  Clean(x, o)
BY DEF Goes, Clean

LEMMA CleanIs ==
  ASSUME NEW v, NEW o, Clean(v, o), v.obj[o].where # "buried", ~v.obj[o].strayed
  PROVE  \A t \in TimersIn(v, o) : t.func # "organic"
BY DEF Clean

\* The object that is in hand, as it goes from place to place
LEMMA MovesGood ==
  ASSUME NEW v, NEW o \in Objs, NEW h, NEW m, Good(v, h, m), v.obj[o].where # "buried",
         NEW x, Sound(x), NEW where,
         Goes(v, x, o, where), Fits(v.obj[o].lev, where, h, m), where = "contained" => ~MonBag(x)
  PROVE  Good(x, h, m)
<1>1. GoodBut(v, o, h, m) /\ Clean(v, o)
  BY GoodIsBut
<1>2. GoodBut(x, o, h, m)
  BY <1>1, GoesGood
<1>3. Clean(x, o)
  BY <1>1, CleanGoes, CleanIs
<1> QED
  BY <1>2, <1>3, GoodIsBut

LEMMA GoneClean ==
  ASSUME NEW x, Whole(x), NEW o \in Objs, x.obj[o].where = "gone"
  PROVE  Clean(x, o)
BY DEF Whole, FineAt, Fine, Nothing, Clean, Places

LEMMA GoneStands ==
  ASSUME NEW x, NEW o, x.obj[o].where = "gone", NEW h, NEW m
  PROVE  Stands(x, o, h, m)
BY DEF Stands, InMon

\* The objects in S are freed.
LEMMA GoneGood ==
  ASSUME NEW v, NEW S, NEW h, NEW m, \A p \in Objs \ S : Placed(v, p, h, m),
         NEW x, Sound(x), Only(v, x, S), \A p \in S : x.obj[p].where = "gone" /\ x.obj[p].kind = "none"
  PROVE  Good(x, h, m)
<1>1. MonBag(x) => MonBag(v)
  BY DEF MonBag, Only, Same
<1>2. ASSUME NEW p \in Objs \ S
      PROVE  Placed(x, p, h, m)
  <2>1. Same(v, x, p) /\ Placed(v, p, h, m)
    BY DEF Only
  <2> QED
    BY <1>1, <2>1 DEF Placed, Stands, Clean, Same, InMon
<1>3. ASSUME NEW p \in Objs, p \in S
      PROVE  Placed(x, p, h, m)
  BY <1>3, GoneClean, GoneStands DEF Placed, Sound
<1> QED
  BY <1>2, <1>3 DEF Good

LEMMA JoinedGood ==
  ASSUME NEW v, NEW into \in Objs, NEW o \in Objs, NEW h, NEW m, Good(v, h, m), into # o,
         NEW x, Sound(x), Joined(v, x, into, o)
  PROVE  Good(x, h, m)
<1>1. MonBag(x) => MonBag(v)
  BY DEF MonBag, Only, Same, Joined, Kin
<1>2. Placed(v, into, h, m) /\ x.obj[into].strayed = v.obj[into].strayed
  BY DEF Good, Joined, Kin
<1>3. Placed(x, into, h, m)
  BY <1>1, <1>2, CleanKin DEF Placed, Stands, InMon, Joined
<1>4. Placed(x, o, h, m)
  BY GoneClean, GoneStands DEF Placed, Sound, Joined
<1>5. \A p \in Objs \ {into, o} : Same(v, x, p)
  BY DEF Joined, Only
<1> QED
  BY <1>1, <1>3, <1>4, <1>5, GoodStep

-----------------------------------------------------------------------------
\* Some of a stack, or all of it

\* The bag, if there is one, is what and where it was.
SameBags(v, x) ==
  \A b \in Objs : v.obj[b].kind = "bag" \/ x.obj[b].kind = "bag" => x.obj[b] = v.obj[b]

LEMMA SameBagsSelf ==
  \A v : SameBags(v, v)
BY DEF SameBags

LEMMA SameBagsTwice ==
  \A v, x, y : SameBags(v, x) /\ SameBags(x, y) => SameBags(v, y)
BY DEF SameBags

LEMMA BagsApart ==
  ASSUME NEW v, NEW o, NEW x, Only(v, x, {o}), v.obj[o].kind # "bag", x.obj[o].kind # "bag"
  PROVE  SameBags(v, x)
BY DEF SameBags, Only, Same

\* q of x is what was taken from o of v.
Taken(v, x, o, q) ==
  /\ q \in Objs /\ x.obj[q].kind = v.obj[o].kind /\ x.obj[q].where = v.obj[o].where
  /\ x.obj[q].lev = v.obj[o].lev /\ x.obj[q].strayed = v.obj[o].strayed /\ SameBags(v, x)

LEMMA SplitGood ==
  ASSUME NEW v, NEW m, Good(v, hero, m), NEW o \in Objs, v.obj[o].where \in Places,
         hero \in Levels, ~v.obj[o].strayed /\ v.obj[o].lit => v.obj[o].lev = hero,
         NEW new \in Objs, v.obj[new].where = "none", NEW n \in 1 .. (v.obj[o].quan - 1)
  PROVE  LET x == Split(v, o, n, new) IN Good(x, hero, m) /\ Taken(v, x, o, new)
<1> DEFINE a == v.obj[o]
           x == Split(v, o, n, new)
           y == x.obj[new]
<1>1. Whole(v) /\ BagOK(v)
  BY DEF Good, Sound
<1>2. /\ Whole(x) /\ Only(v, x, {o, new}) /\ new # o
      /\ Alike(a, x.obj[o]) /\ x.obj[o].where = a.where
      /\ TimersIn(x, o) = TimersIn(v, o)
      /\ y.kind = a.kind /\ y.where = a.where /\ y.lev = a.lev /\ y.strayed = a.strayed
      /\ \A u \in TimersIn(x, new) : \E t \in TimersIn(v, o) : u.func = t.func
  BY <1>1, SplitIs
<1> HIDE DEF x
<1>3. v.obj[new].kind = "none" /\ a.quan \in Nat
  BY <1>1, WorldIs, ObjIs DEF Whole, FineAt, Fine, Places
<1>4. a.kind # "bag"
  BY <1>1, <1>3 DEF BagOK
<1>5. \A p \in Objs \ {o, new} : x.obj[p] = v.obj[p]
  BY <1>2 DEF Only, Same
<1>6. SameBags(v, x)
  BY <1>2, <1>3, <1>4, <1>5 DEF SameBags, Alike
<1>7. BagOK(x)
  <2>1. \A p \in Objs : v.obj[p].kind = "bag" => v.obj[p].where \in BagPlaces
    BY <1>1 DEF BagOK
  <2>2. ASSUME NEW p \in Objs, x.obj[p].where = "contained"
        PROVE  \/ v.obj[p].where = "contained" /\ x.obj[p].lev = v.obj[p].lev
               \/ \E b \in Objs : v.obj[b].kind = "bag" /\ v.obj[b].lev = x.obj[p].lev
    <3>1. CASE p = new
      BY <1>1, <1>2, <2>2, <3>1 DEF BagOK
    <3>2. CASE p # new
      BY <1>2, <1>5, <2>2, <3>2 DEF Alike
    <3> QED
      BY <3>1, <3>2
  <2> QED
    BY <1>1, <1>6, <2>1, <2>2, BagKept DEF SameBags
<1>8. MonBag(x) <=> MonBag(v)
  BY <1>6 DEF MonBag, SameBags
<1>9. Placed(v, o, hero, m)
  BY DEF Good
<1>10. Placed(x, o, hero, m)
  BY <1>2, <1>8, <1>9 DEF Placed, Stands, Clean, InMon, Alike
<1>11. Placed(x, new, hero, m)
  BY <1>2, <1>8, <1>9 DEF Placed, Stands, Clean, InMon
<1>12. Good(x, hero, m)
  BY <1>1, <1>2, <1>7, <1>8, <1>10, <1>11, GoodStep DEF Only, Sound
<1> QED
  BY <1>2, <1>6, <1>12, Zenon DEF Taken, x, a

LEMMA PartsGood ==
  ASSUME NEW v, NEW m, Good(v, hero, m), NEW o \in Objs, v.obj[o].where \in Places,
         hero \in Levels, ~v.obj[o].strayed /\ v.obj[o].lit => v.obj[o].lev = hero,
         NEW p \in Parts(v, o)
  PROVE  Good(p.v, hero, m) /\ Taken(v, p.v, o, p.o)
<1>1. CASE p = [v |-> v, o |-> o]
  BY <1>1, SameBagsSelf DEF Taken
<1>2. CASE p # [v |-> v, o |-> o]
  <2>1. Unused(v) # {}
    BY <1>2 DEF Parts
  <2> DEFINE new == CHOOSE q \in Unused(v) : TRUE
  <2>2. new \in Objs /\ v.obj[new].where = "none"
    BY <2>1 DEF Unused
  <2>3. PICK n \in 1 .. (v.obj[o].quan - 1) : p = [v |-> Split(v, o, n, new), o |-> new]
    BY <1>2, <2>1, Zenon DEF Parts
  <2> HIDE DEF new
  <2>4. Good(Split(v, o, n, new), hero, m) /\ Taken(v, Split(v, o, n, new), o, new)
    BY <2>2, SplitGood
  <2> QED
    BY <2>3, <2>4
<1> QED
  BY <1>1, <1>2

-----------------------------------------------------------------------------
\* An object is taken in hand and put somewhere.

LEMMA ExtractGood ==
  ASSUME NEW v, NEW h, NEW m, Good(v, h, m), NEW o \in Objs, v.obj[o].where \in Places
  PROVE  LET x == Extract(v, o)
         IN /\ GoodBut(x, o, h, m) /\ Goes(v, x, o, "free")
            /\ v.obj[o].where # "buried" => Good(x, h, m)
<1> DEFINE x == Extract(v, o)
<1>1. Sound(v)
  BY DEF Good
<1>2. Sound(x) /\ Goes(v, x, o, "free")
  BY <1>1, ExtractIs
<1> HIDE DEF x
<1>3. GoodBut(v, o, h, m) /\ Fits(v.obj[o].lev, "free", h, m)
  BY GoodIsBut DEF Fits
<1>4. GoodBut(x, o, h, m)
  BY <1>2, <1>3, GoesGood
<1>5. v.obj[o].where # "buried" => Good(x, h, m)
  BY <1>2, <1>3, MovesGood
<1> QED
  BY <1>2, <1>4, <1>5 DEF x

LEMMA PutGood ==
  ASSUME NEW v, NEW h, NEW m, Good(v, h, m), NEW o \in Objs, v.obj[o].where = "free",
         NEW where \in Places, Fits(v.obj[o].lev, where, h, m),
         v.obj[o].kind = "bag" => where \in BagPlaces,
         where = "contained" =>
           /\ ~MonBag(v)
           /\ \E b \in Objs : v.obj[b].kind = "bag" /\ v.obj[b].lev = v.obj[o].lev
  PROVE  LET x == PutAt(v, o, where) IN Good(x, h, m) /\ Goes(v, x, o, where)
<1> DEFINE x == PutAt(v, o, where)
<1>1. Sound(v) /\ Whole(v) /\ v.obj[o].where \in Places
  BY DEF Good, Sound, Places
<1>2. Whole(x) /\ Goes(v, x, o, where)
  BY <1>1, PutAtIs
<1> HIDE DEF x
<1>3. Sound(x)
  BY <1>1, <1>2, GoesSound
<1>4. where = "contained" => ~MonBag(x)
  BY <1>2 DEF MonBag, Goes, Only, Same
<1>5. Good(x, h, m)
  BY <1>1, <1>2, <1>3, <1>4, MovesGood
<1> QED
  BY <1>2, <1>5 DEF x

LEMMA AddToGood ==
  ASSUME NEW v, NEW h, NEW m, Good(v, h, m), NEW o \in Objs, v.obj[o].where = "free",
         NEW where \in Places, Fits(v.obj[o].lev, where, h, m), now \in Nat,
         v.obj[o].kind = "bag" => where \in BagPlaces,
         where = "contained" =>
           /\ ~MonBag(v)
           /\ \E b \in Objs : v.obj[b].kind = "bag" /\ v.obj[b].lev = v.obj[o].lev
  PROVE  Good(AddTo(v, where, o), h, m)
<1> DEFINE fits == {p \in Live(v) \ {o} : v.obj[p].where = where /\ Mergable(v, p, o)}
           into == CHOOSE p \in fits : TRUE
           x == AddTo(v, where, o)
<1>1. CASE fits = {}
  <2>1. x = PutAt(v, o, where)
    BY <1>1, Zenon DEF AddTo, PutAt, Put
  <2> QED
    BY <2>1, PutGood
<1>2. CASE fits # {}
  <2>1. into \in fits
    BY <1>2
  <2> HIDE DEF into
  <2>2. into \in Objs /\ into # o /\ v.obj[into].where \in Places /\ Mergable(v, into, o)
    BY <2>1 DEF Live
  <2>3. x = Merge(v, into, o)
    BY <1>2, Zenon DEF AddTo, into
  <2>4. Sound(v) /\ v.obj[o].where \in Places
    BY DEF Good, Places
  <2> DEFINE y == Merge(v, into, o)
  <2>5. Sound(y) /\ Joined(v, y, into, o)
    BY <2>2, <2>4, MergeIs
  <2> HIDE DEF x, y
  <2>6. Good(y, h, m)
    BY <2>2, <2>5, JoinedGood
  <2> QED
    BY <2>3, <2>6 DEF x, y
<1> QED
  BY <1>1, <1>2

LEMMA LevelGood ==
  ASSUME NEW v, NEW h, NEW m, Good(v, h, m), NEW o \in Objs, v.obj[o].where = "free",
         NEW l \in Levels
  PROVE  LET x == SetLevel(v, o, l)
         IN /\ Good(x, h, m) /\ x.obj[o].where = "free" /\ x.obj[o].kind = v.obj[o].kind
            /\ x.obj[o].lev = l /\ \A p \in Objs : x.obj[p].where = v.obj[p].where
<1> DEFINE x == SetLevel(v, o, l)
           S == {o} \cup Inside(v, o)
<1>1. Sound(v) /\ v.obj[o].where \in Places \ {"contained"}
  BY DEF Good, Places
<1>2. Sound(x) /\ Only(v, x, S) /\ \A p \in S : Moved(v, x, p, l)
  BY <1>1, SetLevelIs
<1> HIDE DEF x
<1>3. \A p \in Objs : p \in S <=> p = o \/ (v.obj[o].kind = "bag" /\ v.obj[p].where = "contained")
  BY DEF Inside
<1> HIDE DEF S
<1>4. \A p \in Objs : x.obj[p].where = v.obj[p].where /\ x.obj[p].kind = v.obj[p].kind
  BY <1>2 DEF Only, Same, Moved, Kin
<1>5. MonBag(x) <=> MonBag(v)
  BY <1>4 DEF MonBag
<1>6. ASSUME NEW p \in Objs, p \in S
      PROVE  Placed(x, p, h, m)
  <2>1. Clean(v, p) /\ Moved(v, x, p, l)
    BY <1>2, <1>6 DEF Good, Placed
  <2>2. Clean(x, p)
    BY <2>1, CleanKin DEF Moved
  <2>3. ~InMon(x, p)
    BY <1>1, <1>3, <1>4, <1>6 DEF InMon, MonBag, Sound, BagOK
  <2>4. x.obj[p].where \in {"free", "contained"}
    BY <1>3, <1>4, <1>6
  <2> QED
    BY <2>2, <2>3, <2>4 DEF Placed, Stands
<1>7. Good(x, h, m)
  BY <1>2, <1>5, <1>6, GoodStep DEF Only
<1>8. o \in S
  BY <1>3
<1> QED
  BY <1>2, <1>4, <1>7, <1>8 DEF Moved, x

LEMMA LandGood ==
  ASSUME NEW v, NEW h, NEW m, Good(v, h, m), NEW o \in Objs, v.obj[o].where = "free",
         NEW l \in Levels, now \in Nat
  PROVE  LET x == Land(v, o, l)
         IN /\ Good(x, h, m)
            /\ \A p \in Objs : x.obj[p].where = "minvent" => v.obj[p].where = "minvent"
<1> DEFINE u == SetLevel(v, o, l)
           y == PutAt(u, o, "floor")
           fits == {p \in Live(y) \ {o} :
                      y.obj[p].where = "floor" /\ y.obj[p].lev = l /\ Mergable(y, o, p)}
           q == CHOOSE p \in fits : TRUE
           x == IF fits # {} THEN Merge(y, o, q) ELSE y
<1>1. x = Land(v, o, l)
  BY Zenon DEF Land, PutAt, Put
<1>2. /\ Good(u, h, m) /\ u.obj[o].where = "free"
      /\ \A p \in Objs : u.obj[p].where = v.obj[p].where
  BY LevelGood
<1> HIDE DEF u
<1>3. Good(y, h, m) /\ Goes(u, y, o, "floor")
  <2>1. "floor" \in Places /\ Fits(u.obj[o].lev, "floor", h, m) /\ "floor" \in BagPlaces
    BY DEF Places, Fits, BagPlaces
  <2> QED
    BY <1>2, <2>1, PutGood
<1> HIDE DEF y
<1>4. \A p \in Objs : y.obj[p].where = "minvent" => v.obj[p].where = "minvent"
  BY <1>2, <1>3 DEF Goes, Only, Same
<1>5. CASE fits = {}
  BY <1>1, <1>3, <1>4, <1>5
<1>6. CASE fits # {}
  <2>1. q \in fits
    BY <1>6
  <2> HIDE DEF q
  <2>2. q \in Objs /\ q # o /\ y.obj[q].where \in Places /\ Mergable(y, o, q)
    BY <2>1 DEF Live
  <2>3. Sound(y) /\ y.obj[o].where \in Places
    BY <1>3 DEF Good, Goes, Places
  <2> DEFINE z == Merge(y, o, q)
  <2>4. Sound(z) /\ Joined(y, z, o, q)
    BY <2>2, <2>3, MergeIs
  <2>5. x = z
    BY <1>6
  <2> HIDE DEF x, z
  <2>6. Good(z, h, m)
    BY <1>3, <2>2, <2>4, JoinedGood
  <2>7. \A p \in Objs : z.obj[p].where = "minvent" => y.obj[p].where = "minvent"
    BY <2>4 DEF Joined, Only, Same
  <2> QED
    BY <1>1, <1>4, <2>5, <2>6, <2>7
<1> QED
  BY <1>5, <1>6

-----------------------------------------------------------------------------
\* The steps

LEMMA InvIs ==
  ASSUME ObjInv
  PROVE  /\ Good(w, hero, mon) /\ Sound(w) /\ Whole(w) /\ w \in World /\ hero \in Levels
         /\ now \in Nat /\ MaxTime \in Nat /\ mon \in MonType
BY ObjectsAssumption DEF ObjInv, Good, Sound, Whole

\* What is on the floor where the hero is, or in his pack, is on his level.
LEMMA NearIs ==
  ASSUME ObjInv, NEW o \in Objs, Here(o) \/ Held(o)
  PROVE  w.obj[o].where \in {"floor", "invent"} /\ w.obj[o].where \in Places /\ w.obj[o].lev = hero
<1>1. w.obj[o].where \in {"floor", "invent"}
  BY DEF Here, Held
<1>2. Stands(w, o, hero, mon)
  BY InvIs DEF Good, Placed
<1> QED
  BY <1>1, <1>2 DEF Places, Here, Held, Stands

\* What is in the bag that is open is on the hero's level too.
LEMMA OpenIs ==
  ASSUME ObjInv, BagOpen
  PROVE  /\ ~MonBag(w) /\ \A o \in Objs : w.obj[o].where = "contained" => w.obj[o].lev = hero
         /\ \E b \in Objs : w.obj[b].kind = "bag" /\ w.obj[b].lev = hero
<1>1. PICK b \in Objs : w.obj[b].kind = "bag" /\ (Here(b) \/ Held(b))
  BY DEF BagOpen, Bags
<1>2. w.obj[b].where # "minvent" /\ w.obj[b].lev = hero
  BY <1>1, NearIs
<1>3. BagOK(w)
  BY InvIs DEF Sound
<1> QED
  BY <1>1, <1>2, <1>3 DEF BagOK, MonBag

\* Some of o is taken in hand.
InHand(x, o, q) ==
  /\ Good(x, hero, mon) /\ q \in Objs /\ x.obj[q].where = "free"
  /\ x.obj[q].kind = w.obj[o].kind /\ x.obj[q].lev = w.obj[o].lev

LEMMA TakeGood ==
  ASSUME ObjInv, NEW o \in Objs, w.obj[o].where \in Places, w.obj[o].where # "buried",
         ~w.obj[o].strayed => w.obj[o].lev = hero, NEW p \in Parts(w, o)
  PROVE  LET x == Extract(p.v, p.o)
         IN InHand(x, o, p.o) /\ (w.obj[o].kind # "bag" => SameBags(w, x))
<1> DEFINE v == p.v
           q == p.o
           x == Extract(v, q)
<1>1. Good(v, hero, mon) /\ Taken(w, v, o, q)
  BY InvIs, PartsGood
<1> HIDE DEF v, q
<1>2. q \in Objs /\ v.obj[q].where \in Places /\ v.obj[q].where # "buried"
  BY <1>1 DEF Taken
<1>3. Good(x, hero, mon) /\ Goes(v, x, q, "free")
  BY <1>1, <1>2, ExtractGood
<1> HIDE DEF x
<1>4. InHand(x, o, q)
  BY <1>1, <1>2, <1>3 DEF InHand, Goes, Taken
<1>5. w.obj[o].kind # "bag" => SameBags(w, x)
  BY <1>1, <1>3, BagsApart, SameBagsTwice DEF Goes, Taken
<1> QED
  BY <1>4, <1>5, Zenon DEF x, v, q

LEMMA PickUpGood ==
  ASSUME ObjInv, NEW o \in Objs, PickUp(o)
  PROVE  Good(w', hero, mon)
<1>1. PICK p \in Parts(w, o) : w' = AddTo(Extract(p.v, p.o), "invent", p.o)
  BY DEF PickUp
<1> DEFINE x == Extract(p.v, p.o)
           q == p.o
<1>2. w.obj[o].where = "floor" /\ w.obj[o].where \in Places /\ w.obj[o].lev = hero
  BY NearIs DEF PickUp, Here
<1>3. InHand(x, o, q)
  BY <1>2, TakeGood
<1>4. w' = AddTo(x, "invent", q)
  BY <1>1
<1> HIDE DEF x, q
<1>5. Good(AddTo(x, "invent", q), hero, mon)
  <2>1. "invent" \in Places /\ "invent" \in BagPlaces /\ Fits(x.obj[q].lev, "invent", hero, mon)
    BY <1>2, <1>3 DEF Places, BagPlaces, Fits, InHand
  <2> QED
    BY <1>3, <2>1, InvIs, AddToGood DEF InHand
<1> QED
  BY <1>4, <1>5

LEMMA DropGood ==
  ASSUME ObjInv, NEW o \in Objs, Drop(o)
  PROVE  Good(w', hero, mon)
<1>1. PICK p \in Parts(w, o) : w' = Land(Extract(p.v, p.o), p.o, hero)
  BY DEF Drop
<1> DEFINE x == Extract(p.v, p.o)
           q == p.o
<1>2. w.obj[o].where = "invent" /\ w.obj[o].where \in Places /\ w.obj[o].lev = hero
  BY NearIs DEF Drop, Held
<1>3. InHand(x, o, q)
  BY <1>2, TakeGood
<1>4. w' = Land(x, q, hero)
  BY <1>1
<1> HIDE DEF x, q
<1>5. Good(Land(x, q, hero), hero, mon)
  BY <1>3, InvIs, LandGood DEF InHand
<1> QED
  BY <1>4, <1>5

LEMMA PutInGood ==
  ASSUME ObjInv, NEW o \in Objs, NEW where \in {"contained", "chest"}, PutIn(o, where)
  PROVE  Good(w', hero, mon)
<1>1. PICK p \in Parts(w, o) : w' = AddTo(EndBurn(Extract(p.v, p.o), p.o, TRUE), where, p.o)
  BY DEF PutIn
<1> DEFINE x == Extract(p.v, p.o)
           q == p.o
           y == EndBurn(x, q, TRUE)
<1>2. w.obj[o].where = "invent" /\ w.obj[o].where \in Places /\ w.obj[o].lev = hero
  BY NearIs DEF PutIn, Held
<1>3. InHand(x, o, q) /\ SameBags(w, x)
  BY <1>2, TakeGood DEF PutIn
<1>4. w' = AddTo(y, where, q)
  BY <1>1
<1> HIDE DEF x, q
<1>5. Calmer(x, y, q)
  <2>1. Whole(x) /\ q \in Objs /\ x.obj[q].where \in Places
    BY <1>3 DEF InHand, Good, Sound, Places
  <2> QED
    BY <2>1, InvIs, EndBurnIs
<1> HIDE DEF y
<1>6. /\ Good(y, hero, mon) /\ y.obj[q].where = "free" /\ y.obj[q].lev = hero
      /\ y.obj[q].kind # "bag" /\ x.obj[q].kind # "bag"
  BY <1>2, <1>3, <1>5, CalmerGood DEF Calmer, Keeps, InHand, PutIn
<1>7. SameBags(w, y)
  BY <1>3, <1>5, <1>6, BagsApart, SameBagsTwice DEF Calmer
<1>8. where = "contained" => /\ ~MonBag(y)
                             /\ \E b \in Objs : y.obj[b].kind = "bag" /\ y.obj[b].lev = hero
  BY <1>7, OpenIs DEF PutIn, SameBags, MonBag
<1>9. Good(AddTo(y, where, q), hero, mon)
  <2>1. where \in Places /\ Fits(y.obj[q].lev, where, hero, mon) /\ q \in Objs
    BY <1>3, <1>6 DEF Places, Fits, InHand
  <2> QED
    BY <1>6, <1>8, <2>1, InvIs, AddToGood
<1> QED
  BY <1>4, <1>9

LEMMA TakeOutGood ==
  ASSUME ObjInv, NEW o \in Objs, TakeOut(o)
  PROVE  Good(w', hero, mon)
<1>1. PICK p \in Parts(w, o) :
        LET x == Extract(p.v, p.o)
        IN w' = AddTo(IF w.obj[o].where = "chest" THEN SetLevel(x, p.o, hero) ELSE x,
                      "invent", p.o)
  BY DEF TakeOut
<1> DEFINE x == Extract(p.v, p.o)
           q == p.o
           y == IF w.obj[o].where = "chest" THEN SetLevel(x, q, hero) ELSE x
<1>2. w' = AddTo(y, "invent", q)
  BY <1>1
<1>3. w.obj[o].where \in {"chest", "contained"} /\ w.obj[o].where \in Places
  BY DEF TakeOut, Places
<1>4. w.obj[o].where = "contained" \/ ~w.obj[o].strayed => w.obj[o].lev = hero
  <2>1. Stands(w, o, hero, mon)
    BY InvIs DEF Good, Placed
  <2> QED
    BY <1>3, <2>1, OpenIs DEF Stands, TakeOut
<1>6. InHand(x, o, q)
  BY <1>3, <1>4, TakeGood
<1> HIDE DEF x, q
<1>7. Good(y, hero, mon) /\ y.obj[q].where = "free" /\ y.obj[q].lev = hero /\ q \in Objs
  <2>1. CASE w.obj[o].where = "chest"
    <3>1. y = SetLevel(x, q, hero)
      BY <2>1
    <3> QED
      BY <1>6, <3>1, InvIs, LevelGood DEF InHand
  <2>2. CASE w.obj[o].where # "chest"
    BY <1>3, <1>4, <1>6, <2>2 DEF InHand
  <2> QED
    BY <2>1, <2>2
<1> HIDE DEF y
<1>8. Good(AddTo(y, "invent", q), hero, mon)
  <2>1. "invent" \in Places /\ "invent" \in BagPlaces /\ Fits(y.obj[q].lev, "invent", hero, mon)
    BY <1>7 DEF Places, BagPlaces, Fits
  <2> QED
    BY <1>7, <2>1, InvIs, AddToGood
<1> QED
  BY <1>2, <1>8

\* An object is freed with what is in it.
LEMMA FreeGood ==
  ASSUME NEW v, NEW h, NEW m, NEW o \in Objs, GoodBut(v, o, h, m), v.obj[o].where \in Places
  PROVE  Good(Free(v, o), h, m)
<1> DEFINE x == Free(v, o)
           S == {o} \cup Inside(v, o)
<1>1. Sound(v)
  BY DEF GoodBut
<1>2. Sound(x) /\ Only(v, x, S) /\ \A p \in S : x.obj[p].where = "gone" /\ x.obj[p].kind = "none"
  BY <1>1, FreeIs
<1> HIDE DEF x
<1>3. \A p \in Objs \ S : Placed(v, p, h, m)
  BY DEF GoodBut, Placed
<1> HIDE DEF S
<1>4. Good(x, h, m)
  BY <1>2, <1>3, GoneGood
<1> QED
  BY <1>4 DEF x

\* rot_corpse, useup and a candle that has burned down
LEMMA FreeOutGood ==
  ASSUME NEW v, NEW h, NEW m, NEW o \in Objs, GoodBut(v, o, h, m), v.obj[o].where \in Places
  PROVE  Good(Free(Extract(v, o), o), h, m)
<1> DEFINE x == Extract(v, o)
<1>1. Sound(v)
  BY DEF GoodBut
<1>2. Sound(x) /\ Goes(v, x, o, "free")
  BY <1>1, ExtractIs
<1> HIDE DEF x
<1>3. GoodBut(x, o, h, m)
  BY <1>2, GoesGood DEF Fits
<1>4. x.obj[o].where \in Places
  BY <1>2 DEF Goes, Places
<1> QED
  BY <1>3, <1>4, FreeGood DEF x

Fewer(v, o, n) == [v EXCEPT !.obj = [v.obj EXCEPT ![o] = Counted(v.obj[o], n)]]

LEMMA UseUpGood ==
  ASSUME ObjInv, NEW o \in Objs, UseUp(o)
  PROVE  Good(w', hero, mon)
<1> DEFINE a == w.obj[o]
           n == a.quan - 1
           x == Fewer(w, o, n)
           y == Counted(a, n)
<1>1. a.where \in Places /\ a \in ObjType /\ a.quan \in Nat
  BY InvIs, NearIs, WorldIs, ObjIs DEF UseUp
<1>2. CASE a.quan > 1
  <2>1. w' = x
    BY <1>2 DEF UseUp, Fewer, Counted
  <2>2. n \in Nat /\ n >= 1
    BY <1>1, <1>2
  <2>3. x = Change(w, o, y)
    BY InvIs DEF Fewer, Change, Set, Build, World
  <2> HIDE DEF x
  <2>4. y \in ObjType /\ y.where = a.where /\ y.quan = n /\ Alike(a, y)
    BY <1>1, <2>2, CountedIs
  <2> HIDE DEF y, n
  <2>5. Whole(x)
    BY <1>1, <2>2, <2>3, <2>4, InvIs, ChangeFine
  <2>6. Only(w, x, {o}) /\ x.obj[o] = y /\ TimersIn(x, o) = TimersIn(w, o)
    BY <2>3, <2>4, InvIs, ChangeIs
  <2>7. Alike(a, x.obj[o]) /\ x.obj[o].where = a.where
    BY <2>4, <2>6
  <2>8. a.kind # "bag"
    BY <1>2, InvIs DEF Sound, BagOK
  <2>9. Good(x, hero, mon)
    <3>1. \A p \in Objs : p # o => x.obj[p] = w.obj[p]
      BY <2>6 DEF Only, Same
    <3>2. \A p \in Objs : /\ x.obj[p].kind = w.obj[p].kind /\ x.obj[p].where = w.obj[p].where
                          /\ x.obj[p].lev = w.obj[p].lev
      BY <2>7, <3>1 DEF Alike
    <3>3. \A p \in Objs : w.obj[p].kind = "bag" \/ x.obj[p].kind = "bag" => x.obj[p] = w.obj[p]
      BY <2>7, <2>8, <3>1 DEF Alike
    <3>4. BagOK(w) /\ \A p \in Objs : w.obj[p].kind = "bag" => w.obj[p].where \in BagPlaces
      BY InvIs DEF Sound, BagOK
    <3>5. BagOK(x)
      BY <3>2, <3>3, <3>4, BagKept
    <3>6. MonBag(x) => MonBag(w)
      BY <3>2 DEF MonBag
    <3>7. Placed(w, o, hero, mon)
      BY InvIs DEF Good
    <3>8. Placed(x, o, hero, mon)
      BY <2>6, <2>7, <3>6, <3>7 DEF Placed, Stands, Clean, InMon, Alike
    <3> QED
      BY <2>5, <2>6, <3>5, <3>6, <3>8, InvIs, GoodStep DEF Only, Sound
  <2> QED
    BY <2>1, <2>9
<1>3. CASE ~(a.quan > 1)
  <2>1. w' = Free(Extract(w, o), o)
    BY <1>3 DEF UseUp
  <2> QED
    BY <1>1, <2>1, InvIs, GoodIsBut, FreeOutGood
<1> QED
  BY <1>2, <1>3

LEMMA BuryGood ==
  ASSUME ObjInv, NEW o \in Objs, Bury(o)
  PROVE  Good(w', hero, mon)
<1> DEFINE u == EndBurn(w, o, TRUE)
           x == Extract(u, o)
           z == StartTimer(x, o, RotTime, "organic")
<1>1. PICK y \in {x} \cup IF w.obj[o].kind = "candle" THEN {z} ELSE {} :
        w' = [y EXCEPT !.obj[o].where = "buried"]
  BY DEF Bury
<1>2. w' = PutAt(y, o, "buried") /\ y \in {x, z}
  BY <1>1, Zenon DEF PutAt, Put
<1>3. w.obj[o].where = "floor" /\ w.obj[o].where \in Places /\ w.obj[o].kind # "bag"
  BY NearIs DEF Bury, Here
<1>4. Calmer(w, u, o)
  BY <1>3, InvIs, EndBurnIs
<1> HIDE DEF u
<1>5. Good(u, hero, mon) /\ u.obj[o].where = "floor" /\ u.obj[o].kind # "bag"
  BY <1>3, <1>4, InvIs, CalmerGood DEF Calmer, Keeps
<1>6. GoodBut(x, o, hero, mon) /\ Goes(u, x, o, "free") /\ Good(x, hero, mon)
  BY <1>3, <1>5, ExtractGood
<1> HIDE DEF x
<1>7. Whole(x) /\ x.obj[o].where = "free" /\ x.obj[o].where \in Places /\ x.obj[o].kind # "bag"
  BY <1>5, <1>6 DEF Good, Sound, Goes, Places
<1>8. Whole(z) /\ Only(x, z, {o}) /\ Keeps(x, z, o)
  <2>1. Clean(x, o)
    BY <1>6 DEF Good, Placed
  <2>2. ~x.obj[o].strayed => \A t \in TimersIn(x, o) : t.func # "organic"
    BY <1>7, <2>1, CleanIs
  <2> QED
    BY <1>7, <2>2, InvIs, StartTimerIs
<1> HIDE DEF z
<1>9. /\ GoodBut(y, o, hero, mon) /\ y.obj[o].where = "free" /\ y.obj[o].kind # "bag"
  <2>1. CASE y = x
    BY <1>6, <1>7, <2>1
  <2>2. CASE y = z
    <3>1. GoodBut(z, o, hero, mon)
      BY <1>6, <1>8, KeepsGood
    <3> QED
      BY <1>7, <1>8, <2>2, <3>1 DEF Keeps
  <2> QED
    BY <1>2, <2>1, <2>2
<1> DEFINE b == PutAt(y, o, "buried")
<1>10. Whole(b) /\ Goes(y, b, o, "buried")
  <2>1. Whole(y) /\ y.obj[o].where \in Places /\ "buried" \in Places
    BY <1>9 DEF GoodBut, Sound, Places
  <2> QED
    BY <2>1, PutAtIs
<1>11. w' = b
  BY <1>2
<1> HIDE DEF b
<1>12. Sound(b)
  BY <1>9, <1>10, GoesSound DEF GoodBut
<1>13. GoodBut(b, o, hero, mon)
  BY <1>9, <1>10, <1>12, GoesGood DEF Fits
<1>14. Clean(b, o)
  BY <1>10, CleanGoes
<1> QED
  BY <1>11, <1>13, <1>14, GoodIsBut

LEMMA UnearthGood ==
  ASSUME ObjInv, NEW o \in Objs, Unearth(o)
  PROVE  Good(w', hero, mon)
<1> DEFINE x == Extract(w, o)
           y == StopTimer(x, o, "organic")
<1>1. w' = Land(y, o, hero) /\ w.obj[o].where = "buried" /\ w.obj[o].where \in Places
  BY DEF Unearth, Places
<1>2. GoodBut(x, o, hero, mon) /\ Goes(w, x, o, "free")
  BY <1>1, InvIs, ExtractGood
<1> HIDE DEF x
<1>3. x.obj[o].where = "free" /\ x.obj[o].where \in Places /\ Whole(x)
  BY <1>2 DEF Goes, Places, GoodBut, Sound
<1>4. Calmer(x, y, o) /\ (~x.obj[o].strayed => \A t \in TimersIn(y, o) : t.func # "organic")
  BY <1>3, InvIs, StopTimerIs
<1> HIDE DEF y
<1>5. GoodBut(y, o, hero, mon)
  BY <1>2, <1>4, KeepsGood DEF Calmer
<1>6. Clean(y, o) /\ y.obj[o].where = "free"
  BY <1>3, <1>4 DEF Clean, Calmer, Keeps
<1>7. Good(y, hero, mon)
  BY <1>5, <1>6, GoodIsBut
<1> QED
  BY <1>1, <1>6, <1>7, InvIs, LandGood

\* An object that is taken from the floor or from the monster
LEMMA LooseGood ==
  ASSUME ObjInv, NEW o \in Objs, w.obj[o].where \in {"floor", "minvent"}
  PROVE  LET x == Extract(w, o)
         IN /\ Good(x, hero, mon) /\ x.obj[o].where = "free" /\ x.obj[o].lev = w.obj[o].lev
            /\ x.obj[o].kind = w.obj[o].kind
<1>1. w.obj[o].where \in Places
  BY DEF Places
<1>2. Good(Extract(w, o), hero, mon) /\ Goes(w, Extract(w, o), o, "free")
  BY <1>1, InvIs, ExtractGood
<1> QED
  BY <1>2 DEF Goes

LEMMA FallGood ==
  ASSUME ObjInv, NEW o \in Objs, NEW l \in Levels, Fall(o, l)
  PROVE  Good(w', hero, mon)
BY LooseGood, InvIs, LandGood DEF Fall, Here

LEMMA MonDropGood ==
  ASSUME ObjInv, NEW o \in Objs, MonDrop(o)
  PROVE  Good(w', hero, mon)
BY LooseGood, InvIs, LandGood DEF MonDrop, Carried

LEMMA MonPickGood ==
  ASSUME ObjInv, NEW o \in Objs, MonPick(o)
  PROVE  Good(w', hero, mon)
<1> DEFINE x == Extract(w, o)
<1>1. w' = AddTo(x, "minvent", o) /\ w.obj[o].where = "floor" /\ w.obj[o].lev = hero
  BY DEF MonPick, Here
<1>2. Good(x, hero, mon) /\ x.obj[o].where = "free" /\ x.obj[o].lev = hero
  BY <1>1, LooseGood
<1> HIDE DEF x
<1>3. "minvent" \in Places /\ "minvent" \in BagPlaces /\ Fits(hero, "minvent", hero, mon)
  BY DEF Places, BagPlaces, Fits, WithMon, MonPick, MonHere
<1> QED
  BY <1>1, <1>2, <1>3, InvIs, AddToGood

LEMMA MonLeavesGood ==
  ASSUME ObjInv, NEW l \in Levels, MonLeaves(l)
  PROVE  Good(w', hero, mon') /\ mon' \in MonType
<1>1. w' = w /\ mon.st = "here" /\ mon.lev = hero /\ mon' = [st |-> "limbo", lev |-> l]
  BY DEF MonLeaves, MonHere
<1>2. ASSUME NEW p \in Objs
      PROVE  Placed(w, p, hero, mon')
  <2>1. Placed(w, p, hero, mon)
    BY InvIs DEF Good
  <2> QED
    BY <1>1, <2>1 DEF Placed, Stands, WithMon
<1> QED
  BY <1>1, <1>2, InvIs DEF Good, MonType

-----------------------------------------------------------------------------
\* run_timers: a timer goes, and its object burns or rots.

Old(x, age) == [x EXCEPT !.age = age]
Aged(v, o, age) == [v EXCEPT !.obj = [v.obj EXCEPT ![o] = Old(v.obj[o], age)]]

LEMMA OldIs ==
  ASSUME NEW x \in ObjType, NEW age \in Int
  PROVE  LET y == Old(x, age)
         IN /\ y \in ObjType /\ y.age = age /\ Alike(x, y) /\ y.where = x.where
            /\ y.quan = x.quan
BY DEF Old, ObjType, Alike

LEMMA LooseAlike ==
  ASSUME NEW x, NEW y, NEW T, NEW R, Loose(x, T, R), Alike(x, y), y.where = x.where,
         y.quan = x.quan
  PROVE  Loose(y, T, R)
BY DEF Loose, Alike

LEMMA AgedIs ==
  ASSUME NEW v \in World, NEW o \in Objs, LooseAt(v, o), NEW age \in Int
  PROVE  LET x == Aged(v, o, age)
         IN /\ x \in World /\ Only(v, x, {o}) /\ Keeps(v, x, o) /\ LooseAt(x, o)
            /\ x.obj[o].age = age /\ x.obj[o].lit = v.obj[o].lit
            /\ TimersIn(x, o) = TimersIn(v, o)
<1> DEFINE a == v.obj[o]
           y == Old(a, age)
           x == Aged(v, o, age)
<1>1. a \in ObjType
  BY WorldIs
<1>2. y \in ObjType /\ y.age = age /\ Alike(a, y) /\ y.where = a.where /\ y.quan = a.quan
  BY <1>1, OldIs
<1>3. x = Change(v, o, y)
  BY DEF Aged, Change, Set, Build, World
<1> HIDE DEF y, x
<1>4. /\ Only(v, x, {o}) /\ x.obj[o] = y
      /\ TimersIn(x, o) = TimersIn(v, o) /\ Rays(x, o) = Rays(v, o)
  BY <1>2, <1>3, ChangeIs
<1>5. LooseAt(x, o)
  <2>1. Loose(y, TimersIn(v, o), Rays(v, o))
    BY <1>2, LooseAlike DEF LooseAt
  <2> QED
    BY <1>4, <2>1, Zenon DEF LooseAt
<1>6. Keeps(v, x, o) /\ x.obj[o].lit = v.obj[o].lit /\ x.obj[o].age = age
  BY <1>2, <1>4 DEF Keeps, Alike
<1> QED
  BY <1>4, <1>5, <1>6, Zenon DEF x, Only

LEMMA KeepsTwice ==
  \A v, x, y, o : Keeps(v, x, o) /\ Keeps(x, y, o) => Keeps(v, y, o)
BY DEF Keeps

LEMMA OnlyTwice ==
  ASSUME NEW v, NEW x, NEW y, NEW S, Only(v, x, S), Only(x, y, S)
  PROVE  Only(v, y, S)
BY SameTwice DEF Only

LEMMA BurnGood ==
  ASSUME ObjInv, NEW o \in Objs, NEW t \in TimersIn(w, o), t.lev = hero, t.at \in Nat,
         w.obj[o].where # "gone"
  PROVE  LET v == Untimed(w, o, t)
         IN Good(IF t.func = "burn" THEN BurnObject(v, o, t.at) ELSE Free(Extract(v, o), o),
                 hero, mon)
<1> DEFINE v == Untimed(w, o, t)
           a == w.obj[o]
<1>1. t \in TimersIn(w, o) /\ t.lev = hero /\ o \in Objs /\ t.at \in Nat
  OBVIOUS
<1>2. FineAt(w, o) /\ a \in ObjType
  BY <1>1, InvIs, WorldIs DEF Whole
<1>3. a.where \in Places
  BY <1>1, <1>2, ObjIs DEF FineAt, Fine, Nothing
<1>4. a.lev \in Levels /\ (~a.strayed => a.lev = hero)
  BY <1>1, <1>2, <1>3 DEF FineAt, Fine, Tracked
<1>5. /\ Only(w, v, {o}) /\ Keeps(w, v, o) /\ v.obj[o].lit = a.lit /\ v.obj[o].age = a.age
      /\ TimersIn(v, o) = TimersIn(w, o) \ {t}
      /\ t.func # "burn" => FineAt(v, o)
      /\ t.func = "burn" => LooseAt(v, o) /\ (~a.strayed => a.lit)
  <2>1. Whole(w) /\ o \in Objs /\ w.obj[o].where \in Places /\ t \in TimersIn(w, o)
    BY <1>1, <1>3, InvIs
  <2> QED
    BY <2>1, FineUntimed
<1> HIDE DEF v
<1>6. CASE t.func # "burn"
  <2>1. Whole(v)
    BY <1>5, <1>6, InvIs, WholeStep DEF Only
  <2>2. GoodBut(v, o, hero, mon)
    BY <1>1, <1>5, <2>1, InvIs, GoodIsBut, KeepsGood
  <2>3. v.obj[o].where \in Places
    BY <1>3, <1>5 DEF Keeps
  <2> QED
    BY <1>1, <1>6, <2>2, <2>3, FreeOutGood DEF v
<1>7. CASE t.func = "burn"
  <2> DEFINE left == v.obj[o].age - (now - t.at)
             x == Aged(v, o, 0)
             u == EndBurn(x, o, FALSE)
             y == Aged(v, o, left)
             z == BeginBurn(y, o, TRUE)
  <2>1. v \in World /\ LooseAt(v, o) /\ left \in Int
    <3>1. v.obj[o].age \in Int
      BY <1>2, <1>5, ObjIs
    <3> QED
      BY <1>1, <1>5, <1>7, <3>1, InvIs DEF Only
  <2>2. BurnObject(v, o, t.at) =
          IF left <= 0 THEN IF v.obj[o].kind = "candle" THEN Free(Extract(u, o), o) ELSE u ELSE z
    BY Zenon DEF BurnObject, BurnOut, Aged, Old
  <2> HIDE DEF left
  <2>3. /\ x \in World /\ Only(v, x, {o}) /\ Keeps(v, x, o) /\ LooseAt(x, o)
        /\ TimersIn(x, o) = TimersIn(v, o)
    <3>1. 0 \in Int
      OBVIOUS
    <3> QED
      BY <1>1, <2>1, <3>1, AgedIs, Zenon
  <2>4. /\ y \in World /\ Only(v, y, {o}) /\ Keeps(v, y, o) /\ LooseAt(y, o)
        /\ y.obj[o].age = left /\ y.obj[o].lit = v.obj[o].lit
        /\ TimersIn(y, o) = TimersIn(v, o)
    BY <1>1, <2>1, AgedIs, Zenon
  <2> HIDE DEF x, y
  <2>5. /\ Only(x, u, {o}) /\ Keeps(x, u, o) /\ FineAt(u, o) /\ TimersIn(u, o) = TimersIn(x, o)
    BY <1>1, <2>3, PutOutIs
  <2> HIDE DEF u
  <2>6. ASSUME NEW b, Only(v, b, {o}), Keeps(v, b, o), FineAt(b, o),
               \A s \in TimersIn(b, o) : s \in TimersIn(v, o) \/ s.func = "burn"
        PROVE  Good(b, hero, mon) /\ b.obj[o].where \in Places
    <3>1. Only(w, b, {o}) /\ Keeps(w, b, o)
      BY <1>5, <2>6, OnlyTwice, KeepsTwice
    <3>2. Whole(b)
      BY <2>6, <3>1, InvIs, WholeStep DEF Only
    <3>3. GoodBut(b, o, hero, mon)
      BY <1>1, <3>1, <3>2, InvIs, GoodIsBut, KeepsGood
    <3>4. Clean(w, o)
      BY <1>1, InvIs DEF Good, Placed
    <3>5. Clean(b, o)
      BY <1>5, <2>6, <3>1, <3>4 DEF Clean, Keeps
    <3> QED
      BY <1>3, <3>1, <3>3, <3>5, GoodIsBut DEF Keeps
  <2>7. CASE left <= 0
    <3>1. Only(v, u, {o}) /\ Keeps(v, u, o)
      BY <2>3, <2>5, OnlyTwice, KeepsTwice
    <3>2. Good(u, hero, mon) /\ u.obj[o].where \in Places
      BY <2>3, <2>5, <2>6, <3>1
    <3>3. Good(Free(Extract(u, o), o), hero, mon)
      BY <1>1, <3>2, GoodIsBut, FreeOutGood
    <3> QED
      BY <1>7, <2>2, <2>7, <3>2, <3>3 DEF v
  <2>8. CASE ~(left <= 0)
    <3>1. /\ Only(y, z, {o}) /\ Keeps(y, z, o) /\ FineAt(z, o)
          /\ \A s \in TimersIn(z, o) : s \in TimersIn(y, o) \/ s.func = "burn"
      <4>1. ~y.obj[o].strayed => y.obj[o].lev = hero /\ y.obj[o].lit = TRUE
        <5>1. a.lit \in BOOLEAN
          BY <1>2, ObjIs
        <5> QED
          BY <1>4, <1>5, <1>7, <2>4, <5>1 DEF Keeps
      <4>2. y.obj[o].age > 0
        BY <2>1, <2>4, <2>8
      <4> QED
        BY <1>1, <2>4, <4>1, <4>2, InvIs, BeginBurnIs
    <3> HIDE DEF z
    <3>2. Only(v, z, {o}) /\ Keeps(v, z, o)
      BY <2>4, <3>1, OnlyTwice, KeepsTwice
    <3>3. Good(z, hero, mon)
      BY <2>4, <2>6, <3>1, <3>2
    <3> QED
      BY <1>7, <2>2, <2>8, <3>3 DEF v
  <2> QED
    BY <2>7, <2>8
<1> QED
  BY <1>6, <1>7

LEMMA FireGood ==
  ASSUME ObjInv, Fire
  PROVE  Good(w', hero, mon)
<1> DEFINE x == [w EXCEPT !.ub = TRUE]
           V(t) == Untimed(w, t.o, t)
<1>1. PICK t \in Due :
        w' = IF w.obj[t.o].where = "gone" THEN x
             ELSE IF t.func = "burn" THEN BurnObject(V(t), t.o, t.at)
             ELSE Free(Extract(V(t), t.o), t.o)
  BY Zenon DEF Fire, Untimed, Lessened
<1> DEFINE v == V(t)
           o == t.o
<1>2. w' = IF w.obj[o].where = "gone" THEN x
           ELSE IF t.func = "burn" THEN BurnObject(v, o, t.at) ELSE Free(Extract(v, o), o)
  BY <1>1
<1>3. CASE w.obj[o].where = "gone"
  <2>1. x \in World /\ x.obj = w.obj /\ x.timers = w.timers /\ x.lights = w.lights
    BY InvIs DEF World
  <2> HIDE DEF x
  <2>2. \A p \in Objs : Same(w, x, p)
    BY <2>1 DEF Same, TimersIn, Rays
  <2>3. Whole(x)
    BY <2>1, <2>2, InvIs, WholeStep
  <2>4. Sound(x)
    BY <2>1, <2>3, InvIs DEF Sound, BagOK
  <2>5. MonBag(x) => MonBag(w)
    BY <2>1 DEF MonBag
  <2>6. Good(x, hero, mon)
    BY <2>2, <2>4, <2>5, InvIs, GoodStep
  <2> QED
    BY <1>2, <1>3, <2>6
<1>4. CASE w.obj[o].where # "gone"
  <2>1. /\ o \in Objs /\ t \in TimersIn(w, o) /\ t.lev = hero /\ t.at \in Nat
        /\ v = Untimed(w, o, t)
    BY InvIs, WorldIs, TimerIs DEF Due, TimersIn, Of
  <2> HIDE DEF v, o
  <2> QED
    BY <1>2, <1>4, <2>1, BurnGood
<1> QED
  BY <1>3, <1>4

-----------------------------------------------------------------------------
\* goto_level: timers and lights of what is not local move from level h to l.

Luggage(h) == [timed |-> 1, lev |-> h, lit |-> TRUE]
Stray(x) == [x EXCEPT !.strayed = TRUE]

LEMMA StrayIs ==
  ASSUME NEW x \in ObjType
  PROVE  LET y == Stray(x)
         IN /\ y \in ObjType /\ y.strayed = TRUE /\ y.where = x.where /\ y.lev = x.lev
            /\ y.kind = x.kind /\ y.quan = x.quan /\ y.timed = x.timed
BY DEF Stray, ObjType

LEMMA LuggageIs ==
  \A h : Luggage(h).timed > 0 /\ Luggage(h).lev = h /\ Luggage(h).lit
BY DEF Luggage

LEMMA MovedAlike ==
  ASSUME NEW x, NEW z, x.timed > 0, z.timed > 0, x.lev = z.lev, NEW T, NEW l
  PROVE  MovedTimers(x, T, l) = MovedTimers(z, T, l)
<1>1. \A t \in T : MovedTimer(x, t, l) = MovedTimer(z, t, l)
  BY DEF MovedTimer
<1> QED
  BY <1>1 DEF MovedTimers

LEMMA LitRays ==
  ASSUME NEW z, NEW l \in Levels, z.lit, z.lev # l, NEW R
  PROVE  MovedRays(z, R, l) =
           [k \in Levels |-> IF k = l THEN R[l] + R[z.lev] ELSE IF k = z.lev THEN 0 ELSE R[k]]
BY DEF MovedRays

\* The timers and the rays of one object, after both parts of the move
LEMMA TwiceMoved ==
  ASSUME NEW z, NEW x, z.timed > 0, z.lit, z.lev = x.lev, z.lev \in Levels, NEW l \in Levels,
         z.lev # l, NEW T \in SUBSET TimerType, NEW R \in [Levels -> Nat]
  PROVE  LET U == MovedTimers(z, T, l)
             Q == MovedRays(z, R, l)
         IN MovedTimers(x, U, l) = U /\ MovedRays(x, Q, l) = Q
<1> DEFINE U == MovedTimers(z, T, l)
           Q == MovedRays(z, R, l)
<1>1. ASSUME NEW t \in T
      PROVE  MovedTimer(z, t, l).lev # z.lev
  BY DEF MovedTimer, TimerType
<1>2. \A u \in U : u.lev # z.lev
  BY <1>1 DEF MovedTimers
<1>3. Q = [k \in Levels |-> IF k = l THEN R[l] + R[z.lev] ELSE IF k = z.lev THEN 0 ELSE R[k]]
  BY LitRays
<1>4. Q[z.lev] = 0 /\ \A k \in Levels : Q[k] \in Nat
  BY <1>3
<1>5. Q = [k \in Levels |-> Q[k]]
  BY <1>3
<1> HIDE DEF U, Q
<1>6. \A t \in U : MovedTimer(x, t, l) = t
  BY <1>2 DEF MovedTimer
<1>7. MovedTimers(x, U, l) = U
  BY <1>6 DEF MovedTimers
<1>8. MovedRays(x, Q, l) = Q
  BY <1>4, <1>5 DEF MovedRays
<1> QED
  BY <1>7, <1>8 DEF U, Q

\* What the hero carries, now on the new level
LEMMA FineOwn ==
  ASSUME NEW x \in ObjType, NEW T \in SUBSET TimerType, NEW R \in [Levels -> Nat], Fine(x, T, R),
         x.where \in Places, NEW l \in Levels, x.lev # l
  PROVE  Fine(Leveled(x, l), MovedTimers(Luggage(x.lev), T, l), MovedRays(Luggage(x.lev), R, l))
<1> DEFINE y == Leveled(x, l)
           h == x.lev
           U == MovedTimers(x, T, l)
           Q == MovedRays(x, R, l)
           V == MovedTimers(Luggage(h), T, l)
           P == MovedRays(Luggage(h), R, l)
<1>1. /\ y \in ObjType /\ y.lev = l /\ y.where = x.where /\ y.kind = x.kind
      /\ y.quan = x.quan /\ y.timed = x.timed /\ y.lit = x.lit /\ y.strayed = x.strayed
  BY LeveledIs
<1> HIDE DEF y
<1>2. Fine(y, U, Q)
  BY <1>1, FineMoved
<1>3. /\ x.timed > 0 => U = V
      /\ \A k \in Levels : P[k] = IF k = l THEN R[l] + R[h] ELSE IF k = h THEN 0 ELSE R[k]
  <2> DEFINE z == Luggage(h)
  <2>1. z.timed > 0 /\ z.lev = h /\ z.lit
    BY LuggageIs
  <2> HIDE DEF z
  <2> QED
    BY <2>1, MovedAlike, LitRays DEF z
<1>4. x.timed \in Nat /\ h \in Levels /\ IsFiniteSet(T) /\ Cardinality(T) <= x.timed
      /\ Cardinality(T) \in Nat
  BY ObjIs, FS_CardinalityType DEF Fine
<1> HIDE DEF V, P
<1>5. U = V
  <2>1. CASE x.timed = 0
    <3>1. T = {}
      BY <1>4, <2>1, FS_EmptySet
    <3> QED
      BY <3>1 DEF MovedTimers, V
  <2>2. CASE x.timed > 0
    BY <1>3, <2>2
  <2> QED
    BY <1>4, <2>1, <2>2
<1>6. ~x.strayed => \A k \in Levels : Q[k] = P[k]
  <2>1. ASSUME ~x.strayed, NEW k \in Levels
        PROVE  Q[k] = P[k]
    <3>1. \A j \in Levels : ~x.lit \/ j # h => R[j] = 0
      BY <2>1 DEF Fine, Tracked
    <3> QED
      BY <1>3, <1>4, <3>1 DEF MovedRays
  <2> QED
    BY <2>1
<1> HIDE DEF U, Q, h
<1>7. Fine(y, V, P)
  BY <1>1, <1>2, <1>5, <1>6 DEF Fine, Tracked
<1> QED
  BY <1>7 DEF y, V, P, h

\* What comes with a monster, or in the chest
LEMMA FineStray ==
  ASSUME NEW x \in ObjType, NEW T \in SUBSET TimerType, NEW R, Fine(x, T, R), x.where \in Places,
         NEW h, NEW l \in Levels, NEW Q
  PROVE  Fine(Stray(x), MovedTimers(Luggage(h), T, l), Q)
<1> DEFINE y == Stray(x)
           U == MovedTimers(Luggage(h), T, l)
<1>1. /\ y \in ObjType /\ y.strayed = TRUE /\ y.where = x.where /\ y.lev = x.lev
      /\ y.kind = x.kind /\ y.quan = x.quan /\ y.timed = x.timed
  BY StrayIs
<1>2. /\ x.timed \in Nat /\ IsFiniteSet(T) /\ Cardinality(T) <= x.timed /\ Cardinality(T) \in Nat
      /\ x.lev \in Levels /\ x.quan >= 1
  BY ObjIs, FS_CardinalityType DEF Fine
<1>3. IsFiniteSet(U) /\ Cardinality(U) <= Cardinality(T)
  BY <1>2, MovedCount
<1>4. Cardinality(U) \in Nat
  BY <1>3, FS_CardinalityType
<1> HIDE DEF y, U
<1>5. Cardinality(U) <= x.timed
  BY <1>2, <1>3, <1>4
<1>6. Fine(y, U, Q)
  BY <1>1, <1>2, <1>3, <1>5 DEF Fine
<1> QED
  BY <1>6 DEF y, U

\* What goes to the new level, and what of it the hero carries
Comes(o, follows) == o \in Live(w) /\ ~IsLocal(o, follows)
Own == {o \in Live(w) : Spot(o) = "invent"}

CarriedTimer(t, l, follows) ==
  IF t.lev = hero /\ Comes(t.o, follows) THEN [t EXCEPT !.lev = l] ELSE t
CarriedObj(o, follows) == IF Comes(o, follows) /\ o \notin Own THEN Stray(w.obj[o]) ELSE w.obj[o]
CarriedLights(k, o, l, follows) ==
  IF ~Comes(o, follows) THEN w.lights[k][o]
  ELSE IF k = hero THEN 0
  ELSE IF k = l THEN w.lights[l][o] + w.lights[hero][o]
  ELSE w.lights[k][o]
Trip(l, follows) ==
  [w EXCEPT !.timers = {CarriedTimer(t, l, follows) : t \in w.timers},
            !.lights = [k \in Levels |-> [o \in Objs |-> CarriedLights(k, o, l, follows)]],
            !.obj = [o \in Objs |-> CarriedObj(o, follows)]]

Tripped(x, o, l) ==
  /\ x.obj[o] = IF o \in Own THEN w.obj[o] ELSE Stray(w.obj[o])
  /\ TimersIn(x, o) = MovedTimers(Luggage(hero), TimersIn(w, o), l)
  /\ Rays(x, o) = MovedRays(Luggage(hero), Rays(w, o), l)

LEMMA TripIs ==
  ASSUME w \in World, hero \in Levels, NEW l \in Levels, l # hero, NEW follows
  PROVE  LET x == Trip(l, follows)
         IN /\ x \in World
            /\ \A o \in Objs : ~Comes(o, follows) => Same(w, x, o)
            /\ \A o \in Objs : Comes(o, follows) => Tripped(x, o, l)
<1> DEFINE C(o) == Comes(o, follows)
           Mv(t) == CarriedTimer(t, l, follows)
           z == Luggage(hero)
           T == {Mv(t) : t \in w.timers}
           N(k, o) == CarriedLights(k, o, l, follows)
           L == [k \in Levels |-> [o \in Objs |-> N(k, o)]]
           O == [o \in Objs |-> CarriedObj(o, follows)]
           x == Trip(l, follows)
<1>1. /\ \A o \in Objs : w.obj[o] \in ObjType
      /\ \A k \in Levels, o \in Objs : w.lights[k][o] \in Nat
      /\ w.timers \in SUBSET TimerType
  BY WorldIs DEF LightType
<1>2. z.timed > 0 /\ z.lev = hero /\ z.lit
  BY LuggageIs
<1> HIDE DEF z
<1>3. ASSUME NEW t \in w.timers
      PROVE  Mv(t) = IF C(t.o) THEN MovedTimer(z, t, l) ELSE t
  BY <1>2 DEF MovedTimer, CarriedTimer
<1>4. ASSUME NEW t \in w.timers
      PROVE  Mv(t) \in TimerType /\ Mv(t).o = t.o
  <2>1. t \in TimerType
    BY <1>1
  <2>2. MovedTimer(z, t, l) \in TimerType /\ MovedTimer(z, t, l).o = t.o
    BY <2>1, MovedTimerIs, Zenon
  <2>3. Mv(t) = IF C(t.o) THEN MovedTimer(z, t, l) ELSE t
    BY <1>3
  <2> HIDE DEF Mv, C
  <2> QED
    BY <2>1, <2>2, <2>3
<1>5. \A o \in Objs : CarriedObj(o, follows) \in ObjType
  BY <1>1, StrayIs DEF CarriedObj
<1>6. T \in SUBSET TimerType
  <2> HIDE DEF Mv
  <2> QED
    BY <1>4
<1>7. L \in LightType
  <2>1. \A k \in Levels, o \in Objs : N(k, o) \in Nat
    BY <1>1 DEF CarriedLights
  <2> HIDE DEF N
  <2> QED
    BY <2>1 DEF LightType
<1>8. O \in [Objs -> ObjType]
  BY <1>5
<1>9. x = [w EXCEPT !.timers = T, !.lights = L, !.obj = O]
  BY Zenon DEF Trip
<1> HIDE DEF x, O, T, L
<1>10. x \in World /\ x.obj = O /\ x.timers = T /\ x.lights = L
  BY <1>6, <1>7, <1>8, <1>9 DEF World
<1> HIDE DEF C, Mv
<1>11. ASSUME NEW o \in Objs, ~C(o)
       PROVE  Same(w, x, o)
  <2>1. x.obj[o] = w.obj[o]
    BY <1>10, <1>11 DEF O, CarriedObj, C
  <2>2. TimersIn(x, o) = TimersIn(w, o)
    <3>1. \A t \in w.timers : t.o = o => Mv(t) = t
      BY <1>3, <1>11
    <3> QED
      BY <1>4, <1>10, <3>1 DEF TimersIn, Of, T
  <2>3. \A k \in Levels : x.lights[k][o] = w.lights[k][o]
    BY <1>10, <1>11 DEF L, CarriedLights, C
  <2> QED
    BY <2>1, <2>2, <2>3 DEF Same, Rays
<1>12. ASSUME NEW o \in Objs, C(o)
       PROVE  Tripped(x, o, l)
  <2>1. x.obj[o] = IF o \in Own THEN w.obj[o] ELSE Stray(w.obj[o])
    BY <1>10, <1>12 DEF O, CarriedObj, C
  <2>2. TimersIn(x, o) = MovedTimers(z, TimersIn(w, o), l)
    <3>1. \A t \in w.timers : t.o = o => Mv(t) = MovedTimer(z, t, l)
      BY <1>3, <1>12
    <3> QED
      BY <1>4, <1>10, <3>1 DEF TimersIn, Of, T, MovedTimers
  <2>3. Rays(x, o) = MovedRays(z, Rays(w, o), l)
    <3>1. ASSUME NEW k \in Levels
          PROVE  x.lights[k][o] = IF k = l THEN Rays(w, o)[l] + Rays(w, o)[hero]
                                  ELSE IF k = hero THEN 0 ELSE Rays(w, o)[k]
      BY <1>10, <1>12 DEF L, CarriedLights, C, Rays
    <3>2. MovedRays(z, Rays(w, o), l) =
            [k \in Levels |-> IF k = l THEN Rays(w, o)[l] + Rays(w, o)[hero]
                              ELSE IF k = hero THEN 0 ELSE Rays(w, o)[k]]
      <4> DEFINE R == Rays(w, o)
      <4> HIDE DEF R
      <4>1. MovedRays(z, R, l) = [k \in Levels |-> IF k = l THEN R[l] + R[z.lev]
                                                   ELSE IF k = z.lev THEN 0 ELSE R[k]]
        BY <1>2, LitRays
      <4> QED
        BY <1>2, <4>1 DEF R
    <3>3. Rays(x, o) = [k \in Levels |-> x.lights[k][o]]
      BY Zenon DEF Rays
    <3> QED
      BY <3>1, <3>2, <3>3
  <2> QED
    BY <2>1, <2>2, <2>3 DEF Tripped, z
<1> QED
  BY <1>10, <1>11, <1>12, Zenon DEF x, C

-----------------------------------------------------------------------------
\* Where an object is, or the bag that it is in

LEMMA SpotIs ==
  ASSUME ObjInv, NEW o \in Live(w)
  PROVE  /\ w.obj[o].where # "contained" => Spot(o) = w.obj[o].where
         /\ w.obj[o].where = "contained" =>
              \E b \in Objs : /\ w.obj[b].kind = "bag" /\ Spot(o) = w.obj[b].where
                              /\ w.obj[b].lev = w.obj[o].lev
<1>1. BagOK(w)
  BY InvIs DEF Sound
<1>2. ASSUME w.obj[o].where = "contained"
      PROVE  \E b \in Objs : /\ w.obj[b].kind = "bag" /\ Spot(o) = w.obj[b].where
                             /\ w.obj[b].lev = w.obj[o].lev
  <2>1. PICK b \in Objs : w.obj[b].kind = "bag" /\ w.obj[b].lev = w.obj[o].lev
    BY <1>1, <1>2 DEF BagOK, Live
  <2>2. w.obj[b].where # "gone"
    BY <1>1, <2>1 DEF BagOK, BagPlaces
  <2>3. b \in Bags(w) /\ \A a \in Bags(w) : a = b
    BY <1>1, <2>1, <2>2 DEF BagOK, Bags
  <2>4. (CHOOSE a \in Bags(w) : TRUE) = b
    BY <2>3
  <2> QED
    BY <1>2, <2>1, <2>4 DEF Spot
<1> QED
  BY <1>2 DEF Spot

LEMMA SpotMon ==
  ASSUME ObjInv
  PROVE  \A o \in Objs : InMon(w, o) <=> o \in Live(w) /\ Spot(o) = "minvent"
<1> SUFFICES ASSUME NEW o \in Objs
             PROVE  InMon(w, o) <=> o \in Live(w) /\ Spot(o) = "minvent"
  OBVIOUS
<1>1. BagOK(w)
  BY InvIs DEF Sound
<1>2. InMon(w, o) => o \in Live(w)
  BY DEF InMon, Live, Places
<1>3. CASE o \in Live(w) /\ w.obj[o].where = "contained"
  <2>1. PICK b \in Objs : /\ w.obj[b].kind = "bag" /\ Spot(o) = w.obj[b].where
    BY <1>3, SpotIs
  <2>2. MonBag(w) <=> w.obj[b].where = "minvent"
    BY <1>1, <2>1 DEF MonBag, BagOK
  <2> QED
    BY <1>3, <2>1, <2>2 DEF InMon
<1>4. CASE o \in Live(w) /\ w.obj[o].where # "contained"
  BY <1>4, SpotIs DEF InMon
<1> QED
  BY <1>2, <1>3, <1>4

\* What the hero carries is on his level, and its bag is in his pack.
LEMMA OwnIs ==
  ASSUME ObjInv, NEW o \in Own
  PROVE  /\ o \in Objs /\ w.obj[o].where \in Places /\ w.obj[o].lev = hero /\ ~InMon(w, o)
         /\ w.obj[o].where \in {"invent", "contained"} /\ \A follows : Comes(o, follows)
<1>1. o \in Live(w) /\ Spot(o) = "invent"
  BY DEF Own
<1>2. o \in Objs /\ w.obj[o].where \in Places
  BY <1>1 DEF Live
<1>3. ~InMon(w, o)
  BY <1>1, <1>2, SpotMon
<1>4. \A b \in Objs : w.obj[b].where = "invent" => w.obj[b].lev = hero
  BY InvIs DEF Good, Placed, Stands
<1>5. w.obj[o].where \in {"invent", "contained"} /\ w.obj[o].lev = hero
  BY <1>1, <1>2, <1>4, SpotIs
<1>6. \A follows : Comes(o, follows)
  BY <1>1 DEF Comes, IsLocal
<1> QED
  BY <1>2, <1>3, <1>5, <1>6

\* What has become of an object that was taken along
Went(y, o, l) ==
  /\ y.obj[o].kind = w.obj[o].kind /\ y.obj[o].where = w.obj[o].where
  /\ y.obj[o].quan = w.obj[o].quan
  /\ \A u \in TimersIn(y, o) : \E t \in TimersIn(w, o) : u.func = t.func
  /\ o \in Own => y.obj[o].lev = l /\ y.obj[o].strayed = w.obj[o].strayed
  /\ o \notin Own => y.obj[o].lev = w.obj[o].lev /\ y.obj[o].strayed = TRUE

LEMMA WentIs ==
  ASSUME ObjInv, NEW l \in Levels, l # hero, NEW follows, NEW o \in Objs, Comes(o, follows),
         NEW x \in World, Tripped(x, o, l), NEW y, o \in Own => Shifted(x, y, o, l),
         o \notin Own => Same(x, y, o)
  PROVE  FineAt(y, o) /\ Went(y, o, l)
<1> DEFINE a == w.obj[o]
           T == TimersIn(w, o)
           R == Rays(w, o)
           z == Luggage(hero)
           U == MovedTimers(z, T, l)
           Q == MovedRays(z, R, l)
<1>1. /\ a \in ObjType /\ T \in SUBSET TimerType /\ R \in [Levels -> Nat]
      /\ Fine(a, T, R) /\ a.where \in Places
  <2>1. /\ w.timers \in SUBSET TimerType /\ w.lights \in LightType /\ w.obj[o] \in ObjType
        /\ FineAt(w, o)
    BY InvIs, WorldIs DEF Whole
  <2> QED
    BY <2>1 DEF TimersIn, Of, Rays, LightType, FineAt, Comes, Live
<1>2. z.timed > 0 /\ z.lev = hero /\ z.lit
  BY LuggageIs
<1>3. \A u \in U : \E t \in T : u.func = t.func
  BY <1>1, MovedFunc
<1>4. /\ x.obj[o] = IF o \in Own THEN a ELSE Stray(a)
      /\ TimersIn(x, o) = U /\ Rays(x, o) = Q
  BY Zenon DEF Tripped
<1>5. CASE o \in Own
  <2>1. a.lev = hero
    BY <1>5, OwnIs
  <2> DEFINE b == Leveled(a, l)
  <2>2. MovedTimers(a, U, l) = U /\ MovedRays(a, Q, l) = Q
    <3> HIDE DEF a, z, T, R
    <3> QED
      BY <1>1, <1>2, <2>1, InvIs, TwiceMoved
  <2>3. Fine(b, U, Q)
    <3>1. a.lev # l /\ z = Luggage(a.lev)
      BY <2>1
    <3> HIDE DEF a, z, T, R
    <3> QED
      BY <1>1, <3>1, FineOwn
  <2>4. y.obj[o] = b /\ TimersIn(y, o) = U /\ Rays(y, o) = Q
    <3>1. x.obj[o] = a
      BY <1>4, <1>5
    <3> QED
      BY <1>4, <1>5, <2>2, <3>1, Zenon DEF Shifted
  <2>5. FineAt(y, o)
    BY <2>3, <2>4, Zenon DEF FineAt
  <2>6. b.kind = a.kind /\ b.where = a.where /\ b.quan = a.quan /\ b.lev = l /\ b.strayed = a.strayed
    BY <1>1, LeveledIs
  <2> HIDE DEF b, U, a, T
  <2> QED
    BY <1>3, <1>5, <2>4, <2>5, <2>6 DEF Went, a, T
<1>6. CASE o \notin Own
  <2> DEFINE b == Stray(a)
  <2>1. Fine(b, U, Q)
    <3> HIDE DEF a, T, R, Q
    <3> QED
      BY <1>1, FineStray
  <2>2. y.obj[o] = b /\ TimersIn(y, o) = U /\ Rays(y, o) = Q
    BY <1>4, <1>6, Zenon DEF Same
  <2>3. FineAt(y, o)
    BY <2>1, <2>2, Zenon DEF FineAt
  <2>4. b.kind = a.kind /\ b.where = a.where /\ b.quan = a.quan /\ b.lev = a.lev /\ b.strayed = TRUE
    BY <1>1, StrayIs
  <2> HIDE DEF b, U, a, T
  <2> QED
    BY <1>3, <1>6, <2>2, <2>3, <2>4 DEF Went, a, T
<1> QED
  BY <1>5, <1>6

LEMMA LeaveGood ==
  ASSUME ObjInv, NEW l \in Levels, NEW follows \in BOOLEAN, Leave(l, follows)
  PROVE  Good(w', l, mon') /\ mon' \in MonType
<1> DEFINE x == Trip(l, follows)
           y == SetLevels(x, Own, l)
           m == IF follows \/ (mon.st = "limbo" /\ mon.lev = l)
                THEN [st |-> "here", lev |-> l] ELSE mon
<1>1. w' = y /\ mon' = m
  BY Zenon DEF Leave, Trip, CarriedTimer, CarriedLights, CarriedObj, Comes, Own, Stray
<1>2. l # hero /\ (follows => MonHere)
  BY DEF Leave
<1>3. /\ x \in World
      /\ \A o \in Objs : ~Comes(o, follows) => Same(w, x, o)
      /\ \A o \in Objs : Comes(o, follows) => Tripped(x, o, l)
  BY <1>2, InvIs, TripIs
<1> HIDE DEF x
<1>4. Only(x, y, Own) /\ \A o \in Own : Shifted(x, y, o, l)
  <2>1. Own \in SUBSET Objs /\ \A o \in Own : x.obj[o].lev \in Levels
    BY <1>3, InvIs, OwnIs DEF Tripped
  <2> QED
    BY <1>3, <2>1, SetLevelsShift
<1> HIDE DEF y
<1>5. ASSUME NEW o \in Objs, Comes(o, follows)
      PROVE  FineAt(y, o) /\ Went(y, o, l)
  BY <1>2, <1>3, <1>4, <1>5, WentIs DEF Only
<1>6. ASSUME NEW o \in Objs, ~Comes(o, follows)
      PROVE  Same(w, y, o) /\ o \notin Own
  BY <1>3, <1>4, <1>6, OwnIs, SameTwice DEF Only
<1>7. Whole(y)
  BY <1>4, <1>5, <1>6, InvIs, WholeStep DEF Only
<1>8. ASSUME NEW o \in Objs
      PROVE  /\ y.obj[o].kind = w.obj[o].kind /\ y.obj[o].where = w.obj[o].where
             /\ y.obj[o].quan = w.obj[o].quan
             /\ y.obj[o].lev = IF o \in Own THEN l ELSE w.obj[o].lev
             /\ ~y.obj[o].strayed => ~w.obj[o].strayed /\ (o \in Own \/ ~Comes(o, follows))
  <2>1. CASE Comes(o, follows)
    BY <1>5, <2>1 DEF Went
  <2>2. CASE ~Comes(o, follows)
    BY <1>6, <2>2 DEF Same
  <2> QED
    BY <2>1, <2>2
<1>9. BagOK(w)
  BY InvIs DEF Sound
<1>10. BagOK(y)
  <2>1. ASSUME NEW o \in Objs, w.obj[o].where = "contained"
        PROVE  \E b \in Objs : w.obj[b].kind = "bag" /\ y.obj[b].lev = y.obj[o].lev
    <3>1. o \in Live(w)
      BY <2>1 DEF Live, Places
    <3>2. PICK b \in Objs : /\ w.obj[b].kind = "bag" /\ Spot(o) = w.obj[b].where
                            /\ w.obj[b].lev = w.obj[o].lev
      BY <2>1, <3>1, SpotIs
    <3>3. b \in Live(w) /\ Spot(b) = w.obj[b].where
      <4>1. w.obj[b].where \in BagPlaces
        BY <1>9, <3>2 DEF BagOK
      <4>2. b \in Live(w) /\ w.obj[b].where # "contained"
        BY <4>1 DEF Live, Places, BagPlaces
      <4> QED
        BY <4>2, SpotIs
    <3>4. b \in Own <=> o \in Own
      BY <3>1, <3>2, <3>3 DEF Own
    <3> QED
      BY <1>8, <3>2, <3>4
  <2> QED
    BY <1>8, <1>9, <2>1 DEF BagOK
<1>11. \A o \in Objs : InMon(y, o) <=> InMon(w, o)
  BY <1>8 DEF InMon, MonBag
<1>12. ASSUME NEW o \in Objs
       PROVE  Placed(y, o, l, m)
  <2>1. Stands(w, o, hero, mon) /\ Clean(w, o)
    BY InvIs DEF Good, Placed
  <2>2. Clean(y, o)
    <3>1. CASE Comes(o, follows)
      <4>1. /\ \A u \in TimersIn(y, o) : \E t \in TimersIn(w, o) : u.func = t.func
            /\ y.obj[o].where = w.obj[o].where
            /\ ~y.obj[o].strayed => ~w.obj[o].strayed
        BY <1>5, <1>8, <3>1 DEF Went
      <4> QED
        BY <2>1, <4>1 DEF Clean
    <3>2. CASE ~Comes(o, follows)
      BY <1>6, <2>1, <3>2, CleanSame
    <3> QED
      BY <3>1, <3>2
  <2>3. CASE o \in Own
    BY <1>8, <1>11, <2>2, <2>3, OwnIs DEF Placed, Stands
  <2>4. CASE o \notin Own
    <3>1. o \in Objs /\ w.obj[o].where \in {"invent", "chest"} =>
            o \in Live(w) /\ Spot(o) = w.obj[o].where
      BY SpotIs DEF Live, Places
    <3>2. w.obj[o].where # "invent"
      BY <2>4, <3>1 DEF Own
    <3>3. ~y.obj[o].strayed => ~w.obj[o].strayed /\ ~Comes(o, follows)
      BY <1>8, <2>4
    <3>4. ~y.obj[o].strayed => w.obj[o].where # "chest"
      BY <3>1, <3>3 DEF Comes, IsLocal
    <3>5. ASSUME ~y.obj[o].strayed, InMon(w, o)
          PROVE  WithMon(w.obj[o].lev, l, m)
      <4>1. o \in Live(w) /\ Spot(o) = "minvent"
        BY <3>5, SpotMon
      <4>2. mon.st = "here" /\ ~follows
        BY <3>3, <3>5, <4>1 DEF Comes, IsLocal
      <4>3. m = mon
        BY <4>2
      <4>4. WithMon(w.obj[o].lev, hero, mon)
        BY <2>1, <3>3, <3>5 DEF Stands
      <4> QED
        BY <4>2, <4>3, <4>4 DEF WithMon
    <3> QED
      BY <1>8, <1>11, <2>2, <2>4, <3>2, <3>4, <3>5 DEF Placed, Stands
  <2> QED
    BY <2>3, <2>4
<1>13. m \in MonType
  BY InvIs DEF MonType
<1> QED
  BY <1>1, <1>7, <1>10, <1>12, <1>13 DEF Good, Sound

-----------------------------------------------------------------------------
\* Two loops: relobj, where the monster's objects fall one after the other, and the
\* restacking of what use_lamp has put out, from b on.

Dropped(o, x) == IF x.obj[o].where = "minvent" THEN Land(Extract(x, o), o, hero) ELSE x
Handled(k, o, x) == IF k = "drop" THEN Dropped(o, x) ELSE Stacked(o, x)
LoopStep(k, b, g, s) == IF s = {} THEN b ELSE Handled(k, Any(s), g[s \ {Any(s)}])
IsLoop(k, b, g, S) == g = [s \in SUBSET S |-> LoopStep(k, b, g, s)]
Had == {o \in Objs : Carried(o)}

LEMMA LoopUnique ==
  ASSUME NEW S, IsFiniteSet(S), NEW A, S \subseteq A, NEW k, NEW b,
         NEW g, NEW e, IsLoop(k, b, g, A), IsLoop(k, b, e, S)
  PROVE  g[S] = e[S]
<1> DEFINE Alike2 == {T \in SUBSET S : g[T] = e[T]}
<1>1. ASSUME NEW T \in SUBSET S, \A U \in SUBSET T : U # T => U \in Alike2
      PROVE  T \in Alike2
  <2>1. T \in SUBSET A
    OBVIOUS
  <2>2. g[T] = LoopStep(k, b, g, T) /\ e[T] = LoopStep(k, b, e, T)
    BY <2>1 DEF IsLoop
  <2>3. CASE T = {}
    BY <2>2, <2>3 DEF LoopStep
  <2>4. CASE T # {}
    <3>1. T \ {Any(T)} \in Alike2
      BY <1>1, <2>4, AnyIn
    <3> QED
      BY <2>2, <2>4, <3>1 DEF LoopStep
  <2> QED
    BY <2>3, <2>4
<1> HIDE DEF Alike2
<1>2. S \in Alike2
  BY <1>1, SubsetInduction
<1> QED
  BY <1>2 DEF Alike2

LEMMA LoopExists ==
  ASSUME NEW S, IsFiniteSet(S), NEW k, NEW b
  PROVE  \E g : IsLoop(k, b, g, S)
<1> DEFINE B == {T \in SUBSET S : \E g : IsLoop(k, b, g, T)}
<1>1. ASSUME NEW T \in SUBSET S, \A U \in SUBSET T : U # T => U \in B
      PROVE  T \in B
  <2> DEFINE G(U) == CHOOSE g : IsLoop(k, b, g, U)
             h == [u \in SUBSET T |-> G(u)[u]]
             g == [s \in SUBSET T |-> LoopStep(k, b, h, s)]
  <2>1. \A U \in SUBSET T : U # T => IsLoop(k, b, G(U), U)
    BY <1>1
  <2>2. ASSUME NEW U \in SUBSET T, U # T
        PROVE  g[U] = G(U)[U]
    <3>1. IsLoop(k, b, G(U), U)
      BY <2>1, <2>2
    <3>2. G(U)[U] = LoopStep(k, b, G(U), U)
      BY <3>1 DEF IsLoop
    <3>3. ASSUME U # {}
          PROVE  G(U)[U \ {Any(U)}] = h[U \ {Any(U)}]
      <4> DEFINE V == U \ {Any(U)}
      <4>1. V \in SUBSET T /\ V # T /\ V \subseteq U /\ IsFiniteSet(V)
        BY <3>3, AnyIn, FS_Subset
      <4>2. IsLoop(k, b, G(V), V)
        BY <2>1, <4>1
      <4>3. IsFiniteSet(V) /\ V \subseteq U /\ V \subseteq V /\ V \in SUBSET V
        BY <4>1
      <4> HIDE DEF V, G, h, g
      <4>4. ASSUME NEW c, NEW d, IsLoop(k, b, c, U), IsLoop(k, b, d, V)
            PROVE  c[V] = d[V]
        BY <4>3, <4>4, LoopUnique
      <4>5. G(U)[V] = G(V)[V]
        BY <3>1, <4>2, <4>4, Zenon
      <4> QED
        BY <4>1, <4>5 DEF V, h
    <3> QED
      BY <3>2, <3>3 DEF LoopStep
  <2>3. ASSUME NEW U \in SUBSET T
        PROVE  g[U] = LoopStep(k, b, g, U)
    <3>1. CASE U = {}
      BY <3>1 DEF LoopStep
    <3>2. CASE U # {}
      <4> DEFINE V == U \ {Any(U)}
      <4>1. V \in SUBSET T /\ V # T
        BY <3>2, AnyIn
      <4>2. g[V] = h[V]
        BY <2>2, <4>1
      <4>3. g[U] = Handled(k, Any(U), h[V])
        BY <3>2 DEF LoopStep
      <4> HIDE DEF g, h
      <4> QED
        BY <3>2, <4>2, <4>3 DEF LoopStep
    <3> QED
      BY <3>1, <3>2
  <2>4. g = [s \in SUBSET T |-> g[s]]
    OBVIOUS
  <2> HIDE DEF g
  <2>5. IsLoop(k, b, g, T)
    BY <2>3, <2>4 DEF IsLoop
  <2> QED
    BY <2>5
<1> HIDE DEF B
<1>2. S \in B
  BY <1>1, SubsetInduction
<1> QED
  BY <1>2 DEF B

\* After some have fallen, the monster has the others.
DroppedAll(x, S) ==
  Good(x, hero, mon) /\ \A p \in Objs : x.obj[p].where = "minvent" => p \in Had \ S

LEMMA DropOne ==
  ASSUME ObjInv, NEW S \in SUBSET Had, NEW o \in Had, NEW x, DroppedAll(x, S)
  PROVE  DroppedAll(Dropped(o, x), S \cup {o})
<1>1. o \in Objs /\ Good(x, hero, mon)
  BY DEF Had, DroppedAll
<1>2. CASE x.obj[o].where = "minvent"
  <2> DEFINE e == Extract(x, o)
             y == Land(e, o, hero)
  <2>1. x.obj[o].where \in Places /\ x.obj[o].where # "buried"
    BY <1>2 DEF Places
  <2>2. Good(e, hero, mon) /\ Goes(x, e, o, "free")
    BY <1>1, <2>1, ExtractGood
  <2>3. Dropped(o, x) = y
    BY <1>2, Zenon DEF Dropped
  <2> HIDE DEF e
  <2>4. e.obj[o].where = "free" /\ \A p \in Objs : p # o => e.obj[p].where = x.obj[p].where
    BY <2>2 DEF Goes, Only, Same
  <2>5. /\ Good(y, hero, mon)
        /\ \A p \in Objs : y.obj[p].where = "minvent" => e.obj[p].where = "minvent"
    BY <1>1, <2>2, <2>4, InvIs, LandGood
  <2> HIDE DEF y
  <2> QED
    BY <2>3, <2>4, <2>5 DEF DroppedAll
<1>3. CASE x.obj[o].where # "minvent"
  <2>1. Dropped(o, x) = x
    BY <1>3 DEF Dropped
  <2> QED
    BY <1>3, <2>1 DEF DroppedAll
<1> QED
  BY <1>2, <1>3

LEMMA DropAll ==
  ASSUME ObjInv, NEW x,
         x = FoldSet(LAMBDA o, y : IF y.obj[o].where = "minvent"
                                   THEN Land(Extract(y, o), o, hero) ELSE y, w, Had)
  PROVE  DroppedAll(x, Had)
<1> DEFINE G == CHOOSE g : IsLoop("drop", w, g, Had)
           B == {T \in SUBSET Had : DroppedAll(G[T], T)}
<1>1. IsFiniteSet(Had)
  <2>1. Had \in SUBSET Objs
    BY DEF Had
  <2> QED
    BY <2>1, ObjectsAssumption, FS_Subset
<1>2. IsLoop("drop", w, G, Had)
  BY <1>1, LoopExists
<1>3. x = G[Had]
  BY DEF FoldSet, MapThenFoldSet, IsLoop, LoopStep, Handled, Dropped, Any
<1> HIDE DEF G
<1>4. ASSUME NEW T \in SUBSET Had, \A U \in SUBSET T : U # T => U \in B
      PROVE  T \in B
  <2>1. G[T] = LoopStep("drop", w, G, T)
    BY <1>2 DEF IsLoop
  <2>2. CASE T = {}
    <3>1. G[T] = w
      BY <2>1, <2>2 DEF LoopStep
    <3>2. DroppedAll(w, {})
      BY InvIs DEF DroppedAll, Had, Carried, Live, Places
    <3> QED
      BY <2>2, <3>1, <3>2
  <2>3. CASE T # {}
    <3> DEFINE o == Any(T)
               U == T \ {o}
    <3>1. o \in Had /\ U \in SUBSET T /\ U # T /\ U \cup {o} = T
      BY <2>3, AnyIn
    <3>2. U \in B
      BY <1>4, <3>1
    <3>3. G[T] = Dropped(o, G[U])
      BY <2>1, <2>3 DEF LoopStep, Handled
    <3> HIDE DEF o, U
    <3>4. U \in SUBSET Had /\ DroppedAll(G[U], U)
      BY <3>2
    <3>5. DroppedAll(Dropped(o, G[U]), U \cup {o})
      BY <3>1, <3>4, DropOne
    <3> QED
      BY <3>1, <3>3, <3>5
  <2> QED
    BY <2>2, <2>3
<1> HIDE DEF B
<1>5. Had \in B
  BY <1>1, <1>4, SubsetInduction
<1> QED
  BY <1>3, <1>5 DEF B

\* In use_lamp: x is a world and what is in hand, when the stacks S of R are done.
Restacking(x, o, S, R) ==
  /\ Good(x.v, hero, mon) /\ x.o \in Objs /\ x.o \in S \cup {o}
  /\ x.v.obj[x.o].where = "free" /\ x.v.obj[x.o].lev = hero
  /\ \A p \in R \ S : x.v.obj[p].where = "invent"

LEMMA StackOne ==
  ASSUME ObjInv, NEW R \in SUBSET Objs, NEW o \in Objs \ R, NEW S \in SUBSET R,
         NEW p \in R \ S, NEW x, Restacking(x, o, S, R)
  PROVE  Restacking(Stacked(p, x), o, S \cup {p}, R)
<1> DEFINE v == x.v
           q == x.o
           f == Merge(v, p, q)
           e == Extract(f, p)
<1>1. /\ Good(v, hero, mon) /\ q \in Objs /\ q \in S \cup {o} /\ p \in Objs /\ p # q
      /\ v.obj[q].where = "free" /\ v.obj[q].lev = hero
      /\ \A r \in R \ S : v.obj[r].where = "invent"
  BY Zenon DEF Restacking
<1>2. CASE Mergable(v, p, q)
  <2>1. Stacked(p, x) = [v |-> e, o |-> p]
    BY <1>2, Zenon DEF Stacked
  <2> HIDE DEF v, q
  <2>2. v.obj[p].where = "invent" /\ v.obj[p].lev = hero
    BY <1>1 DEF Good, Placed, Stands
  <2>3. Sound(f) /\ Joined(v, f, p, q)
    <3>1. Sound(v) /\ v.obj[p].where \in Places /\ v.obj[q].where \in Places
      BY <1>1, <2>2 DEF Good, Places
    <3> QED
      BY <1>1, <1>2, <3>1, InvIs, MergeIs
  <2> HIDE DEF f
  <2>4. Good(f, hero, mon)
    BY <1>1, <2>3, JoinedGood
  <2>5. /\ f.obj[p].where = "invent" /\ f.obj[p].lev = hero
        /\ \A r \in R \ (S \cup {p}) : f.obj[r].where = "invent"
    <3>1. ASSUME NEW r \in R \ (S \cup {p})
          PROVE  f.obj[r].where = "invent"
      <4>1. r \in Objs \ {p, q}
        BY <1>1
      <4> QED
        BY <1>1, <2>3, <4>1 DEF Joined, Only, Same
    <3> QED
      BY <2>2, <2>3, <3>1 DEF Joined
  <2>6. f.obj[p].where \in Places /\ f.obj[p].where # "buried"
    BY <2>5 DEF Places
  <2>7. Good(e, hero, mon) /\ Goes(f, e, p, "free")
    BY <1>1, <2>4, <2>6, ExtractGood
  <2> HIDE DEF e
  <2>8. /\ e.obj[p].where = "free" /\ e.obj[p].lev = hero
        /\ \A r \in R \ (S \cup {p}) : e.obj[r].where = "invent"
    <3>1. ASSUME NEW r \in R \ (S \cup {p})
          PROVE  e.obj[r].where = "invent"
      <4>1. r \in Objs \ {p}
        OBVIOUS
      <4> QED
        BY <2>5, <2>7, <4>1 DEF Goes, Only, Same
    <3> QED
      BY <2>5, <2>7, <3>1 DEF Goes
  <2> DEFINE y == [v |-> e, o |-> p]
  <2>9. y.v = e /\ y.o = p /\ Stacked(p, x) = y
    BY <2>1
  <2> HIDE DEF y
  <2> QED
    BY <1>1, <2>7, <2>8, <2>9 DEF Restacking
<1>3. CASE ~Mergable(v, p, q)
  <2>1. Stacked(p, x) = x
    BY <1>3, Zenon DEF Stacked
  <2> QED
    BY <1>1, <2>1 DEF Restacking
<1> QED
  BY <1>2, <1>3

LEMMA StackLoop ==
  ASSUME ObjInv, NEW R \in SUBSET Objs, NEW o \in Objs \ R, NEW b, Restacking(b, o, {}, R),
         NEW G, IsLoop("stack", b, G, R)
  PROVE  Restacking(G[R], o, R, R)
<1> DEFINE B == {T \in SUBSET R : Restacking(G[T], o, T, R)}
<1>1. ASSUME NEW T \in SUBSET R, \A U \in SUBSET T : U # T => U \in B
      PROVE  T \in B
  <2>1. G[T] = LoopStep("stack", b, G, T)
    BY DEF IsLoop
  <2>2. CASE T = {}
    <3>1. G[T] = b
      BY <2>1, <2>2 DEF LoopStep
    <3> QED
      BY <2>2, <3>1
  <2>3. CASE T # {}
    <3> DEFINE p == Any(T)
               U == T \ {p}
    <3>1. p \in R /\ U \in SUBSET T /\ U # T /\ U \cup {p} = T /\ p \in R \ U
      BY <2>3, AnyIn
    <3>2. U \in B
      BY <1>1, <3>1
    <3>3. G[T] = Stacked(p, G[U])
      BY <2>1, <2>3 DEF LoopStep, Handled
    <3> HIDE DEF p, U
    <3>4. U \in SUBSET R /\ Restacking(G[U], o, U, R)
      BY <3>2
    <3>5. Restacking(Stacked(p, G[U]), o, U \cup {p}, R)
      BY <3>1, <3>4, StackOne
    <3> QED
      BY <3>1, <3>3, <3>5
  <2> QED
    BY <2>2, <2>3
<1> HIDE DEF B
<1>2. IsFiniteSet(R)
  BY ObjectsAssumption, FS_Subset
<1>3. R \in B
  BY <1>1, <1>2, SubsetInduction
<1> QED
  BY <1>3 DEF B

LEMMA StackAll ==
  ASSUME ObjInv, NEW v, Good(v, hero, mon), NEW o \in Objs, v.obj[o].where = "invent",
         NEW R, R = {p \in Live(v) \ {o} : v.obj[p].where = "invent"},
         NEW x, x = FoldSet(Stacked, [v |-> Extract(v, o), o |-> o], R)
  PROVE  Restacking(x, o, R, R)
<1> DEFINE b == [v |-> Extract(v, o), o |-> o]
           G == CHOOSE g : IsLoop("stack", b, g, R)
<1>1. IsFiniteSet(R) /\ R \in SUBSET Objs /\ o \in Objs \ R
  <2>1. R \in SUBSET Objs /\ o \in Objs \ R
    BY DEF Live
  <2> QED
    BY <2>1, ObjectsAssumption, FS_Subset
<1>2. IsLoop("stack", b, G, R)
  BY <1>1, LoopExists
<1>3. x = G[R]
  BY DEF FoldSet, MapThenFoldSet, IsLoop, LoopStep, Handled, Any
<1>4. Restacking(b, o, {}, R)
  <2> DEFINE e == Extract(v, o)
  <2>1. v.obj[o].where \in Places /\ v.obj[o].where # "buried" /\ v.obj[o].lev = hero
    BY DEF Places, Good, Placed, Stands
  <2>2. Good(e, hero, mon) /\ Goes(v, e, o, "free")
    BY <2>1, ExtractGood
  <2>3. b.v = e /\ b.o = o
    OBVIOUS
  <2> HIDE DEF e, b
  <2>4. ASSUME NEW p \in R
        PROVE  e.obj[p].where = "invent"
    <3>1. p \in Objs \ {o} /\ v.obj[p].where = "invent"
      BY DEF Live
    <3> QED
      BY <2>2, <3>1 DEF Goes, Only, Same
  <2> QED
    BY <2>1, <2>2, <2>3, <2>4 DEF Restacking, Goes
<1> HIDE DEF G, b
<1> QED
  BY <1>1, <1>2, <1>3, <1>4, StackLoop

LEMMA RestackGood ==
  ASSUME ObjInv, NEW v, Good(v, hero, mon), NEW o \in Objs, v.obj[o].where = "invent"
  PROVE  Good(Restack(v, o), hero, mon)
<1> DEFINE R == {p \in Live(v) \ {o} : v.obj[p].where = "invent"}
           x == FoldSet(Stacked, [v |-> Extract(v, o), o |-> o], R)
<1>1. Restacking(x, o, R, R)
  BY StackAll
<1>2. Restack(v, o) = PutAt(x.v, x.o, "invent")
  BY Zenon DEF Restack, PutAt, Put
<1> HIDE DEF x, R
<1> DEFINE y == x.v
           q == x.o
<1>3. Good(y, hero, mon) /\ q \in Objs /\ y.obj[q].where = "free" /\ y.obj[q].lev = hero
  BY <1>1, Zenon DEF Restacking
<1>4. Restack(v, o) = PutAt(y, q, "invent")
  BY <1>2
<1> HIDE DEF y, q
<1>5. "invent" \in Places /\ "invent" \in BagPlaces /\ Fits(y.obj[q].lev, "invent", hero, mon)
  BY <1>3 DEF Places, BagPlaces, Fits
<1>6. Good(PutAt(y, q, "invent"), hero, mon)
  BY <1>3, <1>5, PutGood
<1> QED
  BY <1>4, <1>6

LEMMA LightGood ==
  ASSUME ObjInv, NEW o \in Objs, Light(o)
  PROVE  Good(w', hero, mon)
<1>1. w.obj[o].where = "invent" /\ w.obj[o].where \in Places /\ w.obj[o].lev = hero
  BY NearIs DEF Light, Held
<1>2. CASE w.obj[o].lit
  <2> DEFINE x == EndBurn(w, o, TRUE)
  <2>1. w' = Restack(x, o)
    BY <1>2 DEF Light
  <2>2. Calmer(w, x, o)
    BY <1>1, InvIs, EndBurnIs
  <2> HIDE DEF x
  <2>3. Good(x, hero, mon) /\ x.obj[o].where = "invent"
    BY <1>1, <2>2, InvIs, CalmerGood DEF Calmer, Keeps
  <2> QED
    BY <2>1, <2>3, InvIs, RestackGood
<1>3. CASE ~w.obj[o].lit
  <2> DEFINE x == BeginBurn(w, o, FALSE)
  <2>1. w' = x
    BY <1>3 DEF Light
  <2>2. LooseAt(w, o) /\ w.obj[o].age > 0
    <3>1. w.obj[o] \in ObjType /\ FineAt(w, o)
      BY InvIs, WorldIs DEF Whole
    <3>2. w.obj[o].age > 0
      BY <1>3 DEF Light
    <3> QED
      BY <1>1, <1>3, <3>1, <3>2, LooseUnlit DEF LooseAt, FineAt
  <2>3. w.obj[o].lit = FALSE
    BY <1>3, InvIs, WorldIs, ObjIs
  <2>4. /\ Only(w, x, {o}) /\ Keeps(w, x, o) /\ FineAt(x, o)
        /\ \A t \in TimersIn(x, o) : t \in TimersIn(w, o) \/ t.func = "burn"
    BY <1>1, <2>2, <2>3, InvIs, BeginBurnIs
  <2> HIDE DEF x
  <2>5. Whole(x)
    BY <2>4, InvIs, WholeStep DEF Only
  <2>6. GoodBut(x, o, hero, mon)
    BY <2>4, <2>5, InvIs, GoodIsBut, KeepsGood
  <2>7. Clean(w, o)
    BY InvIs DEF Good, Placed
  <2>8. Clean(x, o)
    BY <2>4, <2>7 DEF Clean, Keeps
  <2> QED
    BY <2>1, <2>6, <2>8, GoodIsBut
<1> QED
  BY <1>2, <1>3

\* Once nobody carries anything, the monster's place does not matter.
LEMMA NobodyCarries ==
  ASSUME NEW x, NEW h, NEW m, Good(x, h, m), \A p \in Objs : ~InMon(x, p), NEW d
  PROVE  Good(x, h, d)
BY DEF Good, Placed, Stands

LEMMA MonDiesGood ==
  ASSUME ObjInv, MonDies
  PROVE  Good(w', hero, mon') /\ mon' \in MonType
<1> DEFINE S == {o \in Live(w) : Spot(o) = "minvent"}
           x == Dealloc(w, S)
<1>1. mon' = [mon EXCEPT !.st = "dead"]
  BY DEF MonDies
<1>2. mon' \in MonType
  BY <1>1, InvIs DEF MonType
<1>3. \/ w' = FoldSet(LAMBDA o, y : IF y.obj[o].where = "minvent"
                                    THEN Land(Extract(y, o), o, hero) ELSE y, w, Had)
      \/ w' = x
  BY Zenon DEF MonDies, Had
<1>4. CASE w' = FoldSet(LAMBDA o, y : IF y.obj[o].where = "minvent"
                                      THEN Land(Extract(y, o), o, hero) ELSE y, w, Had)
  <2>1. DroppedAll(w', Had)
    BY <1>4, DropAll
  <2>2. \A p \in Objs : ~InMon(w', p)
    BY <2>1 DEF DroppedAll, InMon, MonBag
  <2>3. Good(w', hero, mon)
    BY <2>1 DEF DroppedAll
  <2> QED
    BY <1>2, <2>2, <2>3, NobodyCarries
<1>5. CASE w' = x
  <2>1. S \in SUBSET Objs /\ \A o \in S : w.obj[o].where \in Places
    BY DEF Live
  <2>2. \A o \in Objs : o \in S <=> InMon(w, o)
    BY SpotMon
  <2> HIDE DEF S
  <2>3. /\ Whole(x) /\ Only(w, x, S)
        /\ \A o \in S : x.obj[o].where = "gone" /\ x.obj[o].kind = "none"
    BY <2>1, InvIs, DeallocIs
  <2> HIDE DEF x
  <2>4. \A p \in Objs \ S : x.obj[p] = w.obj[p]
    BY <2>3 DEF Only, Same
  <2>5. BagOK(w)
    BY InvIs DEF Sound
  <2>6. \A o \in Objs : w.obj[o].where = "contained" =>
          \A b \in Objs : w.obj[b].kind = "bag" => (b \in S <=> o \in S)
    BY <2>2, <2>5 DEF InMon, MonBag, BagOK, BagPlaces
  <2>7. BagOK(x)
    BY <2>1, <2>3, <2>4, <2>5, <2>6 DEF BagOK
  <2>8. \A p \in Objs \ S : Placed(w, p, hero, mon')
    BY <2>2, InvIs DEF Good, Placed, Stands
  <2>9. Good(x, hero, mon')
    BY <2>3, <2>7, <2>8, GoneGood DEF Sound
  <2> QED
    BY <1>2, <1>5, <2>9
<1> QED
  BY <1>3, <1>4, <1>5

-----------------------------------------------------------------------------
\* The start

IsNew(x, f, l) ==
  /\ x \in ObjType /\ x.kind = f.kind /\ x.quan = f.quan /\ x.where = "floor"
  /\ x.lev = l /\ x.timed = (IF f.kind = "corpse" THEN 1 ELSE 0) /\ x.lit = FALSE
  /\ x.strayed = FALSE

LEMMA NewObjIs ==
  ASSUME NEW f, f \in [kind : {"candle", "lamp", "corpse", "bag"}, quan : Nat \ {0}, age : Nat],
         NEW l \in Levels
  PROVE  IsNew(NewObj(f, l), f, l)
<1> DEFINE y == [NoObj EXCEPT !.kind = f.kind, !.quan = f.quan, !.age = f.age]
           n == IF f.kind = "corpse" THEN 1 ELSE 0
           x == [y EXCEPT !.where = "floor", !.lev = l, !.timed = n]
<1>0. NoObj \in ObjType /\ NoObj.lit = FALSE /\ NoObj.strayed = FALSE
  BY DEF NoObj, ObjType, Places
<1>1. y \in ObjType /\ y.kind = f.kind /\ y.quan = f.quan /\ y.lit = FALSE /\ y.strayed = FALSE
  <2>1. f.kind \in Burning \cup {"corpse", "bag", "none"} /\ f.quan \in Nat /\ f.age \in Int
    BY DEF Burning
  <2> DEFINE k == f.kind
             q == f.quan
             a == f.age
  <2> HIDE DEF k, q, a
  <2>2. k \in Burning \cup {"corpse", "bag", "none"} /\ q \in Nat /\ a \in Int
    BY <2>1 DEF k, q, a
  <2> DEFINE z == [NoObj EXCEPT !.kind = k, !.quan = q, !.age = a]
  <2>3. z \in ObjType /\ z.kind = k /\ z.quan = q /\ z.lit = FALSE /\ z.strayed = FALSE
    BY <1>0, <2>2 DEF ObjType
  <2> HIDE DEF z
  <2>4. y = z
    BY Zenon DEF z, k, q, a
  <2> QED
    BY <2>3, <2>4, Zenon DEF k, q, a
<1>2. NewObj(f, l) = x
  BY DEF NewObj, NoObj
<1>3. n \in Nat
  OBVIOUS
<1> HIDE DEF y, n
<1>4. /\ x \in ObjType /\ x.kind = y.kind /\ x.quan = y.quan /\ x.where = "floor" /\ x.lev = l
      /\ x.timed = n /\ x.lit = y.lit /\ x.strayed = y.strayed
  BY <1>1, <1>3 DEF ObjType, Places
<1> HIDE DEF x, y
<1> QED
  BY <1>1, <1>2, <1>4 DEF n, IsNew

LEMMA NoObjFine ==
  ASSUME NEW T, NEW R, T = {}, \A l \in Levels : R[l] = 0
  PROVE  Fine(NoObj, T, R)
BY FS_EmptySet DEF Fine, NoObj, Nothing, Places

LEMMA NewFine ==
  ASSUME NEW x \in ObjType, x.where = "floor", x.lev \in Levels, x.quan >= 1, ~x.lit, NEW T, NEW R,
         \A l \in Levels : R[l] = 0,
         \/ T = {} /\ x.timed = 0
         \/ x.timed = 1 /\ \E t : T = {t} /\ t.lev = x.lev /\ t.func = "rot"
  PROVE  Fine(x, T, R)
<1>1. CASE T = {} /\ x.timed = 0
  BY <1>1, FS_EmptySet DEF Fine, Tracked, Places
<1>2. CASE x.timed = 1 /\ \E t : T = {t} /\ t.lev = x.lev /\ t.func = "rot"
  <2>1. PICK t : T = {t} /\ t.lev = x.lev /\ t.func = "rot"
    BY <1>2
  <2>2. IsFiniteSet(T) /\ Cardinality(T) = 1
    BY <2>1, FS_Singleton
  <2> QED
    BY <1>2, <2>1, <2>2 DEF Fine, Tracked, Places
<1> QED
  BY <1>1, <1>2

LEMMA InitInv ==
  ASSUME Init
  PROVE  ObjInv
<1>1. PICK f \in Firsts :
        w = [obj |-> [o \in Objs |-> IF o \in DOMAIN f THEN NewObj(f[o], hero) ELSE NoObj],
             timers |-> {[lev |-> hero, at |-> RotTime, func |-> "rot", o |-> o] :
                           o \in {o \in DOMAIN f : f[o].kind = "corpse"}},
             lights |-> [l \in Levels |-> [o \in Objs |-> 0]],
             ub |-> FALSE]
  BY DEF Init
<1> DEFINE D == DOMAIN f
           A(o) == NewObj(f[o], hero)
           t(o) == [lev |-> hero, at |-> RotTime, func |-> "rot", o |-> o]
           C == {o \in D : f[o].kind = "corpse"}
           O == [o \in Objs |-> IF o \in D THEN A(o) ELSE NoObj]
           T == {t(o) : o \in C}
           L == [l \in Levels |-> [o \in Objs |-> 0]]
<1>2. /\ w.obj = O /\ w.timers = T /\ w.lights = L
      /\ w = [obj |-> O, timers |-> T, lights |-> L, ub |-> FALSE]
  BY <1>1
<1>3. hero \in Levels /\ now = 0 /\ mon = [st |-> "here", lev |-> hero] /\ RotTime \in Nat
      /\ MaxTime \in Nat
  BY ObjectsAssumption DEF Init
<1>4. D \subseteq Objs
  BY ObjectsAssumption
<1>5. ASSUME NEW o \in D
      PROVE  /\ A(o) \in ObjType /\ A(o).kind = f[o].kind /\ A(o).quan = f[o].quan
             /\ A(o).where = "floor" /\ A(o).lev = hero /\ A(o).lit = FALSE
             /\ A(o).timed = (IF f[o].kind = "corpse" THEN 1 ELSE 0)
             /\ A(o).strayed = FALSE /\ A(o).quan >= 1
  <2>1. f[o] \in [kind : {"candle", "lamp", "corpse", "bag"}, quan : Nat \ {0}, age : Nat]
    BY ObjectsAssumption
  <2>2. f[o].quan >= 1
    BY <2>1
  <2> DEFINE a == f[o]
  <2> HIDE DEF a
  <2>3. IsNew(NewObj(a, hero), a, hero)
    BY <1>3, <2>1, NewObjIs, Zenon DEF a
  <2> QED
    BY <2>2, <2>3, Zenon DEF a, IsNew
<1> HIDE DEF A
<1>6. \A o, p \in D : f[o].kind = "bag" /\ f[p].kind = "bag" => o = p /\ f[o].quan = 1
  BY ObjectsAssumption
<1> HIDE DEF D
<1>7. NoObj \in ObjType /\ NoObj.kind = "none" /\ NoObj.where = "none" /\ NoObj.strayed = FALSE
  BY DEF NoObj, ObjType
<1>8. \A o \in Objs : t(o) \in TimerType /\ t(o).o = o /\ t(o).lev = hero /\ t(o).func = "rot"
  BY <1>3 DEF TimerType, Funcs
<1> HIDE DEF t
<1>9. w \in World
  <2>1. O \in [Objs -> ObjType]
    BY <1>5, <1>7
  <2>2. T \in SUBSET TimerType
    BY <1>4, <1>8
  <2>3. L \in LightType
    BY DEF LightType
  <2> HIDE DEF O, T, L
  <2> QED
    BY <1>2, <2>1, <2>2, <2>3 DEF World
<1>10. \A o \in Objs : TimersIn(w, o) = IF o \in C THEN {t(o)} ELSE {}
  BY <1>2, <1>4, <1>8 DEF TimersIn, Of
<1>11. \A o \in Objs : \A l \in Levels : Rays(w, o)[l] = 0
  BY <1>2 DEF Rays
<1>12. \A o \in Objs : w.obj[o] = IF o \in D THEN A(o) ELSE NoObj
  BY <1>2
<1>13. ASSUME NEW o \in Objs
       PROVE  FineAt(w, o) /\ Placed(w, o, hero, mon)
  <2> DEFINE U == TimersIn(w, o)
             R == Rays(w, o)
  <2>1. \A l \in Levels : R[l] = 0
    BY <1>11
  <2>2. U = IF o \in C THEN {t(o)} ELSE {}
    BY <1>10
  <2>3. \A u \in U : u.func = "rot"
    BY <1>8, <2>2
  <2>4. w.obj[o] = IF o \in D THEN A(o) ELSE NoObj
    BY <1>12
  <2>5. o \in C <=> o \in D /\ f[o].kind = "corpse"
    OBVIOUS
  <2> HIDE DEF U, R, C
  <2>6. Fine(w.obj[o], U, R)
    <3>1. CASE o \notin D
      BY <2>1, <2>2, <2>4, <2>5, <3>1, NoObjFine
    <3>2. CASE o \in D
      <4> DEFINE a == A(o)
      <4>1. \/ U = {} /\ a.timed = 0
            \/ a.timed = 1 /\ \E u : U = {u} /\ u.lev = a.lev /\ u.func = "rot"
        <5>1. CASE o \in C
          <6>1. U = {t(o)} /\ t(o).lev = hero /\ t(o).func = "rot"
            BY <1>8, <2>2, <5>1
          <6>2. a.timed = 1 /\ a.lev = hero
            BY <1>5, <2>5, <3>2, <5>1
          <6> QED
            BY <6>1, <6>2
        <5>2. CASE o \notin C
          <6>1. a.timed = 0
            BY <1>5, <2>5, <3>2, <5>2
          <6> QED
            BY <2>2, <5>2, <6>1
        <5> QED
          BY <5>1, <5>2
      <4>2. /\ a \in ObjType /\ a.where = "floor" /\ a.lev \in Levels /\ a.quan >= 1 /\ ~a.lit
        BY <1>3, <1>5, <3>2
      <4>3. w.obj[o] = a
        BY <2>4, <3>2
      <4> HIDE DEF a
      <4> QED
        BY <2>1, <4>1, <4>2, <4>3, NewFine
    <3> QED
      BY <3>1, <3>2
  <2>7. w.obj[o].where \in {"none", "floor"}
    BY <1>5, <1>7, <2>4
  <2> QED
    BY <2>3, <2>6, <2>7 DEF FineAt, Placed, Stands, Clean, InMon, U, R
<1>14. BagOK(w)
  <2>1. ASSUME NEW o \in Objs
        PROVE  /\ w.obj[o].where \in {"none", "floor"}
               /\ w.obj[o].kind = "bag" => /\ o \in D /\ f[o].kind = "bag"
                                          /\ w.obj[o].quan = f[o].quan
                                          /\ w.obj[o].where = "floor"
    BY <1>5, <1>7, <1>12
  <2>2. \A o, p \in Objs : w.obj[o].kind = "bag" /\ w.obj[p].kind = "bag" =>
                           o = p /\ w.obj[o].quan = 1
    BY <1>6, <2>1
  <2> QED
    BY <2>1, <2>2 DEF BagOK, BagPlaces
<1>15. mon \in MonType /\ now \in 0 .. MaxTime
  BY <1>3 DEF MonType
<1> QED
  BY <1>3, <1>9, <1>13, <1>14, <1>15 DEF ObjInv, Good, Sound, Whole

-----------------------------------------------------------------------------
\* Every step keeps the invariant.

LEMMA StepInv ==
  ASSUME ObjInv, [Next]_vars
  PROVE  ObjInv'
<1> SUFFICES /\ Good(w', hero', mon') /\ hero' \in Levels /\ mon' \in MonType
             /\ now' \in 0 .. MaxTime
  BY DEF ObjInv, Good, Sound, Whole, World, FineAt, TimersIn, Of, Rays, BagOK, Placed, Stands,
         Clean, InMon, MonBag, WithMon
<1>1. now \in 0 .. MaxTime
  BY DEF ObjInv
<1>2. CASE UNCHANGED vars
  BY <1>1, <1>2, InvIs DEF vars
<1>3. CASE Tick
  BY <1>1, <1>3, InvIs DEF Tick
<1>4. CASE Fire
  BY <1>1, <1>4, FireGood, InvIs DEF Fire
<1>5. CASE MonDies
  BY <1>1, <1>5, MonDiesGood, InvIs DEF MonDies
<1>6. ASSUME NEW o \in Objs, Hero(o)
      PROVE  Good(w', hero, mon) /\ UNCHANGED <<hero, mon, now>>
  <2>1. CASE PickUp(o)
    BY <2>1, PickUpGood DEF PickUp
  <2>2. CASE Drop(o)
    BY <2>2, DropGood DEF Drop
  <2>3. CASE TakeOut(o)
    BY <2>3, TakeOutGood DEF TakeOut
  <2>4. CASE Light(o)
    BY <2>4, LightGood DEF Light
  <2>5. CASE UseUp(o)
    BY <2>5, UseUpGood DEF UseUp
  <2>6. ASSUME NEW where \in {"contained", "chest"}, PutIn(o, where)
        PROVE  Good(w', hero, mon) /\ UNCHANGED <<hero, mon, now>>
    BY <2>6, PutInGood DEF PutIn
  <2> QED
    BY <1>6, <2>1, <2>2, <2>3, <2>4, <2>5, <2>6 DEF Hero
<1>7. ASSUME NEW o \in Objs, Bury(o) \/ Unearth(o) \/ MonPick(o) \/ MonDrop(o)
      PROVE  Good(w', hero, mon) /\ UNCHANGED <<hero, mon, now>>
  <2>1. CASE Bury(o)
    BY <2>1, BuryGood DEF Bury
  <2>2. CASE Unearth(o)
    BY <2>2, UnearthGood DEF Unearth
  <2>3. CASE MonPick(o)
    BY <2>3, MonPickGood DEF MonPick
  <2>4. CASE MonDrop(o)
    BY <2>4, MonDropGood DEF MonDrop
  <2> QED
    BY <1>7, <2>1, <2>2, <2>3, <2>4
<1>8. ASSUME NEW l \in Levels, MonLeaves(l)
      PROVE  Good(w', hero, mon') /\ mon' \in MonType /\ UNCHANGED <<hero, now>>
  BY <1>8, MonLeavesGood DEF MonLeaves
<1>9. ASSUME NEW l \in Levels, NEW o \in Objs, Fall(o, l)
      PROVE  Good(w', hero, mon) /\ UNCHANGED <<hero, mon, now>>
  BY <1>9, FallGood DEF Fall
<1>10. ASSUME NEW l \in Levels, NEW follows \in BOOLEAN, Leave(l, follows)
       PROVE  Good(w', l, mon') /\ mon' \in MonType /\ hero' = l /\ now' = now
  BY <1>10, LeaveGood DEF Leave
<1>11. CASE \E o \in Objs : Hero(o) \/ Bury(o) \/ Unearth(o) \/ MonPick(o) \/ MonDrop(o)
  BY <1>1, <1>6, <1>7, <1>11, InvIs
<1>12. CASE \E l \in Levels : \/ MonLeaves(l)
                              \/ \E o \in Objs : Fall(o, l)
                              \/ \E follows \in BOOLEAN : Leave(l, follows)
  BY <1>1, <1>8, <1>9, <1>10, <1>12, InvIs
<1> QED
  BY <1>2, <1>3, <1>4, <1>5, <1>11, <1>12 DEF Next

\* Of every object that is somewhere and has not strayed, the timers are on its level, as
\* many as it counts, one of them to burn and one light exactly when it is lit; what is
\* freed has none; the bag, what the hero has and what the monster has are where they go.
THEOREM ObjectsInvariant == Spec => []ObjInv
BY InitInv, StepInv, PTL DEF Spec

-----------------------------------------------------------------------------
\* What it means

LEMMA InvType ==
  ASSUME ObjInv
  PROVE  TypeOK
<1>1. \A o \in Objs : w.obj[o] \in ObjType
  BY InvIs, WorldIs
<1>2. w.timers \in SUBSET TimerType
  BY InvIs, WorldIs
<1> QED
  BY <1>1, <1>2 DEF TypeOK, ObjInv, ObjType, TimerType, Funcs, MonType

LEMMA InvOwned ==
  ASSUME ObjInv
  PROVE  Owned
<1>1. \A o \in Objs : TimersOf(o) = TimersIn(w, o) /\ FineAt(w, o)
  BY InvIs DEF TimersOf, TimersIn, Of, Whole
<1> SUFFICES ASSUME NEW o \in Objs, ~w.obj[o].strayed
             PROVE  LET x == w.obj[o]
                        live == x.where \in Places
                    IN /\ Cardinality(TimersOf(o)) = IF live THEN x.timed ELSE 0
                       /\ \A t \in TimersOf(o) : t.lev = x.lev
                       /\ \A l \in Levels :
                            w.lights[l][o] = IF live /\ x.lit /\ l = x.lev THEN 1 ELSE 0
  BY Zenon DEF Owned
<1> DEFINE x == w.obj[o]
           T == TimersIn(w, o)
           R == Rays(w, o)
<1>2. Fine(x, T, R) /\ TimersOf(o) = T
  BY <1>1 DEF FineAt
<1>3. \A l \in Levels : w.lights[l][o] = R[l]
  BY DEF Rays
<1>4. ~x.strayed
  OBVIOUS
<1> HIDE DEF x, T, R
<1>5. CASE x.where \in Places
  <2>1. Tracked(x, T, R)
    BY <1>2, <1>4, <1>5 DEF Fine
  <2>2. /\ Cardinality(T) = x.timed
        /\ \A t \in T : t.lev = x.lev
    BY <2>1 DEF Tracked
  <2>3. \A l \in Levels : R[l] = IF x.lit /\ l = x.lev THEN 1 ELSE 0
    BY <2>1 DEF Tracked
  <2> QED
    BY <1>2, <1>3, <1>5, <2>2, <2>3, Zenon DEF x
<1>6. CASE x.where \notin Places
  <2>1. Nothing(T, R)
    BY <1>2, <1>4, <1>6 DEF Fine
  <2> QED
    BY <1>2, <1>3, <1>6, <2>1, FS_EmptySet DEF Nothing, x
<1> QED
  BY <1>5, <1>6

\* Every object, timer and light keeps its type: no count that timeout.c or
\* splitobj takes away from falls below zero.
THEOREM ObjectsTypes == Spec => []TypeOK
<1>1. ObjInv => TypeOK
  BY InvType
<1> QED
  BY <1>1, ObjectsInvariant, PTL

\* The timers and the light of an object that has not strayed are where it says
\* that it is, and as many as it says; what is freed leaves none.
THEOREM OwnedAlways == Spec => []Owned
<1>1. ObjInv => Owned
  BY InvOwned
<1> QED
  BY <1>1, ObjectsInvariant, PTL
=============================================================================

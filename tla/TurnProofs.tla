------------------------------ MODULE TurnProofs ------------------------------
(***************************************************************************)
(* What Turn promises for any number of monsters, with any speeds.          *)
(***************************************************************************)
EXTENDS Turn, TLAPS

-----------------------------------------------------------------------------
\* Arithmetic modulo 12

\* The turn counter comes back to 0 after 11, and nobody's position notices.
LEMMA NextPosition ==
  ASSUME NEW n \in 0 .. 11, NEW s \in Nat, NEW o \in Nat
  PROVE  (((n + 1) % 12) * s + o) % 12 = (((n * s + o) % 12) + s) % 12
<1>1. CASE n = 11
  BY <1>1
<1>2. CASE n # 11
  <2>1. (n + 1) % 12 = n + 1
    BY <1>2
  <2>2. (n + 1) * s = n * s + s
    OBVIOUS
  <2>3. n * s \in Nat
    OBVIOUS
  <2> QED
    BY <2>1, <2>2, <2>3
<1> QED
  BY <1>1, <1>2

\* The change of an offset balances the change of the speed.
Balanced(n, s, t, o, inc) ==
  (n * t + ((o + 12 - ((n * inc) % 12)) % 12)) % 12 = (n * s + o) % 12

LEMMA Balance ==
  ASSUME NEW n \in Nat, NEW s \in Nat, NEW t \in Nat, NEW o \in 0 .. 11,
         NEW inc \in Nat, inc % 12 = (t - s) % 12
  PROVE  Balanced(n, s, t, o, inc)
<1>1. PICK k \in Int : inc = t - s + 12 * k
  <2>1. inc = 12 * (inc \div 12) + (inc % 12)
    OBVIOUS
  <2>2. t - s = 12 * ((t - s) \div 12) + ((t - s) % 12)
    OBVIOUS
  <2>3. inc = t - s + 12 * ((inc \div 12) - ((t - s) \div 12))
    BY <2>1, <2>2
  <2>4. (inc \div 12) - ((t - s) \div 12) \in Int
    OBVIOUS
  <2> QED
    BY <2>3, <2>4
<1>2. n * inc = n * t - n * s + 12 * (n * k)
  BY <1>1
<1>3. n * t \in Nat /\ n * s \in Nat /\ n * k \in Int
  OBVIOUS
<1>4. ASSUME NEW x \in Nat, NEW y \in Nat, NEW z \in Int
      PROVE  (x + ((o + 12 - ((x - y + 12 * z) % 12)) % 12)) % 12 = (y + o) % 12
  OBVIOUS
<1>5. (n * t + ((o + 12 - ((n * t - n * s + 12 * (n * k)) % 12)) % 12)) % 12
      = (n * s + o) % 12
  <2> DEFINE x == n * t
             y == n * s
             z == n * k
  <2> HIDE DEF x, y, z
  <2>1. x \in Nat /\ y \in Nat /\ z \in Int
    BY <1>3 DEF x, y, z
  <2>2. (x + ((o + 12 - ((x - y + 12 * z) % 12)) % 12)) % 12 = (y + o) % 12
    BY <1>4, <2>1
  <2> QED
    BY <2>2, Zenon DEF x, y, z
<1> QED
  BY <1>2, <1>5, Zenon DEF Balanced

-----------------------------------------------------------------------------
\* Speeds, positions and points

LEMMA RateNat ==
  ASSUME NEW r \in ActorType
  PROVE  Rate(r) \in Nat
<1>1. ASSUME NEW mmove \in Nat, NEW mspeed \in {"none", "MSLOW", "MFAST"},
             NEW webbed \in BOOLEAN, NEW nitro \in BOOLEAN
      PROVE  mcalcmove(mmove, mspeed, webbed, nitro) \in Nat
  <2> DEFINE base == IF webbed THEN (2 * mmove + 1) \div 3 ELSE mmove
             pace == CASE mspeed = "MSLOW" -> (2 * base + 1) \div 3
                       [] mspeed = "MFAST" -> (4 * base + 2) \div 3
                       [] OTHER -> base
  <2>1. base \in Nat
    OBVIOUS
  <2> HIDE DEF base
  <2>2. pace \in Nat
    BY <2>1
  <2> QED
    BY <2>2 DEF mcalcmove, base, NORMAL_SPEED
<1>2. /\ r.mmove \in Nat /\ r.mspeed \in {"none", "MSLOW", "MFAST"}
      /\ (r.web > 0) \in BOOLEAN /\ r.nitro \in BOOLEAN
  BY DEF ActorType
<1> QED
  BY <1>1, <1>2 DEF Rate

LEMMA PointsFacts ==
  ASSUME NEW r \in ActorType, NEW n \in Nat
  PROVE  /\ Points(r, n) \in Nat /\ Position(r, n) \in 0 .. 11
         /\ Points(r, n) % 12 = Position(r, n)
         /\ Points(r, n) \div 12 \in Nat
         /\ Points(r, n) = 12 * (Points(r, n) \div 12) + Position(r, n)
<1> DEFINE s == Rate(r)
           p == Position(r, n)
           t == s + ((p + 12 - (s % 12)) % 12)
<1>1. s \in Nat
  BY RateNat
<1>2. r.offset \in Nat
  BY DEF ActorType
<1>3. n * s + r.offset \in Nat
  BY <1>1, <1>2
<1>4. p \in 0 .. 11
  BY <1>3 DEF Position, NORMAL_SPEED
<1>5. Points(r, n) = t
  BY DEF Points, NORMAL_SPEED
<1> HIDE DEF s, p
<1>6. t \in Nat /\ t % 12 = p
  BY <1>1, <1>4
<1> HIDE DEF t
<1>7. t \div 12 \in Nat /\ t = 12 * (t \div 12) + (t % 12)
  BY <1>6
<1> QED
  BY <1>4, <1>5, <1>6, <1>7 DEF p

\* In the next turn an actor has its speed and what was left.
LEMMA PointsNext ==
  ASSUME NEW r \in ActorType, NEW n \in 0 .. 11
  PROVE  Points(r, (n + 1) % 12) = Rate(r) + Position(r, n)
<1> DEFINE s == Rate(r)
           p == Position(r, n)
           q == Position(r, (n + 1) % 12)
<1>1. s \in Nat /\ p \in 0 .. 11
  BY RateNat, PointsFacts
<1>2. q = (p + s) % 12
  <2>1. r.offset \in Nat
    BY DEF ActorType, NORMAL_SPEED
  <2>2. (((n + 1) % 12) * s + r.offset) % 12 = (((n * s + r.offset) % 12) + s) % 12
    BY <1>1, <2>1, NextPosition, Zenon
  <2> QED
    BY <2>2, Zenon DEF Position, NORMAL_SPEED
<1>3. Points(r, (n + 1) % 12) = s + ((q + 12 - (s % 12)) % 12)
  BY DEF Points, NORMAL_SPEED
<1> HIDE DEF s, p, q
<1>4. ((q + 12 - (s % 12)) % 12) = p
  BY <1>1, <1>2
<1> QED
  BY <1>3, <1>4 DEF s, p

\* adjust_move_offset keeps the position.
LEMMA AdjustedFacts ==
  ASSUME NEW r \in ActorType, NEW old \in Nat, moves \in 0 .. 11,
         NEW x, x = Adjusted(r, old, Rate(r))
  PROVE  /\ x \in ActorType /\ Rate(x) = Rate(r)
         /\ x.due = r.due /\ x.deal = r.deal /\ x.web = r.web /\ x.nitro = r.nitro
         /\ x.mspeed = r.mspeed
         /\ Position(x, moves) = (moves * old + r.offset) % 12
<1> DEFINE new == Rate(r)
           inc == IF new < old THEN 12 - ((old - new) % 12) ELSE (new - old) % 12
           off == (r.offset + 12 - ((moves * inc) % 12)) % 12
<1>1. new \in Nat /\ r.offset \in 0 .. 11
  BY RateNat DEF ActorType, NORMAL_SPEED
<1>2. x = [r EXCEPT !.offset = off]
  BY DEF Adjusted, NORMAL_SPEED
<1>3. inc \in Nat /\ inc % 12 = (new - old) % 12
  BY <1>1
<1>4. moves * inc \in Nat
  BY <1>3
<1>5. off \in 0 .. 11
  <2>1. ASSUME NEW y \in Nat PROVE (r.offset + 12 - (y % 12)) % 12 \in 0 .. 11
    BY <1>1
  <2> QED
    BY <1>4, <2>1
<1>6. (moves * new + off) % 12 = (moves * old + r.offset) % 12
  <2>1. moves \in Nat
    OBVIOUS
  <2>2. Balanced(moves, old, new, r.offset, inc)
    <3> HIDE DEF inc, new
    <3> QED
      BY <1>1, <1>3, <2>1, Balance
  <2> QED
    BY <2>2, Zenon DEF Balanced
<1> HIDE DEF off
<1>7. x \in ActorType /\ Rate(x) = Rate(r)
  BY <1>2, <1>5 DEF ActorType, Rate, NORMAL_SPEED
<1>8. x.offset = off
  BY <1>2 DEF ActorType
<1> QED
  BY <1>2, <1>6, <1>7, <1>8 DEF Position, ActorType, NORMAL_SPEED

\* The same under a name, for use where the terms are large
Shifted(x, r, old) ==
  /\ x \in ActorType /\ x.due = r.due /\ x.deal = r.deal
  /\ x.web = r.web /\ x.nitro = r.nitro /\ x.mspeed = r.mspeed
  /\ Position(x, moves) = (moves * old + r.offset) % 12

LEMMA AdjustedShifts ==
  ASSUME NEW r \in ActorType, NEW old \in Nat, moves \in 0 .. 11
  PROVE  Shifted(Adjusted(r, old, Rate(r)), r, old)
<1> DEFINE x == Adjusted(r, old, Rate(r))
<1>1. /\ x \in ActorType /\ Rate(x) = Rate(r)
      /\ x.due = r.due /\ x.deal = r.deal /\ x.web = r.web /\ x.nitro = r.nitro
      /\ x.mspeed = r.mspeed
      /\ Position(x, moves) = (moves * old + r.offset) % 12
  <2> HIDE DEF x
  <2> SUFFICES x = Adjusted(r, old, Rate(r))
    BY AdjustedFacts
  <2> QED
    BY DEF x
<1> QED
  BY <1>1, Zenon DEF Shifted

-----------------------------------------------------------------------------
\* The bookkeeping of one actor, which has had k chances to act in turn n.

Least(k, l) == IF k < l THEN k ELSE l
Plain(r) == r.web = 0 /\ r.nitro = FALSE

Fair(r, n, k) ==
  /\ r.deal = "kept" =>
       r.due = Points(r, n) - 12 * Least(k, Points(r, n) \div 12)
  /\ r.deal = "adjusted" => r.due % 12 = Position(r, n)
  /\ r.deal \in {"kept", "adjusted"} => Plain(r)

\* What movement points depend on
LEMMA SamePoints ==
  ASSUME NEW r, NEW q, NEW n, Rate(q) = Rate(r), q.offset = r.offset
  PROVE  Points(q, n) = Points(r, n) /\ Position(q, n) = Position(r, n)
BY DEF Points, Position

LEMMA SpendType ==
  ASSUME NEW r \in ActorType
  PROVE  /\ Spend(r) \in ActorType /\ Spend(r).due = r.due - 12
         /\ Spend(r).deal = r.deal /\ Spend(r).offset = r.offset
         /\ Spend(r).web = r.web /\ Spend(r).nitro = r.nitro
         /\ Spend(r).mmove = r.mmove /\ Spend(r).mspeed = r.mspeed
         /\ Rate(Spend(r)) = Rate(r)
BY DEF Spend, ActorType, Rate, NORMAL_SPEED

LEMMA SpentType ==
  ASSUME NEW r \in ActorType
  PROVE  /\ Spent(r) \in ActorType /\ Spent(r).due = r.due
         /\ Spent(r).deal = r.deal /\ Spent(r).offset = r.offset
         /\ Spent(r).mmove = r.mmove /\ Spent(r).mspeed = r.mspeed
         /\ Plain(r) => Plain(Spent(r)) /\ Rate(Spent(r)) = Rate(r)
<1>1. r.web \in 0 .. MaxWeb /\ MaxWeb \in Nat
  BY TurnAssumption DEF ActorType
<1>2. (IF r.web > 0 THEN r.web - 1 ELSE 0) \in 0 .. MaxWeb
  BY <1>1
<1>3. /\ Spent(r) \in ActorType /\ Spent(r).due = r.due
      /\ Spent(r).deal = r.deal /\ Spent(r).offset = r.offset
      /\ Spent(r).mmove = r.mmove /\ Spent(r).mspeed = r.mspeed
      /\ Spent(r).nitro = FALSE
      /\ Spent(r).web = IF r.web > 0 THEN r.web - 1 ELSE 0
  BY <1>1, <1>2 DEF Spent, ActorType
<1>4. ASSUME Plain(r) PROVE Spent(r).web = r.web /\ Spent(r).nitro = r.nitro
  <2>1. r.web = 0 /\ ~(r.web > 0)
    BY <1>4 DEF Plain
  <2> QED
    BY <1>3, <1>4, <2>1, Zenon DEF Plain
<1>5. Plain(r) => Rate(Spent(r)) = Rate(r)
  BY <1>3, <1>4, Zenon DEF Rate
<1> QED
  BY <1>3, <1>4, <1>5, Zenon DEF Plain

LEMMA LooseType ==
  ASSUME NEW r \in ActorType
  PROVE  Loose(r) \in ActorType /\ Loose(r).deal = "loose"
BY DEF Loose, ActorType

\* An actor that has an action left acts, and pays.
LEMMA ActFair ==
  ASSUME NEW r \in ActorType, NEW n \in Nat, NEW k \in Nat, Fair(r, n, k),
         k < Points(r, n) \div 12,
         NEW q \in ActorType, q.due = r.due - 12, q.deal = r.deal, q.offset = r.offset,
         Plain(r) => Plain(q) /\ Rate(q) = Rate(r)
  PROVE  Fair(q, n, k + 1)
<1>1. CASE r.deal = "kept"
  <2>1. Points(q, n) = Points(r, n)
    BY <1>1, SamePoints DEF Fair
  <2>2. r.due = Points(r, n) - 12 * k /\ Points(r, n) \in Nat /\ Points(r, n) \div 12 \in Nat
    BY <1>1, PointsFacts DEF Fair, Least
  <2>3. Least(k + 1, Points(r, n) \div 12) = k + 1
    BY <2>2 DEF Least
  <2> QED
    BY <1>1, <2>1, <2>2, <2>3 DEF Fair
<1>2. CASE r.deal = "adjusted"
  <2>1. Position(q, n) = Position(r, n)
    BY <1>2, SamePoints DEF Fair
  <2>2. r.due \in Int /\ (r.due - 12) % 12 = r.due % 12
    BY DEF ActorType
  <2> QED
    BY <1>2, <2>1, <2>2 DEF Fair
<1>3. CASE r.deal \notin {"kept", "adjusted"}
  BY <1>3 DEF Fair
<1> QED
  BY <1>1, <1>2, <1>3

\* One that has none does not, and loses nothing.
LEMMA SkipFair ==
  ASSUME NEW r \in ActorType, NEW n \in Nat, NEW k \in Nat, Fair(r, n, k),
         ~(k < Points(r, n) \div 12),
         NEW q \in ActorType, q.due = r.due, q.deal = r.deal, q.offset = r.offset,
         Plain(r) => Plain(q) /\ Rate(q) = Rate(r)
  PROVE  Fair(q, n, k + 1)
<1>1. CASE r.deal = "kept"
  <2>1. Points(q, n) = Points(r, n)
    BY <1>1, SamePoints DEF Fair
  <2>2. Points(r, n) \div 12 \in Nat
    BY PointsFacts
  <2>3. Least(k + 1, Points(r, n) \div 12) = Least(k, Points(r, n) \div 12)
    BY <2>2 DEF Least
  <2> QED
    BY <1>1, <2>1, <2>3 DEF Fair
<1>2. CASE r.deal = "adjusted"
  <2>1. Position(q, n) = Position(r, n)
    BY <1>2, SamePoints DEF Fair
  <2> QED
    BY <1>2, <2>1 DEF Fair
<1>3. CASE r.deal \notin {"kept", "adjusted"}
  BY <1>3 DEF Fair
<1> QED
  BY <1>1, <1>2, <1>3

\* What fairness says of an actor at the end of its turn
LEMMA FairBounds ==
  ASSUME NEW r \in ActorType, NEW n \in Nat, NEW k \in Nat, Fair(r, n, k), r.deal = "kept"
  PROVE  /\ r.due >= 0
         /\ ~(k < Points(r, n) \div 12) => r.due = Position(r, n) /\ r.due < 12
<1> DEFINE p == Points(r, n)
           l == p \div 12
<1>1. p \in Nat /\ l \in Nat /\ Position(r, n) \in 0 .. 11 /\ p = 12 * l + Position(r, n)
  BY PointsFacts
<1>2. r.due = p - 12 * Least(k, l)
  BY DEF Fair
<1> HIDE DEF l, p
<1>3. Least(k, l) \in Nat /\ Least(k, l) <= l /\ (~(k < l) => Least(k, l) = l)
  BY <1>1 DEF Least
<1> QED
  BY <1>1, <1>2, <1>3 DEF l, p

-----------------------------------------------------------------------------
\* Changes of a monster, new monsters, and the turn boundary

LEMMA DueMod ==
  ASSUME NEW r \in ActorType, NEW n \in Nat, NEW k \in Nat, Fair(r, n, k),
         r.deal \in {"kept", "adjusted"}
  PROVE  r.due % 12 = Position(r, n)
<1>1. CASE r.deal = "kept"
  <2> DEFINE p == Points(r, n)
             l == Least(k, p \div 12)
  <2>1. p \in Nat /\ p % 12 = Position(r, n) /\ p \div 12 \in Nat
    BY PointsFacts
  <2>2. l \in Nat
    BY <2>1 DEF Least
  <2>3. r.due = p - 12 * l
    BY <1>1 DEF Fair
  <2> HIDE DEF p, l
  <2>4. (p - 12 * l) % 12 = p % 12
    BY <2>1, <2>2
  <2> QED
    BY <2>1, <2>3, <2>4
<1>2. CASE r.deal = "adjusted"
  BY <1>2 DEF Fair
<1> QED
  BY <1>1, <1>2

\* mon_adjust_speed neither gives nor takes a fraction of an action.
LEMMA AdjustSpeedFair ==
  ASSUME NEW r \in ActorType, moves \in 0 .. 11, NEW k \in Nat, Fair(r, moves, k),
         NEW s \in {"none", "MSLOW", "MFAST"}
  PROVE  AdjustSpeed(r, s) \in ActorType /\ Fair(AdjustSpeed(r, s), moves, k)
<1> DEFINE q == [Spent(r) EXCEPT !.mspeed = s]
           x == Adjusted(q, Rate(r), Rate(q))
           noted == [x EXCEPT !.deal = "adjusted"]
           y == IF r.web > 0 \/ r.nitro THEN Loose(x)
                ELSE IF x.deal = "kept" THEN noted ELSE x
<1>1. AdjustSpeed(r, s) = Spent(y)
  BY DEF AdjustSpeed
<1>2. /\ q \in ActorType /\ q.due = r.due /\ q.deal = r.deal /\ q.offset = r.offset
      /\ q.web = Spent(r).web /\ q.nitro = Spent(r).nitro
  BY SpentType DEF ActorType
<1>3. Plain(r) => Plain(q)
  BY <1>2, SpentType, Zenon DEF Plain
<1> HIDE DEF q
<1>4. Rate(r) \in Nat
  BY RateNat
<1>5. /\ x \in ActorType /\ x.due = q.due /\ x.deal = q.deal /\ x.web = q.web
      /\ x.nitro = q.nitro
      /\ Position(x, moves) = (moves * Rate(r) + q.offset) % 12
  BY <1>2, <1>4, AdjustedFacts, ZenonT(30)
<1>6. Position(x, moves) = Position(r, moves)
  BY <1>2, <1>5, Zenon DEF Position, NORMAL_SPEED
<1>7. Plain(r) => Plain(x)
  BY <1>3, <1>5, Zenon DEF Plain
<1> HIDE DEF x
<1>8. CASE r.deal \in {"kept", "adjusted"}
  <2>1. Plain(r) /\ r.due % 12 = Position(r, moves)
    BY <1>8, DueMod DEF Fair
  <2>2. ~(r.web > 0 \/ r.nitro)
    BY <2>1 DEF Plain
  <2>3. y \in ActorType /\ y.deal = "adjusted" /\ y.due = x.due
        /\ y.web = x.web /\ y.nitro = x.nitro /\ y.offset = x.offset
        /\ y.mmove = x.mmove /\ y.mspeed = x.mspeed
    BY <1>2, <1>5, <1>8, <2>2 DEF ActorType
  <2> HIDE DEF y
  <2>4. Plain(y) /\ Rate(y) = Rate(x)
    BY <1>7, <2>1, <2>3, Zenon DEF Plain, Rate
  <2>5. /\ Spent(y) \in ActorType /\ Spent(y).due = y.due /\ Spent(y).deal = y.deal
        /\ Spent(y).offset = y.offset /\ Plain(Spent(y)) /\ Rate(Spent(y)) = Rate(y)
    BY <2>3, <2>4, SpentType
  <2>6. Position(Spent(y), moves) = Position(x, moves)
    BY <2>3, <2>4, <2>5, Zenon DEF Position
  <2> QED
    BY <1>1, <1>2, <1>5, <1>6, <2>1, <2>3, <2>5, <2>6 DEF Fair
<1>9. CASE r.deal \notin {"kept", "adjusted"}
  <2>1. y \in ActorType /\ y.deal \notin {"kept", "adjusted"}
    BY <1>2, <1>5, <1>9, LooseType
  <2> HIDE DEF y
  <2>2. Spent(y) \in ActorType /\ Spent(y).deal = y.deal
    BY <2>1, SpentType
  <2> QED
    BY <1>1, <2>1, <2>2 DEF Fair
<1> QED
  BY <1>8, <1>9

LEMMA AdjustSpeedDeal ==
  ASSUME NEW r \in ActorType, moves \in 0 .. 11, NEW s \in {"none", "MSLOW", "MFAST"}
  PROVE  AdjustSpeed(r, s).deal # "kept"
<1> DEFINE q == [Spent(r) EXCEPT !.mspeed = s]
           x == Adjusted(q, Rate(r), Rate(q))
           y == IF r.web > 0 \/ r.nitro THEN Loose(x)
                ELSE IF x.deal = "kept" THEN [x EXCEPT !.deal = "adjusted"] ELSE x
<1>1. AdjustSpeed(r, s) = Spent(y)
  BY DEF AdjustSpeed
<1>2. q \in ActorType
  BY SpentType DEF ActorType
<1> HIDE DEF q
<1>3. x \in ActorType
  BY <1>2, RateNat, AdjustedFacts
<1> HIDE DEF x
<1>4. y \in ActorType /\ y.deal # "kept"
  BY <1>3, LooseType DEF ActorType
<1> HIDE DEF y
<1> QED
  BY <1>1, <1>4, SpentType

LEMMA ChangesFair ==
  ASSUME NEW r \in ActorType, moves \in 0 .. 11, NEW k \in Nat, Fair(r, moves, k),
         NEW q \in Changes(r)
  PROVE  q \in ActorType /\ Fair(q, moves, k) /\ q.deal # "kept"
<1>1. ASSUME NEW x \in ActorType, q = Loose(x) PROVE q \in ActorType /\ Fair(q, moves, k) /\ q.deal # "kept"
  BY <1>1, LooseType DEF Fair
<1>2. ASSUME NEW f \in Forms, q = Loose([r EXCEPT !.mmove = f])
      PROVE  q \in ActorType /\ Fair(q, moves, k) /\ q.deal # "kept"
  <2>1. [r EXCEPT !.mmove = f] \in ActorType
    BY TurnAssumption DEF ActorType
  <2> QED
    BY <1>1, <1>2, <2>1
<1>3. ASSUME NEW n \in 1 .. MaxWeb, q = Loose([r EXCEPT !.web = n])
      PROVE  q \in ActorType /\ Fair(q, moves, k) /\ q.deal # "kept"
  <2>1. [r EXCEPT !.web = n] \in ActorType
    BY TurnAssumption DEF ActorType
  <2> QED
    BY <1>1, <1>3, <2>1
<1>4. ASSUME q = Loose([r EXCEPT !.nitro = TRUE])
      PROVE  q \in ActorType /\ Fair(q, moves, k) /\ q.deal # "kept"
  <2>1. [r EXCEPT !.nitro = TRUE] \in ActorType
    BY DEF ActorType
  <2> QED
    BY <1>1, <1>4, <2>1
<1>5. ASSUME NEW s \in {"none", "MSLOW", "MFAST"}, q = AdjustSpeed(r, s)
      PROVE  q \in ActorType /\ Fair(q, moves, k) /\ q.deal # "kept"
  <2>1. q \in ActorType /\ Fair(q, moves, k)
    BY <1>5, AdjustSpeedFair
  <2> QED
    BY <2>1, <1>5, AdjustSpeedDeal
<1> QED
  BY <1>2, <1>3, <1>4, <1>5, Zenon DEF Changes

LEMMA BornFair ==
  ASSUME NEW f \in Forms, moves \in 0 .. 11, NEW n \in Nat, NEW k \in Nat
  PROVE  Born(f) \in ActorType /\ Fair(Born(f), n, k) /\ Born(f).deal = "new"
<1>1. f \in Nat /\ MaxWeb \in Nat /\ 0 \in 0 .. MaxWeb
  BY TurnAssumption
<1>2. (f * (moves + 12 - 1)) \in Nat
  BY <1>1
<1>3. ASSUME NEW x \in Nat PROVE x % 12 \in 0 .. 11
  OBVIOUS
<1>4. (f * (moves + 12 - 1)) % 12 \in 0 .. 11
  BY <1>2, <1>3, Zenon
<1>5. ASSUME NEW o \in 0 .. 11
      PROVE  /\ [NewActor(f, o) EXCEPT !.deal = "new"] \in ActorType
             /\ [NewActor(f, o) EXCEPT !.deal = "new"].deal = "new"
  <2>1. NewActor(f, o) \in ActorType
    BY <1>1 DEF NewActor, ActorType, NORMAL_SPEED
  <2> QED
    BY <2>1 DEF ActorType
<1>6. Born(f) \in ActorType /\ Born(f).deal = "new"
  BY <1>4, <1>5, Zenon DEF Born, NORMAL_SPEED
<1> QED
  BY <1>6 DEF Fair

\* With an actor's last action of the turn, what is left is its position.
Settled(r, n) ==
  /\ r.deal = "kept" => r.due = Position(r, n)
  /\ r.deal = "adjusted" => r.due % 12 = Position(r, n)

LEMMA NextTurnFair ==
  ASSUME NEW r \in ActorType, NEW n \in 0 .. 11, Settled(r, n),
         NEW q, q = NextTurn(r, (n + 1) % 12)
  PROVE  /\ q \in ActorType /\ Fair(q, (n + 1) % 12, 0) /\ q.mspeed = r.mspeed
         /\ q.mmove = r.mmove /\ q.web = r.web /\ q.nitro = r.nitro
         /\ Plain(r) => q.deal = "kept"
<1> DEFINE m == (n + 1) % 12
           due == CASE r.deal = "kept" -> r.due + Rate(r)
                    [] r.deal = "adjusted" -> (r.due % 12) + Rate(r)
                    [] OTHER -> Points(r, m)
           deal == IF r.web > 0 \/ r.nitro THEN "loose" ELSE "kept"
<1>1. q = [r EXCEPT !.due = due, !.deal = deal]
  BY DEF NextTurn, NORMAL_SPEED
<1>2. Points(r, m) = Rate(r) + Position(r, n) /\ m \in Nat
  BY PointsNext
<1>3. Rate(r) \in Nat /\ Position(r, n) \in 0 .. 11
  BY RateNat, PointsFacts
<1> HIDE DEF m
<1>4. due = Points(r, m)
  BY <1>2, <1>3 DEF Settled
<1>a. deal \in {"kept", "loose"}
  OBVIOUS
<1>b. due \in Int
  <2> HIDE DEF due
  <2> QED
    BY <1>2, <1>3, <1>4
<1> HIDE DEF due, deal
<1>5. /\ q \in ActorType /\ q.due = due /\ q.deal = deal /\ q.mspeed = r.mspeed
      /\ q.mmove = r.mmove /\ q.web = r.web /\ q.nitro = r.nitro /\ q.offset = r.offset
  BY <1>1, <1>a, <1>b DEF ActorType
<1>6. Points(q, m) = Points(r, m)
  BY <1>5, SamePoints, Zenon DEF Rate
<1>7. Points(q, m) \div 12 \in Nat /\ Points(q, m) \in Nat
  BY <1>2, <1>5, PointsFacts
<1>8. Least(0, Points(q, m) \div 12) = 0
  BY <1>7 DEF Least
<1>9. q.deal = "kept" => Plain(q)
  <2>1. r.web \in 0 .. MaxWeb /\ MaxWeb \in Nat /\ r.nitro \in BOOLEAN
    BY TurnAssumption DEF ActorType
  <2>2. ~(r.web > 0) => r.web = 0
    BY <2>1
  <2> QED
    BY <1>5, <2>1, <2>2, Zenon DEF Plain, deal
<1>10. Plain(r) => q.deal = "kept"
  BY <1>5 DEF Plain, deal
<1>11. q.deal # "adjusted"
  BY <1>5, <1>a
<1> QED
  BY <1>4, <1>5, <1>6, <1>7, <1>8, <1>9, <1>10, <1>11 DEF Fair, m

-----------------------------------------------------------------------------
\* The invariant

\* The chances that actor a has had this turn.  While movemon runs, the hero has
\* had one more than the global counter says, and so has each monster reached.
Chances(a) == actions + (IF pc = "pass" /\ a \notin todo THEN 1 ELSE 0)

AllFair == \A a \in on \cup {Hero} : Fair(act[a], moves, Chances(a))
HeroKept == act[Hero].deal = "kept" /\ act[Hero].mspeed = "none"
HeroCan == pc = "hero" => CanAct(act[Hero])
Exhausted(S) == \A a \in S : act[a].deal = "kept" => ~CanAct(act[a])
BoundaryDue == pc = "boundary" => Exhausted(on \cup {Hero})
Unmoved == pc = "pass" /\ ~moved => Exhausted(on \ todo)

FairInv == TypeOK /\ AllFair /\ HeroKept /\ HeroCan /\ BoundaryDue /\ Unmoved

LEMMA ChancesNat ==
  ASSUME TypeOK, NEW a
  PROVE  Chances(a) \in Nat
BY DEF TypeOK, Chances

LEMMA GoneType == Gone \in ActorType
<1>1. 0 \in 0 .. MaxWeb /\ 0 \in Nat /\ 0 \in 0 .. 11 /\ 0 \in Int
  BY TurnAssumption
<1> QED
  BY <1>1 DEF Gone, NewActor, ActorType, NORMAL_SPEED

LEMMA CanActPoints ==
  ASSUME NEW r
  PROVE  CanAct(r) <=> actions < Points(r, moves) \div 12
BY DEF CanAct, Share, NORMAL_SPEED

\* Whatever an action brings about, the bookkeeping of all others is right.
LEMMA EffectFair ==
  ASSUME TypeOK, NEW x \in [Actors -> ActorType], NEW k \in [Actors -> Nat], Effect(x),
         \A a \in on \cup {Hero} : Fair(x[a], moves, k[a])
  PROVE  /\ act' \in [Actors -> ActorType] /\ on' \subseteq Mons
         /\ effects' \in 0 .. MaxEffects
         /\ \A a \in on' \cup {Hero} : Fair(act'[a], moves, k[a])
         /\ act'[Hero] = x[Hero]
<1>1. Hero \notin Mons /\ MaxEffects \in Nat
  BY TurnAssumption
<1>2. on \subseteq Mons /\ moves \in 0 .. 11 /\ effects \in 0 .. MaxEffects
  BY DEF TypeOK, NORMAL_SPEED
<1>3. \A a \in Actors : x[a] \in ActorType /\ k[a] \in Nat
  OBVIOUS
<1>4. CASE act' = x /\ UNCHANGED <<on, effects>>
  BY <1>2, <1>4
<1>5. ASSUME effects < MaxEffects, effects' = effects + 1
      PROVE  effects' \in 0 .. MaxEffects
  BY <1>1, <1>2, <1>5
<1>6. ASSUME NEW m \in on, NEW r \in Changes(x[m]), act' = [x EXCEPT ![m] = r],
             UNCHANGED on, effects' \in 0 .. MaxEffects
      PROVE  /\ act' \in [Actors -> ActorType] /\ on' \subseteq Mons
             /\ \A a \in on' \cup {Hero} : Fair(act'[a], moves, k[a])
             /\ act'[Hero] = x[Hero]
  <2>1. m \in Actors /\ m # Hero
    BY <1>1, <1>2 DEF Actors
  <2>2. r \in ActorType /\ Fair(r, moves, k[m])
    BY <1>2, <1>3, <2>1, ChangesFair
  <2> QED
    BY <1>2, <1>6, <2>1, <2>2 DEF Actors
<1>7. ASSUME NEW m \in on, act' = [x EXCEPT ![m] = Gone], on' = on \ {m}
      PROVE  /\ act' \in [Actors -> ActorType] /\ on' \subseteq Mons
             /\ \A a \in on' \cup {Hero} : Fair(act'[a], moves, k[a])
             /\ act'[Hero] = x[Hero]
  <2>1. m \in Actors /\ m # Hero
    BY <1>1, <1>2 DEF Actors
  <2> QED
    BY <1>2, <1>7, <2>1, GoneType DEF Actors
<1>8. ASSUME NEW m \in Mons \ on, NEW f \in Forms, act' = [x EXCEPT ![m] = Born(f)],
             on' = on \cup {m}
      PROVE  /\ act' \in [Actors -> ActorType] /\ on' \subseteq Mons
             /\ \A a \in on' \cup {Hero} : Fair(act'[a], moves, k[a])
             /\ act'[Hero] = x[Hero]
  <2>1. m \in Actors /\ m # Hero /\ moves \in Nat
    BY <1>1, <1>2 DEF Actors
  <2>2. Born(f) \in ActorType /\ Fair(Born(f), moves, k[m])
    BY <1>2, <1>3, <2>1, BornFair
  <2> QED
    BY <1>2, <1>8, <2>1, <2>2 DEF Actors
<1>9. Effect(x) <=>
        \/ act' = x /\ UNCHANGED <<on, effects>>
        \/ /\ effects < MaxEffects /\ effects' = effects + 1
           /\ \/ /\ \E m \in on : \E r \in Changes(x[m]) : act' = [x EXCEPT ![m] = r]
                 /\ UNCHANGED on
              \/ \E m \in on : act' = [x EXCEPT ![m] = Gone] /\ on' = on \ {m}
              \/ \E m \in Mons \ on, f \in Forms :
                   act' = [x EXCEPT ![m] = Born(f)] /\ on' = on \cup {m}
  BY DEF Effect
<1> QED
  BY <1>4, <1>5, <1>6, <1>7, <1>8, <1>9, Zenon

-----------------------------------------------------------------------------
\* Every step keeps the invariant.

LEMMA InitFair == Init => FairInv
<1> SUFFICES ASSUME Init PROVE FairInv
  OBVIOUS
<1>1. /\ moves = 1 /\ actions = 0 /\ pc = "hero" /\ moved = FALSE /\ effects = 0
      /\ on \subseteq Mons /\ todo = {}
  BY DEF Init
<1>2. PICK form \in [Mons -> Forms], off \in [Mons -> Offsets] :
        act = [a \in Actors |-> Started(IF a = Hero THEN NewActor(NORMAL_SPEED, 0)
                                       ELSE IF a \in on THEN NewActor(form[a], off[a])
                                       ELSE Gone)]
  BY DEF Init
<1>3. ASSUME NEW mmove \in Nat, NEW o \in 0 .. 11, NEW q, q = Started(NewActor(mmove, o))
      PROVE  /\ q \in ActorType /\ q.deal = "kept" /\ q.mspeed = "none"
             /\ Fair(q, 1, 0)
  <2> DEFINE r == NewActor(mmove, o)
  <2>1. 0 \in 0 .. MaxWeb /\ 0 \in Int
    BY TurnAssumption
  <2>2. r \in ActorType /\ r.deal = "kept" /\ Plain(r) /\ r.mspeed = "none"
    BY <2>1 DEF NewActor, ActorType, Plain, NORMAL_SPEED
  <2> HIDE DEF r
  <2>3. q = [r EXCEPT !.due = Points(r, 1)]
    BY <1>3 DEF Started, r
  <2>4. Points(r, 1) \in Nat
    BY <2>2, PointsFacts
  <2>5. /\ q \in ActorType /\ q.due = Points(r, 1) /\ q.deal = r.deal
        /\ q.web = r.web /\ q.nitro = r.nitro /\ q.offset = r.offset
        /\ q.mmove = r.mmove /\ q.mspeed = r.mspeed
    BY <2>2, <2>3, <2>4 DEF ActorType
  <2>6. Plain(q) /\ Rate(q) = Rate(r)
    BY <2>2, <2>5, Zenon DEF Plain, Rate
  <2>7. Points(q, 1) = Points(r, 1)
    BY <2>5, <2>6, SamePoints
  <2>8. Points(q, 1) \div 12 \in Nat
    BY <2>5, PointsFacts
  <2>9. Least(0, Points(q, 1) \div 12) = 0
    BY <2>8 DEF Least
  <2> QED
    BY <2>2, <2>4, <2>5, <2>6, <2>7, <2>9 DEF Fair
<1>4. ASSUME NEW a \in Actors
      PROVE  /\ act[a] \in ActorType /\ act[a].deal = "kept" /\ act[a].mspeed = "none"
             /\ Fair(act[a], 1, 0)
  <2>1. CASE a = Hero
    BY <1>2, <1>3, <2>1, 12 \in Nat, 0 \in 0 .. 11, Zenon DEF NORMAL_SPEED
  <2>2. CASE a # Hero /\ a \in on
    <3>1. form[a] \in Nat /\ off[a] \in 0 .. 11
      BY <1>1, <2>2, TurnAssumption
    <3>2. act[a] = Started(NewActor(form[a], off[a]))
      BY <1>2, <2>2, Zenon
    <3> QED
      BY <1>3, <3>1, <3>2, Zenon
  <2>3. CASE a # Hero /\ a \notin on
    BY <1>2, <1>3, <2>3, 0 \in Nat, 0 \in 0 .. 11, Zenon DEF Gone
  <2> QED
    BY <2>1, <2>2, <2>3
<1>5. TypeOK
  <2>1. act \in [Actors -> ActorType]
    BY <1>2, <1>4, Zenon
  <2>2. 1 \in 0 .. (12 - 1) /\ 0 \in Nat /\ 0 \in 0 .. MaxEffects
    BY TurnAssumption
  <2> QED
    BY <1>1, <2>1, <2>2, Zenon DEF TypeOK, NORMAL_SPEED
<1>6. AllFair
  <2>1. ASSUME NEW a \in on \cup {Hero} PROVE Fair(act[a], moves, Chances(a))
    <3>1. a \in Actors
      BY <1>1 DEF Actors
    <3>2. Chances(a) = 0
      BY <1>1 DEF Chances
    <3> QED
      BY <1>1, <1>4, <3>1, <3>2
  <2> QED
    BY <2>1 DEF AllFair
<1>7. HeroKept
  BY <1>4 DEF HeroKept, Actors
<1>8. HeroCan
  <2>1. act[Hero] = Started(NewActor(12, 0))
    BY <1>2, Zenon DEF Actors, NORMAL_SPEED
  <2>2. 0 \in 0 .. MaxWeb /\ 0 \in Int
    BY TurnAssumption
  <2> DEFINE r == NewActor(12, 0)
             q == act[Hero]
  <2>3. r.mmove = 12 /\ r.mspeed = "none" /\ r.web = 0 /\ r.nitro = FALSE /\ r.offset = 0
        /\ r \in ActorType
    BY <2>2 DEF NewActor, ActorType, NORMAL_SPEED
  <2> HIDE DEF r
  <2>4. q.mmove = 12 /\ q.mspeed = "none" /\ q.web = 0 /\ q.nitro = FALSE /\ q.offset = 0
    BY <2>1, <2>3 DEF Started, r, ActorType
  <2> HIDE DEF q
  <2>5. Rate(q) = 12
    BY <2>4 DEF Rate, mcalcmove
  <2>6. Points(q, 1) = 12
    BY <2>4, <2>5 DEF Points, Position, NORMAL_SPEED
  <2> QED
    BY <1>1, <2>6, CanActPoints DEF HeroCan, q
<1> QED
  BY <1>1, <1>5, <1>6, <1>7, <1>8 DEF FairInv, BoundaryDue, Unmoved

\* The hero's action
LEMMA HeroActsFair ==
  ASSUME FairInv, HeroActs
  PROVE  FairInv'
<1> USE DEF FairInv
<1> DEFINE x == [act EXCEPT ![Hero] = Spend(@)]
           k == [a \in Actors |-> IF a = Hero THEN actions + 1 ELSE actions]
<1>1. /\ pc = "hero" /\ Effect(x) /\ pc' = "pass" /\ todo' = on' /\ moved' = FALSE
      /\ UNCHANGED <<moves, actions>>
  BY DEF HeroActs
<1>2. /\ act \in [Actors -> ActorType] /\ on \subseteq Mons /\ actions \in Nat
      /\ moves \in 0 .. 11 /\ moves \in Nat
  BY DEF TypeOK, NORMAL_SPEED
<1>3. Hero \in Actors /\ Hero \notin Mons /\ act[Hero] \in ActorType
  BY <1>2, TurnAssumption DEF Actors
<1>4. \A a \in on \cup {Hero} : Fair(act[a], moves, actions)
  BY <1>1, <1>2 DEF AllFair, Chances
<1>5. Spend(act[Hero]) \in ActorType /\ Fair(Spend(act[Hero]), moves, actions + 1)
  <2>1. actions < Points(act[Hero], moves) \div 12
    BY <1>1, CanActPoints DEF HeroCan
  <2>2. Plain(Spend(act[Hero])) <=> Plain(act[Hero])
    BY <1>3, SpendType, Zenon DEF Plain
  <2> QED
    BY <1>2, <1>3, <1>4, <2>1, <2>2, SpendType, ActFair
<1>6. x \in [Actors -> ActorType] /\ k \in [Actors -> Nat] /\ x[Hero] = Spend(act[Hero])
  BY <1>2, <1>3, <1>5
<1>7. \A a \in on \cup {Hero} : Fair(x[a], moves, k[a])
  BY <1>2, <1>3, <1>4, <1>5 DEF Actors
<1> HIDE DEF x
<1>8. /\ act' \in [Actors -> ActorType] /\ on' \subseteq Mons
      /\ effects' \in 0 .. MaxEffects
      /\ \A a \in on' \cup {Hero} : Fair(act'[a], moves, k[a])
      /\ act'[Hero] = x[Hero]
  <2> HIDE DEF k
  <2> QED
    BY <1>1, <1>6, <1>7, EffectFair
<1>9. TypeOK'
  BY <1>1, <1>8 DEF TypeOK
<1>10. AllFair'
  <2>1. ASSUME NEW a \in on' \cup {Hero} PROVE Fair(act'[a], moves, Chances(a)')
    <3>1. Chances(a)' = k[a]
      BY <1>1, <1>2, <1>3, <1>8 DEF Chances, Actors
    <3> QED
      BY <1>8, <3>1
  <2> QED
    BY <1>1, <2>1 DEF AllFair
<1>11. HeroKept'
  BY <1>3, <1>6, <1>8, SpendType DEF HeroKept
<1> QED
  BY <1>1, <1>9, <1>10, <1>11 DEF HeroCan, BoundaryDue, Unmoved, Exhausted

\* movemon reaches a monster.
LEMMA MonTurnFair ==
  ASSUME FairInv, NEW m \in Mons, MonTurn(m)
  PROVE  FairInv'
<1> USE DEF FairInv
<1> DEFINE r == act[m]
<1>1. /\ pc = "pass" /\ m \in todo /\ todo' = (todo \ {m}) \cap on'
      /\ UNCHANGED <<moves, actions, pc>>
  BY DEF MonTurn
<1>2. /\ act \in [Actors -> ActorType] /\ on \subseteq Mons /\ todo \subseteq on
      /\ actions \in Nat /\ moves \in 0 .. 11 /\ moves \in Nat
  BY DEF TypeOK, NORMAL_SPEED
<1>3. /\ Hero \in Actors /\ Hero \notin Mons /\ m \in Actors /\ m # Hero
      /\ r \in ActorType /\ act[Hero] \in ActorType
  BY <1>2, TurnAssumption DEF Actors
<1>4. \A a \in on \cup {Hero} : Fair(act[a], moves, IF a \in todo THEN actions ELSE actions + 1)
  BY <1>1, <1>2 DEF AllFair, Chances
<1>5. Fair(r, moves, actions)
  BY <1>1, <1>2, <1>4
<1>6. CanAct(r) <=> actions < Points(r, moves) \div 12
  BY CanActPoints
<1> HIDE DEF r
<1> DEFINE s == Spent(r)
<1>7. /\ s \in ActorType /\ s.due = r.due /\ s.deal = r.deal /\ s.offset = r.offset
      /\ Plain(r) => Plain(s) /\ Rate(s) = Rate(r)
  BY <1>3, SpentType
<1> HIDE DEF s
<1>8. CASE CanAct(r)
  <2> DEFINE q == Spend(s)
             x == [act EXCEPT ![m] = Spend(Spent(@))]
             k == [a \in Actors |-> IF a \in todo \ {m} THEN actions ELSE actions + 1]
  <2>1. moved' = TRUE /\ Effect(x)
    BY <1>8 DEF MonTurn, r
  <2>2. /\ q \in ActorType /\ q.due = s.due - 12 /\ q.deal = s.deal /\ q.offset = s.offset
        /\ q.web = s.web /\ q.nitro = s.nitro /\ Rate(q) = Rate(s)
    BY <1>7, SpendType
  <2>3. Plain(s) => Plain(q)
    BY <2>2, Zenon DEF Plain
  <2>4. x = [act EXCEPT ![m] = q]
    BY DEF r, s
  <2> HIDE DEF q, x
  <2>5. Fair(q, moves, actions + 1)
    BY <1>2, <1>3, <1>5, <1>6, <1>7, <1>8, <2>2, <2>3, ActFair
  <2>6. x \in [Actors -> ActorType] /\ k \in [Actors -> Nat] /\ x[Hero] = act[Hero]
    BY <1>2, <1>3, <2>2, <2>4
  <2>7. \A a \in on \cup {Hero} : Fair(x[a], moves, k[a])
    BY <1>2, <1>3, <1>4, <2>4, <2>5 DEF Actors
  <2>8. /\ act' \in [Actors -> ActorType] /\ on' \subseteq Mons
        /\ effects' \in 0 .. MaxEffects
        /\ \A a \in on' \cup {Hero} : Fair(act'[a], moves, k[a])
        /\ act'[Hero] = x[Hero]
    <3> HIDE DEF k
    <3> QED
      BY <2>1, <2>6, <2>7, EffectFair
  <2>9. TypeOK'
    BY <1>1, <2>1, <2>8 DEF TypeOK
  <2>10. AllFair'
    <3>1. ASSUME NEW a \in on' \cup {Hero} PROVE Fair(act'[a], moves, Chances(a)')
      <4>1. Chances(a)' = k[a]
        BY <1>1, <1>2, <1>3, <2>8 DEF Chances, Actors
      <4> QED
        BY <2>8, <4>1
    <3> QED
      BY <1>1, <3>1 DEF AllFair
  <2>11. HeroKept'
    BY <2>6, <2>8 DEF HeroKept
  <2> QED
    BY <1>1, <2>1, <2>9, <2>10, <2>11 DEF HeroCan, BoundaryDue, Unmoved
<1>9. CASE ~CanAct(r)
  <2>1. act' = [act EXCEPT ![m] = s] /\ UNCHANGED <<moved, on, effects>>
    BY <1>9 DEF MonTurn, r, s
  <2>2. Fair(s, moves, actions + 1)
    BY <1>2, <1>3, <1>5, <1>6, <1>7, <1>9, SkipFair
  <2>3. act' \in [Actors -> ActorType] /\ act'[Hero] = act[Hero] /\ act'[m] = s
    BY <1>2, <1>3, <1>7, <2>1
  <2>4. TypeOK'
    BY <1>1, <1>2, <2>1, <2>3 DEF TypeOK
  <2>5. AllFair'
    <3>1. ASSUME NEW a \in on' \cup {Hero} PROVE Fair(act'[a], moves, Chances(a)')
      <4>1. a \in on \cup {Hero} /\ a \in Actors
        BY <1>2, <2>1 DEF Actors
      <4>2. CASE a = m
        BY <1>1, <2>2, <2>3, <4>2 DEF Chances
      <4>3. CASE a # m
        <5>1. act'[a] = act[a]
          BY <1>2, <2>1, <4>1, <4>3
        <5>2. Chances(a)' = IF a \in todo THEN actions ELSE actions + 1
          BY <1>1, <1>2, <1>3, <2>1, <4>1, <4>3 DEF Chances
        <5> QED
          BY <1>4, <4>1, <5>1, <5>2
      <4> QED
        BY <4>2, <4>3
    <3> QED
      BY <1>1, <3>1 DEF AllFair
  <2>6. HeroKept'
    BY <2>3 DEF HeroKept
  <2>7. ASSUME ~moved, NEW a \in on' \ todo', act'[a].deal = "kept"
        PROVE  ~(CanAct(act[a])')
    <3>1. a \in on /\ a \in Actors
      BY <1>2, <2>1 DEF Actors
    <3>2. CanAct(act[a])' <=> actions < Points(act'[a], moves) \div 12
      BY <1>1 DEF CanAct, Share, NORMAL_SPEED
    <3>3. CASE a = m
      <4>1. Plain(r)
        BY <1>5, <1>7, <2>3, <2>7, <3>3 DEF Fair
      <4>2. Points(s, moves) = Points(r, moves)
        BY <1>7, <4>1, SamePoints
      <4> QED
        BY <1>6, <1>9, <2>3, <3>2, <3>3, <4>2
    <3>4. CASE a # m
      <4>1. act'[a] = act[a] /\ a \notin todo
        BY <1>1, <1>2, <2>1, <2>7, <3>1, <3>4
      <4>2. ~CanAct(act[a])
        BY <1>1, <2>7, <3>1, <4>1 DEF Unmoved, Exhausted
      <4> QED
        BY <3>2, <4>1, <4>2, CanActPoints
    <3> QED
      BY <3>3, <3>4
  <2> QED
    BY <1>1, <2>1, <2>4, <2>5, <2>6, <2>7 DEF HeroCan, BoundaryDue, Unmoved, Exhausted
<1> QED
  BY <1>8, <1>9

\* The end of a pass
LEMMA PassEndsFair ==
  ASSUME FairInv, PassEnds
  PROVE  FairInv'
<1> USE DEF FairInv
<1> DEFINE can == (CanAct(act[Hero]))'
<1>1. /\ pc = "pass" /\ todo = {} /\ actions' = actions + 1
      /\ UNCHANGED <<moves, act, on, effects>> /\ moved' = FALSE
      /\ pc' = IF can THEN "hero" ELSE IF moved THEN "pass" ELSE "boundary"
      /\ todo' = IF pc' = "pass" THEN on ELSE {}
  BY DEF PassEnds
<1>2. /\ act \in [Actors -> ActorType] /\ on \subseteq Mons
      /\ actions \in Nat /\ moves \in 0 .. 11 /\ moves \in Nat
  BY DEF TypeOK, NORMAL_SPEED
<1>3. Hero \notin Mons /\ act[Hero] \in ActorType
  BY <1>2, TurnAssumption DEF Actors
<1>4. \A a \in on \cup {Hero} : Fair(act[a], moves, actions + 1)
  BY <1>1 DEF AllFair, Chances
<1>5. can <=> actions + 1 < Points(act[Hero], moves) \div 12
  BY <1>1 DEF CanAct, Share, NORMAL_SPEED
<1> HIDE DEF can
<1>6. TypeOK'
  <2>1. pc' \in {"hero", "pass", "boundary"} /\ todo' \subseteq on
    BY <1>1
  <2>2. actions' \in Nat
    BY <1>1, <1>2
  <2> QED
    BY <1>1, <2>1, <2>2, Zenon DEF TypeOK
<1>7. AllFair'
  <2>1. ASSUME NEW a \in on \cup {Hero} PROVE Fair(act[a], moves, Chances(a)')
    <3>1. CASE Chances(a)' = actions + 1
      BY <1>4, <3>1
    <3>2. CASE Chances(a)' # actions + 1
      <4>1. pc' = "pass" /\ a \notin on
        BY <1>1, <1>2, <3>2 DEF Chances
      <4>2. a = Hero /\ ~can
        BY <1>1, <4>1
      <4>3. Chances(a)' = actions + 1 + 1
        BY <1>1, <1>2, <4>1 DEF Chances
      <4> QED
        BY <1>2, <1>3, <1>4, <1>5, <4>2, <4>3, SkipFair
    <3> QED
      BY <3>1, <3>2
  <2> QED
    BY <1>1, <2>1 DEF AllFair
<1>8. HeroKept'
  BY <1>1 DEF HeroKept
<1>9. HeroCan'
  BY <1>1 DEF HeroCan, can
<1>10. BoundaryDue'
  <2>1. ASSUME pc' = "boundary", NEW a \in on \cup {Hero}, act[a].deal = "kept"
        PROVE  ~(CanAct(act[a])')
    <3>1. ~can /\ ~moved
      BY <1>1, <2>1
    <3>2. CanAct(act[a])' <=> actions + 1 < Points(act[a], moves) \div 12
      BY <1>1 DEF CanAct, Share, NORMAL_SPEED
    <3>3. CASE a = Hero
      BY <3>1, <3>3 DEF can
    <3>4. CASE a \in on
      <4>1. ~(actions < Points(act[a], moves) \div 12)
        BY <1>1, <2>1, <3>1, <3>4, CanActPoints DEF Unmoved, Exhausted
      <4>2. Points(act[a], moves) \div 12 \in Nat
        BY <1>2, <3>4, PointsFacts DEF Actors
      <4> QED
        BY <1>2, <3>2, <4>1, <4>2
    <3> QED
      BY <3>3, <3>4
  <2> QED
    BY <1>1, <2>1 DEF BoundaryDue, Exhausted
<1>11. Unmoved'
  BY <1>1 DEF Unmoved, Exhausted
<1> QED
  BY <1>6, <1>7, <1>8, <1>9, <1>10, <1>11

\* The turn boundary
LEMMA PlainRate ==
  ASSUME NEW r, r.mspeed = "none", Plain(r)
  PROVE  Rate(r) = r.mmove
<1>1. (r.web > 0) = FALSE
  BY DEF Plain
<1>2. mcalcmove(r.mmove, "none", FALSE, FALSE) = r.mmove
  BY DEF mcalcmove
<1>3. Rate(r) = mcalcmove(r.mmove, "none", FALSE, FALSE)
  BY <1>1, Zenon DEF Rate, Plain
<1> QED
  BY <1>2, <1>3

LEMMA BoundaryFair ==
  ASSUME FairInv, Boundary
  PROVE  FairInv'
<1> USE DEF FairInv
<1> DEFINE next == (moves + 1) % 12
           h == act[Hero]
<1>1. /\ pc = "boundary" /\ moves' = next /\ actions' = 0
      /\ pc' = IF (CanAct(act[Hero]))' THEN "hero" ELSE "pass"
      /\ todo' = IF pc' = "pass" THEN on' ELSE {}
      /\ moved' = FALSE
  BY DEF Boundary, NORMAL_SPEED
<1>2. /\ act \in [Actors -> ActorType] /\ on \subseteq Mons
      /\ actions \in Nat /\ moves \in 0 .. 11 /\ moves \in Nat
      /\ effects \in 0 .. MaxEffects /\ MaxEffects \in Nat
  BY TurnAssumption DEF TypeOK, NORMAL_SPEED
<1>3. Hero \in Actors /\ Hero \notin Mons /\ h \in ActorType
  BY <1>2, TurnAssumption DEF Actors
<1>4. next \in 0 .. 11
  BY <1>2
<1>5. ASSUME NEW a \in on \cup {Hero} PROVE Settled(act[a], moves)
  <2>1. Fair(act[a], moves, actions) /\ act[a] \in ActorType
    BY <1>1, <1>2, <1>3 DEF AllFair, Chances, Actors
  <2>2. CASE act[a].deal = "kept"
    <3>1. ~(actions < Points(act[a], moves) \div 12)
      BY <1>1, <2>2, CanActPoints DEF BoundaryDue, Exhausted
    <3> QED
      BY <1>2, <2>1, <2>2, <3>1, FairBounds DEF Settled
  <2>3. CASE act[a].deal # "kept"
    BY <2>1, <2>3 DEF Fair, Settled
  <2> QED
    BY <2>2, <2>3
<1>6. PICK amt \in Amounts :
        LET new == YouMoveAmount(amt)
            hero == Adjusted([h EXCEPT !.mmove = new], h.mmove, new)
            x == [act EXCEPT ![Hero] = hero]
        IN \/ /\ act' = [a \in Actors |-> IF a \in on \cup {Hero} THEN NextTurn(x[a], next)
                                         ELSE act[a]]
              /\ UNCHANGED <<on, effects>>
           \/ /\ effects < MaxEffects /\ effects' = effects + 1
              /\ \E m \in Mons \ on, f \in Forms :
                   /\ on' = on \cup {m}
                   /\ act' = [a \in Actors |-> IF a = m THEN NextTurn(Born(f), next)
                                              ELSE IF a \in on \cup {Hero} THEN NextTurn(x[a], next)
                                              ELSE act[a]]
  BY DEF Boundary, NORMAL_SPEED
<1> DEFINE new == YouMoveAmount(amt)
           g == [h EXCEPT !.mmove = new]
           hero == Adjusted(g, h.mmove, new)
           x == [act EXCEPT ![Hero] = hero]
\* The hero's new amount
<1>7. /\ hero \in ActorType /\ Settled(hero, moves) /\ Plain(hero)
      /\ hero.mspeed = "none"
  <2>1. new \in Nat
    BY TurnAssumption DEF YouMoveAmount
  <2>2. h.deal = "kept" /\ h.mspeed = "none" /\ Fair(h, moves, actions)
    BY <1>1, <1>2 DEF HeroKept, AllFair, Chances
  <2>3. Plain(h) /\ h.mmove \in Nat
    BY <1>3, <2>2 DEF Fair, ActorType
  <2> HIDE DEF h, new
  <2>4. /\ g \in ActorType /\ g.due = h.due /\ g.deal = h.deal /\ g.web = h.web
        /\ g.nitro = h.nitro /\ g.mspeed = h.mspeed /\ g.offset = h.offset /\ g.mmove = new
    BY <1>3, <2>1 DEF ActorType
  <2> HIDE DEF g
  <2>5. Plain(g)
    BY <2>3, <2>4, Zenon DEF Plain
  <2>6. Rate(g) = new /\ Rate(h) = h.mmove
    BY <2>2, <2>3, <2>4, <2>5, PlainRate
  <2>7. /\ hero \in ActorType /\ hero.due = g.due /\ hero.deal = g.deal
        /\ hero.web = g.web /\ hero.nitro = g.nitro /\ hero.mspeed = g.mspeed
        /\ Position(hero, moves) = (moves * h.mmove + g.offset) % 12
    <3>1. hero = Adjusted(g, h.mmove, Rate(g))
      BY <2>6
    <3> HIDE DEF hero
    <3>2. g \in ActorType /\ h.mmove \in Nat /\ moves \in 0 .. 11
      BY <1>2, <2>3, <2>4
    <3>3. Shifted(hero, g, h.mmove)
      BY <3>1, <3>2, AdjustedShifts
    <3> QED
      BY <3>3, Zenon DEF Shifted
  <2> HIDE DEF hero
  <2>8. Position(hero, moves) = Position(h, moves)
    BY <2>4, <2>6, <2>7, Zenon DEF Position, NORMAL_SPEED
  <2>9. h.due = Position(h, moves)
    BY <1>5, <2>2 DEF Settled, h
  <2>10. Plain(hero)
    BY <2>5, <2>7, Zenon DEF Plain
  <2> QED
    BY <2>2, <2>4, <2>7, <2>8, <2>9, <2>10 DEF Settled
<1> HIDE DEF hero, next
<1>8. ASSUME NEW a \in on \cup {Hero}
      PROVE  /\ NextTurn(x[a], next) \in ActorType /\ Fair(NextTurn(x[a], next), next, 0)
             /\ a = Hero => /\ NextTurn(x[a], next).deal = "kept"
                           /\ NextTurn(x[a], next).mspeed = "none"
  <2>1. a \in Actors
    BY <1>2 DEF Actors
  <2>2. CASE a = Hero
    <3>1. x[a] = hero
      BY <1>2, <1>3, <2>2
    <3> QED
      BY <1>2, <1>7, <3>1, NextTurnFair DEF next
  <2>3. CASE a # Hero
    <3>1. x[a] = act[a] /\ act[a] \in ActorType /\ Settled(act[a], moves)
      BY <1>2, <1>5, <2>1, <2>3
    <3> QED
      BY <1>2, <2>3, <3>1, NextTurnFair DEF next
  <2> QED
    BY <2>2, <2>3
<1> HIDE DEF x
<1>9. ASSUME NEW f \in Forms
      PROVE  NextTurn(Born(f), next) \in ActorType /\ Fair(NextTurn(Born(f), next), next, 0)
  <2>1. Born(f) \in ActorType /\ Born(f).deal = "new"
    BY <1>2, BornFair
  <2> QED
    BY <1>2, <2>1, NextTurnFair DEF next, Settled
\* What the boundary leaves
<1>10. /\ act' \in [Actors -> ActorType] /\ on' \subseteq Mons
       /\ effects' \in 0 .. MaxEffects
       /\ \A a \in on' \cup {Hero} : Fair(act'[a], next, 0)
       /\ act'[Hero].deal = "kept" /\ act'[Hero].mspeed = "none"
  <2>1. ASSUME act' = [a \in Actors |-> IF a \in on \cup {Hero} THEN NextTurn(x[a], next)
                                       ELSE act[a]],
               UNCHANGED <<on, effects>>
        PROVE  <1>10!:
    BY <1>2, <1>3, <1>8, <2>1 DEF Actors
  <2>2. ASSUME effects < MaxEffects, effects' = effects + 1,
               NEW m \in Mons \ on, NEW f \in Forms, on' = on \cup {m},
               act' = [a \in Actors |-> IF a = m THEN NextTurn(Born(f), next)
                                       ELSE IF a \in on \cup {Hero} THEN NextTurn(x[a], next)
                                       ELSE act[a]]
        PROVE  <1>10!:
    <3>1. effects' \in 0 .. MaxEffects
      BY <1>2, <2>2
    <3> QED
      BY <1>2, <1>3, <1>8, <1>9, <2>2, <3>1 DEF Actors
  <2> QED
    BY <1>6, <2>1, <2>2 DEF x, hero
<1>11. TypeOK'
  <2>1. pc' \in {"hero", "pass", "boundary"} /\ todo' \subseteq on' /\ actions' \in Nat
        /\ moves' \in 0 .. (12 - 1)
    BY <1>1, <1>4
  <2> QED
    BY <1>1, <1>10, <2>1, Zenon DEF TypeOK, NORMAL_SPEED
<1>12. AllFair'
  <2>1. ASSUME NEW a \in on' \cup {Hero} PROVE Fair(act'[a], next, Chances(a)')
    <3>1. CASE Chances(a)' = 0
      BY <1>10, <3>1
    <3>2. CASE Chances(a)' # 0
      <4>1. pc' = "pass" /\ a \notin on'
        BY <1>1, <1>10, <3>2 DEF Chances
      <4>2. a = Hero /\ ~((CanAct(act[Hero]))')
        BY <1>1, <4>1
      <4>3. ~(0 < Points(act'[Hero], next) \div 12)
        BY <1>1, <4>2 DEF CanAct, Share, NORMAL_SPEED
      <4>4. Chances(a)' = 1 /\ 0 + 1 = 1
        BY <1>1, <1>3, <1>10, <4>1 DEF Chances
      <4>5. act'[Hero] \in ActorType /\ next \in Nat
        BY <1>3, <1>4, <1>10
      <4>6. Fair(act'[Hero], next, 0 + 1)
        BY <1>10, <4>3, <4>5, SkipFair
      <4> QED
        BY <4>2, <4>4, <4>6
    <3> QED
      BY <3>1, <3>2
  <2> QED
    BY <1>1, <2>1 DEF AllFair
<1>13. HeroKept' /\ HeroCan'
  BY <1>1, <1>10 DEF HeroKept, HeroCan
<1>14. BoundaryDue'
  BY <1>1 DEF BoundaryDue
<1>15. Unmoved'
  BY <1>1 DEF Unmoved, Exhausted
<1> QED
  BY <1>11, <1>12, <1>13, <1>14, <1>15

LEMMA StutterFair ==
  ASSUME FairInv, UNCHANGED vars
  PROVE  FairInv'
<1>1. UNCHANGED <<moves, actions, act, on, pc, todo, moved, effects>>
  BY DEF vars
<1> QED
  BY <1>1 DEF FairInv, TypeOK, AllFair, Chances, HeroKept, HeroCan, BoundaryDue, Unmoved,
              Exhausted, CanAct, Share

-----------------------------------------------------------------------------
\* FairInv holds in every reachable state: for each actor, the points given less
\* the points spent are what can_act_this_turn works out from the turn counter
\* and flags.actions.
THEOREM Bookkeeping == Spec => []FairInv
<1>1. FairInv /\ [Next]_vars => FairInv'
  BY HeroActsFair, MonTurnFair, PassEndsFair, BoundaryFair, StutterFair DEF Next, Loop
<1> QED
  BY <1>1, InitFair, PTL DEF Spec

\* The types of Turn, for all bounds
THEOREM TurnTypes == Spec => []TypeOK
<1>1. FairInv => TypeOK
  BY DEF FairInv
<1> QED
  BY <1>1, Bookkeeping, PTL

\* Everybody whose speed has not changed in a turn gets what its speed promises
\* (you_moved, movemon and can_act_this_turn): whatever the number of monsters
\* and their speeds, nobody is in debt and nobody keeps 12 points.
THEOREM SharesAreFair == Spec => []FairShare
<1>1. FairInv => FairShare
  <2> SUFFICES ASSUME FairInv, NEW a \in on \cup {Hero}, act[a].deal = "kept"
               PROVE  /\ act[a].due >= 0
                      /\ pc = "boundary" => act[a].due < NORMAL_SPEED
    BY DEF FairShare
  <2>1. act[a] \in ActorType /\ moves \in Nat /\ Chances(a) \in Nat
    BY ChancesNat DEF FairInv, TypeOK, Actors, NORMAL_SPEED
  <2>2. Fair(act[a], moves, Chances(a))
    BY DEF FairInv, AllFair
  <2>3. pc = "boundary" => ~(Chances(a) < Points(act[a], moves) \div 12)
    BY <2>1, CanActPoints DEF FairInv, BoundaryDue, Exhausted, Chances, TypeOK
  <2> QED
    BY <2>1, <2>2, <2>3, FairBounds DEF NORMAL_SPEED
<1> QED
  BY <1>1, Bookkeeping, PTL
=============================================================================

------------------------------- MODULE ShopBill -------------------------------
(***************************************************************************)
(* A shopkeeper's books (shk.c): the bill of what the hero has taken, his  *)
(* credit, debit and loan, what he has robbed, and what the calls that     *)
(* split, merge, use up, drop, throw, steal and pay for goods do to them.  *)
(*                                                                         *)
(* There is one shop on the level, one kind of merchandise that stacks, no *)
(* container, and no other monster than a thief.  A bill entry points at an*)
(* object by its id; what is used up stays on a chain of its own until it  *)
(* is paid for.                                                            *)
(***************************************************************************)
EXTENDS Integers, Sequences, FiniteSets, FiniteSetsExt, Functions

CONSTANTS
  Ids,       \* ids of objects
  Cost,      \* [Ids -> price of one]: it depends on the id
  Stock,     \* [some of Ids -> quantity]: the goods on the shelf at the start
  Own,       \* the same for the hero's own
  BILLSZ,    \* the entries that a bill has room for
  Purse,     \* the hero's gold at the start
  Till,      \* the shopkeeper's
  Appease,   \* what an angry shopkeeper asks for who was not robbed (1000)
  MaxSum     \* bound on each of the sums in the books

ASSUME ShopAssumption ==
  /\ IsFiniteSet(Ids) /\ 0 \notin Ids
  /\ Cost \in [Ids -> Nat \ {0}]
  /\ DOMAIN Stock \subseteq Ids /\ DOMAIN Own \subseteq Ids \ DOMAIN Stock
  /\ \A o \in DOMAIN Stock : Stock[o] \in Nat \ {0}
  /\ \A o \in DOMAIN Own : Own[o] \in Nat \ {0}
  /\ BILLSZ \in Nat \ {0} /\ Purse \in Nat /\ Till \in Nat
  /\ Appease \in Nat \ {0} /\ MaxSum \in Nat

VARIABLES
  w,        \* the books and the objects (a record, see Init)
  inside,   \* the hero is in the shop
  at        \* where dopay is in its loop over the bill

vars == <<w, inside, at>>

Idle == [on |-> FALSE, pass |-> 0, i |-> 0, itemize |-> FALSE, one |-> 0]

\* nc is no_charge: the hero's own, although it lies in the shop.
NoObj == [where |-> "none", quan |-> 0, unpaid |-> FALSE, nc |-> FALSE]
Obj(where, quan) == [NoObj EXCEPT !.where = where, !.quan = quan]

\* inactive: the hero has come into the shop while the shopkeeper was out of it.
\* owed is for the properties: how many pieces of merchandise the hero has taken
\* and neither brought back nor paid for, nor been let off.
Init ==
  /\ w = [obj |-> [o \in Ids |-> IF o \in DOMAIN Stock THEN Obj("shelf", Stock[o])
                                 ELSE IF o \in DOMAIN Own THEN Obj("invent", Own[o])
                                 ELSE NoObj],
          bill |-> <<>>,
          shk |-> [st |-> "home", angry |-> FALSE, surcharge |-> FALSE,
                   inactive |-> FALSE, gold |-> Till, credit |-> 0, debit |-> 0,
                   loan |-> 0, robbed |-> 0],
          purse |-> Purse, floor |-> 0, owed |-> 0]
  /\ inside = TRUE
  /\ at = Idle

-----------------------------------------------------------------------------
\* The books of v, a world as w is

\* shop_keeper() and inhishop()
Tended(v) == v.shk.st = "home"

Surcharge(p) == (p + 2) \div 3
Price(v, o) == Cost[o] + IF v.shk.surcharge THEN Surcharge(Cost[o]) ELSE 0   \* get_cost
SellPrice(v, o) == Max({1, (5 * Cost[o] * v.obj[o].quan + 5) \div 10})         \* set_cost

OnBill(v, o) == {i \in DOMAIN v.bill : v.bill[i].id = o}
Entry(v, o) == CHOOSE i \in OnBill(v, o) : TRUE
Full(v) == Len(v.bill) = BILLSZ
Spare(v) == {o \in Ids : v.obj[o].where = "none"}
NewId(v) == CHOOSE o \in Spare(v) : TRUE

SumOver(v) ==
  SumFunction([i \in DOMAIN v.bill |-> v.bill[i].price * v.bill[i].quan])  \* addupbill

\* The last entry takes the place of the one that is struck off.
Strike(v, i) ==
  [v EXCEPT !.bill = [j \in 1 .. (Len(@) - 1) |-> IF j = i THEN @[Len(@)] ELSE @[j]]]

\* addtobill and add_one_tobill: on a full bill the goods are free.
AddToBill(v, o, dummy) ==
  IF ~Tended(v) \/ OnBill(v, o) # {} \/ Full(v) THEN v
  ELSE IF v.obj[o].nc THEN [v EXCEPT !.obj[o].nc = FALSE]
  ELSE [v EXCEPT !.bill = Append(@, [id |-> o, quan |-> v.obj[o].quan, useup |-> dummy,
                                     price |-> Price(v, o)]),
                 !.obj[o].unpaid = TRUE,
                 !.obj[o].where = IF dummy THEN "onbill" ELSE @,
                 !.owed = @ + v.obj[o].quan]

\* splitbill: n of o have become the object new.
SplitBill(v, o, new) ==
  LET n == v.obj[new].quan
      x == [v EXCEPT !.bill[Entry(v, o)].quan = @ - n]
  IN IF OnBill(v, o) = {} \/ ~Tended(v) THEN v
     ELSE IF Full(v) THEN [x EXCEPT !.obj[new].unpaid = FALSE, !.owed = @ - n]
     ELSE [x EXCEPT !.bill = Append(@, [@[Entry(v, o)] EXCEPT !.id = new, !.quan = n,
                                                              !.useup = FALSE])]

\* splitobj: a world and the object, n of stack o.  One id is kept for
\* sub_one_frombill.
Parts(v, o) ==
  {[v |-> v, o |-> o]} \cup
  {LET new == NewId(v)
       x == [v EXCEPT !.obj[o].quan = @ - n, !.obj[new] = [v.obj[o] EXCEPT !.quan = n]]
   IN [v |-> IF v.obj[o].unpaid THEN SplitBill(x, o, new) ELSE x, o |-> new] :
     n \in IF Cardinality(Spare(v)) < 2 THEN {} ELSE 1 .. (v.obj[o].quan - 1)}

\* sub_one_frombill.  What has been used of the stack stays on the bill.
SubFromBill_bug(v, o) ==
  LET i == Entry(v, o)
      x == [v EXCEPT !.obj[o].unpaid = FALSE, !.owed = @ - v.obj[o].quan]
  IN IF OnBill(v, o) = {} THEN x ELSE Strike(x, i)
SubFromBill(v, o) ==
  LET i == Entry(v, o)
      rest == v.bill[i].quan - v.obj[o].quan
      new == NewId(v)
      x == [v EXCEPT !.obj[o].unpaid = FALSE, !.owed = @ - v.obj[o].quan]
  IN IF OnBill(v, o) = {} THEN [v EXCEPT !.obj[o].unpaid = FALSE]
     ELSE IF rest > 0
     THEN [x EXCEPT !.obj[new] = [Obj("onbill", rest) EXCEPT !.nc = v.obj[o].nc],
                    !.bill[i] = [@ EXCEPT !.id = new, !.quan = rest, !.useup = TRUE]]
     ELSE Strike(x, i)

\* clear_unpaid and setpaid: all lists are searched but that of the dead.
SetPaid_bug(v) ==
  [v EXCEPT !.obj = [o \in Ids |-> IF v.obj[o].where = "onbill" THEN NoObj
                                   ELSE IF v.obj[o].where = "mon" THEN v.obj[o]
                                   ELSE [v.obj[o] EXCEPT !.unpaid = FALSE]],
            !.bill = <<>>, !.owed = 0,
            !.shk = [@ EXCEPT !.credit = 0, !.debit = 0, !.loan = 0]]
SetPaid(v) ==
  [v EXCEPT !.obj = [o \in Ids |-> IF v.obj[o].where = "onbill" THEN NoObj
                                   ELSE IF OnBill(v, o) # {}
                                   THEN [v.obj[o] EXCEPT !.unpaid = FALSE]
                                   ELSE v.obj[o]],
            !.bill = <<>>, !.owed = 0,
            !.shk = [@ EXCEPT !.credit = 0, !.debit = 0, !.loan = 0]]

\* rile_shk and pacify_shk: nothing is done with an inactive bill.  The prices on the
\* bill go up by a third and back.
Raised(e) == [e EXCEPT !.price = @ + Surcharge(@)]
Lowered_bug(e) == [e EXCEPT !.price = @ - (@ \div 4)]
Lowered(e) == [e EXCEPT !.price = @ - ((@ + 3) \div 4)]
Rile(v) ==
  IF v.shk.inactive THEN v
  ELSE [v EXCEPT !.shk.angry = TRUE, !.shk.surcharge = TRUE,
                 !.bill = IF v.shk.surcharge THEN @
                          ELSE [i \in DOMAIN @ |-> Raised(@[i])]]
Pacify(v) ==
  IF v.shk.inactive THEN v
  ELSE [v EXCEPT !.shk.angry = FALSE, !.shk.surcharge = FALSE,
                 !.bill = IF v.shk.surcharge
                          THEN [i \in DOMAIN @ |-> Lowered(@[i])] ELSE @]

\* shop_keeper and next_shkp, through which everything goes that has to do with
\* him: the surcharge follows a mood that other code has changed.
ShopKeeper(v) == IF v.shk.angry = v.shk.surcharge THEN v
                 ELSE IF v.shk.angry THEN Rile(v) ELSE Pacify(v)

\* He is in his shop again: after_shk_move.
Home(v) == [v EXCEPT !.shk.st = "home", !.shk.inactive = FALSE]

\* make_happy_shk, who goes home
MakeHappy(v) ==
  LET x == [Pacify(v) EXCEPT !.shk.robbed = 0]
  IN IF Tended(v) THEN x ELSE ShopKeeper(Home(x))

\* check_credit: what remains to be paid is Rest.
Rest(v, sum) == Max({0, sum - v.shk.credit})
UseCredit(v, sum) == [v EXCEPT !.shk.credit = Max({0, @ - sum})]

\* pay: to the shopkeeper, or from him if sum is negative
Pay_bug(v, sum) ==
  [v EXCEPT !.purse = @ - sum, !.shk.gold = @ + sum,
            !.shk.credit = Max({0, @ - sum})]
Pay(v, sum) ==
  LET x == IF sum > 0 THEN UseCredit(v, sum) ELSE v
      balance == IF sum > 0 THEN Rest(v, sum) ELSE sum
  IN [x EXCEPT !.purse = @ - balance, !.shk.gold = @ + balance,
               !.shk.robbed = IF @ > 0 THEN Max({0, @ - sum}) ELSE @]

\* stolen_value: one piece is charged, to credit and debit, or as robbed.
Stolen(v, o) ==
  LET value == Price(v, o)
      x == UseCredit(v, value)
  IN IF ~Tended(v) \/ v.obj[o].nc THEN v
     ELSE IF v.shk.angry THEN Rile([v EXCEPT !.shk.robbed = @ + value])
     ELSE [x EXCEPT !.shk.debit = @ + Rest(v, value)]

\* rob_shop: credit that is left over is lost.
Rob(v) ==
  LET total == SumOver(v) + v.shk.debit - v.shk.credit
  IN IF total <= 0 THEN SetPaid(v)
     ELSE Rile([SetPaid(v) EXCEPT !.shk.robbed = @ + total])

-----------------------------------------------------------------------------
\* Objects

\* obfree: a merged object's entry is added to that of into; what is used up
\* stays on the bill.
Gone(v, o) == [v EXCEPT !.obj[o] = NoObj]
Free(v, o, into) ==
  IF OnBill(v, o) = {} THEN Gone(v, o)
  ELSE IF into = 0
  THEN [v EXCEPT !.bill[Entry(v, o)].useup = TRUE,
                 !.obj[o].unpaid = FALSE, !.obj[o].where = "onbill"]
  ELSE IF OnBill(v, into) = {} THEN v
  ELSE LET x == [v EXCEPT !.bill[Entry(v, into)].quan = @ + v.bill[Entry(v, o)].quan]
       IN Gone(Strike(x, Entry(v, o)), o)

\* mergable and same_price
Mergable(v, a, b) ==
  /\ v.obj[a].unpaid = v.obj[b].unpaid /\ v.obj[a].nc = v.obj[b].nc
  /\ v.obj[a].unpaid => /\ OnBill(v, a) # {} /\ OnBill(v, b) # {}
                        /\ v.bill[Entry(v, a)].price = v.bill[Entry(v, b)].price

Merge(v, into, o) == Free([v EXCEPT !.obj[into].quan = @ + v.obj[o].quan], o, into)

\* addinv: o joins a stack that is there.
AddInv(v, o) ==
  LET x == [v EXCEPT !.obj[o].nc = FALSE, !.obj[o].where = "invent"]
      fits == {p \in Ids \ {o} : x.obj[p].where = "invent" /\ Mergable(x, p, o)}
  IN IF fits # {} THEN Merge(x, CHOOSE p \in fits : TRUE, o) ELSE x

\* stackobj: a stack that is there joins o.
Land(v, o, where) ==
  LET x == [v EXCEPT !.obj[o].where = where]
      fits == {p \in Ids \ {o} : x.obj[p].where = where /\ Mergable(x, o, p)}
  IN IF fits # {} THEN Merge(x, o, CHOOSE p \in fits : TRUE) ELSE x

\* sellobj for goods, with what the hero may answer.  A robbed shopkeeper takes
\* anything as the whole of his losses: the code subtracts (offer < 0), which is
\* 0, and then clears what is left.
SellObj(v, o) ==
  LET x == [v EXCEPT !.obj[o].nc = TRUE]
      offer == SellPrice(v, o)
  IN IF ~Tended(v) THEN {v}
     ELSE IF v.obj[o].unpaid THEN {SubFromBill(v, o)}
     ELSE IF v.shk.angry THEN {x, v}
     ELSE IF v.shk.robbed > 0 THEN {x, [v EXCEPT !.shk.robbed = 0]}
     ELSE IF Full(v) THEN {x}
     ELSE IF v.shk.gold = 0
     THEN {x, [v EXCEPT !.shk.credit = @ + ((offer * 9) \div 10)
                                         + IF offer <= 1 THEN 1 ELSE 0]}
     ELSE {x, Pay(v, -Min({offer, v.shk.gold}))}

-----------------------------------------------------------------------------
\* What the hero does with goods

\* The model ends with the shopkeeper: there is no bill any more.
Ready == ~at.on /\ Spare(w) # {} /\ w.shk.st # "dead"
Place == IF inside THEN "shelf" ELSE "out"

\* pick_obj: from the floor that the hero is on
PickUp(o) ==
  /\ Ready /\ w.obj[o].where = Place
  /\ \E p \in Parts(w, o) :
       w' = AddInv(IF inside THEN AddToBill(p.v, p.o, FALSE) ELSE p.v, p.o)
  /\ UNCHANGED <<inside, at>>

\* drop
Drop(o) ==
  /\ Ready /\ w.obj[o].where = "invent"
  /\ \E p \in Parts(w, o) :
       \E v \in (IF inside THEN SellObj(p.v, p.o) ELSE {p.v}) : w' = Land(v, p.o, Place)
  /\ UNCHANGED <<inside, at>>

\* throwit and check_shop_obj: one piece lands in the shop or out of it, or breaks.
Throw(o) ==
  /\ Ready /\ inside /\ w.obj[o].where = "invent"
  /\ \E p \in {p \in Parts(w, o) : p.v.obj[p.o].quan = 1} :
       LET x == IF p.v.obj[p.o].unpaid THEN SubFromBill(Stolen(p.v, p.o), p.o) ELSE p.v
       IN \/ \E v \in SellObj(p.v, p.o) : w' = Land(v, p.o, "shelf")
          \/ w' = Land(x, p.o, "out")
          \/ w' = Free(x, p.o, 0)
  /\ UNCHANGED <<inside, at>>

\* useup
UseUp(o) ==
  /\ Ready /\ w.obj[o].where = "invent"
  /\ w' = IF w.obj[o].quan > 1 THEN [w EXCEPT !.obj[o].quan = @ - 1] ELSE Free(w, o, 0)
  /\ UNCHANGED <<inside, at>>

\* bill_dummy_object: the goods are altered, and become the hero's.  A dummy that
\* the bill has no room for is freed at the end of the turn, with a complaint.
Alter(o) ==
  /\ Ready /\ inside /\ w.obj[o].where = "invent" /\ w.obj[o].unpaid
  /\ Cardinality(Spare(w)) >= 2
  /\ LET x == SubFromBill(w, o)
         dummy == NewId(x)
         y == AddToBill([x EXCEPT !.obj[dummy] = [x.obj[o] EXCEPT !.where = "free"]],
                        dummy, TRUE)
         z == [y EXCEPT !.obj[o].nc = TRUE]
     IN w' = IF z.obj[dummy].where = "free" THEN Gone(z, dummy) ELSE z
  /\ UNCHANGED <<inside, at>>

\* check_unpaid_usage: a fee of 1 for a charge
UseCharge(o) ==
  /\ Ready /\ inside /\ Tended(w) /\ w.obj[o].where = "invent" /\ w.obj[o].unpaid
  /\ w' = [w EXCEPT !.shk.debit = @ + 1]
  /\ UNCHANGED <<inside, at>>

\* The shop's gold: costly_gold, unless the bill is full
PickGold(n) ==
  /\ Ready /\ inside /\ n \in 1 .. w.floor
  /\ LET x == [w EXCEPT !.floor = @ - n, !.purse = @ + n]
         rest == Rest(w, n)
     IN w' = IF ~Tended(w) \/ Full(w) THEN x
             ELSE [UseCredit(x, n) EXCEPT !.shk.debit = @ + rest, !.shk.loan = @ + rest]
  /\ UNCHANGED <<inside, at>>

\* sellobj for gold
SellGold_bug(v, n) ==
  IF ~Tended(v) THEN v
  ELSE IF v.shk.debit >= n THEN [v EXCEPT !.shk.debit = @ - n]
  ELSE [v EXCEPT !.shk.credit = @ + n - v.shk.debit, !.shk.debit = 0, !.shk.loan = 0]
SellGold(v, n) ==
  IF ~Tended(v) \/ v.shk.angry THEN v
  ELSE IF v.shk.robbed > 0 THEN [v EXCEPT !.shk.robbed = 0]
  ELSE IF v.shk.debit >= n
  THEN [v EXCEPT !.shk.loan = Max({0, @ - n}), !.shk.debit = @ - n]
  ELSE [v EXCEPT !.shk.credit = @ + n - v.shk.debit,
                 !.shk.debit = 0, !.shk.loan = IF v.shk.debit > 0 THEN 0 ELSE @]
DropGold(n) ==
  /\ Ready /\ inside /\ n \in 1 .. w.purse
  /\ w' = SellGold([w EXCEPT !.purse = @ - n, !.floor = @ + n], n)
  /\ UNCHANGED <<inside, at>>

\* u_left_shop, and u_entered_shop
Leave ==
  /\ Ready /\ inside
  /\ w' = IF Tended(w) /\ (w.bill # <<>> \/ w.shk.debit > 0) THEN Rob(w) ELSE w
  /\ inside' = FALSE
  /\ UNCHANGED at
Enter ==
  /\ Ready /\ ~inside /\ inside' = TRUE
  /\ w' = [w EXCEPT !.shk.inactive = ~Tended(w)]
  /\ UNCHANGED at

-----------------------------------------------------------------------------
\* The shopkeeper and the thief

\* setmangry: the hero attacks him.
Attack ==
  /\ Ready /\ ~w.shk.angry
  /\ w' = ShopKeeper([w EXCEPT !.shk.angry = TRUE])
  /\ UNCHANGED <<inside, at>>

\* tamedog, from a magic harp: he cannot be tamed, but becomes peaceful.
Calm ==
  /\ Ready /\ w.shk.angry
  /\ w' = ShopKeeper([w EXCEPT !.shk.angry = FALSE])
  /\ UNCHANGED <<inside, at>>

\* maybe_tame, from a scroll or spell
Tame ==
  /\ Ready /\ w' = MakeHappy(w)
  /\ UNCHANGED <<inside, at>>

\* shk_move: robbed, he follows the hero out of the shop.
Pursue ==
  /\ Ready /\ ~inside /\ Tended(w) /\ w.shk.angry /\ w.shk.robbed > 0
  /\ w' = [w EXCEPT !.shk.st = "away"]
  /\ UNCHANGED <<inside, at>>

\* make_angry_shk: he is teleported out of his shop.  The loan counts twice.
SendAway ==
  /\ Ready /\ Tended(w)
  /\ LET s == w.shk
         due == Max({0, s.robbed + SumOver(w) + s.debit + s.loan - s.credit})
     IN w' = Rile([(IF w.bill # <<>> \/ s.debit > 0 \/ s.loan > 0 \/ s.credit > 0
                    THEN [SetPaid(w) EXCEPT !.shk.robbed = due] ELSE w)
                   EXCEPT !.shk.st = "away"])
  /\ UNCHANGED <<inside, at>>
ComeHome ==
  /\ Ready /\ w.shk.st = "away" /\ w' = ShopKeeper(Home(w))
  /\ UNCHANGED <<inside, at>>

\* shkgone: the goods on the floor are ordinary objects.
Die ==
  /\ Ready
  /\ LET x == [w EXCEPT !.obj = [o \in Ids |-> IF w.obj[o].where = "shelf"
                                               THEN [w.obj[o] EXCEPT !.nc = FALSE]
                                               ELSE w.obj[o]]]
     IN w' = [(IF inside /\ ~w.shk.inactive THEN SetPaid(x) ELSE x) EXCEPT !.shk.st = "dead"]
  /\ UNCHANGED <<inside, at>>

\* A thief takes what is not paid for, and drops it when it dies.
Steal(o) ==
  /\ Ready /\ inside /\ w.obj[o].where = "invent"
  /\ \A p \in Ids : w.obj[p].where # "mon"
  /\ w' = [w EXCEPT !.obj[o].where = "mon"]
  /\ UNCHANGED <<inside, at>>
ThiefDies(o) ==
  /\ Ready /\ w.obj[o].where = "mon"
  /\ \E where \in {"shelf", "out"} : w' = Land(w, o, where)
  /\ UNCHANGED <<inside, at>>

-----------------------------------------------------------------------------
\* Paying: dopay.  Its loop stops at a prompt for each entry.

Cheapest(v) == Min({v.bill[i].price * v.bill[i].quan : i \in DOMAIN v.bill})

\* The debit is settled first.
Settle(v) ==
  LET x == Pay([v EXCEPT !.shk.robbed = 0], v.shk.debit)
  IN IF v.shk.debit = 0 THEN v
     ELSE [x EXCEPT !.shk.debit = 0, !.shk.loan = 0, !.shk.robbed = v.shk.robbed]

\* With a bill or a debit: the rest of dopay is the loop, if there is money for it.
PayBill ==
  /\ Ready /\ inside /\ Tended(w)
  /\ w.bill # <<>> \/ w.shk.debit > 0
  /\ w.purse + w.shk.credit >= w.shk.debit
  /\ LET x == Settle(w)
         money == x.purse + x.shk.credit
     IN /\ w' = x
        /\ IF x.bill # <<>> /\ money > 0 /\ money >= Cheapest(x)
           THEN \E itemize \in BOOLEAN,
                   one \in {0} \cup {o \in Ids : x.obj[o].where = "invent"} :
                  /\ one # 0 \/ Len(x.bill) = 1 => itemize
                  /\ at' = [on |-> TRUE, pass |-> 0, i |-> 1, itemize |-> itemize,
                            one |-> one]
           ELSE UNCHANGED at
  /\ UNCHANGED inside

\* Without: he was robbed, or is angry.  He is next to the hero or at home.  With an
\* inactive bill dopay complains and returns.
PayLosses ==
  /\ Ready /\ w.bill = <<>> /\ w.shk.debit = 0 /\ ~w.shk.inactive
  /\ LET robbed == w.shk.robbed
         paid == Pay(w, Min({w.purse, robbed}))
     IN IF robbed > 0
        THEN IF w.purse < robbed \div 2
             THEN w' = IF (inside /\ Tended(w)) \/ w.shk.angry THEN w ELSE paid
             ELSE w' = MakeHappy(paid)
        ELSE /\ w.shk.angry /\ w.purse >= Appease
             /\ LET x == Pay(w, Appease) IN w' \in {x, MakeHappy(x)}
  /\ UNCHANGED <<inside, at>>

\* dopayobj for entry i: what the loop does next.  "skip" goes on to the next
\* entry, "some" stays, "buy" strikes the entry off, "stop" ends the loop.
PayObj(v, i, pass, itemize) ==
  LET e == v.bill[i]
      have == v.obj[e.id].quan
      consumed == pass = 0
      quan == IF ~consumed THEN have ELSE IF e.quan > have THEN e.quan - have ELSE e.quan
      money == v.purse + v.shk.credit
      partly == quan < e.quan
      x == [Pay(v, e.price * quan) EXCEPT !.owed = @ - quan]
  IN IF itemize /\ money = 0 THEN {[v |-> v, res |-> "stop"]}
     ELSE {[v |-> v, res |-> "skip"] : n \in IF itemize THEN {0} ELSE {}} \cup
          (IF itemize /\ partly /\ ~consumed THEN {}
           ELSE IF money < e.price * quan
           THEN {[v |-> v, res |-> IF itemize THEN "skip" ELSE "stop"]}
           ELSE IF consumed /\ partly
           THEN {[v |-> [x EXCEPT !.bill[i].quan = have, !.bill[i].useup = FALSE],
                  res |-> "some"]}
           ELSE {[v |-> IF consumed THEN [x EXCEPT !.obj[e.id] = NoObj]
                        ELSE [x EXCEPT !.obj[e.id].unpaid = FALSE],
                  res |-> "buy"]})

After_bug(res) == IF res = "stop" THEN Idle ELSE at
After(res) == CASE res = "skip" -> [at EXCEPT !.i = @ + 1]
                [] res = "stop" -> Idle
                [] OTHER -> at

\* The used up goods are paid for on pass 0, the others on pass 1.
PayStep ==
  /\ at.on
  /\ IF at.i > Len(w.bill)
     THEN /\ at' = IF at.pass = 0 THEN [at EXCEPT !.pass = 1, !.i = 1] ELSE Idle
          /\ UNCHANGED w
     ELSE LET e == w.bill[at.i]
              v == IF e.useup THEN [w EXCEPT !.obj[e.id].quan = e.quan] ELSE w
              later == (at.pass = 1) = e.useup /\ v.obj[e.id].quan = e.quan
          IN IF later \/ at.one \notin {0, e.id}
             THEN w' = v /\ at' = After("skip")
             ELSE \E r \in PayObj(v, at.i, at.pass, at.itemize) :
                    /\ w' = IF r.res = "buy" THEN Strike(r.v, at.i) ELSE r.v
                    /\ at' = After(r.res)
  /\ UNCHANGED inside

\* The bounds of the run
Bounded == w'.shk.credit <= MaxSum /\ w'.shk.debit <= MaxSum /\ w'.shk.robbed <= MaxSum

Goods(o) == \/ PickUp(o) \/ Drop(o) \/ Throw(o) \/ UseUp(o) \/ Alter(o) \/ UseCharge(o)
            \/ Steal(o) \/ ThiefDies(o)

Next == /\ \/ \E o \in Ids : Goods(o)
           \/ \E n \in 1 .. (Purse + Till) : PickGold(n) \/ DropGold(n)
           \/ Leave \/ Enter \/ Attack \/ Calm \/ Tame \/ Pursue \/ SendAway \/ ComeHome \/ Die
           \/ PayBill \/ PayLosses \/ PayStep
        /\ Bounded

Spec == Init /\ [][Next]_vars
FairSpec == Spec /\ WF_vars(PayStep)

-----------------------------------------------------------------------------
\* Properties

TypeOK ==
  /\ w.obj \in [Ids -> [where : {"none", "shelf", "out", "invent", "mon", "onbill"},
                        quan : Nat, unpaid : BOOLEAN, nc : BOOLEAN]]
  /\ w.bill \in Seq([id : Ids, quan : Nat \ {0}, useup : BOOLEAN, price : Nat \ {0}])
  /\ Len(w.bill) <= BILLSZ
  /\ w.shk \in [st : {"home", "away", "dead"}, angry : BOOLEAN, surcharge : BOOLEAN,
                inactive : BOOLEAN, gold : Nat, credit : Nat, debit : Nat, loan : Nat, robbed : Nat]
  /\ w.purse \in Nat /\ w.floor \in Nat /\ w.owed \in Nat
  /\ inside \in BOOLEAN
  /\ at \in [on : BOOLEAN, pass : 0 .. 1, i : Nat, itemize : BOOLEAN, one : Ids \cup {0}]

\* The bill and the objects agree ("Shopkeeper administration out of order",
\* "unpaid obj not on bill" and "paid obj on bill" are never heard): an entry
\* points at an object of its own, which is on the chain of used up goods if the
\* entry says so and otherwise is somewhere, not paid for, and no larger than the
\* entry; and what is not paid for or is on that chain has an entry.  The bill is
\* empty as soon as the hero has left the shop or the shopkeeper is not in it.
BillAgrees ==
  /\ \A i \in DOMAIN w.bill :
       LET e == w.bill[i]
           o == w.obj[e.id]
       IN /\ OnBill(w, e.id) = {i}
          /\ IF e.useup THEN o.where = "onbill"
             ELSE o.where \in {"invent", "mon", "shelf", "out"} /\ o.unpaid /\ o.quan <= e.quan
  /\ \A o \in Ids : w.obj[o].unpaid \/ w.obj[o].where = "onbill" => OnBill(w, o) # {}
  /\ (inside /\ Tended(w)) \/ (w.bill = <<>> /\ w.shk.debit = 0)

\* The quantities on the bill are what the hero owes for: splitting, merging,
\* using up, dropping part of a partly used stack, and paying for the used part
\* and the rest apart, neither lose a piece nor charge one twice.
PiecesBilled == SumFunction([i \in DOMAIN w.bill |-> w.bill[i].quan]) = w.owed

\* Every price on the bill carries the surcharge exactly if the shopkeeper is
\* angry, whatever he was when the goods were taken, and however often he has been
\* riled and calmed since.  Only while the bill is inactive may his mood change
\* without the surcharge, and then the bill is empty.
PricesMatchMood ==
  /\ w.shk.angry = w.shk.surcharge \/ (w.shk.inactive /\ w.bill = <<>>)
  /\ \A i \in DOMAIN w.bill :
       w.bill[i].price \in {c + IF w.shk.surcharge THEN Surcharge(c) ELSE 0 : c \in Range(Cost)}

\* The gold picked up in the shop is part of the debit, which paying clears.
LoanInDebit == w.shk.loan <= w.shk.debit

\* dopay comes to an end, although its loop stays on an entry after a part of it
\* is paid for and strikes entries off while it runs.
PayEnds == at.on ~> ~at.on
=============================================================================

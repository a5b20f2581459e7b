--------------------------- MODULE ShopBillProofs ---------------------------
(***************************************************************************)
(* What the shopkeeper's books promise for any goods, any prices and any   *)
(* size of the bill: the bill and the objects agree, what is on the bill   *)
(* is what the hero owes for, at prices that follow the shopkeeper's mood. *)
(*                                                                         *)
(* First what a change of the bill and of the objects does to their        *)
(* agreement (Fit), then the functions of shk.c, and then the actions.     *)
(***************************************************************************)
EXTENDS ShopBill, SumTheorems, TLAPS

-----------------------------------------------------------------------------
\* The inductive invariant

Places == {"shelf", "out", "invent", "mon"}
ObjType == [where : Places \cup {"none", "onbill"}, quan : Nat, unpaid : BOOLEAN, nc : BOOLEAN]
EntryType == [id : Ids, quan : Nat \ {0}, useup : BOOLEAN, price : Nat \ {0}]
ShkType == [st : {"home", "away", "dead"}, angry : BOOLEAN, surcharge : BOOLEAN,
            inactive : BOOLEAN, gold : Nat, credit : Nat, debit : Nat, loan : Nat, robbed : Nat]

\* An object and the entry that names it
EntryOK(o, e) ==
  /\ e.useup => o.where = "onbill"
  /\ ~e.useup => o.where \in Places /\ o.unpaid /\ o.quan <= e.quan

\* An object that the bill does not name
Clear(o) == ~o.unpaid /\ o.where # "onbill"

\* The bill, by the ids of its entries
Named(bill, o) == \E i \in 1 .. Len(bill) : bill[i].id = o

\* Each entry has an object of its own, and each object that needs an entry has
\* one; what there is, is not empty.
GoodsOK(obj, bill) ==
  /\ \A i, j \in 1 .. Len(bill) : bill[i].id = bill[j].id => i = j
  /\ \A i \in 1 .. Len(bill) : EntryOK(obj[bill[i].id], bill[i])
  /\ \A o \in Ids : ~Named(bill, o) => Clear(obj[o])
  /\ \A o \in Ids : obj[o].where # "none" => obj[o].quan >= 1

\* The pieces that are on the bill, and its prices
Pieces(bill) == SumFunction([i \in DOMAIN bill |-> bill[i].quan])
PriceOK(p, surcharge) ==
  \E c \in Range(Cost) : p = c + IF surcharge THEN Surcharge(c) ELSE 0

Fit(obj, bill, owed, surcharge) ==
  /\ obj \in [Ids -> ObjType]
  /\ bill \in Seq(EntryType) /\ Len(bill) <= BILLSZ
  /\ GoodsOK(obj, bill)
  /\ owed = Pieces(bill)
  /\ \A i \in 1 .. Len(bill) : PriceOK(bill[i].price, surcharge)

-----------------------------------------------------------------------------
\* The pieces on a bill

LEMMA BillIs ==
  ASSUME NEW bill \in Seq(EntryType)
  PROVE  /\ Len(bill) \in Nat /\ DOMAIN bill = 1 .. Len(bill)
         /\ IsFiniteSet(1 .. Len(bill))
         /\ \A i \in 1 .. Len(bill) :
              /\ bill[i] \in EntryType /\ bill[i].id \in Ids /\ bill[i].quan \in Nat
              /\ bill[i].quan >= 1 /\ bill[i].price \in Nat /\ bill[i].price >= 1
              /\ bill[i].useup \in BOOLEAN
<1>1. Len(bill) \in Nat /\ DOMAIN bill = 1 .. Len(bill)
  OBVIOUS
<1>2. \A i \in 1 .. Len(bill) : bill[i] \in EntryType
  OBVIOUS
<1>3. \A e \in EntryType : /\ e.id \in Ids /\ e.quan \in Nat /\ e.quan >= 1
                           /\ e.price \in Nat /\ e.price >= 1 /\ e.useup \in BOOLEAN
  BY DEF EntryType
<1> QED
  BY <1>1, <1>2, <1>3, FS_Interval

\* The sum over the first n entries
Quans(bill) == [i \in DOMAIN bill |-> bill[i].quan]

LEMMA PiecesAre ==
  ASSUME NEW bill \in Seq(EntryType)
  PROVE  /\ Pieces(bill) = SumFunctionOnSet(Quans(bill), 1 .. Len(bill))
         /\ \A i \in 1 .. Len(bill) : Quans(bill)[i] = bill[i].quan /\ Quans(bill)[i] \in Nat
         /\ Pieces(bill) \in Nat
<1>1. DOMAIN Quans(bill) = 1 .. Len(bill)
  BY BillIs DEF Quans
<1>2. Pieces(bill) = SumFunctionOnSet(Quans(bill), 1 .. Len(bill))
  BY <1>1, Zenon DEF Pieces, SumFunction, Quans
<1>3. \A i \in 1 .. Len(bill) : Quans(bill)[i] = bill[i].quan /\ Quans(bill)[i] \in Nat
  BY BillIs DEF Quans
<1> QED
  BY <1>2, <1>3, BillIs, SumNat

LEMMA PiecesAppend ==
  ASSUME NEW bill \in Seq(EntryType), NEW e \in EntryType
  PROVE  Pieces(Append(bill, e)) = Pieces(bill) + e.quan
<1> DEFINE n == Len(bill)
           more == Append(bill, e)
           f == Quans(bill)
           g == Quans(more)
<1>1. /\ more \in Seq(EntryType) /\ Len(more) = n + 1 /\ more[n + 1] = e
      /\ \A i \in 1 .. n : more[i] = bill[i]
  OBVIOUS
<1>2. n \in Nat /\ IsFiniteSet(1 .. n) /\ IsFiniteSet(1 .. n + 1)
  BY <1>1, BillIs
<1> HIDE DEF n, more
<1>3. Pieces(more) = SumFunctionOnSet(g, 1 .. n + 1) 
      /\ \A i \in 1 .. n + 1 : g[i] = more[i].quan /\ g[i] \in Nat
  BY <1>1, PiecesAre
<1>4. Pieces(bill) = SumFunctionOnSet(f, 1 .. n) /\ \A i \in 1 .. n : f[i] = bill[i].quan /\ f[i] \in Nat
  BY PiecesAre DEF n
<1> HIDE DEF f, g
<1>5. n + 1 \in 1 .. n + 1 /\ (1 .. n + 1) \ {n + 1} = 1 .. n
  BY <1>2
<1>6. SumFunctionOnSet(g, 1 .. n + 1) = g[n + 1] + SumFunctionOnSet(g, (1 .. n + 1) \ {n + 1})
  <2> DEFINE S == 1 .. n + 1
             a == n + 1
  <2>1. IsFiniteSet(S) /\ a \in S /\ \A x \in S : g[x] \in Int
    BY <1>2, <1>3, <1>5
  <2> HIDE DEF S, a
  <2>2. SumFunctionOnSet(g, S) = g[a] + SumFunctionOnSet(g, S \ {a})
    BY <2>1, SumRemove
  <2> QED
    BY <2>2 DEF S, a
<1>7. \A i \in 1 .. n : g[i] = f[i]
  BY <1>1, <1>2, <1>3, <1>4
<1>8. SumFunctionOnSet(g, 1 .. n) = SumFunctionOnSet(f, 1 .. n)
  BY <1>2, <1>7, SumSame
<1>9. g[n + 1] = e.quan /\ e.quan \in Nat
  BY <1>1, <1>3, <1>5
<1>10. SumFunctionOnSet(f, 1 .. n) \in Nat
  BY <1>4, PiecesAre
<1> DEFINE s == SumFunctionOnSet(f, 1 .. n)
<1>11. s + e.quan = e.quan + s
  BY <1>9, <1>10
<1> QED
  BY <1>3, <1>4, <1>5, <1>6, <1>8, <1>9, <1>11, Zenon DEF more

LEMMA PiecesEntry ==
  ASSUME NEW bill \in Seq(EntryType), NEW i \in 1 .. Len(bill), NEW e \in EntryType
  PROVE  /\ [bill EXCEPT ![i] = e] \in Seq(EntryType)
         /\ Pieces([bill EXCEPT ![i] = e]) = Pieces(bill) - bill[i].quan + e.quan
<1> DEFINE n == Len(bill)
           b == [bill EXCEPT ![i] = e]
           f == Quans(bill)
           g == Quans(b)
<1>1. /\ b \in Seq(EntryType) /\ Len(b) = n /\ b[i] = e
      /\ \A j \in 1 .. n : j # i => b[j] = bill[j]
  OBVIOUS
<1>2. n \in Nat /\ IsFiniteSet(1 .. n) /\ i \in 1 .. n
  BY BillIs
<1> HIDE DEF n, b
<1>3. Pieces(b) = SumFunctionOnSet(g, 1 .. n) /\ \A j \in 1 .. n : g[j] = b[j].quan /\ g[j] \in Nat
  BY <1>1, PiecesAre
<1>4. Pieces(bill) = SumFunctionOnSet(f, 1 .. n) /\ \A j \in 1 .. n : f[j] = bill[j].quan /\ f[j] \in Nat
  BY PiecesAre DEF n
<1> HIDE DEF f, g
<1>5. \A j \in 1 .. n : j # i => g[j] = f[j]
  BY <1>1, <1>3, <1>4
<1>6. SumFunctionOnSet(g, 1 .. n) = SumFunctionOnSet(f, 1 .. n) - f[i] + g[i]
  <2> DEFINE S == 1 .. n
             a == i
  <2>1. IsFiniteSet(S) /\ a \in S /\ g[a] \in Int
    BY <1>2, <1>3
  <2>2. \A x \in S : f[x] \in Int
    BY <1>4
  <2>3. \A x \in S : x # a => g[x] = f[x]
    BY <1>5
  <2> HIDE DEF S, a
  <2>4. SumFunctionOnSet(g, S) = SumFunctionOnSet(f, S) - f[a] + g[a]
    BY <2>1, <2>2, <2>3, SumChange
  <2> QED
    BY <2>4 DEF S, a
<1>7. f[i] = bill[i].quan /\ g[i] = e.quan
  BY <1>1, <1>2, <1>3, <1>4
<1> QED
  BY <1>1, <1>3, <1>4, <1>6, <1>7 DEF b

\* A bill with the same quantities
LEMMA PiecesSame ==
  ASSUME NEW bill \in Seq(EntryType), NEW b \in Seq(EntryType), Len(b) = Len(bill),
         \A i \in 1 .. Len(bill) : b[i].quan = bill[i].quan
  PROVE  Pieces(b) = Pieces(bill)
<1> DEFINE n == Len(bill)
           f == Quans(bill)
           g == Quans(b)
<1>1. IsFiniteSet(1 .. n)
  BY BillIs
<1>2. Pieces(b) = SumFunctionOnSet(g, 1 .. n) /\ \A j \in 1 .. n : g[j] = b[j].quan
  BY PiecesAre
<1>3. Pieces(bill) = SumFunctionOnSet(f, 1 .. n) /\ \A j \in 1 .. n : f[j] = bill[j].quan
  BY PiecesAre
<1> HIDE DEF f, g
<1>4. \A j \in 1 .. n : g[j] = f[j]
  BY <1>2, <1>3
<1> QED
  BY <1>1, <1>2, <1>3, <1>4, SumSame

\* The bill without entry i: see Strike
Struck(bill, i) == [j \in 1 .. (Len(bill) - 1) |-> IF j = i THEN bill[Len(bill)] ELSE bill[j]]

LEMMA StruckIs ==
  ASSUME NEW bill \in Seq(EntryType), NEW i \in 1 .. Len(bill)
  PROVE  /\ Struck(bill, i) \in Seq(EntryType) /\ Len(Struck(bill, i)) = Len(bill) - 1
         /\ Len(bill) - 1 \in Nat
         /\ \A j \in 1 .. (Len(bill) - 1) :
              /\ j \in 1 .. Len(bill)
              /\ j = i => Struck(bill, i)[j] = bill[Len(bill)]
              /\ j # i => Struck(bill, i)[j] = bill[j]
<1>1. Len(bill) \in Nat /\ Len(bill) - 1 \in Nat /\ \A j \in 1 .. Len(bill) : bill[j] \in EntryType
  BY BillIs
<1>2. Len(bill) \in 1 .. Len(bill) /\ \A j \in 1 .. (Len(bill) - 1) : j \in 1 .. Len(bill)
  BY <1>1
<1>3. \A j \in 1 .. (Len(bill) - 1) : (IF j = i THEN bill[Len(bill)] ELSE bill[j]) \in EntryType
  BY <1>1, <1>2
<1>4. Struck(bill, i) \in Seq(EntryType) /\ Len(Struck(bill, i)) = Len(bill) - 1
  BY <1>1, <1>3 DEF Struck
<1> QED
  BY <1>1, <1>2, <1>4 DEF Struck

LEMMA PiecesStruck ==
  ASSUME NEW bill \in Seq(EntryType), NEW i \in 1 .. Len(bill)
  PROVE  Pieces(Struck(bill, i)) = Pieces(bill) - bill[i].quan
<1> DEFINE n == Len(bill)
           m == n - 1
           b == Struck(bill, i)
           f == Quans(bill)
           g == Quans(b)
<1>1. /\ b \in Seq(EntryType) /\ Len(b) = m
      /\ \A j \in 1 .. m : /\ j = i => b[j] = bill[n]
                           /\ j # i => b[j] = bill[j]
  BY StruckIs
<1>2. n \in Nat /\ IsFiniteSet(1 .. n) /\ m \in Nat /\ i \in 1 .. n /\ n \in 1 .. n
  BY BillIs
<1>3. IsFiniteSet(1 .. m) /\ 1 .. m = (1 .. n) \ {n}
  BY <1>1, <1>2, BillIs
<1>4. Pieces(bill) = SumFunctionOnSet(f, 1 .. n) /\ \A j \in 1 .. n : f[j] = bill[j].quan /\ f[j] \in Nat
  BY PiecesAre
<1> HIDE DEF b
<1>5. Pieces(b) = SumFunctionOnSet(g, 1 .. m) /\ \A j \in 1 .. m : g[j] = b[j].quan /\ g[j] \in Nat
  BY <1>1, PiecesAre
<1> HIDE DEF f, g, n, m
<1>6. SumFunctionOnSet(f, 1 .. n) = f[n] + SumFunctionOnSet(f, 1 .. m)
  <2> DEFINE S == 1 .. n
  <2>1. IsFiniteSet(S) /\ n \in S /\ \A x \in S : f[x] \in Int
    BY <1>2, <1>4
  <2> HIDE DEF S
  <2>2. SumFunctionOnSet(f, S) = f[n] + SumFunctionOnSet(f, S \ {n})
    BY <2>1, SumRemove
  <2> QED
    BY <1>3, <2>2 DEF S
<1>7. \A j \in 1 .. m : j \in 1 .. n
  BY <1>3
<1>8. SumFunctionOnSet(f, 1 .. m) \in Nat
  BY <1>3, <1>4, <1>7, SumNat
<1>9. CASE i = n
  <2>1. \A j \in 1 .. m : g[j] = f[j]
    BY <1>1, <1>3, <1>4, <1>5, <1>7, <1>9
  <2>2. SumFunctionOnSet(g, 1 .. m) = SumFunctionOnSet(f, 1 .. m)
    BY <1>3, <2>1, SumSame
  <2> QED
    BY <1>2, <1>4, <1>5, <1>6, <1>8, <1>9, <2>2 DEF b
<1>10. CASE i # n
  <2>1. i \in 1 .. m
    BY <1>2, <1>3, <1>10
  <2>2. g[i] = f[n] /\ \A j \in 1 .. m : j # i => g[j] = f[j]
    <3>1. b[i] = bill[n] /\ g[i] = b[i].quan /\ f[n] = bill[n].quan
      BY <1>1, <1>2, <1>4, <1>5, <2>1
    <3>2. ASSUME NEW j \in 1 .. m, j # i
          PROVE  g[j] = f[j]
      <4>1. b[j] = bill[j]
        BY <1>1, <3>2, Zenon
      <4>2. g[j] = b[j].quan
        BY <1>5, Zenon
      <4>3. f[j] = bill[j].quan
        BY <1>4, <1>7, Zenon
      <4> QED
        BY <4>1, <4>2, <4>3
    <3> QED
      BY <3>1, <3>2
  <2>3. SumFunctionOnSet(g, 1 .. m) = SumFunctionOnSet(f, 1 .. m) - f[i] + g[i]
    <3> DEFINE S == 1 .. m
               a == i
    <3>1. IsFiniteSet(S) /\ a \in S /\ g[a] \in Int
      BY <1>3, <1>5, <2>1
    <3>2. \A x \in S : f[x] \in Int
      BY <1>4, <1>7
    <3>3. \A x \in S : x # a => g[x] = f[x]
      BY <2>2
    <3> HIDE DEF S, a
    <3>4. SumFunctionOnSet(g, S) = SumFunctionOnSet(f, S) - f[a] + g[a]
      BY <3>1, <3>2, <3>3, SumChange
    <3> QED
      BY <3>4 DEF S, a
  <2> QED
    BY <1>2, <1>4, <1>5, <1>6, <1>8, <2>2, <2>3 DEF b
<1> QED
  BY <1>9, <1>10

-----------------------------------------------------------------------------
\* What keeps the bill and the objects in agreement

\* An object is on the bill or it is clear; if its place is one of Places, it is
\* named exactly if it is not paid for.
LEMMA NamedIs ==
  ASSUME NEW obj, NEW bill, NEW owed, NEW s, Fit(obj, bill, owed, s), NEW o \in Ids
  PROVE  /\ ~Named(bill, o) => Clear(obj[o])
         /\ obj[o].where \in Places => (Named(bill, o) <=> obj[o].unpaid)
         /\ Named(bill, o) => obj[o].where # "none" /\ obj[o].quan >= 1
         /\ obj[o].quan \in Nat /\ obj[o].where \in Places \cup {"none", "onbill"}
         /\ obj[o].unpaid \in BOOLEAN /\ obj[o].nc \in BOOLEAN
<1>1. obj[o] \in ObjType
  BY DEF Fit
<1>2. obj[o].quan \in Nat /\ obj[o].where \in Places \cup {"none", "onbill"}
      /\ obj[o].unpaid \in BOOLEAN /\ obj[o].nc \in BOOLEAN
  BY <1>1 DEF ObjType
<1>3. ~Named(bill, o) => Clear(obj[o])
  BY DEF Fit, GoodsOK
<1>4. ASSUME Named(bill, o)
      PROVE  /\ obj[o].where \in Places \cup {"onbill"} /\ obj[o].quan >= 1
             /\ obj[o].where \in Places => obj[o].unpaid
  <2>1. PICK i \in 1 .. Len(bill) : bill[i].id = o
    BY <1>4 DEF Named
  <2>2. EntryOK(obj[o], bill[i]) /\ (obj[o].where # "none" => obj[o].quan >= 1)
    BY <2>1 DEF Fit, GoodsOK
  <2>3. bill[i].useup \in BOOLEAN
    BY BillIs DEF Fit
  <2> QED
    BY <2>2, <2>3 DEF EntryOK, Places
<1> QED
  BY <1>2, <1>3, <1>4 DEF Clear, Places

\* The bill does not change.
LEMMA FitGoods ==
  ASSUME NEW obj, NEW bill, NEW owed, NEW s, Fit(obj, bill, owed, s),
         NEW obj2 \in [Ids -> ObjType],
         \A o \in Ids : \/ obj2[o] = obj[o]
                        \/ ~Named(bill, o) /\ Clear(obj2[o])
                        \/ Named(bill, o) /\ \A i \in 1 .. Len(bill) :
                                               bill[i].id = o => EntryOK(obj2[o], bill[i]),
         \A o \in Ids : obj2[o].where # "none" => obj2[o].quan >= 1
  PROVE  Fit(obj2, bill, owed, s)
<1>1. \A i \in 1 .. Len(bill) : bill[i].id \in Ids
  BY BillIs DEF Fit
<1>2. \A i \in 1 .. Len(bill) : EntryOK(obj2[bill[i].id], bill[i])
  <2> SUFFICES ASSUME NEW i \in 1 .. Len(bill) PROVE EntryOK(obj2[bill[i].id], bill[i])
    OBVIOUS
  <2>1. EntryOK(obj[bill[i].id], bill[i]) /\ Named(bill, bill[i].id)
    BY DEF Fit, GoodsOK, Named
  <2> QED
    BY <1>1, <2>1
<1>3. \A o \in Ids : ~Named(bill, o) => Clear(obj2[o])
  BY DEF Fit, GoodsOK
<1>4. GoodsOK(obj2, bill)
  BY <1>2, <1>3 DEF Fit, GoodsOK
<1> QED
  BY <1>4 DEF Fit

\* Nothing is on the bill any more.
LEMMA FitEmpty ==
  ASSUME NEW s, NEW obj \in [Ids -> ObjType], \A o \in Ids : Clear(obj[o]),
         \A o \in Ids : obj[o].where # "none" => obj[o].quan >= 1
  PROVE  Fit(obj, << >>, 0, s)
<1>1. << >> \in Seq(EntryType) /\ Len(<< >>) = 0 /\ Len(<< >>) <= BILLSZ
  BY ShopAssumption
<1>2. Pieces(<< >>) = 0
  <2>1. DOMAIN << >> = {} /\ DOMAIN [i \in DOMAIN << >> |-> << >>[i].quan] = {}
    OBVIOUS
  <2> QED
    BY <2>1, SumEmpty DEF Pieces, SumFunction
<1>3. GoodsOK(obj, << >>)
  BY <1>1 DEF GoodsOK
<1> QED
  BY <1>1, <1>2, <1>3 DEF Fit

\* One object more is on the bill.
LEMMA FitAppend ==
  ASSUME NEW obj, NEW bill, NEW owed, NEW s, Fit(obj, bill, owed, s), Len(bill) < BILLSZ,
         NEW e \in EntryType, ~Named(bill, e.id), PriceOK(e.price, s),
         NEW obj2 \in [Ids -> ObjType], \A o \in Ids : o # e.id => obj2[o] = obj[o],
         EntryOK(obj2[e.id], e), obj2[e.id].quan >= 1
  PROVE  Fit(obj2, Append(bill, e), owed + e.quan, s)
<1> DEFINE b == Append(bill, e)
           n == Len(bill)
<1>1. bill \in Seq(EntryType) /\ n \in Nat /\ e.id \in Ids /\ BILLSZ \in Nat
  BY ShopAssumption DEF Fit, EntryType
<1>2. /\ b \in Seq(EntryType) /\ Len(b) = n + 1 /\ b[n + 1] = e
      /\ \A i \in 1 .. n : b[i] = bill[i]
  BY <1>1
<1>3. \A i \in 1 .. n + 1 : i = n + 1 \/ i \in 1 .. n
  BY <1>1
<1> HIDE DEF b
<1>4. \A i \in 1 .. n : bill[i].id # e.id /\ bill[i].id \in Ids
  BY <1>1, BillIs DEF Named
<1>5. \A i, j \in 1 .. n + 1 : b[i].id = b[j].id => i = j
  BY <1>2, <1>3, <1>4 DEF Fit, GoodsOK
<1>6. \A i \in 1 .. n + 1 : EntryOK(obj2[b[i].id], b[i])
  <2>1. \A i \in 1 .. n : EntryOK(obj[bill[i].id], bill[i])
    BY DEF Fit, GoodsOK
  <2> QED
    BY <1>2, <1>3, <1>4, <2>1
<1>7. \A o \in Ids : ~Named(b, o) => Clear(obj2[o])
  <2> SUFFICES ASSUME NEW o \in Ids, ~Named(b, o) PROVE Clear(obj2[o])
    OBVIOUS
  <2>1. n + 1 \in 1 .. n + 1 /\ \A i \in 1 .. n : i \in 1 .. n + 1
    BY <1>1
  <2>2. o # e.id /\ ~Named(bill, o)
    BY <1>2, <2>1 DEF Named
  <2> QED
    BY <2>2 DEF Fit, GoodsOK
<1>8. \A o \in Ids : obj2[o].where # "none" => obj2[o].quan >= 1
  BY DEF Fit, GoodsOK
<1>9. GoodsOK(obj2, b)
  BY <1>2, <1>5, <1>6, <1>7, <1>8 DEF GoodsOK
<1>10. \A i \in 1 .. n + 1 : PriceOK(b[i].price, s)
  BY <1>2, <1>3 DEF Fit
<1>11. owed + e.quan = Pieces(b)
  BY <1>1, PiecesAppend DEF b, Fit
<1>12. n + 1 <= BILLSZ
  BY <1>1
<1> QED
  BY <1>2, <1>9, <1>10, <1>11, <1>12 DEF Fit, b

\* Entry i is replaced, perhaps by that of another object, which then has no entry
\* yet; the object that it was for is clear then.
LEMMA FitEntry ==
  ASSUME NEW obj, NEW bill, NEW owed, NEW s, Fit(obj, bill, owed, s),
         NEW i \in 1 .. Len(bill), NEW e \in EntryType, PriceOK(e.price, s),
         e.id = bill[i].id \/ ~Named(bill, e.id),
         NEW obj2 \in [Ids -> ObjType],
         \A o \in Ids : o \notin {e.id, bill[i].id} => obj2[o] = obj[o],
         EntryOK(obj2[e.id], e), obj2[e.id].quan >= 1,
         e.id # bill[i].id => /\ Clear(obj2[bill[i].id])
                              /\ obj2[bill[i].id].where # "none" => obj2[bill[i].id].quan >= 1
  PROVE  Fit(obj2, [bill EXCEPT ![i] = e], owed - bill[i].quan + e.quan, s)
<1> DEFINE b == [bill EXCEPT ![i] = e]
           n == Len(bill)
           old == bill[i].id
<1>1. bill \in Seq(EntryType) /\ n \in Nat /\ e.id \in Ids /\ old \in Ids
  BY BillIs DEF Fit, EntryType
<1>2. /\ b \in Seq(EntryType) /\ Len(b) = n /\ b[i] = e
      /\ \A j \in 1 .. n : j # i => b[j] = bill[j]
  BY <1>1
<1> HIDE DEF b
<1>3. \A j \in 1 .. n : j # i => bill[j].id # old /\ bill[j].id # e.id /\ bill[j].id \in Ids
  BY <1>1, BillIs DEF Named, Fit, GoodsOK
<1> HIDE DEF old
<1>4. \A j, k \in 1 .. n : b[j].id = b[k].id => j = k
  BY <1>2, <1>3 DEF Fit, GoodsOK
<1>5. \A j \in 1 .. n : EntryOK(obj2[b[j].id], b[j])
  <2>1. \A j \in 1 .. n : EntryOK(obj[bill[j].id], bill[j])
    BY DEF Fit, GoodsOK
  <2> QED
    BY <1>2, <1>3, <2>1 DEF old
<1>6. \A o \in Ids : ~Named(b, o) => Clear(obj2[o])
  <2> SUFFICES ASSUME NEW o \in Ids, ~Named(b, o) PROVE Clear(obj2[o])
    OBVIOUS
  <2>1. o # e.id
    BY <1>2 DEF Named
  <2>2. CASE o = old
    BY <2>1, <2>2 DEF old
  <2>3. CASE o # old
    <3>1. ~Named(bill, o)
      BY <1>2, <2>3 DEF Named, old
    <3>2. obj2[o] = obj[o]
      BY <2>1, <2>3 DEF old
    <3> QED
      BY <3>1, <3>2 DEF Fit, GoodsOK
  <2> QED
    BY <2>2, <2>3
<1>7. \A o \in Ids : obj2[o].where # "none" => obj2[o].quan >= 1
  BY DEF Fit, GoodsOK
<1>8. GoodsOK(obj2, b)
  BY <1>2, <1>4, <1>5, <1>6, <1>7 DEF GoodsOK
<1>9. \A j \in 1 .. n : PriceOK(b[j].price, s)
  BY <1>2 DEF Fit
<1>10. owed - bill[i].quan + e.quan = Pieces(b)
  BY <1>1, PiecesEntry DEF b, Fit
<1>11. n <= BILLSZ
  BY DEF Fit
<1> QED
  BY <1>2, <1>8, <1>9, <1>10, <1>11 DEF Fit, b

\* Entry i is struck off, and its object is clear.
LEMMA FitStruck ==
  ASSUME NEW obj, NEW bill, NEW owed, NEW s, Fit(obj, bill, owed, s),
         NEW i \in 1 .. Len(bill),
         NEW obj2 \in [Ids -> ObjType], \A o \in Ids : o # bill[i].id => obj2[o] = obj[o],
         Clear(obj2[bill[i].id]),
         obj2[bill[i].id].where # "none" => obj2[bill[i].id].quan >= 1
  PROVE  Fit(obj2, Struck(bill, i), owed - bill[i].quan, s)
<1> DEFINE b == Struck(bill, i)
           n == Len(bill)
           m == n - 1
           old == bill[i].id
<1>1. bill \in Seq(EntryType) /\ n \in Nat /\ old \in Ids /\ m \in Nat /\ n \in 1 .. n
      /\ BILLSZ \in Nat
  BY BillIs, StruckIs, ShopAssumption DEF Fit
<1>14. /\ b \in Seq(EntryType) /\ Len(b) = m
       /\ \A j \in 1 .. m : /\ j = i => b[j] = bill[n]
                            /\ j # i => b[j] = bill[j]
  BY <1>1, StruckIs
<1> HIDE DEF b
<1>15. \A j \in 1 .. m : j \in 1 .. n /\ j # n
  BY <1>1
<1>2. /\ b \in Seq(EntryType) /\ Len(b) = m
      /\ \A j \in 1 .. m : /\ j \in 1 .. n /\ j # n
                           /\ j = i => b[j] = bill[n]
                           /\ j # i => b[j] = bill[j]
  BY <1>14, <1>15
<1>3. \A j, k \in 1 .. n : bill[j].id = bill[k].id => j = k
  BY DEF Fit, GoodsOK
<1>4. \A j \in 1 .. m : \E k \in 1 .. n : k # i /\ b[j] = bill[k]
  BY <1>1, <1>2
<1>5. \A j, k \in 1 .. m : b[j].id = b[k].id => j = k
  BY <1>1, <1>2, <1>3
<1>6. \A k \in 1 .. n : k # i => bill[k].id # old /\ bill[k].id \in Ids
  BY <1>1, <1>3, BillIs
<1>7. \A j \in 1 .. m : EntryOK(obj2[b[j].id], b[j])
  <2>1. \A k \in 1 .. n : k # i => EntryOK(obj2[bill[k].id], bill[k])
    BY <1>6 DEF Fit, GoodsOK
  <2> QED
    BY <1>4, <2>1
<1>8. \A o \in Ids : ~Named(b, o) => Clear(obj2[o])
  <2> SUFFICES ASSUME NEW o \in Ids, ~Named(b, o), o # old PROVE Clear(obj2[o])
    BY DEF old
  <2>1. ~Named(bill, o)
    <3> SUFFICES ASSUME NEW k \in 1 .. n, bill[k].id = o PROVE FALSE
      BY DEF Named
    <3>1. k # i
      BY DEF old
    <3>2. \A j \in 1 .. m : b[j].id # o
      BY <1>2 DEF Named
    <3>3. CASE k = n
      <4>1. i \in 1 .. m
        BY <1>1, <3>1, <3>3
      <4> QED
        BY <1>2, <3>2, <3>3, <4>1
    <3>4. CASE k # n
      <4>1. k \in 1 .. m
        BY <1>1, <3>4
      <4> QED
        BY <1>2, <3>1, <3>2, <4>1
    <3> QED
      BY <3>3, <3>4
  <2> QED
    BY <2>1 DEF Fit, GoodsOK
<1>9. \A o \in Ids : obj2[o].where # "none" => obj2[o].quan >= 1
  BY DEF Fit, GoodsOK
<1>10. GoodsOK(obj2, b)
  BY <1>2, <1>5, <1>7, <1>8, <1>9 DEF GoodsOK
<1>11. \A j \in 1 .. m : PriceOK(b[j].price, s)
  BY <1>4 DEF Fit
<1>12. owed - bill[i].quan = Pieces(b)
  BY <1>1, PiecesStruck DEF b, Fit
<1>13. m <= BILLSZ
  BY <1>1 DEF Fit
<1> QED
  BY <1>2, <1>10, <1>11, <1>12, <1>13 DEF Fit, b

\* The prices change.
LEMMA FitPrices ==
  ASSUME NEW obj, NEW bill, NEW owed, NEW s, Fit(obj, bill, owed, s), NEW t,
         NEW b \in Seq(EntryType), Len(b) = Len(bill),
         \A i \in 1 .. Len(bill) : /\ b[i].id = bill[i].id /\ b[i].quan = bill[i].quan
                                   /\ b[i].useup = bill[i].useup /\ PriceOK(b[i].price, t)
  PROVE  Fit(obj, b, owed, t)
<1>1. Pieces(b) = Pieces(bill)
  BY PiecesSame DEF Fit
<1>2. GoodsOK(obj, b)
  <2>1. \A i \in 1 .. Len(bill) : EntryOK(obj[b[i].id], b[i])
    BY DEF Fit, GoodsOK, EntryOK
  <2>2. \A o \in Ids : Named(b, o) <=> Named(bill, o)
    BY DEF Named
  <2> QED
    BY <2>1, <2>2 DEF Fit, GoodsOK
<1> QED
  BY <1>1, <1>2 DEF Fit

-----------------------------------------------------------------------------
\* Worlds.  The books are in order as long as the bill fits the objects; the bill
\* is empty unless the hero and the shopkeeper are both in the shop.  An object may
\* be "free" within bill_dummy_object only.

AnyObj == [where : Places \cup {"none", "onbill", "free"}, quan : Nat, unpaid : BOOLEAN,
           nc : BOOLEAN]
World == [obj : [Ids -> AnyObj],
          bill : Seq(EntryType), shk : ShkType, purse : Nat, floor : Nat, owed : Int]

Books(v) ==
  /\ v \in World
  /\ Fit(v.obj, v.bill, v.owed, v.shk.surcharge)
  /\ v.shk.angry = v.shk.surcharge \/ v.shk.inactive
  /\ Tended(v) => ~v.shk.inactive
  /\ v.shk.loan <= v.shk.debit

Closed(v, in) == (in /\ Tended(v)) \/ (Len(v.bill) = 0 /\ v.shk.debit = 0)
Good(v, in) == Books(v) /\ Closed(v, in)

\* His mood has changed, and the surcharge does not follow it yet.
Moody(v, in) ==
  /\ v \in World
  /\ Fit(v.obj, v.bill, v.owed, v.shk.surcharge)
  /\ Tended(v) => ~v.shk.inactive
  /\ v.shk.loan <= v.shk.debit
  /\ Closed(v, in)

LEMMA GoodMoody ==
  ASSUME NEW v, NEW in
  PROVE  Good(v, in) <=> Moody(v, in) /\ (v.shk.angry = v.shk.surcharge \/ v.shk.inactive)
BY DEF Good, Books, Moody

\* The same shopkeeper, and the same gold
Kept(v, x) == x \in World /\ x.shk = v.shk /\ x.purse = v.purse /\ x.floor = v.floor

LEMMA WorldIs ==
  ASSUME NEW v \in World
  PROVE  /\ v.bill \in Seq(EntryType) /\ v.shk \in ShkType /\ v.purse \in Nat
         /\ v.floor \in Nat /\ v.owed \in Int
BY DEF World

LEMMA ShkIs ==
  ASSUME NEW s \in ShkType
  PROVE  /\ s.st \in {"home", "away", "dead"} /\ s.angry \in BOOLEAN /\ s.surcharge \in BOOLEAN
         /\ s.inactive \in BOOLEAN
         /\ s.gold \in Nat /\ s.credit \in Nat /\ s.debit \in Nat /\ s.loan \in Nat
         /\ s.robbed \in Nat
BY DEF ShkType

LEMMA BillEmpty ==
  ASSUME NEW bill \in Seq(EntryType)
  PROVE  bill = << >> <=> Len(bill) = 0
OBVIOUS

LEMMA MaxTwo ==
  ASSUME NEW a \in Int, NEW b \in Int
  PROVE  /\ a >= b => Max({a, b}) = a
         /\ a < b => Max({a, b}) = b
         /\ Max({a, b}) \in Int /\ Max({a, b}) >= a /\ Max({a, b}) >= b
<1>1. \E x \in {a, b} : \A y \in {a, b} : x >= y
  OBVIOUS
<1>2. Max({a, b}) \in {a, b} /\ \A y \in {a, b} : Max({a, b}) >= y
  BY <1>1, Zenon DEF Max
<1> QED
  BY <1>2

LEMMA MinTwo ==
  ASSUME NEW a \in Int, NEW b \in Int
  PROVE  Min({a, b}) \in {a, b} /\ Min({a, b}) <= a /\ Min({a, b}) <= b
<1>1. \E x \in {a, b} : \A y \in {a, b} : x <= y
  OBVIOUS
<1>2. Min({a, b}) \in {a, b} /\ \A y \in {a, b} : Min({a, b}) <= y
  BY <1>1, Zenon DEF Min
<1> QED
  BY <1>2

LEMMA MaxZero ==
  ASSUME NEW b \in Int
  PROVE  /\ b <= 0 => Max({0, b}) = 0
         /\ b >= 0 => Max({0, b}) = b
         /\ Max({0, b}) \in Nat
<1> DEFINE a == 0
<1>1. a \in Int
  OBVIOUS
<1> HIDE DEF a
<1>2. /\ a >= b => Max({a, b}) = a
      /\ a < b => Max({a, b}) = b
      /\ Max({a, b}) \in Int /\ Max({a, b}) >= a /\ Max({a, b}) >= b
  BY <1>1, MaxTwo
<1>3. a = 0
  BY DEF a
<1> QED
  BY <1>2, <1>3

\* A step that concerns only the goods
LEMMA GoodKept ==
  ASSUME NEW v, NEW in, Good(v, in), NEW x, Kept(v, x),
         Fit(x.obj, x.bill, x.owed, v.shk.surcharge),
         Len(v.bill) = 0 => Len(x.bill) = 0 \/ (in /\ Tended(v))
  PROVE  Good(x, in)
BY DEF Good, Books, Closed, Kept, Tended

\* One that concerns only the shopkeeper
LEMMA GoodShk ==
  ASSUME NEW v, NEW in, Good(v, in), NEW x \in World,
         x.obj = v.obj, x.bill = v.bill, x.owed = v.owed,
         x.shk.angry = v.shk.angry, x.shk.surcharge = v.shk.surcharge /\ x.shk.inactive = v.shk.inactive,
         x.shk.loan <= x.shk.debit,
         x.shk.st = v.shk.st, (in /\ Tended(v)) \/ x.shk.debit = 0
  PROVE  Good(x, in)
BY DEF Good, Books, Closed, Tended

\* The entry of an object
LEMMA EntryIs ==
  ASSUME NEW v, Books(v), NEW o \in Ids
  PROVE  /\ OnBill(v, o) # {} <=> Named(v.bill, o)
         /\ Named(v.bill, o) =>
              /\ Entry(v, o) \in 1 .. Len(v.bill) /\ v.bill[Entry(v, o)].id = o
              /\ v.bill[Entry(v, o)] \in EntryType
              /\ EntryOK(v.obj[o], v.bill[Entry(v, o)])
              /\ PriceOK(v.bill[Entry(v, o)].price, v.shk.surcharge)
<1>1. v.bill \in Seq(EntryType) /\ DOMAIN v.bill = 1 .. Len(v.bill)
  BY BillIs DEF Books, Fit
<1>2. OnBill(v, o) # {} <=> Named(v.bill, o)
  BY <1>1 DEF OnBill, Named
<1>3. ASSUME Named(v.bill, o)
      PROVE  Entry(v, o) \in 1 .. Len(v.bill) /\ v.bill[Entry(v, o)].id = o
  <2>1. Entry(v, o) \in OnBill(v, o)
    BY <1>2, <1>3 DEF Entry
  <2> QED
    BY <1>1, <2>1 DEF OnBill
<1> DEFINE i == Entry(v, o)
<1> HIDE DEF i
<1>4. ASSUME i \in 1 .. Len(v.bill), v.bill[i].id = o
      PROVE  /\ v.bill[i] \in EntryType /\ EntryOK(v.obj[o], v.bill[i])
             /\ PriceOK(v.bill[i].price, v.shk.surcharge)
  BY <1>1, <1>4, BillIs DEF Books, Fit, GoodsOK
<1> QED
  BY <1>2, <1>3, <1>4 DEF i

LEMMA NewIdIs ==
  ASSUME NEW v, Books(v), Spare(v) # {}
  PROVE  /\ NewId(v) \in Ids /\ v.obj[NewId(v)].where = "none" /\ ~Named(v.bill, NewId(v))
         /\ NewId(v) \in Spare(v)
<1>1. NewId(v) \in Spare(v)
  BY DEF NewId
<1>2. NewId(v) \in Ids /\ v.obj[NewId(v)].where = "none"
  BY <1>1 DEF Spare
<1> QED
  BY <1>1, <1>2, NamedIs DEF Books

-----------------------------------------------------------------------------
\* The shopkeeper's mood

LEMMA SurchargeIs ==
  ASSUME NEW p \in Nat
  PROVE  /\ Surcharge(p) \in Nat
         /\ (p + Surcharge(p)) - ((p + Surcharge(p) + 3) \div 4) = p
BY DEF Surcharge

LEMMA RaisedIs ==
  ASSUME NEW e \in EntryType
  PROVE  /\ Raised(e) \in EntryType /\ Raised(e).id = e.id /\ Raised(e).quan = e.quan
         /\ Raised(e).useup = e.useup /\ Raised(e).price = e.price + Surcharge(e.price)
<1> DEFINE p == e.price + Surcharge(e.price)
<1>1. \A n \in Nat : n >= 1 => n + Surcharge(n) \in Nat \ {0}
  BY SurchargeIs
<1>2. e.price \in Nat /\ e.price >= 1
  BY DEF EntryType
<1>3. p \in Nat \ {0}
  BY <1>1, <1>2
<1>4. Raised(e) = [e EXCEPT !.price = p]
  BY DEF Raised
<1> HIDE DEF p
<1>5. /\ Raised(e) \in EntryType /\ Raised(e).id = e.id /\ Raised(e).quan = e.quan
      /\ Raised(e).useup = e.useup /\ Raised(e).price = p
  BY <1>3, <1>4 DEF EntryType
<1> QED
  BY <1>5 DEF p

LEMMA CostIs ==
  ASSUME NEW c \in Range(Cost)
  PROVE  c \in Nat /\ c >= 1
BY ShopAssumption DEF Range

\* Lowering undoes raising.
LEMMA LoweredIs ==
  ASSUME NEW e \in EntryType, PriceOK(e.price, TRUE)
  PROVE  /\ Lowered(e) \in EntryType /\ Lowered(e).id = e.id /\ Lowered(e).quan = e.quan
         /\ Lowered(e).useup = e.useup /\ PriceOK(Lowered(e).price, FALSE)
<1>1. PICK c \in Range(Cost) : e.price = c + Surcharge(c)
  BY DEF PriceOK
<1>2. c \in Nat /\ c >= 1
  BY CostIs
<1>3. e.price - ((e.price + 3) \div 4) = c
  BY <1>1, <1>2, SurchargeIs
<1>4. Lowered(e) = [e EXCEPT !.price = c]
  BY <1>3 DEF Lowered
<1>5. /\ Lowered(e) \in EntryType /\ Lowered(e).id = e.id /\ Lowered(e).quan = e.quan
      /\ Lowered(e).useup = e.useup /\ Lowered(e).price = c
  BY <1>2, <1>4 DEF EntryType
<1>6. PriceOK(c, FALSE)
  BY <1>2 DEF PriceOK
<1> QED
  BY <1>5, <1>6

\* The parts of a world that a change of mood leaves alone
SameGoods(v, x) ==
  /\ x.obj = v.obj /\ x.owed = v.owed /\ x.purse = v.purse /\ x.floor = v.floor
  /\ Len(x.bill) = Len(v.bill)
  /\ \A i \in 1 .. Len(v.bill) : /\ x.bill[i].id = v.bill[i].id /\ x.bill[i].quan = v.bill[i].quan
                                 /\ x.bill[i].useup = v.bill[i].useup

LEMMA MoodGood ==
  ASSUME NEW v, NEW in, Moody(v, in), NEW x \in World, SameGoods(v, x), NEW t \in BOOLEAN,
         x.shk.angry = t, x.shk.surcharge = t, x.shk.loan = v.shk.loan,
         x.shk.debit = v.shk.debit, x.shk.st = v.shk.st, x.shk.inactive = v.shk.inactive,
         \A i \in 1 .. Len(v.bill) : PriceOK(x.bill[i].price, t)
  PROVE  Good(x, in)
<1>1. x.bill \in Seq(EntryType)
  BY WorldIs
<1>2. Fit(x.obj, x.bill, x.owed, t)
  BY <1>1, FitPrices DEF Moody, SameGoods
<1> QED
  BY <1>2 DEF Good, Books, Moody, Closed, SameGoods, Tended

\* A bill of other entries
LEMMA MapIs ==
  ASSUME NEW bill \in Seq(EntryType), NEW b \in [1 .. Len(bill) -> EntryType]
  PROVE  b \in Seq(EntryType) /\ Len(b) = Len(bill)
<1> DEFINE n == Len(bill)
<1>1. n \in Nat /\ b \in [1 .. n -> EntryType]
  OBVIOUS
<1> HIDE DEF n
<1>4. b \in Seq(EntryType) /\ Len(b) = n
  BY <1>1
<1> QED
  BY <1>4 DEF n

\* A world with another shopkeeper and bill, and his other mood
Billed(v, s, b) == [v EXCEPT !.shk = s, !.bill = b]
Mood(v, t) == [v.shk EXCEPT !.angry = t, !.surcharge = t]

LEMMA MoodIs ==
  ASSUME NEW v \in World, NEW t \in BOOLEAN
  PROVE  /\ Mood(v, t) \in ShkType /\ Mood(v, t).angry = t /\ Mood(v, t).surcharge = t
         /\ Mood(v, t).loan = v.shk.loan /\ Mood(v, t).debit = v.shk.debit
         /\ Mood(v, t).st = v.shk.st /\ Mood(v, t).robbed = v.shk.robbed
         /\ Mood(v, t).credit = v.shk.credit /\ Mood(v, t).gold = v.shk.gold
         /\ Mood(v, t).inactive = v.shk.inactive
<1>1. v.shk \in ShkType
  BY WorldIs
<1> QED
  BY <1>1 DEF ShkType, Mood

LEMMA RileMood ==
  ASSUME NEW v, NEW in, Moody(v, in), ~v.shk.inactive
  PROVE  Good(Rile(v), in) /\ SameGoods(v, Rile(v))
<1> DEFINE x == Rile(v)
           s == Mood(v, TRUE)
           b == [i \in DOMAIN v.bill |-> Raised(v.bill[i])]
           c == IF v.shk.surcharge THEN v.bill ELSE b
<1>1. /\ v \in World /\ v.bill \in Seq(EntryType) /\ v.shk.surcharge \in BOOLEAN
      /\ DOMAIN v.bill = 1 .. Len(v.bill)
      /\ \A i \in 1 .. Len(v.bill) : v.bill[i] \in EntryType
                                     /\ PriceOK(v.bill[i].price, v.shk.surcharge)
  BY WorldIs, ShkIs, BillIs DEF Moody, Fit
<1>2. \A i \in 1 .. Len(v.bill) : b[i] = Raised(v.bill[i]) /\ b[i] \in EntryType
  BY <1>1, RaisedIs
<1>3. b \in Seq(EntryType) /\ Len(b) = Len(v.bill)
  <2>1. b \in [1 .. Len(v.bill) -> EntryType]
    BY <1>1, <1>2
  <2> QED
    BY <1>1, <2>1, MapIs
<1>4. x = Billed(v, s, c)
  BY <1>1 DEF Rile, Billed, Mood, World
<1>10. /\ s \in ShkType /\ s.angry = TRUE /\ s.surcharge = TRUE /\ s.loan = v.shk.loan
       /\ s.debit = v.shk.debit /\ s.st = v.shk.st /\ s.inactive = v.shk.inactive
  BY <1>1, MoodIs
<1> HIDE DEF b, x, s
<1>5. c \in Seq(EntryType) /\ Len(c) = Len(v.bill)
  BY <1>1, <1>3
<1>6. ASSUME NEW i \in 1 .. Len(v.bill)
      PROVE  /\ c[i].id = v.bill[i].id /\ c[i].quan = v.bill[i].quan
             /\ c[i].useup = v.bill[i].useup /\ PriceOK(c[i].price, TRUE)
  <2>1. CASE v.shk.surcharge
    BY <1>1, <2>1
  <2>2. CASE ~v.shk.surcharge
    <3>1. v.bill[i].price \in Range(Cost)
      BY <1>1, <2>2, CostIs DEF PriceOK
    <3>2. c[i] = Raised(v.bill[i])
      BY <1>2, <2>2
    <3>3. PriceOK(v.bill[i].price + Surcharge(v.bill[i].price), TRUE)
      BY <3>1 DEF PriceOK
    <3> QED
      BY <1>1, <3>2, <3>3, RaisedIs
  <2> QED
    BY <2>1, <2>2
<1> HIDE DEF c
<1>7. /\ x \in World /\ x.obj = v.obj /\ x.owed = v.owed /\ x.purse = v.purse
      /\ x.floor = v.floor /\ x.bill = c
      /\ x.shk = s
  BY <1>1, <1>4, <1>5, <1>10 DEF World, Billed
<1>8. SameGoods(v, x)
  BY <1>5, <1>6, <1>7 DEF SameGoods
<1>9. Good(x, in)
  BY <1>6, <1>7, <1>8, <1>10, MoodGood
<1> QED
  BY <1>7, <1>8, <1>9 DEF x, s

LEMMA PacifyMood ==
  ASSUME NEW v, NEW in, Moody(v, in), ~v.shk.inactive
  PROVE  Good(Pacify(v), in) /\ SameGoods(v, Pacify(v))
<1> DEFINE x == Pacify(v)
           s == Mood(v, FALSE)
           b == [i \in DOMAIN v.bill |-> Lowered(v.bill[i])]
           c == IF v.shk.surcharge THEN b ELSE v.bill
<1>1. /\ v \in World /\ v.bill \in Seq(EntryType) /\ v.shk.surcharge \in BOOLEAN
      /\ DOMAIN v.bill = 1 .. Len(v.bill)
      /\ \A i \in 1 .. Len(v.bill) : v.bill[i] \in EntryType
                                     /\ PriceOK(v.bill[i].price, v.shk.surcharge)
  BY WorldIs, ShkIs, BillIs DEF Moody, Fit
<1>2. \A i \in 1 .. Len(v.bill) : b[i] = Lowered(v.bill[i])
  BY <1>1
<1>3. x = Billed(v, s, c)
  BY <1>1 DEF Pacify, Billed, Mood, World
<1>10. /\ s \in ShkType /\ s.angry = FALSE /\ s.surcharge = FALSE /\ s.loan = v.shk.loan
       /\ s.debit = v.shk.debit /\ s.st = v.shk.st /\ s.inactive = v.shk.inactive
  BY <1>1, MoodIs
<1> HIDE DEF s
<1>4. v.shk.surcharge => b \in Seq(EntryType) /\ Len(b) = Len(v.bill)
  <2> SUFFICES ASSUME v.shk.surcharge PROVE b \in Seq(EntryType) /\ Len(b) = Len(v.bill)
    OBVIOUS
  <2>1. \A i \in 1 .. Len(v.bill) : b[i] \in EntryType
    BY <1>1, <1>2, LoweredIs
  <2>2. b \in [1 .. Len(v.bill) -> EntryType]
    BY <1>1, <2>1
  <2> QED
    BY <1>1, <2>2, MapIs
<1> HIDE DEF b, x
<1>5. c \in Seq(EntryType) /\ Len(c) = Len(v.bill)
  BY <1>1, <1>4
<1>6. ASSUME NEW i \in 1 .. Len(v.bill)
      PROVE  /\ c[i].id = v.bill[i].id /\ c[i].quan = v.bill[i].quan
             /\ c[i].useup = v.bill[i].useup /\ PriceOK(c[i].price, FALSE)
  <2>1. CASE v.shk.surcharge
    <3>1. c[i] = Lowered(v.bill[i]) /\ PriceOK(v.bill[i].price, TRUE)
      BY <1>1, <1>2, <2>1
    <3> QED
      BY <1>1, <3>1, LoweredIs
  <2>2. CASE ~v.shk.surcharge
    BY <1>1, <2>2
  <2> QED
    BY <2>1, <2>2
<1> HIDE DEF c
<1>7. /\ x \in World /\ x.obj = v.obj /\ x.owed = v.owed /\ x.purse = v.purse
      /\ x.floor = v.floor /\ x.bill = c
      /\ x.shk = s
  BY <1>1, <1>3, <1>5, <1>10 DEF World, Billed
<1>8. SameGoods(v, x)
  BY <1>5, <1>6, <1>7 DEF SameGoods
<1>9. Good(x, in)
  BY <1>6, <1>7, <1>8, <1>10, MoodGood
<1> QED
  BY <1>7, <1>8, <1>9 DEF x, s

LEMMA RileIs ==
  ASSUME NEW v, NEW in, Good(v, in)
  PROVE  Good(Rile(v), in) /\ SameGoods(v, Rile(v))
<1>1. CASE v.shk.inactive
  BY <1>1 DEF Rile, SameGoods
<1>2. CASE ~v.shk.inactive
  BY <1>2, GoodMoody, RileMood
<1> QED
  BY <1>1, <1>2

LEMMA PacifyIs ==
  ASSUME NEW v, NEW in, Good(v, in)
  PROVE  Good(Pacify(v), in)
<1>1. CASE v.shk.inactive
  BY <1>1 DEF Pacify
<1>2. CASE ~v.shk.inactive
  BY <1>2, GoodMoody, PacifyMood
<1> QED
  BY <1>1, <1>2

\* The surcharge follows the mood.
LEMMA ShopKeeperIs ==
  ASSUME NEW v, NEW in, Moody(v, in)
  PROVE  Good(ShopKeeper(v), in)
<1>1. CASE v.shk.angry = v.shk.surcharge
  BY <1>1, GoodMoody DEF ShopKeeper
<1>2. CASE v.shk.angry # v.shk.surcharge /\ v.shk.inactive
  <2>1. ShopKeeper(v) = v
    BY <1>2 DEF ShopKeeper, Rile, Pacify
  <2> QED
    BY <1>2, <2>1, GoodMoody
<1>3. CASE v.shk.angry # v.shk.surcharge /\ ~v.shk.inactive
  <2>1. ShopKeeper(v) = Rile(v) \/ ShopKeeper(v) = Pacify(v)
    BY <1>3 DEF ShopKeeper
  <2> QED
    BY <1>3, <2>1, RileMood, PacifyMood
<1> QED
  BY <1>1, <1>2, <1>3

-----------------------------------------------------------------------------
\* Money: the shopkeeper's sums and the hero's purse

\* A world with another shopkeeper, purse and floor
Moneyed(v, s, p, f) == [v EXCEPT !.shk = s, !.purse = p, !.floor = f]

\* The goods and the bill are untouched, and so is the mood.
SameBill(v, x) ==
  /\ x \in World /\ x.obj = v.obj /\ x.bill = v.bill /\ x.owed = v.owed
  /\ x.shk.st = v.shk.st /\ x.shk.angry = v.shk.angry
  /\ x.shk.surcharge = v.shk.surcharge /\ x.shk.inactive = v.shk.inactive

LEMMA UseCreditIs ==
  ASSUME NEW v, NEW in, Good(v, in), NEW sum \in Int, sum >= 0
  PROVE  /\ Good(UseCredit(v, sum), in) /\ SameBill(v, UseCredit(v, sum))
         /\ UseCredit(v, sum).purse = v.purse /\ UseCredit(v, sum).floor = v.floor
         /\ UseCredit(v, sum).shk.debit = v.shk.debit
         /\ UseCredit(v, sum).shk.loan = v.shk.loan
         /\ UseCredit(v, sum).shk.gold = v.shk.gold
         /\ UseCredit(v, sum).shk.robbed = v.shk.robbed
<1> DEFINE x == UseCredit(v, sum)
           c == Max({0, v.shk.credit - sum})
           s == [v.shk EXCEPT !.credit = c]
<1>1. v \in World /\ v.shk \in ShkType /\ v.purse \in Nat /\ v.floor \in Nat
  BY WorldIs DEF Good, Books
<1>2. c \in Nat
  <2>1. v.shk.credit - sum \in Int
    BY <1>1, ShkIs
  <2> QED
    BY <2>1, MaxZero
<1>3. x = [v EXCEPT !.shk.credit = c]
  BY DEF UseCredit
<1> HIDE DEF c
<1>4. /\ s \in ShkType /\ s.st = v.shk.st /\ s.angry = v.shk.angry
      /\ s.surcharge = v.shk.surcharge /\ s.inactive = v.shk.inactive /\ s.debit = v.shk.debit /\ s.loan = v.shk.loan
      /\ s.gold = v.shk.gold /\ s.robbed = v.shk.robbed
  BY <1>1, <1>2 DEF ShkType
<1> HIDE DEF x
<1>5. x = Moneyed(v, s, v.purse, v.floor)
  BY <1>1, <1>3 DEF World, Moneyed
<1> HIDE DEF s
<1>6. /\ x \in World /\ x.obj = v.obj /\ x.owed = v.owed /\ x.purse = v.purse
      /\ x.floor = v.floor /\ x.bill = v.bill /\ x.shk = s
  BY <1>1, <1>4, <1>5 DEF World, Moneyed
<1>7. Good(x, in)
  BY <1>4, <1>6 DEF Good, Books, Closed, Tended
<1>8. SameBill(v, x)
  BY <1>4, <1>6 DEF SameBill
<1> QED
  BY <1>4, <1>6, <1>7, <1>8 DEF x

\* pay: there is gold for it.
LEMMA PayIs ==
  ASSUME NEW v, NEW in, Good(v, in), NEW sum \in Int,
         sum > 0 => v.purse + v.shk.credit >= sum,
         sum <= 0 => v.shk.gold + sum >= 0
  PROVE  /\ Good(Pay(v, sum), in) /\ SameBill(v, Pay(v, sum))
         /\ Pay(v, sum).shk.debit = v.shk.debit /\ Pay(v, sum).shk.loan = v.shk.loan
<1> DEFINE y == Pay(v, sum)
           x == IF sum > 0 THEN UseCredit(v, sum) ELSE v
           balance == IF sum > 0 THEN Rest(v, sum) ELSE sum
           robbed == IF v.shk.robbed > 0 THEN Max({0, v.shk.robbed - sum}) ELSE v.shk.robbed
           s == [x.shk EXCEPT !.gold = x.shk.gold + balance, !.robbed = robbed]
<1>1. /\ v \in World /\ v.shk \in ShkType /\ v.purse \in Nat
      /\ v.shk.credit \in Nat /\ v.shk.gold \in Nat /\ v.shk.robbed \in Nat
  BY WorldIs, ShkIs DEF Good, Books
<1>2. /\ Good(x, in) /\ SameBill(v, x) /\ x.purse = v.purse /\ x.floor = v.floor
      /\ x.shk.debit = v.shk.debit /\ x.shk.loan = v.shk.loan /\ x.shk.gold = v.shk.gold
      /\ x.shk.robbed = v.shk.robbed
  <2>1. CASE sum > 0
    BY <2>1, UseCreditIs
  <2>2. CASE ~(sum > 0)
    BY <1>1, <2>2 DEF SameBill
  <2> QED
    BY <2>1, <2>2
<1>3. balance \in Int /\ x.purse - balance \in Nat /\ x.shk.gold + balance \in Nat
  <2>1. CASE sum > 0
    <3>1. sum - v.shk.credit \in Int
      BY <1>1
    <3>2. Rest(v, sum) \in Int /\ Rest(v, sum) >= 0 /\ Rest(v, sum) <= v.purse
      BY <1>1, <2>1, <3>1, MaxZero DEF Rest
    <3> HIDE DEF x
    <3> QED
      BY <1>1, <1>2, <2>1, <3>2
  <2>2. CASE ~(sum > 0)
    <3> HIDE DEF x
    <3> QED
      BY <1>1, <1>2, <2>2
  <2> QED
    BY <2>1, <2>2
<1>4. robbed \in Nat
  <2>1. v.shk.robbed - sum \in Int
    BY <1>1
  <2> QED
    BY <1>1, <2>1, MaxZero
<1>5. y = [x EXCEPT !.purse = @ - balance, !.shk.gold = @ + balance,
                    !.shk.robbed = IF @ > 0 THEN Max({0, @ - sum}) ELSE @]
  BY DEF Pay
<1>6. y = [x EXCEPT !.purse = x.purse - balance, !.shk.gold = x.shk.gold + balance,
                    !.shk.robbed = robbed]
  BY <1>2, <1>5
<1> HIDE DEF x, y, balance, robbed
<1>7. x \in World /\ x.shk \in ShkType /\ x.floor \in Nat
  BY <1>2, WorldIs DEF Good, Books
<1>8. /\ s \in ShkType /\ s.st = x.shk.st /\ s.angry = x.shk.angry
      /\ s.surcharge = x.shk.surcharge /\ s.inactive = x.shk.inactive /\ s.debit = x.shk.debit /\ s.loan = x.shk.loan
  BY <1>3, <1>4, <1>7 DEF ShkType
<1>9. y = Moneyed(x, s, x.purse - balance, x.floor)
  BY <1>6, <1>7 DEF World, Moneyed
<1> HIDE DEF s
<1>10. /\ y \in World /\ y.obj = x.obj /\ y.owed = x.owed /\ y.bill = x.bill /\ y.shk = s
  BY <1>3, <1>7, <1>8, <1>9 DEF World, Moneyed
<1>11. Good(y, in)
  BY <1>2, <1>8, <1>10 DEF Good, Books, Closed, Tended
<1>12. SameBill(v, y)
  BY <1>2, <1>8, <1>10 DEF SameBill
<1> QED
  BY <1>2, <1>8, <1>10, <1>11, <1>12 DEF y
-----------------------------------------------------------------------------
\* The goods: what an object can become

LEMMA ObjIs ==
  ASSUME NEW r \in ObjType
  PROVE  /\ r.where \in Places \cup {"none", "onbill"} /\ r.quan \in Nat
         /\ r.unpaid \in BOOLEAN /\ r.nc \in BOOLEAN
         /\ [r EXCEPT !.unpaid = FALSE] \in ObjType
         /\ [r EXCEPT !.unpaid = FALSE].where = r.where
         /\ [r EXCEPT !.unpaid = FALSE].quan = r.quan
         /\ [r EXCEPT !.unpaid = FALSE].unpaid = FALSE
         /\ [r EXCEPT !.nc = FALSE] \in ObjType /\ [r EXCEPT !.nc = TRUE] \in ObjType
         /\ \A b \in BOOLEAN : /\ [r EXCEPT !.nc = b].where = r.where
                               /\ [r EXCEPT !.nc = b].quan = r.quan
                               /\ [r EXCEPT !.nc = b].unpaid = r.unpaid
                               /\ [r EXCEPT !.nc = b].nc = b
BY DEF ObjType

LEMMA ObjAny ==
  ASSUME NEW O \in [Ids -> ObjType]
  PROVE  O \in [Ids -> AnyObj]
BY DEF ObjType, AnyObj

LEMMA NoObjIs ==
  NoObj \in ObjType /\ NoObj.where = "none" /\ Clear(NoObj)
BY DEF NoObj, ObjType, Clear

LEMMA GoodIs ==
  ASSUME NEW v, NEW in, Good(v, in)
  PROVE  /\ v \in World /\ v.obj \in [Ids -> ObjType] /\ v.bill \in Seq(EntryType)
         /\ \A o \in Ids : v.obj[o] \in ObjType /\ (v.obj[o].where # "none" => v.obj[o].quan >= 1)
         /\ v.owed \in Int /\ v.shk \in ShkType /\ v.purse \in Nat /\ v.floor \in Nat
         /\ Books(v) /\ Fit(v.obj, v.bill, v.owed, v.shk.surcharge)
         /\ Len(v.bill) \in Nat /\ v.owed \in Nat
BY WorldIs, BillIs, PiecesAre DEF Good, Books, Fit, GoodsOK

-----------------------------------------------------------------------------
\* The functions of the books

LEMMA SetPaidIs ==
  ASSUME NEW v, NEW in, Good(v, in), NEW in2
  PROVE  /\ Good(SetPaid(v), in2) /\ Len(SetPaid(v).bill) = 0
         /\ SetPaid(v).shk = [v.shk EXCEPT !.credit = 0, !.debit = 0, !.loan = 0]
<1> DEFINE x == SetPaid(v)
           O == [o \in Ids |-> IF v.obj[o].where = "onbill" THEN NoObj
                               ELSE IF OnBill(v, o) # {}
                               THEN [v.obj[o] EXCEPT !.unpaid = FALSE] ELSE v.obj[o]]
           s == [v.shk EXCEPT !.credit = 0, !.debit = 0, !.loan = 0]
<1>1. /\ v \in World /\ v.obj \in [Ids -> ObjType] /\ v.shk \in ShkType
      /\ v.purse \in Nat /\ v.floor \in Nat
  BY GoodIs
<1>2. ASSUME NEW o \in Ids
      PROVE  O[o] \in ObjType /\ Clear(O[o]) /\ (O[o].where # "none" => O[o].quan >= 1)
  <2>1. /\ v.obj[o] \in ObjType /\ (v.obj[o].where # "none" => v.obj[o].quan >= 1)
        /\ (OnBill(v, o) = {} => Clear(v.obj[o]))
    BY GoodIs, EntryIs, NamedIs
  <2>2. CASE v.obj[o].where = "onbill"
    BY <2>2, NoObjIs
  <2>3. CASE v.obj[o].where # "onbill" /\ OnBill(v, o) # {}
    <3>1. O[o] = [v.obj[o] EXCEPT !.unpaid = FALSE]
      BY <2>3
    <3> QED
      BY <2>1, <2>3, <3>1, ObjIs DEF Clear
  <2>4. CASE v.obj[o].where # "onbill" /\ OnBill(v, o) = {}
    BY <2>1, <2>4
  <2> QED
    BY <2>2, <2>3, <2>4
<1>3. O \in [Ids -> ObjType]
  BY <1>2
<1>4. /\ s \in ShkType /\ s.st = v.shk.st /\ s.angry = v.shk.angry
      /\ s.surcharge = v.shk.surcharge /\ s.inactive = v.shk.inactive /\ s.debit = 0 /\ s.loan = 0
  BY <1>1 DEF ShkType
<1>5. x = [v EXCEPT !.obj = O, !.bill = << >>, !.owed = 0, !.shk = s]
  BY DEF SetPaid
<1> HIDE DEF x, O, s
<1>6. x \in World /\ x.obj = O /\ x.bill = << >> /\ x.owed = 0 /\ x.shk = s
  <2>1. O \in [Ids -> AnyObj]
    BY <1>3, ObjAny
  <2> DEFINE B == << >>
             n == 0
  <2>2. B \in Seq(EntryType) /\ n \in Int
    OBVIOUS
  <2>3. x = [v EXCEPT !.obj = O, !.bill = B, !.owed = n, !.shk = s]
    BY <1>5
  <2> HIDE DEF B, n
  <2>4. x \in World /\ x.obj = O /\ x.bill = B /\ x.owed = n /\ x.shk = s
    BY <1>1, <1>4, <2>1, <2>2, <2>3 DEF World
  <2> QED
    BY <2>4 DEF B, n
<1>7. Fit(x.obj, x.bill, x.owed, x.shk.surcharge)
  BY <1>2, <1>3, <1>6, FitEmpty
<1>8. Len(x.bill) = 0
  BY <1>6
<1>9. Books(x)
  <2>1. /\ v.shk.angry = v.shk.surcharge \/ v.shk.inactive
        /\ v.shk.st = "home" => ~v.shk.inactive
    BY DEF Good, Books, Tended
  <2>2. x.shk.loan <= x.shk.debit
    BY <1>4, <1>6
  <2> QED
    BY <1>4, <1>6, <1>7, <2>1, <2>2 DEF Books, Tended
<1> QED
  BY <1>4, <1>6, <1>8, <1>9 DEF Good, Closed, x, s

\* A world with another shopkeeper only
LEMMA ShkOnly ==
  ASSUME NEW v \in World, NEW s \in ShkType, NEW x, x = [v EXCEPT !.shk = s]
  PROVE  x \in World /\ x.obj = v.obj /\ x.owed = v.owed /\ x.purse = v.purse
         /\ x.floor = v.floor /\ x.bill = v.bill /\ x.shk = s
BY DEF World

\* He changes his sums only.
LEMMA ShkGood ==
  ASSUME NEW v, NEW in, Good(v, in), NEW s \in ShkType, NEW x, x = [v EXCEPT !.shk = s],
         s.angry = v.shk.angry, s.surcharge = v.shk.surcharge /\ s.inactive = v.shk.inactive, s.st = v.shk.st,
         s.loan <= s.debit, (in /\ Tended(v)) \/ s.debit = 0
  PROVE  Good(x, in) /\ SameBill(v, x) /\ SameGoods(v, x) /\ x.shk = s
<1>1. v \in World
  BY GoodIs
<1>2. x \in World /\ x.obj = v.obj /\ x.owed = v.owed /\ x.purse = v.purse
      /\ x.floor = v.floor /\ x.bill = v.bill /\ x.shk = s
  BY <1>1, ShkOnly
<1>3. Good(x, in)
  BY <1>2, GoodShk
<1> QED
  BY <1>2, <1>3 DEF SameBill, SameGoods

\* His losses are made good.
LEMMA RobbedZero ==
  ASSUME NEW v, NEW in, Good(v, in)
  PROVE  LET x == [v EXCEPT !.shk.robbed = 0]
         IN Good(x, in) /\ SameBill(v, x) /\ SameGoods(v, x)
            /\ x.shk = [v.shk EXCEPT !.robbed = 0]
<1> DEFINE s == [v.shk EXCEPT !.robbed = 0]
           x == [v EXCEPT !.shk.robbed = 0]
<1>1. v \in World /\ v.shk \in ShkType /\ v.shk.loan <= v.shk.debit
      /\ ((in /\ Tended(v)) \/ v.shk.debit = 0)
  BY GoodIs DEF Good, Books, Closed
<1>2. /\ s \in ShkType /\ s.st = v.shk.st /\ s.angry = v.shk.angry
      /\ s.surcharge = v.shk.surcharge /\ s.inactive = v.shk.inactive /\ s.debit = v.shk.debit /\ s.loan = v.shk.loan
  BY <1>1 DEF ShkType
<1>3. x = [v EXCEPT !.shk = s]
  BY <1>1 DEF World
<1> HIDE DEF s, x
<1>4. Good(x, in) /\ SameBill(v, x) /\ SameGoods(v, x) /\ x.shk = s
  BY <1>1, <1>2, <1>3, ShkGood
<1> QED
  BY <1>4 DEF s, x

\* He is in his shop, and the surcharge may have to follow his mood.
LEMMA HomeIs ==
  ASSUME NEW v, NEW in, Good(v, in)
  PROVE  Moody(Home(v), in)
<1> DEFINE s == [v.shk EXCEPT !.st = "home", !.inactive = FALSE]
           x == Home(v)
<1>1. v \in World /\ v.shk \in ShkType /\ v.shk.loan <= v.shk.debit
      /\ Fit(v.obj, v.bill, v.owed, v.shk.surcharge) /\ Closed(v, in)
  BY GoodIs DEF Good, Books
<1>2. /\ s \in ShkType /\ s.st = "home" /\ s.surcharge = v.shk.surcharge
      /\ s.inactive = FALSE /\ s.debit = v.shk.debit /\ s.loan = v.shk.loan
  BY <1>1 DEF ShkType
<1>3. x = [v EXCEPT !.shk = s]
  BY <1>1 DEF Home, World
<1> HIDE DEF s, x
<1>4. x \in World /\ x.obj = v.obj /\ x.owed = v.owed /\ x.bill = v.bill /\ x.shk = s
  BY <1>1, <1>2, <1>3, ShkOnly
<1>5. Moody(x, in)
  BY <1>1, <1>2, <1>4 DEF Moody, Closed, Tended
<1> QED
  BY <1>5 DEF x

LEMMA MakeHappyIs ==
  ASSUME NEW v, NEW in, Good(v, in)
  PROVE  Good(MakeHappy(v), in)
<1> DEFINE y == Pacify(v)
           x == [y EXCEPT !.shk.robbed = 0]
<1>1. Good(y, in)
  BY PacifyIs
<1>2. MakeHappy(v) = x \/ MakeHappy(v) = ShopKeeper(Home(x))
  BY DEF MakeHappy
<1> HIDE DEF y
<1>3. Good(x, in)
  BY <1>1, RobbedZero
<1> HIDE DEF x
<1>4. Good(ShopKeeper(Home(x)), in)
  BY <1>3, HomeIs, ShopKeeperIs
<1> QED
  BY <1>2, <1>3, <1>4

LEMMA SumOverIs ==
  ASSUME NEW v, NEW in, Good(v, in)
  PROVE  SumOver(v) \in Nat
<1> DEFINE f == [i \in DOMAIN v.bill |-> v.bill[i].price * v.bill[i].quan]
           n == Len(v.bill)
<1>1. /\ DOMAIN v.bill = 1 .. n /\ IsFiniteSet(1 .. n)
      /\ \A i \in 1 .. n : v.bill[i].price \in Nat /\ v.bill[i].quan \in Nat
  BY GoodIs, BillIs
<1>2. \A a, b \in Nat : a * b \in Nat
  OBVIOUS
<1>3. DOMAIN f = 1 .. n /\ \A i \in 1 .. n : f[i] = v.bill[i].price * v.bill[i].quan
  BY <1>1
<1>4. SumOver(v) = SumFunctionOnSet(f, DOMAIN f)
  BY Zenon DEF SumOver, SumFunction
<1> HIDE DEF f
<1>5. \A i \in 1 .. n : f[i] \in Nat
  BY <1>1, <1>2, <1>3
<1> HIDE DEF n
<1> QED
  BY <1>1, <1>3, <1>4, <1>5, SumNat

LEMMA PriceIs ==
  ASSUME NEW v, NEW in, Good(v, in), NEW o \in Ids
  PROVE  Price(v, o) \in Nat \ {0} /\ PriceOK(Price(v, o), v.shk.surcharge)
<1>1. Cost[o] \in Range(Cost) /\ Cost[o] \in Nat \ {0}
  BY ShopAssumption DEF Range
<1>2. Surcharge(Cost[o]) \in Nat
  BY <1>1, SurchargeIs
<1>3. Price(v, o) \in Nat \ {0}
  BY <1>1, <1>2 DEF Price
<1> QED
  BY <1>1, <1>3 DEF Price, PriceOK

LEMMA SameGoodsTrans ==
  ASSUME NEW v \in World, NEW x, NEW y, SameGoods(v, x), SameGoods(x, y)
  PROVE  SameGoods(v, y)
BY DEF SameGoods

\* The shopkeeper's losses grow, and he is riled.
LEMMA RobbedIs ==
  ASSUME NEW v, NEW in, Good(v, in), NEW n \in Int, n >= 0, NEW x,
         x = [v EXCEPT !.shk.robbed = @ + n]
  PROVE  Good(Rile(x), in) /\ SameGoods(v, Rile(x))
<1> DEFINE s == [v.shk EXCEPT !.robbed = v.shk.robbed + n]
<1>1. v \in World /\ v.shk \in ShkType
  BY GoodIs
<1>2. v.shk.robbed + n \in Nat
  BY <1>1, ShkIs
<1>3. /\ s \in ShkType /\ s.st = v.shk.st /\ s.angry = v.shk.angry
      /\ s.surcharge = v.shk.surcharge /\ s.inactive = v.shk.inactive /\ s.debit = v.shk.debit /\ s.loan = v.shk.loan
  BY <1>1, <1>2 DEF ShkType
<1>4. x = [v EXCEPT !.shk = s]
  BY <1>1 DEF World
<1> HIDE DEF s
<1>5. Good(x, in) /\ SameGoods(v, x)
  <2>1. v.shk.loan <= v.shk.debit /\ ((in /\ Tended(v)) \/ v.shk.debit = 0)
    BY DEF Good, Books, Closed
  <2>2. s.loan <= s.debit /\ ((in /\ Tended(v)) \/ s.debit = 0)
    BY <1>3, <2>1
  <2> QED
    BY <1>3, <1>4, <2>2, ShkGood
<1>6. Good(Rile(x), in) /\ SameGoods(x, Rile(x))
  BY <1>5, RileIs
<1> QED
  BY <1>1, <1>5, <1>6, SameGoodsTrans

LEMMA StolenIs ==
  ASSUME NEW v, NEW in, Good(v, in), in, NEW o \in Ids
  PROVE  Good(Stolen(v, o), in) /\ SameGoods(v, Stolen(v, o))
<1> DEFINE value == Price(v, o)
           x == UseCredit(v, value)
           s == [x.shk EXCEPT !.debit = x.shk.debit + Rest(v, value)]
           y == Stolen(v, o)
<1>1. v \in World /\ v.shk \in ShkType /\ v.shk.credit \in Nat
  BY GoodIs, ShkIs
<1>2. value \in Int /\ value >= 0
  <2>1. value \in Nat
    BY PriceIs
  <2> QED
    BY <2>1
<1>3. CASE ~Tended(v) \/ v.obj[o].nc
  BY <1>3 DEF Stolen, SameGoods
<1>4. CASE Tended(v) /\ ~v.obj[o].nc /\ v.shk.angry
  <2>1. y = Rile([v EXCEPT !.shk.robbed = @ + value])
    BY <1>4, Zenon DEF Stolen
  <2> DEFINE z == [v EXCEPT !.shk.robbed = @ + value]
  <2>2. y = Rile(z) /\ z = [v EXCEPT !.shk.robbed = @ + value]
    BY <2>1
  <2> HIDE DEF value, y, z
  <2>3. Good(Rile(z), in) /\ SameGoods(v, Rile(z))
    BY <1>2, <2>2, RobbedIs, Zenon
  <2> QED
    BY <2>2, <2>3 DEF y
<1>5. CASE Tended(v) /\ ~v.obj[o].nc /\ ~v.shk.angry
  <2>1. y = [x EXCEPT !.shk.debit = @ + Rest(v, value)]
    BY <1>5, Zenon DEF Stolen
  <2> HIDE DEF y, value
  <2>2. Good(x, in) /\ SameBill(v, x) /\ x.purse = v.purse /\ x.floor = v.floor
        /\ x.shk.debit = v.shk.debit /\ x.shk.loan = v.shk.loan
    BY <1>2, UseCreditIs, Zenon
  <2>3. Rest(v, value) \in Nat
    <3>1. value - v.shk.credit \in Int
      BY <1>1, <1>2
    <3> QED
      BY <3>1, MaxZero DEF Rest
  <2> HIDE DEF x
  <2>4. x \in World /\ x.shk \in ShkType /\ x.shk.debit \in Nat /\ x.shk.loan \in Nat
        /\ x.shk.loan <= x.shk.debit
    BY <2>2, GoodIs, ShkIs DEF Good, Books
  <2>5. x.shk.debit + Rest(v, value) \in Nat /\ x.shk.loan <= x.shk.debit + Rest(v, value)
    BY <2>3, <2>4
  <2>6. /\ s \in ShkType /\ s.st = x.shk.st /\ s.angry = x.shk.angry
        /\ s.surcharge = x.shk.surcharge /\ s.inactive = x.shk.inactive /\ s.loan <= s.debit
    BY <2>4, <2>5 DEF ShkType
  <2>7. y = [x EXCEPT !.shk = s]
    BY <2>1, <2>4 DEF World
  <2> HIDE DEF s
  <2>8. Good(y, in) /\ SameGoods(x, y)
    BY <1>5, <2>2, <2>6, <2>7, ShkGood DEF Tended, SameBill
  <2>9. SameGoods(v, x)
    BY <2>2 DEF SameGoods, SameBill
  <2> QED
    BY <1>1, <2>8, <2>9, SameGoodsTrans DEF y
<1> QED
  BY <1>3, <1>4, <1>5

LEMMA RobIs ==
  ASSUME NEW v, NEW in, Good(v, in), NEW in2
  PROVE  Good(Rob(v), in2)
<1> DEFINE total == SumOver(v) + v.shk.debit - v.shk.credit
           x == SetPaid(v)
<1>1. total \in Int
  BY SumOverIs, GoodIs, ShkIs
<1>2. Good(x, in2)
  BY SetPaidIs
<1>3. Rob(v) = IF total <= 0 THEN x ELSE Rile([x EXCEPT !.shk.robbed = @ + total])
  BY DEF Rob
<1> HIDE DEF x, total
<1>4. CASE total <= 0
  BY <1>2, <1>3, <1>4
<1>5. CASE ~(total <= 0)
  <2>1. Rob(v) = Rile([x EXCEPT !.shk.robbed = @ + total])
    BY <1>3, <1>5
  <2>2. total >= 0
    BY <1>1, <1>5
  <2> QED
    BY <1>1, <1>2, <2>1, <2>2, RobbedIs
<1> QED
  BY <1>4, <1>5

-----------------------------------------------------------------------------
\* The functions of the goods

LEMMA SetObj ==
  ASSUME NEW obj \in [Ids -> ObjType], NEW o \in Ids, NEW r \in ObjType
  PROVE  /\ [obj EXCEPT ![o] = r] \in [Ids -> ObjType]
         /\ [obj EXCEPT ![o] = r][o] = r
         /\ \A p \in Ids : p # o => [obj EXCEPT ![o] = r][p] = obj[p]
OBVIOUS

\* o is on the bill, and the others are as they were.
LEMMA AddToBillIs ==
  ASSUME NEW v, NEW in, Good(v, in), in, NEW o \in Ids, v.obj[o].where \in Places
  PROVE  LET x == AddToBill(v, o, FALSE)
         IN /\ Good(x, in) /\ Kept(v, x) /\ x.obj[o].where = v.obj[o].where
            /\ \A p \in Ids : p # o => x.obj[p] = v.obj[p]
<1> DEFINE x == AddToBill(v, o, FALSE)
           r == v.obj[o]
<1>1. /\ v \in World /\ v.obj \in [Ids -> ObjType] /\ v.bill \in Seq(EntryType)
      /\ v.owed \in Int /\ r \in ObjType /\ r.quan \in Nat /\ r.quan >= 1
      /\ Fit(v.obj, v.bill, v.owed, v.shk.surcharge)
  BY GoodIs, ObjIs DEF Places
<1>2. CASE ~Tended(v) \/ OnBill(v, o) # {} \/ Full(v)
  <2>1. x = v
    BY <1>2 DEF AddToBill
  <2> QED
    BY <1>1, <2>1 DEF Kept
<1>3. CASE ~(~Tended(v) \/ OnBill(v, o) # {} \/ Full(v)) /\ r.nc
  <2> DEFINE q == [r EXCEPT !.nc = FALSE]
             O == [v.obj EXCEPT ![o] = q]
  <2>1. q \in ObjType /\ q.where = r.where /\ q.quan = r.quan /\ q.unpaid = r.unpaid
    BY <1>1, ObjIs
  <2>2. x = [v EXCEPT !.obj[o].nc = FALSE]
    BY <1>3, Zenon DEF AddToBill
  <2>3. x = [v EXCEPT !.obj = O, !.bill = v.bill, !.owed = v.owed]
    BY <1>1, <2>2 DEF World
  <2> HIDE DEF q, x
  <2>4. O \in [Ids -> ObjType] /\ O[o] = q /\ \A p \in Ids : p # o => O[p] = v.obj[p]
    BY <1>1, <2>1, SetObj
  <2> HIDE DEF O
  <2>5. Kept(v, x) /\ x.obj = O /\ x.bill = v.bill /\ x.owed = v.owed
    BY <1>1, <2>3, <2>4, ObjAny DEF World, Kept
  <2>6. ~Named(v.bill, o) /\ Clear(v.obj[o])
    BY <1>3, EntryIs, NamedIs, GoodIs
  <2>7. Clear(O[o])
    BY <2>1, <2>4, <2>6 DEF Clear
  <2>8. \A p \in Ids : O[p].where # "none" => O[p].quan >= 1
    BY <1>1, <2>1, <2>4, GoodIs
  <2>9. Fit(x.obj, x.bill, x.owed, v.shk.surcharge)
    BY <1>1, <2>4, <2>5, <2>6, <2>7, <2>8, FitGoods
  <2>10. Good(x, in)
    BY <2>5, <2>9, GoodKept
  <2> QED
    BY <2>1, <2>4, <2>5, <2>10 DEF x
<1>4. CASE ~(~Tended(v) \/ OnBill(v, o) # {} \/ Full(v)) /\ ~r.nc
  <2> DEFINE q == [r EXCEPT !.unpaid = TRUE]
             O == [v.obj EXCEPT ![o] = q]
             e == [id |-> o, quan |-> r.quan, useup |-> FALSE, price |-> Price(v, o)]
             B == Append(v.bill, e)
             W == v.owed + r.quan
  <2>1. q \in ObjType /\ q.where = r.where /\ q.quan = r.quan /\ q.unpaid = TRUE
    BY <1>1 DEF ObjType
  <2>2. x = [v EXCEPT !.bill = Append(@, e), !.obj[o].unpaid = TRUE,
                      !.obj[o].where = @, !.owed = @ + r.quan]
    BY <1>4, Zenon DEF AddToBill
  <2>3. Price(v, o) \in Nat \ {0} /\ PriceOK(Price(v, o), v.shk.surcharge)
    BY PriceIs
  <2>4. /\ e \in EntryType /\ e.id = o /\ e.quan = r.quan /\ ~e.useup
        /\ PriceOK(e.price, v.shk.surcharge)
    BY <1>1, <2>3 DEF EntryType
  <2> HIDE DEF e
  <2>5. x = [v EXCEPT !.obj = O, !.bill = B, !.owed = W]
    <3>1. q = [[r EXCEPT !.unpaid = TRUE] EXCEPT !.where = r.where]
      BY <1>1 DEF ObjType
    <3>2. x = [v EXCEPT !.bill = B,
                        !.obj = [v.obj EXCEPT ![o].unpaid = TRUE, ![o].where = v.obj[o].where],
                        !.owed = W]
      BY <1>1, <2>2 DEF World
    <3>3. [v.obj EXCEPT ![o].unpaid = TRUE, ![o].where = v.obj[o].where] = O
      BY <1>1, <3>1
    <3> QED
      BY <3>2, <3>3
  <2> HIDE DEF q, x
  <2>6. O \in [Ids -> ObjType] /\ O[o] = q /\ \A p \in Ids : p # o => O[p] = v.obj[p]
    BY <1>1, <2>1, SetObj
  <2>7. B \in Seq(EntryType) /\ W \in Int
    BY <1>1, <2>4
  <2>8. ~Named(v.bill, o) /\ Len(v.bill) < BILLSZ
    <3>1. Len(v.bill) \in Nat /\ Len(v.bill) <= BILLSZ /\ Len(v.bill) # BILLSZ /\ BILLSZ \in Nat
      <4>1. Len(v.bill) # BILLSZ
        BY <1>4 DEF Full
      <4> QED
        BY <1>1, <4>1, ShopAssumption DEF Fit
    <3> QED
      <4>1. ~Named(v.bill, o)
        BY <1>4, EntryIs, GoodIs
      <4>2. Len(v.bill) < BILLSZ
        BY <3>1
      <4> QED
        BY <4>1, <4>2
  <2> HIDE DEF O, B, W
  <2>9. Kept(v, x) /\ x.obj = O /\ x.bill = B /\ x.owed = W
    BY <1>1, <2>5, <2>6, <2>7, ObjAny DEF World, Kept
  <2>10. EntryOK(O[o], e) /\ O[o].quan >= 1
    BY <1>1, <2>1, <2>4, <2>6 DEF EntryOK
  <2>11. Fit(O, Append(v.bill, e), v.owed + e.quan, v.shk.surcharge)
    BY <1>1, <2>4, <2>6, <2>8, <2>10, FitAppend
  <2>12. Fit(x.obj, x.bill, x.owed, v.shk.surcharge)
    BY <2>4, <2>9, <2>11 DEF B, W
  <2>13. Good(x, in)
    BY <1>4, <2>9, <2>12, GoodKept
  <2> QED
    BY <2>1, <2>6, <2>9, <2>13 DEF x
<1> QED
  BY <1>2, <1>3, <1>4

\* A piece of merchandise and its entry
LEMMA BilledIs ==
  ASSUME NEW v, NEW in, Good(v, in), NEW o \in Ids, v.obj[o].where \in Places,
         NEW i, i = Entry(v, o), Named(v.bill, o)
  PROVE  /\ i \in 1 .. Len(v.bill) /\ v.bill[i] \in EntryType /\ v.bill[i].id = o
         /\ v.bill[i].quan \in Nat /\ v.obj[o].quan \in Nat /\ v.obj[o].quan >= 1
         /\ v.obj[o].quan <= v.bill[i].quan /\ ~v.bill[i].useup /\ v.obj[o].unpaid
         /\ PriceOK(v.bill[i].price, v.shk.surcharge) /\ (in /\ Tended(v))
<1>1. /\ i \in 1 .. Len(v.bill) /\ v.bill[i] \in EntryType /\ v.bill[i].id = o
      /\ EntryOK(v.obj[o], v.bill[i]) /\ PriceOK(v.bill[i].price, v.shk.surcharge)
  BY EntryIs, GoodIs
<1>2. v.bill[i].quan \in Nat /\ v.bill[i].useup \in BOOLEAN
  BY <1>1 DEF EntryType
<1>3. v.obj[o].quan \in Nat /\ v.obj[o].quan >= 1
  BY GoodIs, ObjIs DEF Places
<1>4. ~v.bill[i].useup
  BY <1>1, <1>2 DEF EntryOK, Places
<1>5. Len(v.bill) # 0
  BY <1>1, GoodIs
<1> QED
  BY <1>1, <1>2, <1>3, <1>4, <1>5 DEF EntryOK, Good, Closed

LEMMA SubFromBillIs ==
  ASSUME NEW v, NEW in, Good(v, in), NEW o \in Ids, v.obj[o].where \in Places, Spare(v) # {}
  PROVE  LET x == SubFromBill(v, o)
         IN /\ Good(x, in) /\ Kept(v, x)
            /\ x.obj[o] = [v.obj[o] EXCEPT !.unpaid = FALSE]
            /\ \A p \in Ids : p \notin {o, NewId(v)} => x.obj[p] = v.obj[p]
<1> DEFINE x == SubFromBill(v, o)
           i == Entry(v, o)
           new == NewId(v)
           r == v.obj[o]
           q == [r EXCEPT !.unpaid = FALSE]
           O == [v.obj EXCEPT ![o] = q]
           e == v.bill[i]
           rest == e.quan - r.quan
           W == v.owed - r.quan
<1>1. /\ v \in World /\ v.obj \in [Ids -> ObjType] /\ v.bill \in Seq(EntryType)
      /\ v.owed \in Int /\ r \in ObjType /\ r.quan \in Nat /\ r.quan >= 1
      /\ Fit(v.obj, v.bill, v.owed, v.shk.surcharge)
  BY GoodIs, ObjIs DEF Places
<1>2. /\ q \in ObjType /\ q.where = r.where /\ q.quan = r.quan /\ q.unpaid = FALSE /\ q.nc = r.nc
  BY <1>1 DEF ObjType
<1>3. Clear(q)
  BY <1>2 DEF Clear, Places
<1>4. new \in Ids /\ v.obj[new].where = "none" /\ ~Named(v.bill, new) /\ new # o
  BY NewIdIs, GoodIs DEF Places
<1>5. CASE OnBill(v, o) = {}
  <2>1. x = [v EXCEPT !.obj[o].unpaid = FALSE]
    BY <1>5 DEF SubFromBill
  <2>2. x = [v EXCEPT !.obj = O]
    BY <1>1, <2>1 DEF World
  <2> HIDE DEF x, q
  <2>3. O \in [Ids -> ObjType] /\ O[o] = q /\ \A p \in Ids : p # o => O[p] = v.obj[p]
    BY <1>1, <1>2, SetObj
  <2> HIDE DEF O
  <2>4. Kept(v, x) /\ x.obj = O /\ x.bill = v.bill /\ x.owed = v.owed
    BY <1>1, <2>2, <2>3, ObjAny DEF World, Kept
  <2>5. ~Named(v.bill, o)
    BY <1>5, EntryIs, GoodIs
  <2>6. \A p \in Ids : O[p].where # "none" => O[p].quan >= 1
    BY <1>1, <1>2, <2>3, GoodIs
  <2>7. Fit(x.obj, x.bill, x.owed, v.shk.surcharge)
    BY <1>1, <1>3, <2>3, <2>4, <2>5, <2>6, FitGoods
  <2>8. Good(x, in)
    BY <2>4, <2>7, GoodKept
  <2> QED
    BY <2>3, <2>4, <2>8 DEF x, q
<1>6. CASE OnBill(v, o) # {}
  <2>1. Named(v.bill, o)
    BY <1>6, EntryIs, GoodIs
  <2>2. /\ i \in 1 .. Len(v.bill) /\ e \in EntryType /\ e.id = o
        /\ e.quan \in Nat /\ r.quan <= e.quan /\ ~e.useup
        /\ PriceOK(e.price, v.shk.surcharge) /\ (in /\ Tended(v))
    BY <2>1, BilledIs
  <2>3. O \in [Ids -> ObjType] /\ O[o] = q /\ \A p \in Ids : p # o => O[p] = v.obj[p]
    <3> HIDE DEF q
    <3> QED
      BY <1>1, <1>2, SetObj
  <2>4. CASE rest > 0
    <3> DEFINE d == [Obj("onbill", rest) EXCEPT !.nc = r.nc]
               f == [e EXCEPT !.id = new, !.quan = rest, !.useup = TRUE]
               P == [O EXCEPT ![new] = d]
               B == [v.bill EXCEPT ![i] = f]
    <3>1. x = [[v EXCEPT !.obj[o].unpaid = FALSE, !.owed = @ - r.quan]
                 EXCEPT !.obj[new] = d, !.bill[i] = f]
      BY <1>6, <2>4, Zenon DEF SubFromBill
    <3>2. rest \in Nat \ {0}
      BY <1>1, <2>2, <2>4
    <3>3. d \in ObjType /\ d.where = "onbill" /\ d.quan = rest
      BY <1>1, <3>2, ObjIs DEF Obj, NoObj, ObjType
    <3>4. /\ f \in EntryType /\ f.id = new /\ f.quan = rest /\ f.useup
          /\ f.price = e.price
      BY <1>4, <2>2, <3>2 DEF EntryType
    <3> HIDE DEF d, f
    <3>5. x = [v EXCEPT !.obj = P, !.bill = B, !.owed = W]
      BY <1>1, <3>1 DEF World
    <3> HIDE DEF O, x, q
    <3>6. /\ P \in [Ids -> ObjType] /\ P[new] = d
          /\ \A p \in Ids : p # new => P[p] = O[p]
      BY <1>4, <2>3, <3>3, SetObj
    <3>7. B \in Seq(EntryType) /\ W \in Int /\ Len(B) = Len(v.bill)
      BY <1>1, <2>2, <3>4
    <3> HIDE DEF P, B, W
    <3>8. Kept(v, x) /\ x.obj = P /\ x.bill = B /\ x.owed = W
      BY <1>1, <3>5, <3>6, <3>7, ObjAny DEF World, Kept
    <3>9. EntryOK(P[f.id], f) /\ P[f.id].quan >= 1
      <4>1. P[f.id] = d
        BY <3>4, <3>6
      <4> QED
        BY <3>2, <3>3, <3>4, <4>1 DEF EntryOK
    <3>10. \A p \in Ids : p \notin {f.id, e.id} => P[p] = v.obj[p]
      BY <2>2, <2>3, <3>4, <3>6
    <3>11. Clear(P[e.id]) /\ (P[e.id].where # "none" => P[e.id].quan >= 1)
      BY <1>1, <1>2, <1>3, <1>4, <2>2, <2>3, <3>6
    <3>12. Fit(P, [v.bill EXCEPT ![i] = f], v.owed - e.quan + f.quan, v.shk.surcharge)
      <4> HIDE DEF i, new, rest
      <4>1. PriceOK(f.price, v.shk.surcharge) /\ f.id # e.id /\ ~Named(v.bill, f.id)
        BY <1>4, <2>2, <3>4
      <4> QED
        BY <1>1, <2>2, <3>4, <3>6, <3>9, <3>10, <3>11, <4>1, FitEntry, ZenonT(200)
    <3>13. v.owed - e.quan + f.quan = W
      BY <1>1, <2>2, <3>4 DEF W
    <3>14. Fit(x.obj, x.bill, x.owed, v.shk.surcharge)
      BY <3>8, <3>12, <3>13 DEF B
    <3>15. Good(x, in)
      BY <2>2, <3>8, <3>14, GoodKept
    <3> QED
      BY <1>4, <2>3, <3>6, <3>8, <3>15 DEF x, q
  <2>5. CASE ~(rest > 0)
    <3> DEFINE B == Struck(v.bill, i)
    <3>1. x = Strike([v EXCEPT !.obj[o].unpaid = FALSE, !.owed = @ - r.quan], i)
      BY <1>6, <2>5, Zenon DEF SubFromBill
    <3>2. x = [v EXCEPT !.obj = O, !.bill = B, !.owed = W]
      BY <1>1, <3>1 DEF World, Strike, Struck
    <3> HIDE DEF O, x, q
    <3>3. r.quan = e.quan
      BY <1>1, <2>2, <2>5
    <3>4. B \in Seq(EntryType) /\ W \in Int
      <4>1. B \in Seq(EntryType)
        BY <1>1, <2>2, StruckIs
      <4> QED
        BY <1>1, <4>1
    <3> HIDE DEF B, W
    <3>5. Kept(v, x) /\ x.obj = O /\ x.bill = B /\ x.owed = W
      BY <1>1, <2>3, <3>2, <3>4, ObjAny DEF World, Kept
    <3>6. Clear(O[e.id]) /\ (O[e.id].where # "none" => O[e.id].quan >= 1)
          /\ \A p \in Ids : p # e.id => O[p] = v.obj[p]
      BY <1>1, <1>2, <1>3, <2>2, <2>3
    <3>7. Fit(O, Struck(v.bill, i), v.owed - e.quan, v.shk.surcharge)
      BY <1>1, <2>2, <2>3, <3>6, FitStruck
    <3>8. Fit(x.obj, x.bill, x.owed, v.shk.surcharge)
      BY <3>3, <3>5, <3>7 DEF B, W
    <3>9. Good(x, in)
      BY <2>2, <3>5, <3>8, GoodKept
    <3> QED
      BY <2>3, <3>5, <3>9 DEF x, q
  <2> QED
    BY <2>4, <2>5
<1> QED
  BY <1>5, <1>6

LEMMA SpareTwo ==
  ASSUME NEW v, ~(Cardinality(Spare(v)) < 2), NEW a
  PROVE  \E s \in Spare(v) : s # a
<1>1. IsFiniteSet(Spare(v))
  <2>1. Spare(v) \subseteq Ids /\ IsFiniteSet(Ids)
    BY ShopAssumption DEF Spare
  <2> QED
    BY <2>1, FS_Subset
<1>2. SUFFICES ASSUME Spare(v) \subseteq {a} PROVE FALSE
  OBVIOUS
<1>3. Cardinality({a}) = 1 /\ IsFiniteSet({a})
  BY FS_Singleton
<1>4. Cardinality(Spare(v)) <= 1 /\ Cardinality(Spare(v)) \in Nat
  BY <1>1, <1>2, <1>3, FS_Subset, FS_CardinalityType
<1> QED
  BY <1>4

\* n of the stack o are another object.
Part(v, o, n) == [v.obj[o] EXCEPT !.quan = n]
Left(v, o, n) == [v.obj[o] EXCEPT !.quan = v.obj[o].quan - n]
SplitIn(v, o, n) ==
  [v EXCEPT !.obj[o].quan = @ - n, !.obj[NewId(v)] = [v.obj[o] EXCEPT !.quan = n]]
SplitFacts(v, o, n, new, O) ==
  /\ n \in Nat /\ n >= 1 /\ v.obj[o].quan \in Nat /\ v.obj[o].quan - n >= 1
  /\ new \in Ids /\ new # o /\ ~Named(v.bill, new) /\ v.obj[new].where = "none"
  /\ O[new].where = v.obj[o].where /\ O[new].quan = n /\ O[new].unpaid = v.obj[o].unpaid
  /\ O[o].where = v.obj[o].where /\ O[o].quan = v.obj[o].quan - n
  /\ O[o].unpaid = v.obj[o].unpaid
  /\ O \in [Ids -> ObjType] /\ \A p \in Ids : p \notin {o, new} => O[p] = v.obj[p]
  /\ SplitIn(v, o, n) = [v EXCEPT !.obj = O]

LEMMA SplitGoods ==
  ASSUME NEW v, NEW in, Good(v, in), NEW o \in Ids, v.obj[o].where \in Places, Spare(v) # {},
         NEW n \in 1 .. (v.obj[o].quan - 1)
  PROVE  \E O : SplitFacts(v, o, n, NewId(v), O)
<1> DEFINE new == NewId(v)
           r == v.obj[o]
           part == Part(v, o, n)
           left == Left(v, o, n)
           O == [[v.obj EXCEPT ![o] = left] EXCEPT ![new] = part]
<1>1. v \in World /\ v.obj \in [Ids -> ObjType] /\ r \in ObjType /\ r.quan \in Nat
  BY GoodIs, ObjIs
<1>2. n \in Nat /\ n >= 1 /\ r.quan - n >= 1 /\ r.quan - n \in Nat
  BY <1>1
<1>3. new \in Ids /\ new # o /\ ~Named(v.bill, new) /\ v.obj[new].where = "none"
  BY NewIdIs, GoodIs DEF Places
<1>4. /\ part \in ObjType /\ part.where = r.where /\ part.quan = n
      /\ part.unpaid = r.unpaid
  BY <1>1, <1>2 DEF ObjType, Part
<1>5. /\ left \in ObjType /\ left.where = r.where /\ left.quan = r.quan - n
      /\ left.unpaid = r.unpaid
  BY <1>1, <1>2 DEF ObjType, Left
<1>6. SplitIn(v, o, n) = [v EXCEPT !.obj = O]
  BY <1>1, <1>3 DEF World, SplitIn, Part, Left
<1> HIDE DEF part, left
<1>7. /\ O \in [Ids -> ObjType] /\ O[o] = left /\ O[new] = part
      /\ \A p \in Ids : p \notin {o, new} => O[p] = v.obj[p]
  BY <1>1, <1>3, <1>4, <1>5
<1> HIDE DEF O
<1>8. SplitFacts(v, o, n, new, O)
  BY <1>1, <1>2, <1>3, <1>4, <1>5, <1>6, <1>7 DEF SplitFacts
<1> QED
  BY <1>8

\* splitbill, in the world x in which o has been split
LEMMA SplitBillIs ==
  ASSUME NEW v, NEW in, Good(v, in), NEW o \in Ids, v.obj[o].where \in Places,
         Named(v.bill, o), NEW new \in Ids, new # o, ~Named(v.bill, new),
         NEW O \in [Ids -> ObjType], NEW n \in Nat, n >= 1,
         O[o].where = v.obj[o].where, O[o].unpaid, O[o].quan >= 1,
         O[o].quan = v.obj[o].quan - n,
         O[new].where = v.obj[o].where, O[new].unpaid, O[new].quan = n,
         \A p \in Ids : p \notin {o, new} => O[p] = v.obj[p],
         NEW x, x = [v EXCEPT !.obj = O]
  PROVE  LET y == SplitBill(x, o, new)
         IN /\ Good(y, in) /\ Kept(v, y) /\ y.obj[new].where = v.obj[o].where
            /\ \A p \in Ids : p \notin {o, new} => y.obj[p] = v.obj[p]
<1> DEFINE y == SplitBill(x, o, new)
           i == Entry(v, o)
           e == v.bill[i]
           f == [e EXCEPT !.quan = e.quan - n]
           B == [v.bill EXCEPT ![i] = f]
           P == [O EXCEPT ![new] = v.obj[new]]
           s == v.shk.surcharge
           W == v.owed - n
<1>1. /\ v \in World /\ v.obj \in [Ids -> ObjType] /\ v.bill \in Seq(EntryType)
      /\ v.owed \in Int /\ Fit(v.obj, v.bill, v.owed, s) /\ Len(v.bill) \in Nat
      /\ v.obj[new] \in ObjType
  BY GoodIs
<1>2. /\ i \in 1 .. Len(v.bill) /\ e \in EntryType /\ e.id = o /\ e.quan \in Nat
      /\ v.obj[o].quan \in Nat /\ v.obj[o].quan <= e.quan /\ ~e.useup
      /\ PriceOK(e.price, s) /\ (in /\ Tended(v))
  BY BilledIs
<1>3. /\ x \in World /\ x.bill = v.bill /\ x.obj = O /\ x.owed = v.owed /\ x.shk = v.shk
      /\ x.purse = v.purse /\ x.floor = v.floor
  BY <1>1, ObjAny DEF World
<1>4. Entry(x, o) = i /\ OnBill(x, o) # {} /\ Tended(x)
  <2>1. OnBill(x, o) = OnBill(v, o) /\ OnBill(v, o) # {}
    BY <1>3, EntryIs, GoodIs DEF OnBill
  <2> QED
    BY <1>2, <1>3, <2>1 DEF Entry, Tended
<1> HIDE DEF i
<1>5. /\ f \in EntryType /\ f.id = o /\ f.quan = e.quan - n /\ f.quan \in Nat /\ ~f.useup
      /\ f.price = e.price /\ O[o].quan <= f.quan
  <2>1. e.quan - n \in Nat /\ e.quan - n >= 1 /\ O[o].quan <= e.quan - n
    BY <1>2, SMTT(40)
  <2> QED
    BY <1>2, <2>1 DEF EntryType
<1>6. /\ B \in Seq(EntryType) /\ Len(B) = Len(v.bill) /\ B[i] = f
      /\ \A j \in 1 .. Len(v.bill) : B[j].id = v.bill[j].id
  <2> HIDE DEF f
  <2> QED
    BY <1>1, <1>2, <1>5
<1>7. /\ P \in [Ids -> ObjType] /\ P[o] = O[o] /\ P[new] = v.obj[new]
      /\ \A p \in Ids : p # new => P[p] = O[p]
  BY <1>1
<1>8. W \in Int
  BY <1>1
<1> HIDE DEF f, P, e
<1>9. Fit(P, B, W, s)
  <2>1. EntryOK(P[f.id], f) /\ P[f.id].quan >= 1
    BY <1>5, <1>7 DEF EntryOK
  <2>2. PriceOK(f.price, s) /\ f.id = v.bill[i].id
    BY <1>2, <1>5 DEF e
  <2>3. \A p \in Ids : p \notin {f.id, v.bill[i].id} => P[p] = v.obj[p]
    BY <1>5, <1>7
  <2>4. f.id # v.bill[i].id =>
          /\ Clear(P[v.bill[i].id])
          /\ P[v.bill[i].id].where # "none" => P[v.bill[i].id].quan >= 1
    BY <2>2
  <2>5. Fit(v.obj, v.bill, v.owed, s) /\ i \in 1 .. Len(v.bill) /\ f \in EntryType
        /\ P \in [Ids -> ObjType]
    BY <1>1, <1>2, <1>5, <1>7
  <2>6. Fit(P, [v.bill EXCEPT ![i] = f], v.owed - v.bill[i].quan + f.quan, s)
    BY <2>1, <2>2, <2>3, <2>4, <2>5, FitEntry, ZenonT(200)
  <2>7. v.bill[i].quan \in Int /\ v.owed \in Int /\ f.quan = v.bill[i].quan - n
    BY <1>1, <1>2, <1>5 DEF e
  <2>8. v.owed - v.bill[i].quan + f.quan = W
    <3> DEFINE a == v.bill[i].quan
               b == v.owed
               c == f.quan
    <3>1. a \in Int /\ b \in Int /\ c = a - n
      BY <2>7
    <3> HIDE DEF a, b, c
    <3>2. b - a + c = b - n
      BY <3>1
    <3> QED
      BY <3>2 DEF a, b, c
  <2> QED
    BY <2>6, <2>8
<1>10. ~Named(B, new)
  BY <1>6 DEF Named
<1>11. y = IF Full(x) THEN [[x EXCEPT !.bill[i].quan = @ - n] EXCEPT !.obj[new].unpaid = FALSE,
                                                                   !.owed = @ - n]
           ELSE [[x EXCEPT !.bill[i].quan = @ - n]
                  EXCEPT !.bill = Append(@, [@[i] EXCEPT !.id = new, !.quan = n,
                                                         !.useup = FALSE])]
  <2>1. y = IF OnBill(x, o) = {} \/ ~Tended(x) THEN x
            ELSE IF Full(x)
            THEN [[x EXCEPT !.bill[Entry(x, o)].quan = @ - x.obj[new].quan]
                   EXCEPT !.obj[new].unpaid = FALSE, !.owed = @ - x.obj[new].quan]
            ELSE [[x EXCEPT !.bill[Entry(x, o)].quan = @ - x.obj[new].quan]
                   EXCEPT !.bill = Append(@, [@[Entry(x, o)] EXCEPT !.id = new,
                                                !.quan = x.obj[new].quan, !.useup = FALSE])]
    BY Zenon DEF SplitBill
  <2>2. x.obj[new].quan = n
    BY <1>3
  <2> QED
    BY <1>4, <2>1, <2>2
<1>12. [x EXCEPT !.bill[i].quan = @ - n] = [v EXCEPT !.obj = O, !.bill = B]
  BY <1>1, <1>2, <1>3 DEF World, e, f
<1>13. Full(x) <=> Len(B) = BILLSZ
  BY <1>3, <1>6 DEF Full
<1> HIDE DEF B
<1>14. CASE Full(x)
  <2> DEFINE q == [O[new] EXCEPT !.unpaid = FALSE]
             Q == [O EXCEPT ![new] = q]
  <2>1. y = [[v EXCEPT !.obj = O, !.bill = B] EXCEPT !.obj[new].unpaid = FALSE, !.owed = @ - n]
    BY <1>11, <1>12, <1>14
  <2>2. y = [v EXCEPT !.obj = Q, !.bill = B, !.owed = W]
    BY <1>1, <2>1 DEF World
  <2>3. O[new] \in ObjType
    OBVIOUS
  <2>4. q \in ObjType /\ q.where = O[new].where /\ q.quan = n /\ Clear(q)
    BY <2>3, ObjIs DEF Clear, Places
  <2> HIDE DEF q, y
  <2>5. Q \in [Ids -> ObjType] /\ Q[new] = q /\ \A p \in Ids : p # new => Q[p] = O[p]
    BY <2>4, SetObj
  <2> HIDE DEF Q, W
  <2>6. Kept(v, y) /\ y.obj = Q /\ y.bill = B /\ y.owed = W
    BY <1>1, <1>6, <1>8, <2>2, <2>5, ObjAny DEF World, Kept
  <2>7. \A p \in Ids : Q[p] = P[p] \/ (~Named(B, p) /\ Clear(Q[p]))
    BY <1>7, <1>10, <2>4, <2>5
  <2>8. \A p \in Ids : Q[p].where # "none" => Q[p].quan >= 1
    BY <1>1, <2>4, <2>5, GoodIs
  <2>9. Fit(Q, B, W, s)
    BY <1>9, <2>5, <2>7, <2>8, FitGoods
  <2>10. Good(y, in)
    BY <1>2, <2>6, <2>9, GoodKept
  <2> QED
    BY <2>4, <2>5, <2>6, <2>10 DEF y
<1>15. CASE ~Full(x)
  <2> DEFINE g == [f EXCEPT !.id = new, !.quan = n, !.useup = FALSE]
             C == Append(B, g)
  <2>1. y = [[v EXCEPT !.obj = O, !.bill = B]
              EXCEPT !.bill = Append(@, [@[i] EXCEPT !.id = new, !.quan = n, !.useup = FALSE])]
    BY <1>11, <1>12, <1>15
  <2>2. y = [v EXCEPT !.obj = O, !.bill = C]
    BY <1>1, <1>6, <2>1 DEF World
  <2>3. /\ g \in EntryType /\ g.id = new /\ g.quan = n /\ ~g.useup /\ g.price = f.price
    <3>1. n \in Nat \ {0} /\ FALSE \in BOOLEAN
      OBVIOUS
    <3> QED
      BY <1>5, <3>1 DEF EntryType
  <2> HIDE DEF g, y
  <2>4. C \in Seq(EntryType)
    BY <1>6, <2>3
  <2> HIDE DEF C
  <2>5. Kept(v, y) /\ y.obj = O /\ y.bill = C /\ y.owed = v.owed
    BY <1>1, <2>2, <2>4, ObjAny DEF World, Kept
  <2>6. Len(B) < BILLSZ
    <3>1. Len(B) \in Nat /\ Len(B) <= BILLSZ /\ Len(B) # BILLSZ
      BY <1>1, <1>6, <1>9, <1>13, <1>15 DEF Fit
    <3> QED
      BY <3>1, ShopAssumption
  <2>7. EntryOK(O[g.id], g) /\ O[g.id].quan >= 1
    <3>1. v.obj[o].where \in Places /\ n <= n
      OBVIOUS
    <3> QED
      BY <2>3, <3>1 DEF EntryOK
  <2>8. ~Named(B, g.id) /\ PriceOK(g.price, s) /\ \A p \in Ids : p # g.id => O[p] = P[p]
    BY <1>2, <1>5, <1>7, <1>10, <2>3
  <2> DEFINE W2 == W + g.quan
  <2>9. Fit(O, Append(B, g), W2, s)
    BY <1>9, <2>3, <2>6, <2>7, <2>8, FitAppend, ZenonT(60)
  <2>10. W2 = v.owed
    BY <1>1, <2>3
  <2>11. Fit(O, C, v.owed, s)
    BY <2>9, <2>10 DEF C
  <2>12. Good(y, in)
    BY <1>2, <2>5, <2>11, GoodKept
  <2> QED
    BY <2>5, <2>12 DEF y
<1> QED
  BY <1>14, <1>15

LEMMA PartsIs ==
  ASSUME NEW v, NEW in, Good(v, in), NEW o \in Ids, v.obj[o].where \in Places, Spare(v) # {},
         NEW p \in Parts(v, o)
  PROVE  /\ Good(p.v, in) /\ Kept(v, p.v) /\ p.o \in Ids
         /\ p.v.obj[p.o].where = v.obj[o].where /\ Spare(p.v) # {}
<1> DEFINE new == NewId(v)
           r == v.obj[o]
<1>1. v \in World /\ v.obj \in [Ids -> ObjType] /\ Fit(v.obj, v.bill, v.owed, v.shk.surcharge)
  BY GoodIs
<1>2. CASE p = [v |-> v, o |-> o]
  BY <1>1, <1>2 DEF Kept
<1>3. ASSUME ~(Cardinality(Spare(v)) < 2), NEW n \in 1 .. (r.quan - 1),
             p = [v |-> IF r.unpaid THEN SplitBill(SplitIn(v, o, n), o, new)
                        ELSE SplitIn(v, o, n), o |-> new]
      PROVE  /\ Good(p.v, in) /\ Kept(v, p.v) /\ p.o \in Ids
             /\ p.v.obj[p.o].where = v.obj[o].where /\ Spare(p.v) # {}
  <2> DEFINE x == SplitIn(v, o, n)
             y == IF r.unpaid THEN SplitBill(x, o, new) ELSE x
  <2>0. PICK O : SplitFacts(v, o, n, new, O)
    BY SplitGoods
  <2>1. /\ n \in Nat /\ n >= 1 /\ r.quan \in Nat /\ r.quan - n >= 1
        /\ new \in Ids /\ new # o /\ ~Named(v.bill, new) /\ v.obj[new].where = "none"
        /\ O[new].where = r.where /\ O[new].quan = n /\ O[new].unpaid = r.unpaid
        /\ O[o].where = r.where /\ O[o].quan = r.quan - n /\ O[o].unpaid = r.unpaid
        /\ O \in [Ids -> ObjType] /\ \A q \in Ids : q \notin {o, new} => O[q] = v.obj[q]
        /\ x = [v EXCEPT !.obj = O]
    BY <2>0 DEF SplitFacts
  <2>2. p.v = y /\ p.o = new
    BY <1>3
  <2> HIDE DEF x, new
  <2>3. ASSUME r.unpaid
        PROVE  /\ Good(y, in) /\ Kept(v, y) /\ y.obj[new].where = r.where
               /\ \A q \in Ids : q \notin {o, new} => y.obj[q] = v.obj[q]
    <3>1. Named(v.bill, o)
      BY <2>3, NamedIs, <1>1
    <3>2. /\ O[o].where = v.obj[o].where /\ O[o].unpaid /\ O[o].quan >= 1
          /\ O[o].quan = v.obj[o].quan - n
          /\ O[new].where = v.obj[o].where /\ O[new].unpaid /\ O[new].quan = n
      BY <2>1, <2>3
    <3>3. y = SplitBill(x, o, new)
      BY <2>3
    <3> HIDE DEF r, y
    <3>4. LET z == SplitBill(x, o, new)
          IN /\ Good(z, in) /\ Kept(v, z) /\ z.obj[new].where = v.obj[o].where
             /\ \A q \in Ids : q \notin {o, new} => z.obj[q] = v.obj[q]
      BY <2>1, <3>1, <3>2, SplitBillIs
    <3> QED
      BY <3>3, <3>4 DEF r
  <2>4. ASSUME ~r.unpaid
        PROVE  /\ Good(y, in) /\ Kept(v, y) /\ y.obj[new].where = r.where
               /\ \A q \in Ids : q \notin {o, new} => y.obj[q] = v.obj[q]
    <3>1. ~Named(v.bill, o)
      BY <2>4, NamedIs, <1>1
    <3>2. y = [v EXCEPT !.obj = O]
      BY <2>1, <2>4
    <3> HIDE DEF y
    <3>3. Kept(v, y) /\ y.obj = O /\ y.bill = v.bill /\ y.owed = v.owed
      BY <1>1, <2>1, <3>2, ObjAny DEF World, Kept
    <3>4. Clear(O[o]) /\ Clear(O[new])
      BY <2>1, <2>4 DEF Clear, Places
    <3>5. \A q \in Ids : O[q].where # "none" => O[q].quan >= 1
      <4>1. \A q \in Ids : v.obj[q].where # "none" => v.obj[q].quan >= 1
        BY GoodIs
      <4>2. O[o].quan >= 1 /\ O[new].quan >= 1
        BY <2>1
      <4> QED
        BY <2>1, <4>1, <4>2
    <3>6. \A q \in Ids : O[q] = v.obj[q] \/ (~Named(v.bill, q) /\ Clear(O[q]))
      BY <2>1, <3>1, <3>4
    <3>7. Fit(O, v.bill, v.owed, v.shk.surcharge)
      BY <1>1, <2>1, <3>5, <3>6, FitGoods
    <3>8. Good(y, in)
      BY <3>3, <3>7, GoodKept
    <3> QED
      BY <2>1, <3>3, <3>8
  <2> HIDE DEF y
  <2>5. /\ Good(y, in) /\ Kept(v, y) /\ y.obj[new].where = r.where
        /\ \A q \in Ids : q \notin {o, new} => y.obj[q] = v.obj[q]
    BY <2>3, <2>4
  <2>6. Spare(y) # {}
    <3>1. PICK s \in Spare(v) : s # new
      BY <1>3, SpareTwo
    <3>2. s \in Ids /\ v.obj[s].where = "none" /\ s # o
      BY <3>1 DEF Spare, Places
    <3> QED
      BY <2>5, <3>1, <3>2 DEF Spare
  <2> QED
    BY <2>1, <2>2, <2>5, <2>6
<1>4. p = [v |-> v, o |-> o]
      \/ \E n \in IF Cardinality(Spare(v)) < 2 THEN {} ELSE 1 .. (r.quan - 1) :
           p = [v |-> IF r.unpaid THEN SplitBill(SplitIn(v, o, n), o, new)
                      ELSE SplitIn(v, o, n), o |-> new]
  BY Zenon DEF Parts, SplitIn
<1> HIDE DEF new, r
<1> QED
  BY <1>2, <1>3, <1>4, Zenon

\* A piece of merchandise is elsewhere, or there is less of it.
Put(v, o, r) == [v EXCEPT !.obj = [v.obj EXCEPT ![o] = r]]

LEMMA MoveIs ==
  ASSUME NEW v, NEW in, Good(v, in), NEW o \in Ids, v.obj[o].where \in Places,
         NEW r \in ObjType, r.where \in Places, r.unpaid = v.obj[o].unpaid,
         r.quan <= v.obj[o].quan, r.quan >= 1
  PROVE  LET x == Put(v, o, r)
         IN /\ Good(x, in) /\ Kept(v, x) /\ x.obj[o] = r /\ x.bill = v.bill
            /\ \A p \in Ids : p # o => x.obj[p] = v.obj[p]
<1> DEFINE x == Put(v, o, r)
           O == [v.obj EXCEPT ![o] = r]
<1>1. /\ v \in World /\ v.obj \in [Ids -> ObjType] /\ v.bill \in Seq(EntryType)
      /\ Fit(v.obj, v.bill, v.owed, v.shk.surcharge)
      /\ v.obj[o].quan \in Nat /\ r.quan \in Nat
  BY GoodIs, ObjIs
<1>2. O \in [Ids -> ObjType] /\ O[o] = r /\ \A p \in Ids : p # o => O[p] = v.obj[p]
  BY <1>1, SetObj
<1>3. x = [v EXCEPT !.obj = O]
  BY DEF Put
<1> HIDE DEF O, x
<1>4. Kept(v, x) /\ x.obj = O /\ x.bill = v.bill /\ x.owed = v.owed
  BY <1>1, <1>2, <1>3, ObjAny DEF World, Kept
<1>5. \A p \in Ids : O[p].where # "none" => O[p].quan >= 1
  BY <1>2, GoodIs
<1>6. ASSUME ~Named(v.bill, o)
      PROVE  Clear(O[o])
  <2>1. ~v.obj[o].unpaid
    BY <1>1, <1>6, NamedIs
  <2> QED
    BY <1>2, <2>1 DEF Clear, Places
<1>7. ASSUME NEW i \in 1 .. Len(v.bill), v.bill[i].id = o
      PROVE  EntryOK(O[o], v.bill[i])
  <2>1. EntryOK(v.obj[o], v.bill[i]) /\ v.bill[i] \in EntryType
    BY <1>1, <1>7, BillIs DEF Fit, GoodsOK
  <2>2. v.bill[i].quan \in Nat /\ v.bill[i].useup \in BOOLEAN
    BY <2>1 DEF EntryType
  <2> QED
    BY <1>1, <1>2, <2>1, <2>2 DEF EntryOK, Places
<1>8. Fit(O, v.bill, v.owed, v.shk.surcharge)
  <2>1. \A p \in Ids : \/ O[p] = v.obj[p]
                       \/ (~Named(v.bill, p) /\ Clear(O[p]))
                       \/ Named(v.bill, p) /\ \A i \in 1 .. Len(v.bill) :
                                                v.bill[i].id = p => EntryOK(O[p], v.bill[i])
    BY <1>2, <1>6, <1>7
  <2> QED
    BY <1>1, <1>2, <1>5, <2>1, FitGoods
<1>9. Good(x, in)
  BY <1>4, <1>8, GoodKept
<1> QED
  BY <1>2, <1>4, <1>9 DEF x

\* obfree: goods that are not paid for stay on the bill.
LEMMA FreeIs ==
  ASSUME NEW v, NEW in, Good(v, in), NEW o \in Ids, v.obj[o].where \in Places
  PROVE  Good(Free(v, o, 0), in)
<1> DEFINE x == Free(v, o, 0)
           s == v.shk.surcharge
<1>1. /\ v \in World /\ v.obj \in [Ids -> ObjType] /\ v.bill \in Seq(EntryType)
      /\ v.owed \in Int /\ v.obj[o] \in ObjType
      /\ Fit(v.obj, v.bill, v.owed, s)
  BY GoodIs
<1>2. CASE OnBill(v, o) = {}
  <2> DEFINE O == [v.obj EXCEPT ![o] = NoObj]
  <2>1. x = [v EXCEPT !.obj = O]
    BY <1>1, <1>2 DEF Free, Gone, World
  <2> HIDE DEF x
  <2>2. O \in [Ids -> ObjType] /\ O[o] = NoObj /\ \A p \in Ids : p # o => O[p] = v.obj[p]
    BY <1>1, NoObjIs, SetObj
  <2> HIDE DEF O
  <2>3. Kept(v, x) /\ x.obj = O /\ x.bill = v.bill /\ x.owed = v.owed
    BY <1>1, <2>1, <2>2, ObjAny DEF World, Kept
  <2>4. ~Named(v.bill, o)
    BY <1>2, EntryIs, GoodIs
  <2>5. \A p \in Ids : O[p].where # "none" => O[p].quan >= 1
    BY <2>2, NoObjIs, GoodIs
  <2>6. \A p \in Ids : O[p] = v.obj[p] \/ (~Named(v.bill, p) /\ Clear(O[p]))
    BY <2>2, <2>4, NoObjIs
  <2>7. Fit(O, v.bill, v.owed, s)
    BY <1>1, <2>2, <2>5, <2>6, FitGoods
  <2>8. Good(x, in)
    BY <2>3, <2>7, GoodKept
  <2> QED
    BY <2>8 DEF x
<1>3. CASE OnBill(v, o) # {}
  <2> DEFINE i == Entry(v, o)
             e == v.bill[i]
             f == [e EXCEPT !.useup = TRUE]
             r == [v.obj[o] EXCEPT !.unpaid = FALSE, !.where = "onbill"]
             O == [v.obj EXCEPT ![o] = r]
             B == [v.bill EXCEPT ![i] = f]
  <2>1. x = [v EXCEPT !.bill[i].useup = TRUE, !.obj[o].unpaid = FALSE, !.obj[o].where = "onbill"]
    BY <1>3, Zenon DEF Free
  <2>2. Named(v.bill, o)
    BY <1>3, EntryIs, GoodIs
  <2>3. /\ i \in 1 .. Len(v.bill) /\ e \in EntryType /\ e.id = o
        /\ e.quan \in Nat /\ v.obj[o].quan \in Nat /\ v.obj[o].quan >= 1
        /\ PriceOK(e.price, s) /\ (in /\ Tended(v))
    BY <2>2, BilledIs
  <2>4. /\ f \in EntryType /\ f.id = o /\ f.quan = e.quan /\ f.useup /\ f.price = e.price
    BY <2>3 DEF EntryType
  <2>5. r \in ObjType /\ r.where = "onbill" /\ r.quan = v.obj[o].quan
    BY <1>1 DEF ObjType
  <2>6. x = [v EXCEPT !.obj = O, !.bill = B]
    <3>1. x = [v EXCEPT !.obj = [v.obj EXCEPT ![o].unpaid = FALSE, ![o].where = "onbill"],
                        !.bill = B]
      BY <1>1, <2>1, <2>3 DEF World
    <3>2. [v.obj EXCEPT ![o].unpaid = FALSE, ![o].where = "onbill"] = O
      BY <1>1
    <3> QED
      BY <3>1, <3>2
  <2> HIDE DEF x, f, r
  <2>7. O \in [Ids -> ObjType] /\ O[o] = r /\ \A p \in Ids : p # o => O[p] = v.obj[p]
    BY <1>1, <2>5, SetObj
  <2> HIDE DEF O, i
  <2>8. B \in Seq(EntryType)
    BY <1>1, <2>3, <2>4
  <2>9. v.owed - v.bill[i].quan + f.quan = v.owed
    BY <1>1, <2>3, <2>4
  <2>10. Fit(O, B, v.owed, s)
    <3>1. EntryOK(O[f.id], f) /\ O[f.id].quan >= 1
      BY <2>3, <2>4, <2>5, <2>7 DEF EntryOK
    <3>2. PriceOK(f.price, s) /\ f.id = v.bill[i].id
      BY <2>3, <2>4
    <3>3. \A p \in Ids : p \notin {f.id, v.bill[i].id} => O[p] = v.obj[p]
      BY <2>3, <2>7
    <3>4. f.id # v.bill[i].id =>
            /\ Clear(O[v.bill[i].id])
            /\ O[v.bill[i].id].where # "none" => O[v.bill[i].id].quan >= 1
      BY <3>2
    <3>5. Fit(v.obj, v.bill, v.owed, s) /\ i \in 1 .. Len(v.bill) /\ f \in EntryType
          /\ O \in [Ids -> ObjType]
      BY <1>1, <2>3, <2>4, <2>7
    <3>6. Fit(O, [v.bill EXCEPT ![i] = f], v.owed - v.bill[i].quan + f.quan, s)
      BY <3>1, <3>2, <3>3, <3>4, <3>5, FitEntry, ZenonT(60)
    <3> QED
      BY <2>9, <3>6
  <2> HIDE DEF B
  <2>11. Kept(v, x) /\ x.obj = O /\ x.bill = B /\ x.owed = v.owed
    BY <1>1, <2>6, <2>7, <2>8, ObjAny DEF World, Kept
  <2>12. Good(x, in)
    BY <2>3, <2>10, <2>11, GoodKept
  <2> QED
    BY <2>12 DEF x
<1> QED
  BY <1>2, <1>3

\* Two stacks of the same goods, of which o joins the other
LEMMA MergeIs ==
  ASSUME NEW v, NEW in, Good(v, in), NEW a \in Ids, NEW o \in Ids, a # o,
         v.obj[a].where \in Places, v.obj[o].where \in Places,
         v.obj[a].unpaid = v.obj[o].unpaid,
         v.obj[a].unpaid => v.bill[Entry(v, a)].price = v.bill[Entry(v, o)].price
  PROVE  Good(Merge(v, a, o), in)
<1> DEFINE y == Merge(v, a, o)
           s == v.shk.surcharge
           q == v.obj[a].quan + v.obj[o].quan
           r == [v.obj[a] EXCEPT !.quan = q]
           P == [v.obj EXCEPT ![a] = r]
           O == [P EXCEPT ![o] = NoObj]
           x == [v EXCEPT !.obj[a].quan = @ + v.obj[o].quan]
<1>1. /\ v \in World /\ v.obj \in [Ids -> ObjType] /\ v.bill \in Seq(EntryType)
      /\ v.owed \in Int /\ v.obj[o] \in ObjType /\ v.obj[a] \in ObjType
      /\ Fit(v.obj, v.bill, v.owed, s) /\ Len(v.bill) \in Nat
  BY GoodIs
<1>2. v.obj[a].quan \in Nat /\ v.obj[a].quan >= 1 /\ v.obj[o].quan \in Nat
      /\ v.obj[o].quan >= 1 /\ q \in Nat /\ q >= 1
  <2>1. v.obj[a].quan \in Nat /\ v.obj[a].quan >= 1
    BY <1>1, ObjIs, GoodIs DEF Places
  <2>2. v.obj[o].quan \in Nat /\ v.obj[o].quan >= 1
    BY <1>1, ObjIs, GoodIs DEF Places
  <2> QED
    BY <2>1, <2>2
<1>3. /\ r \in ObjType /\ r.quan = q /\ r.where = v.obj[a].where
      /\ r.unpaid = v.obj[a].unpaid
  <2> HIDE DEF q
  <2> QED
    BY <1>1, <1>2 DEF ObjType
<1>4. x = [v EXCEPT !.obj = P]
  BY <1>1 DEF World
<1>5. y = Free(x, o, a)
  BY DEF Merge
<1> HIDE DEF r, x, y
<1>6. P \in [Ids -> ObjType] /\ P[a] = r /\ \A p \in Ids : p # a => P[p] = v.obj[p]
  BY <1>1, <1>3, SetObj
<1> HIDE DEF P
<1>7. O \in [Ids -> ObjType] /\ O[o] = NoObj /\ \A p \in Ids : p # o => O[p] = P[p]
  BY <1>6, NoObjIs, SetObj
<1>8. /\ x.bill = v.bill /\ x.obj = P /\ x.owed = v.owed
  BY <1>1, <1>4 DEF World
<1>9. OnBill(x, o) = OnBill(v, o) /\ OnBill(x, a) = OnBill(v, a)
      /\ Entry(x, o) = Entry(v, o) /\ Entry(x, a) = Entry(v, a)
  BY <1>8 DEF OnBill, Entry
<1>10. \A p \in Ids : O[p].where # "none" => O[p].quan >= 1
  BY <1>2, <1>3, <1>6, <1>7, NoObjIs, GoodIs
<1>11. /\ Named(v.bill, o) <=> v.obj[o].unpaid
       /\ Named(v.bill, a) <=> v.obj[a].unpaid
  BY <1>1, NamedIs
<1>12. CASE ~Named(v.bill, o)
  <2>1. ~Named(v.bill, a) /\ ~v.obj[a].unpaid
    BY <1>11, <1>12
  <2>2. OnBill(x, o) = {}
    BY <1>9, <1>12, EntryIs, GoodIs
  <2>3. y = [x EXCEPT !.obj[o] = NoObj]
    BY <1>5, <2>2 DEF Free, Gone
  <2>4. y = [v EXCEPT !.obj = O]
    BY <1>1, <1>4, <1>6, <2>3 DEF World
  <2> HIDE DEF O
  <2>5. Kept(v, y) /\ y.obj = O /\ y.bill = v.bill /\ y.owed = v.owed
    BY <1>1, <1>7, <2>4, ObjAny DEF World, Kept
  <2>6. Clear(O[a]) /\ Clear(O[o])
    BY <1>3, <1>6, <1>7, <2>1, NoObjIs DEF Clear, Places
  <2>7. \A p \in Ids : O[p] = v.obj[p] \/ (~Named(v.bill, p) /\ Clear(O[p]))
    BY <1>6, <1>7, <1>12, <2>1, <2>6
  <2>8. Fit(O, v.bill, v.owed, s)
    BY <1>1, <1>7, <1>10, <2>7, FitGoods
  <2>9. Good(y, in)
    BY <2>5, <2>8, GoodKept
  <2> QED
    BY <2>9 DEF y
<1>13. CASE Named(v.bill, o)
  <2> DEFINE i == Entry(v, a)
             j == Entry(v, o)
             e == v.bill[i]
             d == v.bill[j]
             f == [e EXCEPT !.quan = e.quan + d.quan]
             B == [v.bill EXCEPT ![i] = f]
             C == Struck(B, j)
             W == v.owed + d.quan
  <2>1. Named(v.bill, a)
    BY <1>11, <1>13
  <2>2. /\ i \in 1 .. Len(v.bill) /\ e \in EntryType /\ e.id = a
        /\ e.quan \in Nat /\ v.obj[a].quan <= e.quan /\ ~e.useup /\ v.obj[a].unpaid
        /\ PriceOK(e.price, s) /\ (in /\ Tended(v))
    BY <2>1, BilledIs
  <2>3. /\ j \in 1 .. Len(v.bill) /\ d \in EntryType /\ d.id = o
        /\ d.quan \in Nat /\ v.obj[o].quan <= d.quan /\ ~d.useup
    BY <1>13, BilledIs
  <2>4. OnBill(x, o) # {} /\ OnBill(x, a) # {} /\ a # 0
    BY <1>9, <1>13, <2>1, EntryIs, GoodIs, ShopAssumption
  <2>5. y = Gone(Strike([x EXCEPT !.bill[i].quan = @ + d.quan], j), o)
    <3>1. y = Gone(Strike([x EXCEPT !.bill[Entry(x, a)].quan = @ + x.bill[Entry(x, o)].quan],
                          Entry(x, o)), o)
      BY <1>5, <2>4, Zenon DEF Free
    <3> QED
      BY <1>8, <1>9, <3>1
  <2>6. [x EXCEPT !.bill[i].quan = @ + d.quan] = [v EXCEPT !.obj = P, !.bill = B]
    BY <1>1, <1>4, <1>6, <2>2, <2>3 DEF World
  <2>7. /\ f \in EntryType /\ f.id = a /\ f.quan = e.quan + d.quan /\ ~f.useup
        /\ f.price = e.price
    <3>1. e.quan + d.quan \in Nat \ {0}
      <4> DEFINE b == e.quan
                 n == d.quan
      <4>1. b \in Nat /\ n \in Nat /\ n >= 1
        BY <1>2, <2>2, <2>3
      <4> HIDE DEF b, n
      <4>2. b + n \in Nat \ {0}
        BY <4>1
      <4> QED
        BY <4>2 DEF b, n
    <3> QED
      BY <2>2, <3>1 DEF EntryType
  <2> HIDE DEF f, i, j
  <2>8. /\ B \in Seq(EntryType) /\ Len(B) = Len(v.bill) /\ B[i] = f
        /\ \A k \in 1 .. Len(v.bill) : k # i => B[k] = v.bill[k]
    BY <1>1, <2>2, <2>7
  <2>9. y = [v EXCEPT !.obj = O, !.bill = C]
    <3> HIDE DEF B
    <3>1. y = Gone(Strike([v EXCEPT !.obj = P, !.bill = B], j), o)
      BY <2>5, <2>6
    <3>2. Strike([v EXCEPT !.obj = P, !.bill = B], j) = [v EXCEPT !.obj = P, !.bill = C]
      BY <1>1 DEF Strike, Struck, World
    <3> HIDE DEF C
    <3>3. y = [[v EXCEPT !.obj = P, !.bill = C] EXCEPT !.obj[o] = NoObj]
      BY <3>1, <3>2 DEF Gone
    <3> QED
      BY <1>1, <3>3 DEF World
  <2>10. Fit(P, B, W, s)
    <3>1. EntryOK(P[f.id], f) /\ P[f.id].quan >= 1
      <4> DEFINE m == v.obj[a].quan
                 n == v.obj[o].quan
                 b == e.quan
                 c == d.quan
      <4>1. m \in Nat /\ n \in Nat /\ b \in Nat /\ c \in Nat /\ m <= b /\ n <= c
        BY <1>2, <2>2, <2>3
      <4> HIDE DEF m, n, b, c
      <4>2. m + n <= b + c
        BY <4>1
      <4>3. P[f.id].quan <= f.quan
        BY <1>3, <1>6, <2>7, <4>2 DEF m, n, b, c
      <4>4. P[f.id] = r /\ r.where \in Places /\ r.unpaid /\ r.quan >= 1
        BY <1>2, <1>3, <1>6, <2>2, <2>7
      <4> QED
        BY <2>7, <4>3, <4>4 DEF EntryOK
    <3>2. PriceOK(f.price, s) /\ f.id = v.bill[i].id
      BY <2>2, <2>7
    <3>3. \A p \in Ids : p \notin {f.id, v.bill[i].id} => P[p] = v.obj[p]
      BY <1>6, <2>7
    <3>4. f.id # v.bill[i].id =>
            /\ Clear(P[v.bill[i].id])
            /\ P[v.bill[i].id].where # "none" => P[v.bill[i].id].quan >= 1
      BY <3>2
    <3>5. Fit(v.obj, v.bill, v.owed, s) /\ i \in 1 .. Len(v.bill) /\ f \in EntryType
          /\ P \in [Ids -> ObjType]
      BY <1>1, <1>6, <2>2, <2>7
    <3>6. Fit(P, [v.bill EXCEPT ![i] = f], v.owed - v.bill[i].quan + f.quan, s)
      BY <3>1, <3>2, <3>3, <3>4, <3>5, FitEntry, ZenonT(60)
    <3>7. v.owed - v.bill[i].quan + f.quan = W
      <4> DEFINE b == v.bill[i].quan
                 c == f.quan
                 n == d.quan
                 m == v.owed
      <4>1. b \in Int /\ c = b + n /\ n \in Int /\ m \in Int
        BY <1>1, <2>2, <2>3, <2>7
      <4> HIDE DEF b, c, n, m
      <4>2. m - b + c = m + n
        BY <4>1
      <4> QED
        BY <4>2 DEF b, c, n, m
    <3> QED
      BY <3>6, <3>7
  <2>11. i # j /\ B[j] = d
    <3>1. i # j
      BY <2>2, <2>3
    <3> QED
      BY <2>3, <2>8, <3>1
  <2> HIDE DEF B
  <2>12. Fit(O, C, v.owed, s)
    <3>1. j \in 1 .. Len(B) /\ B[j].id = o /\ B[j].quan = d.quan
      BY <2>3, <2>8, <2>11
    <3>2. \A p \in Ids : p # B[j].id => O[p] = P[p]
      BY <1>7, <3>1
    <3>3. Clear(O[B[j].id]) /\ (O[B[j].id].where # "none" => O[B[j].id].quan >= 1)
      BY <1>7, <3>1, NoObjIs
    <3>4. O \in [Ids -> ObjType]
      BY <1>7
    <3> HIDE DEF W, O
    <3>5. Fit(O, Struck(B, j), W - B[j].quan, s)
      BY <2>10, <3>1, <3>2, <3>3, <3>4, FitStruck, ZenonT(60)
    <3>6. W - B[j].quan = v.owed
      BY <1>1, <2>3, <3>1 DEF W
    <3> QED
      BY <3>5, <3>6
  <2>13. C \in Seq(EntryType)
    BY <2>3, <2>8, StruckIs
  <2> HIDE DEF C, O
  <2>14. Kept(v, y) /\ y.obj = O /\ y.bill = C /\ y.owed = v.owed
    BY <1>1, <1>7, <2>9, <2>13, ObjAny DEF World, Kept
  <2>15. Good(y, in)
    BY <2>2, <2>12, <2>14, GoodKept
  <2> QED
    BY <2>15 DEF y
<1> QED
  BY <1>12, <1>13

LEMMA MergableIs ==
  ASSUME NEW v, NEW in, Good(v, in), NEW a \in Ids, NEW o \in Ids, a # o,
         v.obj[a].where \in Places, v.obj[o].where \in Places, Mergable(v, a, o)
  PROVE  Good(Merge(v, a, o), in)
<1>1. /\ v.obj[a].unpaid = v.obj[o].unpaid
      /\ v.obj[a].unpaid => v.bill[Entry(v, a)].price = v.bill[Entry(v, o)].price
  BY DEF Mergable
<1> QED
  BY <1>1, MergeIs

LEMMA AddInvIs ==
  ASSUME NEW v, NEW in, Good(v, in), NEW o \in Ids, v.obj[o].where \in Places
  PROVE  Good(AddInv(v, o), in)
<1> DEFINE x == [v EXCEPT !.obj[o].nc = FALSE, !.obj[o].where = "invent"]
           fits == {p \in Ids \ {o} : x.obj[p].where = "invent" /\ Mergable(x, p, o)}
           p == CHOOSE q \in fits : TRUE
           r == [v.obj[o] EXCEPT !.nc = FALSE, !.where = "invent"]
<1>1. v \in World /\ v.obj \in [Ids -> ObjType] /\ v.obj[o] \in ObjType
      /\ v.obj[o].quan \in Nat /\ v.obj[o].quan >= 1
  BY GoodIs, ObjIs DEF Places
<1>2. /\ r \in ObjType /\ r.where = "invent" /\ r.quan = v.obj[o].quan
      /\ r.unpaid = v.obj[o].unpaid
  BY <1>1 DEF ObjType, Places
<1>3. x = Put(v, o, r)
  <2>1. x = [v EXCEPT !.obj = [v.obj EXCEPT ![o].nc = FALSE, ![o].where = "invent"]]
    BY <1>1 DEF World
  <2>2. [v.obj EXCEPT ![o].nc = FALSE, ![o].where = "invent"] = [v.obj EXCEPT ![o] = r]
    BY <1>1
  <2> QED
    BY <2>1, <2>2 DEF Put
<1>4. AddInv(v, o) = IF fits # {} THEN Merge(x, p, o) ELSE x
  BY Zenon DEF AddInv
<1>5. fits # {} => p \in fits
  OBVIOUS
<1> HIDE DEF r, x, p
<1>6. Good(x, in) /\ x.obj[o] = r
  <2>1. r.where \in Places /\ r.quan <= v.obj[o].quan /\ r.quan >= 1
    BY <1>1, <1>2 DEF Places
  <2>2. r \in ObjType /\ r.unpaid = v.obj[o].unpaid
    BY <1>2
  <2> QED
    BY <1>3, <2>1, <2>2, MoveIs
<1>7. CASE fits = {}
  BY <1>4, <1>6, <1>7
<1>8. CASE fits # {}
  <2>1. p \in Ids /\ p # o /\ x.obj[p].where = "invent" /\ Mergable(x, p, o)
    BY <1>5, <1>8
  <2>2. x.obj[p].where \in Places /\ x.obj[o].where \in Places
    BY <1>2, <1>6, <2>1 DEF Places
  <2>3. Good(Merge(x, p, o), in)
    BY <1>6, <2>1, <2>2, MergableIs
  <2> QED
    BY <1>4, <1>8, <2>3
<1> QED
  BY <1>7, <1>8

LEMMA LandIs ==
  ASSUME NEW v, NEW in, Good(v, in), NEW o \in Ids, v.obj[o].where \in Places,
         NEW where \in {"shelf", "out"}
  PROVE  Good(Land(v, o, where), in)
<1> DEFINE x == [v EXCEPT !.obj[o].where = where]
           fits == {p \in Ids \ {o} : x.obj[p].where = where /\ Mergable(x, o, p)}
           p == CHOOSE q \in fits : TRUE
           r == [v.obj[o] EXCEPT !.where = where]
<1>1. v \in World /\ v.obj \in [Ids -> ObjType] /\ v.obj[o] \in ObjType
      /\ v.obj[o].quan \in Nat /\ v.obj[o].quan >= 1
  BY GoodIs, ObjIs DEF Places
<1>2. /\ r \in ObjType /\ r.where = where /\ r.quan = v.obj[o].quan
      /\ r.unpaid = v.obj[o].unpaid
  BY <1>1 DEF ObjType, Places
<1>3. x = Put(v, o, r)
  BY <1>1 DEF World, Put
<1>4. Land(v, o, where) = IF fits # {} THEN Merge(x, o, p) ELSE x
  BY Zenon DEF Land
<1>5. fits # {} => p \in fits
  OBVIOUS
<1> HIDE DEF r, x, p
<1>6. Good(x, in) /\ x.obj[o] = r
  <2>1. r.where \in Places /\ r.quan <= v.obj[o].quan /\ r.quan >= 1
    BY <1>1, <1>2 DEF Places
  <2>2. r \in ObjType /\ r.unpaid = v.obj[o].unpaid
    BY <1>2
  <2> QED
    BY <1>3, <2>1, <2>2, MoveIs
<1>7. CASE fits = {}
  BY <1>4, <1>6, <1>7
<1>8. CASE fits # {}
  <2>1. p \in Ids /\ p # o /\ x.obj[p].where = where /\ Mergable(x, o, p)
    BY <1>5, <1>8
  <2>2. x.obj[p].where \in Places /\ x.obj[o].where \in Places
    BY <1>2, <1>6, <2>1 DEF Places
  <2>3. Good(Merge(x, o, p), in)
    BY <1>6, <2>1, <2>2, MergableIs
  <2> QED
    BY <1>4, <1>8, <2>3
<1> QED
  BY <1>7, <1>8

LEMMA SellPriceIs ==
  ASSUME NEW v, NEW in, Good(v, in), NEW o \in Ids
  PROVE  SellPrice(v, o) \in Nat /\ SellPrice(v, o) >= 1
<1>1. Cost[o] \in Nat /\ v.obj[o].quan \in Nat
  BY ShopAssumption, GoodIs, ObjIs
<1> DEFINE a == 5 * Cost[o]
           b == v.obj[o].quan
           m == a * b
           one == 1
           n == (m + 5) \div 10
<1>2. a \in Nat /\ b \in Nat
  BY <1>1
<1> HIDE DEF a, b
<1>3. m \in Nat
  BY <1>2
<1> HIDE DEF m
<1>4. n \in Int /\ one \in Int /\ one >= 1
  BY <1>3
<1>5. SellPrice(v, o) = Max({one, n})
  BY DEF SellPrice, a, b, m
<1> HIDE DEF n, one
<1>6. Max({one, n}) \in Int /\ Max({one, n}) >= one
  BY <1>4, MaxTwo
<1> QED
  BY <1>4, <1>5, <1>6 DEF one

\* The hero's credit, as sellobj sets it
LEMMA CreditIs ==
  ASSUME NEW v, NEW in, Good(v, in), NEW n \in Nat
  PROVE  LET x == [v EXCEPT !.shk.credit = @ + n]
         IN Good(x, in) /\ SameBill(v, x)
<1> DEFINE c == v.shk.credit + n
           s == [v.shk EXCEPT !.credit = c]
           x == [v EXCEPT !.shk.credit = @ + n]
<1>1. v \in World /\ v.shk \in ShkType /\ v.shk.loan <= v.shk.debit
      /\ ((in /\ Tended(v)) \/ v.shk.debit = 0)
  BY GoodIs DEF Good, Books, Closed
<1>2. c \in Nat
  BY <1>1, ShkIs
<1>3. x = [v EXCEPT !.shk = s]
  BY <1>1 DEF World
<1> HIDE DEF c
<1>4. /\ s \in ShkType /\ s.st = v.shk.st /\ s.angry = v.shk.angry
      /\ s.surcharge = v.shk.surcharge /\ s.inactive = v.shk.inactive /\ s.debit = v.shk.debit /\ s.loan = v.shk.loan
  BY <1>1, <1>2 DEF ShkType
<1> HIDE DEF s, x
<1>5. Good(x, in) /\ SameBill(v, x)
  BY <1>1, <1>3, <1>4, ShkGood
<1> QED
  BY <1>5 DEF x

LEMMA SellObjIs ==
  ASSUME NEW v, NEW in, Good(v, in), NEW o \in Ids, v.obj[o].where \in Places, Spare(v) # {},
         NEW y \in SellObj(v, o)
  PROVE  Good(y, in) /\ y.obj[o].where = v.obj[o].where
<1> DEFINE offer == SellPrice(v, o)
           x == [v EXCEPT !.obj[o].nc = TRUE]
           n == ((offer * 9) \div 10) + IF offer <= 1 THEN 1 ELSE 0
           m == Min({offer, v.shk.gold})
<1>1. v \in World /\ v.obj \in [Ids -> ObjType] /\ v.obj[o] \in ObjType
      /\ v.obj[o].quan \in Nat /\ v.obj[o].quan >= 1 /\ v.shk.gold \in Nat
  BY GoodIs, ObjIs, ShkIs DEF Places
<1>2. offer \in Nat /\ offer >= 1
  BY SellPriceIs
<1>3. Good(x, in) /\ x.obj[o].where = v.obj[o].where
  <2> DEFINE r == [v.obj[o] EXCEPT !.nc = TRUE]
  <2>1. /\ r \in ObjType /\ r.where = v.obj[o].where /\ r.quan = v.obj[o].quan
        /\ r.unpaid = v.obj[o].unpaid
    BY <1>1 DEF ObjType
  <2>2. x = Put(v, o, r)
    BY <1>1 DEF World, Put
  <2> HIDE DEF r, x
  <2>3. r.where \in Places /\ r.quan <= v.obj[o].quan /\ r.quan >= 1
    BY <1>1, <2>1
  <2>4. Good(x, in) /\ x.obj[o] = r
    BY <2>1, <2>2, <2>3, MoveIs
  <2> QED
    BY <2>1, <2>4
<1>4. ASSUME v.obj[o].unpaid
      PROVE  Good(SubFromBill(v, o), in) /\ SubFromBill(v, o).obj[o].where = v.obj[o].where
  <2>1. Good(SubFromBill(v, o), in)
        /\ SubFromBill(v, o).obj[o] = [v.obj[o] EXCEPT !.unpaid = FALSE]
    BY SubFromBillIs
  <2> QED
    BY <1>1, <2>1, ObjIs
<1>5. Good([v EXCEPT !.shk.robbed = 0], in)
      /\ [v EXCEPT !.shk.robbed = 0].obj[o].where = v.obj[o].where
  BY RobbedZero DEF SameBill
<1>6. n \in Nat
  <2> HIDE DEF offer
  <2> QED
    BY <1>2
<1>7. m \in Nat /\ v.shk.gold - m >= 0
  <2> HIDE DEF offer
  <2> DEFINE g == v.shk.gold
  <2>1. offer \in Nat /\ g \in Nat /\ offer \in Int /\ g \in Int
    BY <1>1, <1>2
  <2> HIDE DEF g
  <2>2. Min({offer, g}) \in {offer, g} /\ Min({offer, g}) <= g
    BY <2>1, MinTwo
  <2>3. Min({offer, g}) \in Nat /\ g - Min({offer, g}) >= 0
    BY <2>1, <2>2
  <2> QED
    BY <2>3 DEF g
<1>8. /\ y = v \/ y = x \/ (v.obj[o].unpaid /\ y = SubFromBill(v, o))
         \/ y = [v EXCEPT !.shk.robbed = 0]
         \/ y = [v EXCEPT !.shk.credit = @ + ((offer * 9) \div 10)
                                         + IF offer <= 1 THEN 1 ELSE 0]
         \/ y = Pay(v, -m)
  BY DEF SellObj
<1> HIDE DEF offer, x, m
<1>9. ASSUME y = [v EXCEPT !.shk.credit = @ + ((offer * 9) \div 10)
                                            + IF offer <= 1 THEN 1 ELSE 0]
      PROVE  Good(y, in) /\ y.obj[o].where = v.obj[o].where
  <2>1. v.shk.credit + ((offer * 9) \div 10) + (IF offer <= 1 THEN 1 ELSE 0)
          = v.shk.credit + n
    <3> DEFINE a == v.shk.credit
               b == (offer * 9) \div 10
               c == IF offer <= 1 THEN 1 ELSE 0
    <3>1. a \in Int /\ b \in Int /\ c \in Int
      <4>1. v.shk.credit \in Nat
        BY GoodIs, ShkIs
      <4> QED
        BY <1>2, <4>1
    <3> HIDE DEF a, b, c
    <3>2. a + b + c = a + (b + c)
      BY <3>1
    <3> QED
      BY <3>2 DEF a, b, c
  <2>2. y = [v EXCEPT !.shk.credit = @ + n]
    BY <1>9, <2>1
  <2> DEFINE z == [v EXCEPT !.shk.credit = @ + n]
  <2> HIDE DEF n
  <2>3. Good(z, in) /\ SameBill(v, z)
    BY <1>6, CreditIs
  <2> QED
    BY <2>2, <2>3 DEF SameBill
<1>10. ASSUME y = Pay(v, -m)
       PROVE  Good(y, in) /\ y.obj[o].where = v.obj[o].where
  <2> DEFINE k == -m
  <2>1. k \in Int /\ k <= 0 /\ v.shk.gold + k >= 0 /\ ~(k > 0)
    BY <1>1, <1>7
  <2>2. y = Pay(v, k)
    BY <1>10
  <2> HIDE DEF k
  <2>3. Good(Pay(v, k), in) /\ SameBill(v, Pay(v, k))
    BY <2>1, PayIs
  <2> QED
    BY <2>2, <2>3 DEF SameBill
<1> QED
  BY <1>3, <1>4, <1>5, <1>8, <1>9, <1>10

\* The gold in the purse and on the floor
LEMMA CoinsGood ==
  ASSUME NEW v, NEW in, Good(v, in), NEW x \in World, x.obj = v.obj, x.bill = v.bill,
         x.owed = v.owed, x.shk = v.shk
  PROVE  Good(x, in)
BY DEF Good, Books, Closed, Tended

LEMMA SellGoldIs ==
  ASSUME NEW v, NEW in, Good(v, in), in, NEW n \in Nat
  PROVE  Good(SellGold(v, n), in)
<1> DEFINE y == SellGold(v, n)
           a == v.shk.debit
           b == v.shk.loan
           c == v.shk.credit
<1>1. v \in World /\ v.shk \in ShkType /\ a \in Nat /\ b \in Nat /\ c \in Nat /\ b <= a
  BY GoodIs, ShkIs DEF Good, Books
<1>2. CASE ~Tended(v) \/ v.shk.angry
  BY <1>2 DEF SellGold
<1>3. CASE Tended(v) /\ ~v.shk.angry /\ v.shk.robbed > 0
  <2>1. y = [v EXCEPT !.shk.robbed = 0]
    BY <1>3 DEF SellGold
  <2> QED
    BY <2>1, RobbedZero
<1>4. CASE Tended(v) /\ ~v.shk.angry /\ ~(v.shk.robbed > 0) /\ a >= n
  <2> DEFINE l == Max({0, b - n})
             d == a - n
             s == [v.shk EXCEPT !.loan = l, !.debit = d]
  <2>1. y = [v EXCEPT !.shk.loan = Max({0, @ - n}), !.shk.debit = @ - n]
    BY <1>4, Zenon DEF SellGold
  <2>2. y = [v EXCEPT !.shk = s]
    <3> HIDE DEF y
    <3> QED
      BY <1>1, <2>1 DEF World
  <2> HIDE DEF a, b, y
  <2>3. l \in Nat /\ d \in Nat /\ l <= d
    <3>1. b - n \in Int
      BY <1>1
    <3>2. l \in Nat /\ (b - n <= 0 => l = 0) /\ (b - n >= 0 => l = b - n)
      BY <3>1, MaxZero
    <3> HIDE DEF l
    <3> QED
      BY <1>1, <1>4, <3>2
  <2> HIDE DEF l, d
  <2>4. /\ s \in ShkType /\ s.st = v.shk.st /\ s.angry = v.shk.angry
        /\ s.surcharge = v.shk.surcharge /\ s.inactive = v.shk.inactive /\ s.loan = l /\ s.debit = d
    BY <1>1, <2>3 DEF ShkType
  <2> HIDE DEF s
  <2>5. Good(y, in)
    BY <1>4, <2>2, <2>3, <2>4, ShkGood
  <2> QED
    BY <2>5 DEF y
<1>5. CASE Tended(v) /\ ~v.shk.angry /\ ~(v.shk.robbed > 0) /\ ~(a >= n)
  <2> DEFINE l == IF a > 0 THEN 0 ELSE b
             d == 0
             m == c + n - a
             s == [v.shk EXCEPT !.credit = m, !.debit = d, !.loan = l]
  <2>1. y = [v EXCEPT !.shk.credit = @ + n - v.shk.debit, !.shk.debit = 0,
                      !.shk.loan = IF v.shk.debit > 0 THEN 0 ELSE @]
    BY <1>5, Zenon DEF SellGold
  <2>2. y = [v EXCEPT !.shk = s]
    <3> HIDE DEF y
    <3> QED
      BY <1>1, <2>1 DEF World
  <2> HIDE DEF a, b, c, y
  <2>3. l \in Nat /\ d \in Nat /\ m \in Nat /\ l <= d /\ d = 0
    BY <1>1, <1>5
  <2> HIDE DEF l, d, m
  <2>4. /\ s \in ShkType /\ s.st = v.shk.st /\ s.angry = v.shk.angry
        /\ s.surcharge = v.shk.surcharge /\ s.inactive = v.shk.inactive /\ s.loan = l /\ s.debit = d
    BY <1>1, <2>3 DEF ShkType
  <2> HIDE DEF s
  <2>5. Good(y, in)
    BY <1>5, <2>2, <2>3, <2>4, ShkGood
  <2> QED
    BY <2>5 DEF y
<1> QED
  BY <1>2, <1>3, <1>4, <1>5

-----------------------------------------------------------------------------
\* The hero and the goods

LEMMA PickUpKeeps ==
  ASSUME Good(w, inside), NEW o \in Ids, PickUp(o)
  PROVE  Good(w', inside')
<1>1. /\ Spare(w) # {} /\ w.obj[o].where \in Places /\ inside' = inside
  BY DEF PickUp, Ready, Place, Places
<1>2. PICK p \in Parts(w, o) :
        w' = AddInv(IF inside THEN AddToBill(p.v, p.o, FALSE) ELSE p.v, p.o)
  BY DEF PickUp
<1>3. Good(p.v, inside) /\ p.o \in Ids /\ p.v.obj[p.o].where = w.obj[o].where
  BY <1>1, PartsIs
<1> DEFINE x == p.v
           a == p.o
           y == IF inside THEN AddToBill(x, a, FALSE) ELSE x
<1> HIDE DEF x, a
<1>4. Good(x, inside) /\ a \in Ids /\ x.obj[a].where \in Places
  BY <1>1, <1>3 DEF x, a
<1>5. Good(y, inside) /\ y.obj[a].where \in Places
  <2>1. CASE inside
    <3>1. LET z == AddToBill(x, a, FALSE)
          IN Good(z, inside) /\ z.obj[a].where = x.obj[a].where
      BY <1>4, <2>1, AddToBillIs
    <3> QED
      BY <1>4, <2>1, <3>1
  <2>2. CASE ~inside
    BY <1>4, <2>2
  <2> QED
    BY <2>1, <2>2
<1>6. w' = AddInv(y, a)
  BY <1>2 DEF x, a
<1> HIDE DEF y
<1> QED
  BY <1>1, <1>4, <1>5, <1>6, AddInvIs

LEMMA DropKeeps ==
  ASSUME Good(w, inside), NEW o \in Ids, Drop(o)
  PROVE  Good(w', inside')
<1>1. /\ Spare(w) # {} /\ w.obj[o].where \in Places /\ inside' = inside
      /\ Place \in {"shelf", "out"}
  BY DEF Drop, Ready, Place, Places
<1>2. PICK p \in Parts(w, o) :
        \E v \in (IF inside THEN SellObj(p.v, p.o) ELSE {p.v}) : w' = Land(v, p.o, Place)
  BY DEF Drop
<1>3. PICK v \in (IF inside THEN SellObj(p.v, p.o) ELSE {p.v}) : w' = Land(v, p.o, Place)
  BY <1>2
<1>4. Good(p.v, inside) /\ p.o \in Ids /\ p.v.obj[p.o].where \in Places /\ Spare(p.v) # {}
  BY <1>1, PartsIs
<1>5. Good(v, inside) /\ v.obj[p.o].where \in Places
  <2>1. CASE inside
    <3>1. v \in SellObj(p.v, p.o)
      BY <2>1
    <3>2. Good(v, inside) /\ v.obj[p.o].where = p.v.obj[p.o].where
      BY <1>4, <3>1, SellObjIs
    <3> QED
      BY <1>4, <3>2
  <2>2. CASE ~inside
    BY <1>4, <2>2
  <2> QED
    BY <2>1, <2>2
<1> QED
  BY <1>1, <1>3, <1>4, <1>5, LandIs

LEMMA ThrowKeeps ==
  ASSUME Good(w, inside), NEW o \in Ids, Throw(o)
  PROVE  Good(w', inside')
<1>1. /\ Spare(w) # {} /\ w.obj[o].where \in Places /\ inside' = inside /\ inside
  BY DEF Throw, Ready, Places
<1>2. PICK p \in Parts(w, o) :
        LET x == IF p.v.obj[p.o].unpaid THEN SubFromBill(Stolen(p.v, p.o), p.o) ELSE p.v
        IN \/ \E v \in SellObj(p.v, p.o) : w' = Land(v, p.o, "shelf")
           \/ w' = Land(x, p.o, "out")
           \/ w' = Free(x, p.o, 0)
  BY DEF Throw
<1> DEFINE a == p.o
           y == p.v
           z == Stolen(y, a)
           x == IF y.obj[a].unpaid THEN SubFromBill(z, a) ELSE y
<1>3. (\E v \in SellObj(y, a) : w' = Land(v, a, "shelf"))
      \/ w' = Land(x, a, "out") \/ w' = Free(x, a, 0)
  BY <1>2
<1>4. Good(y, inside) /\ a \in Ids /\ y.obj[a].where \in Places /\ Spare(y) # {}
  BY <1>1, PartsIs
<1> HIDE DEF y, a
<1>5. Good(z, inside) /\ z.obj = y.obj
  BY <1>1, <1>4, StolenIs DEF SameGoods
<1> HIDE DEF z
<1>6. Good(x, inside) /\ x.obj[a].where \in Places
  <2>1. z.obj[a].where \in Places /\ Spare(z) # {} /\ z.obj[a] \in ObjType
    BY <1>4, <1>5, GoodIs DEF Spare
  <2>2. Good(SubFromBill(z, a), inside)
        /\ SubFromBill(z, a).obj[a] = [z.obj[a] EXCEPT !.unpaid = FALSE]
    BY <1>4, <1>5, <2>1, SubFromBillIs
  <2>3. SubFromBill(z, a).obj[a].where \in Places
    BY <2>1, <2>2, ObjIs
  <2> QED
    BY <1>4, <2>2, <2>3
<1> HIDE DEF x
<1>7. ASSUME NEW v \in SellObj(y, a), w' = Land(v, a, "shelf")
      PROVE  Good(w', inside)
  <2>1. Good(v, inside) /\ v.obj[a].where = y.obj[a].where
    BY <1>1, <1>4, SellObjIs
  <2> QED
    BY <1>4, <1>7, <2>1, LandIs
<1>8. Good(Land(x, a, "out"), inside) /\ Good(Free(x, a, 0), inside)
  BY <1>4, <1>6, LandIs, FreeIs
<1> QED
  BY <1>1, <1>3, <1>7, <1>8

LEMMA UseUpKeeps ==
  ASSUME Good(w, inside), NEW o \in Ids, UseUp(o)
  PROVE  Good(w', inside')
<1>1. /\ w.obj[o].where \in Places /\ inside' = inside
      /\ w' = IF w.obj[o].quan > 1 THEN [w EXCEPT !.obj[o].quan = @ - 1] ELSE Free(w, o, 0)
  BY DEF UseUp, Places
<1>2. w \in World /\ w.obj \in [Ids -> ObjType] /\ w.obj[o] \in ObjType /\ w.obj[o].quan \in Nat
  BY GoodIs, ObjIs
<1>3. CASE w.obj[o].quan > 1
  <2> DEFINE n == w.obj[o].quan - 1
             r == [w.obj[o] EXCEPT !.quan = n]
             x == [w EXCEPT !.obj[o].quan = @ - 1]
  <2>1. n \in Nat /\ n >= 1 /\ n <= w.obj[o].quan
    BY <1>2, <1>3
  <2>2. x = Put(w, o, r)
    BY <1>2 DEF World, Put
  <2> HIDE DEF n, x
  <2>3. r \in ObjType /\ r.where = w.obj[o].where /\ r.quan = n /\ r.unpaid = w.obj[o].unpaid
    BY <1>2, <2>1 DEF ObjType
  <2> HIDE DEF r
  <2>4. r.where \in Places /\ r.quan <= w.obj[o].quan /\ r.quan >= 1
    BY <1>1, <2>1, <2>3
  <2>5. Good(x, inside)
    BY <1>1, <2>2, <2>3, <2>4, MoveIs
  <2> QED
    BY <1>1, <1>3, <2>5 DEF x
<1>4. CASE ~(w.obj[o].quan > 1)
  BY <1>1, <1>4, FreeIs
<1> QED
  BY <1>3, <1>4

LEMMA UseChargeKeeps ==
  ASSUME Good(w, inside), NEW o \in Ids, UseCharge(o)
  PROVE  Good(w', inside')
<1> DEFINE d == w.shk.debit + 1
           s == [w.shk EXCEPT !.debit = d]
<1>1. inside /\ Tended(w) /\ inside' = inside /\ w' = [w EXCEPT !.shk.debit = @ + 1]
  BY DEF UseCharge
<1>2. w \in World /\ w.shk \in ShkType /\ w.shk.debit \in Nat /\ w.shk.loan \in Nat
      /\ w.shk.loan <= w.shk.debit
  BY GoodIs, ShkIs DEF Good, Books
<1>3. w' = [w EXCEPT !.shk = s]
  BY <1>1, <1>2 DEF World
<1>4. d \in Nat /\ w.shk.loan <= d
  BY <1>2
<1> HIDE DEF d
<1>5. /\ s \in ShkType /\ s.st = w.shk.st /\ s.angry = w.shk.angry
      /\ s.surcharge = w.shk.surcharge /\ s.inactive = w.shk.inactive /\ s.loan = w.shk.loan /\ s.debit = d
  BY <1>2, <1>4 DEF ShkType
<1> DEFINE x == w'
<1>6. x = [w EXCEPT !.shk = s]
  BY <1>3
<1> HIDE DEF s, x
<1>7. Good(x, inside)
  BY <1>1, <1>4, <1>5, <1>6, ShkGood
<1> QED
  BY <1>1, <1>7 DEF x

LEMMA StealKeeps ==
  ASSUME Good(w, inside), NEW o \in Ids, Steal(o)
  PROVE  Good(w', inside')
<1> DEFINE r == [w.obj[o] EXCEPT !.where = "mon"]
<1>1. w.obj[o].where = "invent" /\ inside' = inside /\ w' = [w EXCEPT !.obj[o].where = "mon"]
  BY DEF Steal
<1>2. w \in World /\ w.obj \in [Ids -> ObjType] /\ w.obj[o] \in ObjType
      /\ w.obj[o].quan \in Nat /\ w.obj[o].quan >= 1
  BY <1>1, GoodIs, ObjIs
<1>3. w' = Put(w, o, r)
  BY <1>1, <1>2 DEF World, Put
<1>4. /\ r \in ObjType /\ r.where = "mon" /\ r.quan = w.obj[o].quan
      /\ r.unpaid = w.obj[o].unpaid
  BY <1>2 DEF ObjType, Places
<1> HIDE DEF r
<1>5. r.where \in Places /\ r.quan <= w.obj[o].quan /\ r.quan >= 1 /\ w.obj[o].where \in Places
  BY <1>1, <1>2, <1>4 DEF Places
<1>6. Good(Put(w, o, r), inside)
  BY <1>4, <1>5, MoveIs
<1> QED
  BY <1>1, <1>3, <1>6

LEMMA ThiefDiesKeeps ==
  ASSUME Good(w, inside), NEW o \in Ids, ThiefDies(o)
  PROVE  Good(w', inside')
<1>1. w.obj[o].where \in Places /\ inside' = inside
      /\ \E where \in {"shelf", "out"} : w' = Land(w, o, where)
  BY DEF ThiefDies, Places
<1>2. PICK where \in {"shelf", "out"} : w' = Land(w, o, where)
  BY <1>1
<1>3. Good(Land(w, o, where), inside)
  BY <1>1, LandIs
<1> QED
  BY <1>1, <1>2, <1>3

LEMMA PickGoldKeeps ==
  ASSUME Good(w, inside), NEW n, PickGold(n)
  PROVE  Good(w', inside')
<1> DEFINE x == [w EXCEPT !.floor = @ - n, !.purse = @ + n]
           rest == Rest(w, n)
           y == UseCredit(x, n)
<1>1. /\ inside /\ inside' = inside /\ n \in 1 .. w.floor
      /\ w' = IF ~Tended(w) \/ Full(w) THEN x
              ELSE [y EXCEPT !.shk.debit = @ + rest, !.shk.loan = @ + rest]
  BY DEF PickGold
<1>2. w \in World /\ w.floor \in Nat /\ w.purse \in Nat /\ w.shk.credit \in Nat
  BY GoodIs, ShkIs
<1>3. n \in Nat /\ n \in Int /\ n >= 0 /\ w.floor - n \in Nat /\ w.purse + n \in Nat
  BY <1>1, <1>2
<1>4. x \in World /\ x.obj = w.obj /\ x.bill = w.bill /\ x.owed = w.owed /\ x.shk = w.shk
  BY <1>2, <1>3 DEF World
<1> HIDE DEF x
<1>5. Good(x, inside)
  BY <1>4, CoinsGood
<1>6. CASE ~Tended(w) \/ Full(w)
  BY <1>1, <1>5, <1>6
<1>7. CASE Tended(w) /\ ~Full(w)
  <2>1. Good(y, inside) /\ SameBill(x, y)
    BY <1>3, <1>5, UseCreditIs
  <2>2. rest \in Nat
    <3>1. n - w.shk.credit \in Int
      BY <1>2, <1>3
    <3> QED
      BY <3>1, MaxZero DEF Rest
  <2> HIDE DEF rest, y
  <2> DEFINE d == y.shk.debit + rest
             l == y.shk.loan + rest
             s == [y.shk EXCEPT !.debit = d, !.loan = l]
             z == [y EXCEPT !.shk.debit = @ + rest, !.shk.loan = @ + rest]
  <2>3. y \in World /\ y.shk \in ShkType /\ y.shk.debit \in Nat /\ y.shk.loan \in Nat
        /\ y.shk.loan <= y.shk.debit
    BY <2>1, GoodIs, ShkIs DEF Good, Books
  <2>4. d \in Nat /\ l \in Nat /\ l <= d
    BY <2>2, <2>3
  <2>5. z = [y EXCEPT !.shk = s]
    BY <2>3 DEF World
  <2> HIDE DEF d, l, z
  <2>6. /\ s \in ShkType /\ s.st = y.shk.st /\ s.angry = y.shk.angry
        /\ s.surcharge = y.shk.surcharge /\ s.inactive = y.shk.inactive /\ s.loan = l /\ s.debit = d
    BY <2>3, <2>4 DEF ShkType
  <2> HIDE DEF s
  <2>7. inside /\ Tended(y)
    BY <1>1, <1>4, <1>7, <2>1 DEF Tended, SameBill
  <2>8. Good(z, inside)
    BY <2>1, <2>4, <2>5, <2>6, <2>7, ShkGood
  <2> QED
    BY <1>1, <1>7, <2>8 DEF z
<1> QED
  BY <1>6, <1>7

LEMMA DropGoldKeeps ==
  ASSUME Good(w, inside), NEW n, DropGold(n)
  PROVE  Good(w', inside')
<1> DEFINE x == [w EXCEPT !.purse = @ - n, !.floor = @ + n]
<1>1. /\ inside /\ inside' = inside /\ n \in 1 .. w.purse /\ w' = SellGold(x, n)
  BY DEF DropGold
<1>2. w \in World /\ w.floor \in Nat /\ w.purse \in Nat
  BY GoodIs
<1>3. n \in Nat /\ w.purse - n \in Nat /\ w.floor + n \in Nat
  BY <1>1, <1>2
<1>4. x \in World /\ x.obj = w.obj /\ x.bill = w.bill /\ x.owed = w.owed /\ x.shk = w.shk
  BY <1>2, <1>3 DEF World
<1> HIDE DEF x
<1>5. Good(x, inside)
  BY <1>4, CoinsGood
<1>6. Good(SellGold(x, n), inside)
  BY <1>1, <1>3, <1>5, SellGoldIs
<1> QED
  BY <1>1, <1>6

\* What is altered becomes the hero's; a dummy goes on the bill if there is room.
LEMMA AlterKeeps ==
  ASSUME Good(w, inside), NEW o \in Ids, Alter(o)
  PROVE  Good(w', inside')
<1> DEFINE x == SubFromBill(w, o)
           dummy == NewId(x)
           r == x.obj[o]
           free == [r EXCEPT !.where = "free"]
           t == [x EXCEPT !.obj[dummy] = free]
           y == AddToBill(t, dummy, TRUE)
           z == [y EXCEPT !.obj[o].nc = TRUE]
           s == x.shk.surcharge
           own == [r EXCEPT !.nc = TRUE]
           P == [x.obj EXCEPT ![o] = own]
           G == [P EXCEPT ![dummy] = NoObj]
           d == [r EXCEPT !.where = "onbill", !.unpaid = TRUE]
           H == [P EXCEPT ![dummy] = d]
           e == [id |-> dummy, quan |-> r.quan, useup |-> TRUE, price |-> Price(t, dummy)]
<1>1. /\ inside /\ inside' = inside /\ w.obj[o].where = "invent" /\ Spare(w) # {}
      /\ ~(Cardinality(Spare(w)) < 2)
      /\ w' = IF z.obj[dummy].where = "free" THEN [z EXCEPT !.obj[dummy] = NoObj] ELSE z
  <2>1. /\ inside /\ inside' = inside /\ w.obj[o].where = "invent" /\ Spare(w) # {}
        /\ Cardinality(Spare(w)) >= 2
        /\ w' = IF z.obj[dummy].where = "free" THEN [z EXCEPT !.obj[dummy] = NoObj] ELSE z
    BY DEF Alter, Ready, Gone
  <2>2. Cardinality(Spare(w)) \in Nat
    <3>1. Spare(w) \subseteq Ids /\ IsFiniteSet(Ids)
      BY ShopAssumption DEF Spare
    <3> QED
      BY <3>1, FS_Subset, FS_CardinalityType
  <2> QED
    BY <2>1, <2>2
<1>2. w.obj[o].where \in Places /\ w.obj[o] \in ObjType
  BY <1>1, GoodIs DEF Places
<1>3. /\ Good(x, inside) /\ r = [w.obj[o] EXCEPT !.unpaid = FALSE]
      /\ \A p \in Ids : p \notin {o, NewId(w)} => x.obj[p] = w.obj[p]
  BY <1>1, <1>2, SubFromBillIs
<1>4. r \in ObjType /\ r.where = "invent" /\ ~r.unpaid /\ r.quan \in Nat /\ r.quan >= 1
  <2>1. r.where = "invent" /\ ~r.unpaid
    BY <1>1, <1>2, <1>3, ObjIs
  <2> QED
    BY <1>3, <2>1, GoodIs, ObjIs
<1>5. Spare(x) # {}
  <2>1. PICK p \in Spare(w) : p # NewId(w)
    BY <1>1, SpareTwo
  <2>2. p \in Ids /\ w.obj[p].where = "none" /\ p # o
    BY <1>1, <2>1 DEF Spare
  <2> QED
    BY <1>3, <2>1, <2>2 DEF Spare
<1> HIDE DEF x
<1>6. dummy \in Ids /\ dummy # o /\ ~Named(x.bill, dummy)
  BY <1>3, <1>4, <1>5, NewIdIs, GoodIs
<1>7. /\ x \in World /\ x.obj \in [Ids -> ObjType] /\ x.bill \in Seq(EntryType)
      /\ x.owed \in Int /\ Fit(x.obj, x.bill, x.owed, s) /\ Len(x.bill) \in Nat
  BY <1>3, GoodIs
<1> HIDE DEF dummy, r
<1>8. /\ free \in AnyObj /\ free.where = "free" /\ free.nc = r.nc
      /\ [free EXCEPT !.nc = FALSE] \in AnyObj /\ [free EXCEPT !.nc = FALSE].where = "free"
  BY <1>4 DEF ObjType, AnyObj
<1>9. own \in ObjType /\ own.quan = r.quan /\ own.where = "invent" /\ Clear(own)
  BY <1>4 DEF ObjType, Clear
<1>10. d \in ObjType /\ d.quan = r.quan /\ d.where = "onbill"
  BY <1>4 DEF ObjType
<1>11. ~Named(x.bill, o)
  BY <1>4, <1>7, NamedIs DEF Places, r
<1>12. /\ t \in World /\ t.bill = x.bill /\ t.shk = x.shk /\ t.owed = x.owed
       /\ t.obj[dummy] = free /\ \A p \in Ids : p # dummy => t.obj[p] = x.obj[p]
  <2> HIDE DEF free
  <2>1. x.obj \in [Ids -> AnyObj]
    BY <1>7, ObjAny
  <2> QED
    BY <1>6, <1>7, <1>8, <2>1 DEF World
<1>13. OnBill(t, dummy) = {}
  <2>1. OnBill(x, dummy) = {}
    BY <1>3, <1>6, EntryIs, GoodIs
  <2> QED
    BY <1>12, <2>1 DEF OnBill
<1>14. y = IF ~Tended(t) \/ Full(t) THEN t
           ELSE IF free.nc THEN [t EXCEPT !.obj[dummy].nc = FALSE]
           ELSE [t EXCEPT !.bill = Append(@, e), !.obj[dummy].unpaid = TRUE,
                          !.obj[dummy].where = "onbill", !.owed = @ + r.quan]
  <2>1. y = IF ~Tended(t) \/ OnBill(t, dummy) # {} \/ Full(t) THEN t
            ELSE IF t.obj[dummy].nc THEN [t EXCEPT !.obj[dummy].nc = FALSE]
            ELSE [t EXCEPT !.bill = Append(@, [id |-> dummy, quan |-> t.obj[dummy].quan,
                                               useup |-> TRUE, price |-> Price(t, dummy)]),
                           !.obj[dummy].unpaid = TRUE, !.obj[dummy].where = "onbill",
                           !.owed = @ + t.obj[dummy].quan]
    <3> HIDE DEF t, free
    <3> QED
      BY DEF AddToBill
  <2>2. t.obj[dummy].quan = r.quan
    BY <1>4, <1>12 DEF ObjType
  <2> HIDE DEF t, free
  <2> QED
    BY <1>12, <1>13, <2>1, <2>2
<1> HIDE DEF y
<1>15. Fit(P, x.bill, x.owed, s) /\ P \in [Ids -> ObjType] /\ P[o] = own
       /\ \A p \in Ids : p # o => P[p] = x.obj[p]
  <2> HIDE DEF own
  <2>1. P \in [Ids -> ObjType] /\ P[o] = own /\ \A p \in Ids : p # o => P[p] = x.obj[p]
    BY <1>7, <1>9, SetObj
  <2> HIDE DEF P
  <2>2. \A p \in Ids : P[p].where # "none" => P[p].quan >= 1
    BY <1>3, <1>4, <1>9, <2>1, GoodIs
  <2>3. \A p \in Ids : P[p] = x.obj[p] \/ (~Named(x.bill, p) /\ Clear(P[p]))
    BY <1>9, <1>11, <2>1
  <2>4. Fit(P, x.bill, x.owed, s)
    BY <1>7, <2>1, <2>2, <2>3, FitGoods
  <2> QED
    BY <2>1, <2>4
<1>16. ASSUME w' = [x EXCEPT !.obj = G]
       PROVE  Good(w', inside)
  <2> HIDE DEF P
  <2>1. G \in [Ids -> ObjType] /\ G[dummy] = NoObj /\ \A p \in Ids : p # dummy => G[p] = P[p]
    BY <1>6, <1>15, NoObjIs, SetObj
  <2> HIDE DEF G
  <2> DEFINE v == w'
  <2>2. v = [x EXCEPT !.obj = G]
    BY <1>16
  <2> HIDE DEF v
  <2>3. Kept(x, v) /\ v.obj = G /\ v.bill = x.bill /\ v.owed = x.owed
    BY <1>7, <2>1, <2>2, ObjAny DEF World, Kept
  <2>4. \A p \in Ids : P[p].where # "none" => P[p].quan >= 1
    BY <1>15 DEF Fit, GoodsOK
  <2>5. \A p \in Ids : G[p].where # "none" => G[p].quan >= 1
    BY <2>1, <2>4, NoObjIs
  <2>6. \A p \in Ids : G[p] = P[p] \/ (~Named(x.bill, p) /\ Clear(G[p]))
    BY <1>6, <2>1, NoObjIs
  <2>7. Fit(G, x.bill, x.owed, s)
    BY <1>15, <2>1, <2>5, <2>6, FitGoods
  <2>8. Good(v, inside)
    BY <1>3, <2>3, <2>7, GoodKept
  <2> QED
    BY <2>8 DEF v
<1>17. CASE ~Tended(t) \/ Full(t)
  <2>1. y = t
    BY <1>14, <1>17
  <2>2. w' = [z EXCEPT !.obj[dummy] = NoObj]
    <3>1. z.obj[dummy].where = "free"
      BY <1>6, <1>8, <1>12, <2>1 DEF World
    <3> QED
      BY <1>1, <3>1
  <2>3. w' = [x EXCEPT !.obj = G]
    <3>1. w' = [x EXCEPT !.obj = [[[x.obj EXCEPT ![dummy] = free] EXCEPT ![o].nc = TRUE]
                                    EXCEPT ![dummy] = NoObj]]
      <4> HIDE DEF free
      <4> QED
        BY <1>7, <2>1, <2>2 DEF World
    <3> QED
      BY <1>6, <1>7, <3>1 DEF r
  <2> QED
    BY <1>1, <1>16, <2>3
<1>18. CASE ~(~Tended(t) \/ Full(t)) /\ free.nc
  <2>1. y = [t EXCEPT !.obj[dummy].nc = FALSE]
    BY <1>14, <1>18
  <2>2. y = [x EXCEPT !.obj[dummy] = [free EXCEPT !.nc = FALSE]]
    BY <1>6, <1>7, <2>1 DEF World
  <2>3. w' = [z EXCEPT !.obj[dummy] = NoObj]
    <3> HIDE DEF free
    <3>1. z.obj[dummy].where = "free"
      BY <1>6, <1>7, <1>8, <2>2 DEF World
    <3> QED
      BY <1>1, <3>1
  <2>4. w' = [x EXCEPT !.obj = G]
    <3> DEFINE f == [free EXCEPT !.nc = FALSE]
    <3>1. w' = [x EXCEPT !.obj = [[[x.obj EXCEPT ![dummy] = f] EXCEPT ![o].nc = TRUE]
                                    EXCEPT ![dummy] = NoObj]]
      <4>1. y = [x EXCEPT !.obj[dummy] = f]
        BY <2>2
      <4> HIDE DEF free, f
      <4> QED
        BY <1>7, <2>3, <4>1 DEF World
    <3> HIDE DEF free, f
    <3> QED
      BY <1>6, <1>7, <3>1 DEF r
  <2> QED
    BY <1>1, <1>16, <2>4
<1>19. CASE ~(~Tended(t) \/ Full(t)) /\ ~free.nc
  <2> DEFINE B == Append(x.bill, e)
             W == x.owed + r.quan
             v == w'
  <2>1. y = [t EXCEPT !.bill = Append(@, e), !.obj[dummy].unpaid = TRUE,
                      !.obj[dummy].where = "onbill", !.owed = @ + r.quan]
    BY <1>14, <1>19
  <2>2. e \in EntryType /\ e.id = dummy /\ e.quan = r.quan /\ e.useup /\ PriceOK(e.price, s)
    <3>1. Price(x, dummy) \in Nat \ {0} /\ PriceOK(Price(x, dummy), s)
      BY <1>3, <1>6, PriceIs
    <3>2. Price(t, dummy) = Price(x, dummy)
      BY <1>12 DEF Price
    <3> QED
      BY <1>4, <1>6, <3>1, <3>2 DEF EntryType
  <2> HIDE DEF e
  <2>3. y = [x EXCEPT !.obj = [x.obj EXCEPT ![dummy] = d], !.bill = B, !.owed = W]
    <3>1. [free EXCEPT !.unpaid = TRUE, !.where = "onbill"] = d
      BY <1>4 DEF ObjType
    <3>2. y = [x EXCEPT !.obj[dummy] = [free EXCEPT !.unpaid = TRUE, !.where = "onbill"],
                        !.bill = B, !.owed = W]
      <4>1. t.bill = x.bill /\ t.owed = x.owed /\ t.obj = [x.obj EXCEPT ![dummy] = free]
        BY <1>7 DEF World
      <4>2. y = [t EXCEPT !.bill = B, !.owed = W,
                          !.obj = [t.obj EXCEPT ![dummy].unpaid = TRUE, ![dummy].where = "onbill"]]
        <5>1. t \in World
          BY <1>12
        <5> HIDE DEF t, free
        <5> DEFINE n == r.quan
        <5> HIDE DEF n
        <5>2. y = [t EXCEPT !.bill = Append(@, e), !.obj[dummy].unpaid = TRUE,
                            !.obj[dummy].where = "onbill", !.owed = @ + n]
          BY <2>1 DEF n
        <5>3. y = [t EXCEPT !.bill = Append(t.bill, e), !.owed = t.owed + n,
                            !.obj = [t.obj EXCEPT ![dummy].unpaid = TRUE,
                                                  ![dummy].where = "onbill"]]
          BY <1>6, <5>1, <5>2 DEF World, AnyObj
        <5> QED
          BY <4>1, <5>3 DEF n
      <4>3. [t.obj EXCEPT ![dummy].unpaid = TRUE, ![dummy].where = "onbill"]
              = [x.obj EXCEPT ![dummy] = [free EXCEPT !.unpaid = TRUE, !.where = "onbill"]]
        <5> HIDE DEF t, free
        <5> QED
          BY <1>6, <1>7, <4>1
      <4> HIDE DEF B, W, free
      <4> QED
        BY <1>7, <4>2, <4>3 DEF World
    <3> HIDE DEF free, d, B, W
    <3> QED
      BY <1>7, <3>1, <3>2 DEF World
  <2> HIDE DEF B, W, d, free
  <2>4. z.obj[dummy].where = "onbill"
    BY <1>6, <1>7, <1>10, <2>3 DEF World
  <2>5. v = z
    BY <1>1, <2>4
  <2>6. v = [x EXCEPT !.obj = H, !.bill = B, !.owed = W]
    <3>1. v = [x EXCEPT !.obj = [[x.obj EXCEPT ![dummy] = d] EXCEPT ![o].nc = TRUE],
                        !.bill = B, !.owed = W]
      <4> HIDE DEF v
      <4> QED
        BY <1>7, <2>3, <2>5 DEF World
    <3>2. [[x.obj EXCEPT ![dummy] = d] EXCEPT ![o].nc = TRUE] = H
      BY <1>6, <1>7 DEF r
    <3> QED
      BY <3>1, <3>2
  <2> HIDE DEF P, v
  <2>7. H \in [Ids -> ObjType] /\ H[dummy] = d /\ \A p \in Ids : p # dummy => H[p] = P[p]
    BY <1>6, <1>10, <1>15, SetObj
  <2> HIDE DEF H
  <2>8. B \in Seq(EntryType) /\ W \in Int
    BY <1>4, <1>7, <2>2 DEF B, W
  <2>9. Kept(x, v) /\ v.obj = H /\ v.bill = B /\ v.owed = W
    BY <1>7, <2>6, <2>7, <2>8, ObjAny DEF World, Kept
  <2>10. Tended(x) /\ Len(x.bill) < BILLSZ
    <3>1. Tended(x) /\ Len(x.bill) # BILLSZ
      BY <1>12, <1>19 DEF Tended, Full
    <3>2. Len(x.bill) <= BILLSZ /\ BILLSZ \in Nat
      BY <1>7, ShopAssumption DEF Fit
    <3> QED
      BY <1>7, <3>1, <3>2
  <2>11. EntryOK(H[e.id], e) /\ H[e.id].quan >= 1
    BY <1>4, <1>10, <2>2, <2>7 DEF EntryOK
  <2>12. \A p \in Ids : p # e.id => H[p] = P[p]
    BY <2>2, <2>7
  <2>13. Fit(H, Append(x.bill, e), x.owed + e.quan, s)
    <3>1. ~Named(x.bill, e.id) /\ H \in [Ids -> ObjType] /\ Fit(P, x.bill, x.owed, s)
      BY <1>6, <1>15, <2>2, <2>7
    <3> QED
      BY <2>2, <2>10, <2>11, <2>12, <3>1, FitAppend, ZenonT(60)
  <2>14. Fit(v.obj, v.bill, v.owed, s)
    BY <2>2, <2>9, <2>13 DEF B, W
  <2>15. Good(v, inside)
    BY <1>1, <1>3, <2>9, <2>10, <2>14, GoodKept
  <2> QED
    BY <1>1, <2>15 DEF v
<1> QED
  BY <1>17, <1>18, <1>19

-----------------------------------------------------------------------------
\* The hero comes and goes, and so does the shopkeeper

LEMMA GoodEmpty ==
  ASSUME NEW v, NEW in, Good(v, in), Len(v.bill) = 0, v.shk.debit = 0, NEW in2
  PROVE  Good(v, in2)
BY DEF Good, Closed

LEMMA LeaveKeeps ==
  ASSUME Good(w, inside), Leave
  PROVE  Good(w', inside')
<1>1. w' = IF Tended(w) /\ (w.bill # << >> \/ w.shk.debit > 0) THEN Rob(w) ELSE w
  BY DEF Leave
<1>2. w.bill \in Seq(EntryType) /\ w.shk.debit \in Nat
  BY GoodIs, ShkIs
<1>3. CASE Tended(w) /\ (w.bill # << >> \/ w.shk.debit > 0)
  <2>1. w' = Rob(w)
    BY <1>1, <1>3
  <2>2. Good(Rob(w), inside')
    BY RobIs
  <2> QED
    BY <2>1, <2>2
<1>4. CASE ~(Tended(w) /\ (w.bill # << >> \/ w.shk.debit > 0))
  <2>1. w' = w
    BY <1>1, <1>4
  <2>2. Len(w.bill) = 0 /\ w.shk.debit = 0
    BY <1>2, <1>4 DEF Good, Closed
  <2>3. Good(w, inside')
    BY <2>2, GoodEmpty
  <2> QED
    BY <2>1, <2>3
<1> QED
  BY <1>3, <1>4

LEMMA EnterKeeps ==
  ASSUME Good(w, inside), Enter
  PROVE  Good(w', inside')
<1> DEFINE t == ~Tended(w)
           s == [w.shk EXCEPT !.inactive = t]
           x == [w EXCEPT !.shk.inactive = t]
<1>1. ~inside /\ w' = x /\ t \in BOOLEAN
  BY DEF Enter, Tended
<1>2. Len(w.bill) = 0 /\ w.shk.debit = 0 /\ w \in World /\ w.shk \in ShkType
  BY <1>1, GoodIs DEF Good, Closed
<1>3. w.shk.angry = w.shk.surcharge \/ t
  BY DEF Good, Books
<1>4. Tended(w) => ~t
  OBVIOUS
<1> HIDE DEF t
<1>5. /\ s \in ShkType /\ s.st = w.shk.st /\ s.angry = w.shk.angry /\ s.inactive = t
      /\ s.surcharge = w.shk.surcharge /\ s.debit = w.shk.debit /\ s.loan = w.shk.loan
  BY <1>1, <1>2 DEF ShkType
<1>6. x = [w EXCEPT !.shk = s]
  BY <1>2 DEF World
<1> HIDE DEF s, x
<1>7. x \in World /\ x.obj = w.obj /\ x.owed = w.owed /\ x.bill = w.bill /\ x.shk = s
  BY <1>2, <1>5, <1>6, ShkOnly
<1>8. Good(x, inside')
  BY <1>2, <1>3, <1>4, <1>5, <1>7 DEF Good, Books, Closed, Tended
<1> QED
  BY <1>1, <1>8

\* Other code changes his mood.
LEMMA AngryIs ==
  ASSUME NEW v, NEW in, Good(v, in), NEW t \in BOOLEAN
  PROVE  Good(ShopKeeper([v EXCEPT !.shk.angry = t]), in)
<1> DEFINE s == [v.shk EXCEPT !.angry = t]
           x == [v EXCEPT !.shk.angry = t]
<1>1. v \in World /\ v.shk \in ShkType
  BY GoodIs
<1>2. /\ s \in ShkType /\ s.st = v.shk.st /\ s.surcharge = v.shk.surcharge
      /\ s.inactive = v.shk.inactive /\ s.debit = v.shk.debit /\ s.loan = v.shk.loan
  BY <1>1 DEF ShkType
<1>3. x = [v EXCEPT !.shk = s]
  BY <1>1 DEF World
<1> HIDE DEF s, x
<1>4. x \in World /\ x.obj = v.obj /\ x.owed = v.owed /\ x.bill = v.bill /\ x.shk = s
  BY <1>1, <1>2, <1>3, ShkOnly
<1>5. Moody(x, in)
  BY <1>2, <1>4 DEF Good, Books, Moody, Closed, Tended
<1> QED
  BY <1>5, ShopKeeperIs DEF x

LEMMA AttackKeeps ==
  ASSUME Good(w, inside), Attack \/ Calm
  PROVE  Good(w', inside')
<1> DEFINE x(t) == [w EXCEPT !.shk.angry = t]
<1>1. inside' = inside /\ \E t \in BOOLEAN : w' = ShopKeeper(x(t))
  BY DEF Attack, Calm
<1>2. \A t \in BOOLEAN : Good(ShopKeeper(x(t)), inside)
  BY AngryIs
<1> QED
  BY <1>1, <1>2

LEMMA TameKeeps ==
  ASSUME Good(w, inside), Tame
  PROVE  Good(w', inside')
BY MakeHappyIs DEF Tame

\* He is elsewhere; there is nothing on the bill.
LEMMA PlaceIs ==
  ASSUME NEW v, NEW in, Good(v, in), Len(v.bill) = 0, v.shk.debit = 0,
         NEW st \in {"away", "dead"}, NEW x, x = [v EXCEPT !.shk.st = st]
  PROVE  Good(x, in)
<1> DEFINE s == [v.shk EXCEPT !.st = st]
<1>1. v \in World /\ v.shk \in ShkType
  BY GoodIs
<1>2. /\ s \in ShkType /\ s.st = st /\ s.angry = v.shk.angry
      /\ s.surcharge = v.shk.surcharge /\ s.inactive = v.shk.inactive /\ s.debit = v.shk.debit /\ s.loan = v.shk.loan
  BY <1>1 DEF ShkType
<1>3. x = [v EXCEPT !.shk = s]
  BY <1>1 DEF World
<1> HIDE DEF s
<1>4. x \in World /\ x.obj = v.obj /\ x.owed = v.owed /\ x.bill = v.bill /\ x.shk = s
  BY <1>1, <1>2, <1>3 DEF World
<1> QED
  BY <1>2, <1>4 DEF Good, Books, Closed, Tended

LEMMA PursueKeeps ==
  ASSUME Good(w, inside), Pursue
  PROVE  Good(w', inside')
<1> DEFINE x == [w EXCEPT !.shk.st = "away"]
<1>1. ~inside /\ w' = x /\ inside' = inside
  BY DEF Pursue
<1>2. Len(w.bill) = 0 /\ w.shk.debit = 0
  BY <1>1 DEF Good, Closed
<1>3. Good(x, inside)
  BY <1>2, PlaceIs
<1> QED
  BY <1>1, <1>3

LEMMA SendAwayKeeps ==
  ASSUME Good(w, inside), SendAway
  PROVE  Good(w', inside')
<1> DEFINE s == w.shk
           n == s.robbed + SumOver(w) + s.debit + s.loan - s.credit
           due == Max({0, n})
           set == w.bill # << >> \/ s.debit > 0 \/ s.loan > 0 \/ s.credit > 0
           x == [SetPaid(w) EXCEPT !.shk.robbed = due]
           y == IF set THEN x ELSE w
           z == [y EXCEPT !.shk.st = "away"]
<1>1. inside' = inside /\ w' = Rile(z)
  BY DEF SendAway
<1>2. s \in ShkType /\ w.bill \in Seq(EntryType) /\ s.debit \in Nat
  BY GoodIs, ShkIs
<1>3. due \in Nat
  <2>1. n \in Int
    <3>1. SumOver(w) \in Nat
      BY SumOverIs
    <3> QED
      BY <1>2, <3>1, ShkIs
  <2> HIDE DEF n
  <2> QED
    BY <2>1, MaxZero
<1> HIDE DEF due
<1>4. Good(x, inside) /\ Len(x.bill) = 0 /\ x.shk.debit = 0
  <2> DEFINE v == SetPaid(w)
             t == [v.shk EXCEPT !.robbed = due]
  <2>1. Good(v, inside) /\ Len(v.bill) = 0
        /\ v.shk = [w.shk EXCEPT !.credit = 0, !.debit = 0, !.loan = 0]
    BY SetPaidIs
  <2>2. v.shk.debit = 0 /\ v.shk.loan = 0 /\ v.shk \in ShkType /\ v \in World
    BY <1>2, <2>1, GoodIs DEF ShkType
  <2> HIDE DEF v
  <2>3. /\ t \in ShkType /\ t.st = v.shk.st /\ t.angry = v.shk.angry
        /\ t.surcharge = v.shk.surcharge /\ t.inactive = v.shk.inactive /\ t.debit = 0 /\ t.loan = 0
    BY <1>3, <2>2 DEF ShkType
  <2>4. x = [v EXCEPT !.shk = t]
    BY <2>2 DEF World, v
  <2> HIDE DEF t, x
  <2>5. t.loan <= t.debit
    BY <2>3
  <2>6. Good(x, inside) /\ SameBill(v, x) /\ x.shk = t
    BY <2>1, <2>3, <2>4, <2>5, ShkGood, ZenonT(60)
  <2> QED
    BY <2>1, <2>3, <2>6 DEF SameBill
<1> HIDE DEF x
<1>5. Good(y, inside) /\ Len(y.bill) = 0 /\ y.shk.debit = 0
  <2>1. CASE set
    BY <1>4, <2>1
  <2>2. CASE ~set
    <3>1. Len(w.bill) = 0 /\ w.shk.debit = 0
      BY <1>2, <2>2
    <3> QED
      BY <2>2, <3>1
  <2> QED
    BY <2>1, <2>2
<1> HIDE DEF y
<1>6. z = [y EXCEPT !.shk.st = "away"]
  OBVIOUS
<1> HIDE DEF z
<1>7. Good(z, inside)
  BY <1>5, <1>6, PlaceIs
<1>8. Good(Rile(z), inside)
  BY <1>7, RileIs
<1> QED
  BY <1>1, <1>8

LEMMA ComeHomeKeeps ==
  ASSUME Good(w, inside), ComeHome
  PROVE  Good(w', inside')
<1>1. Good(ShopKeeper(Home(w)), inside)
  BY HomeIs, ShopKeeperIs
<1> QED
  BY <1>1 DEF ComeHome

LEMMA DieKeeps ==
  ASSUME Good(w, inside), Die
  PROVE  Good(w', inside')
<1> DEFINE O == [o \in Ids |-> IF w.obj[o].where = "shelf" THEN [w.obj[o] EXCEPT !.nc = FALSE]
                               ELSE w.obj[o]]
           x == [w EXCEPT !.obj = O]
           y == IF inside /\ ~w.shk.inactive THEN SetPaid(x) ELSE x
           z == [y EXCEPT !.shk.st = "dead"]
<1>1. inside' = inside /\ w' = z
  BY DEF Die
<1>2. /\ w \in World /\ w.obj \in [Ids -> ObjType] /\ w.shk \in ShkType
      /\ Fit(w.obj, w.bill, w.owed, w.shk.surcharge)
  BY GoodIs
<1>3. ASSUME NEW o \in Ids
      PROVE  /\ O[o] \in ObjType /\ O[o].where = w.obj[o].where /\ O[o].quan = w.obj[o].quan
             /\ O[o].unpaid = w.obj[o].unpaid
  <2>1. w.obj[o] \in ObjType
    BY GoodIs
  <2> QED
    BY <2>1, ObjIs
<1>4. O \in [Ids -> ObjType]
  BY <1>3
<1> HIDE DEF O
<1>5. Kept(w, x) /\ x.obj = O /\ x.bill = w.bill /\ x.owed = w.owed
  BY <1>2, <1>4, ObjAny DEF World, Kept
<1> HIDE DEF x
<1>6. \A o \in Ids : O[o].where # "none" => O[o].quan >= 1
  BY <1>3, GoodIs
<1>7. GoodsOK(O, w.bill)
  <2>1. GoodsOK(w.obj, w.bill) /\ \A i \in 1 .. Len(w.bill) : w.bill[i].id \in Ids
    BY <1>2, BillIs DEF Fit
  <2>2. \A i \in 1 .. Len(w.bill) : EntryOK(O[w.bill[i].id], w.bill[i])
    BY <1>3, <2>1 DEF GoodsOK, EntryOK
  <2>3. \A o \in Ids : ~Named(w.bill, o) => Clear(O[o])
    BY <1>3, <2>1 DEF GoodsOK, Clear
  <2> QED
    BY <1>6, <2>1, <2>2, <2>3 DEF GoodsOK
<1>8. Fit(x.obj, x.bill, x.owed, w.shk.surcharge)
  BY <1>2, <1>4, <1>5, <1>7 DEF Fit
<1>9. Good(x, inside)
  BY <1>5, <1>8, GoodKept
<1>10. Good(y, inside) /\ Len(y.bill) = 0 /\ y.shk.debit = 0
  <2>1. CASE inside /\ ~w.shk.inactive
    <3>1. /\ Good(SetPaid(x), inside) /\ Len(SetPaid(x).bill) = 0
          /\ SetPaid(x).shk = [x.shk EXCEPT !.credit = 0, !.debit = 0, !.loan = 0]
      BY <1>9, SetPaidIs
    <3>2. SetPaid(x).shk.debit = 0
      BY <1>2, <1>5, <3>1 DEF ShkType, Kept
    <3> QED
      BY <2>1, <3>1, <3>2
  <2>2. CASE ~(inside /\ ~w.shk.inactive)
    BY <1>5, <1>9, <2>2 DEF Good, Books, Closed, Kept
  <2> QED
    BY <2>1, <2>2
<1> HIDE DEF y
<1>11. z = [y EXCEPT !.shk.st = "dead"]
  OBVIOUS
<1> HIDE DEF z
<1>12. Good(z, inside)
  BY <1>10, <1>11, PlaceIs
<1> QED
  BY <1>1, <1>12

-----------------------------------------------------------------------------
\* Paying

\* The hero has the money that he is to pay.
LEMMA PaySumIs ==
  ASSUME NEW v, NEW in, Good(v, in), NEW sum \in Nat, v.purse + v.shk.credit >= sum
  PROVE  /\ Good(Pay(v, sum), in) /\ SameBill(v, Pay(v, sum))
         /\ Pay(v, sum).shk.debit = v.shk.debit /\ Pay(v, sum).shk.loan = v.shk.loan
<1>1. v.shk.gold \in Nat
  BY GoodIs, ShkIs
<1>2. sum \in Int /\ (sum <= 0 => v.shk.gold + sum >= 0)
  BY <1>1
<1> QED
  BY <1>2, PayIs

LEMMA SettleIs ==
  ASSUME NEW v, NEW in, Good(v, in), v.purse + v.shk.credit >= v.shk.debit
  PROVE  Good(Settle(v), in) /\ SameBill(v, Settle(v))
<1> DEFINE u == [v EXCEPT !.shk.robbed = 0]
           sum == v.shk.debit
           x == Pay(u, sum)
           s == [x.shk EXCEPT !.debit = 0, !.loan = 0, !.robbed = v.shk.robbed]
           z == [x EXCEPT !.shk.debit = 0, !.shk.loan = 0, !.shk.robbed = v.shk.robbed]
<1>1. Settle(v) = IF v.shk.debit = 0 THEN v ELSE z
  BY DEF Settle
<1>2. v \in World /\ v.shk \in ShkType /\ sum \in Nat /\ v.shk.robbed \in Nat
  BY GoodIs, ShkIs
<1>3. Good(u, in) /\ SameBill(v, u) /\ u.purse = v.purse /\ u.shk.credit = v.shk.credit
  <2>1. Good(u, in) /\ SameBill(v, u) /\ SameGoods(v, u)
        /\ u.shk = [v.shk EXCEPT !.robbed = 0]
    BY RobbedZero
  <2> HIDE DEF u
  <2>2. u.shk.credit = v.shk.credit
    BY <1>2, <2>1 DEF ShkType
  <2> QED
    BY <2>1, <2>2 DEF SameGoods
<1> HIDE DEF u
<1>4. Good(x, in) /\ SameBill(u, x)
  <2>1. u.purse + u.shk.credit >= sum
    BY <1>3
  <2> HIDE DEF sum
  <2> QED
    BY <1>2, <1>3, <2>1, PaySumIs
<1> HIDE DEF x
<1>5. x \in World /\ x.shk \in ShkType
  BY <1>4, GoodIs
<1>6. /\ s \in ShkType /\ s.st = x.shk.st /\ s.angry = x.shk.angry
      /\ s.surcharge = x.shk.surcharge /\ s.inactive = x.shk.inactive /\ s.debit = 0 /\ s.loan = 0
  BY <1>2, <1>5 DEF ShkType
<1>7. z = [x EXCEPT !.shk = s]
  BY <1>5 DEF World
<1> HIDE DEF s, z
<1>8. s.loan <= s.debit
  BY <1>6
<1>9. Good(z, in) /\ SameBill(x, z)
  BY <1>4, <1>6, <1>7, <1>8, ShkGood, ZenonT(60)
<1>10. SameBill(v, z)
  BY <1>3, <1>4, <1>9 DEF SameBill
<1> QED
  BY <1>1, <1>2, <1>9, <1>10 DEF SameBill

LEMMA PayLossesKeeps ==
  ASSUME Good(w, inside), PayLosses
  PROVE  Good(w', inside')
<1> DEFINE robbed == w.shk.robbed
           sum == Min({w.purse, robbed})
           paid == Pay(w, sum)
           x == Pay(w, Appease)
<1>1. /\ inside' = inside
      /\ \/ w' = w \/ w' = paid \/ w' = MakeHappy(paid)
         \/ w.purse >= Appease /\ (w' = x \/ w' = MakeHappy(x))
  BY DEF PayLosses
<1>2. w.purse \in Nat /\ w.shk.credit \in Nat /\ robbed \in Nat /\ Appease \in Nat
  BY GoodIs, ShkIs, ShopAssumption
<1>3. Good(paid, inside)
  <2> DEFINE p == w.purse
  <2>1. p \in Nat /\ robbed \in Nat /\ p \in Int /\ robbed \in Int
    BY <1>2
  <2> HIDE DEF p, robbed
  <2>2. Min({p, robbed}) \in {p, robbed} /\ Min({p, robbed}) <= p
    BY <2>1, MinTwo
  <2>3. Min({p, robbed}) \in Nat
    BY <2>1, <2>2
  <2>4. sum \in Nat /\ sum <= w.purse
    BY <2>2, <2>3 DEF p
  <2> HIDE DEF sum
  <2>5. w.purse + w.shk.credit >= sum
    BY <1>2, <2>4
  <2> QED
    BY <2>4, <2>5, PaySumIs
<1>4. ASSUME w.purse >= Appease
      PROVE  Good(x, inside)
  <2>1. w.purse + w.shk.credit >= Appease
    BY <1>2, <1>4
  <2> QED
    BY <1>2, <2>1, PaySumIs
<1> HIDE DEF paid, x
<1>5. Good(MakeHappy(paid), inside)
  BY <1>3, MakeHappyIs
<1>6. ASSUME w.purse >= Appease
      PROVE  Good(MakeHappy(x), inside)
  BY <1>4, <1>6, MakeHappyIs
<1> QED
  BY <1>1, <1>3, <1>4, <1>5, <1>6

LEMMA PayBillKeeps ==
  ASSUME Good(w, inside), PayBill
  PROVE  Good(w', inside')
<1>1. w.purse + w.shk.credit >= w.shk.debit /\ w' = Settle(w) /\ inside' = inside
  BY DEF PayBill
<1> QED
  BY <1>1, SettleIs

-----------------------------------------------------------------------------
\* The loop of dopay

\* Entry i is as large as the object that it names.  An entry that is not
\* itemized is paid in two parts, and the loop goes on to the second pass only
\* when this holds of every entry; otherwise the pass would strike off more than
\* it was paid for.
Whole(v, i) == v.bill[i].useup \/ v.obj[v.bill[i].id].quan = v.bill[i].quan
AllWhole(v, pass, i) == \A k \in 1 .. Len(v.bill) : (pass = 1 \/ k < i) => Whole(v, k)

AtType == [on : BOOLEAN, pass : 0 .. 1, i : Nat, itemize : BOOLEAN, one : Ids \cup {0}]
LoopOK(v, a) ==
  a.on => a.i >= 1 /\ (~a.itemize => a.one = 0 /\ AllWhole(v, a.pass, a.i))

ShopInv == Good(w, inside) /\ inside \in BOOLEAN /\ at \in AtType /\ LoopOK(w, at)

\* Entry i is struck off, and its object becomes r.
Bought(v, i, r) ==
  [v EXCEPT !.obj = [v.obj EXCEPT ![v.bill[i].id] = r], !.bill = Struck(v.bill, i),
            !.owed = v.owed - v.bill[i].quan]

LEMMA BoughtIs ==
  ASSUME NEW v, NEW in, Good(v, in), NEW i \in 1 .. Len(v.bill), NEW r \in ObjType,
         Clear(r), r.where # "none" => r.quan >= 1
  PROVE  LET x == Bought(v, i, r)
         IN /\ Good(x, in) /\ Len(x.bill) = Len(v.bill) - 1
            /\ \A p \in Ids : p # v.bill[i].id => x.obj[p] = v.obj[p]
            /\ x.bill = Struck(v.bill, i)
<1> DEFINE x == Bought(v, i, r)
           o == v.bill[i].id
           O == [v.obj EXCEPT ![o] = r]
           B == Struck(v.bill, i)
           W == v.owed - v.bill[i].quan
<1>1. /\ v \in World /\ v.obj \in [Ids -> ObjType] /\ v.bill \in Seq(EntryType)
      /\ v.owed \in Int /\ Fit(v.obj, v.bill, v.owed, v.shk.surcharge) /\ Len(v.bill) \in Nat
  BY GoodIs
<1>2. o \in Ids /\ v.bill[i].quan \in Nat
  BY <1>1, BillIs
<1>3. x = [v EXCEPT !.obj = O, !.bill = B, !.owed = W]
  BY DEF Bought
<1>4. B \in Seq(EntryType) /\ W \in Int /\ Len(B) = Len(v.bill) - 1
  <2>1. B \in Seq(EntryType) /\ Len(B) = Len(v.bill) - 1
    BY <1>1, StruckIs
  <2> QED
    BY <1>1, <1>2, <2>1
<1>5. O \in [Ids -> ObjType] /\ O[o] = r /\ \A p \in Ids : p # o => O[p] = v.obj[p]
  BY <1>1, <1>2, SetObj
<1> HIDE DEF O, x, B, W
<1>6. Kept(v, x) /\ x.obj = O /\ x.bill = B /\ x.owed = W
  BY <1>1, <1>3, <1>4, <1>5, ObjAny DEF World, Kept
<1>7. Fit(O, Struck(v.bill, i), v.owed - v.bill[i].quan, v.shk.surcharge)
  BY <1>1, <1>5, FitStruck
<1>8. Fit(x.obj, x.bill, x.owed, v.shk.surcharge)
  BY <1>6, <1>7 DEF B, W
<1>9. Good(x, in)
  BY <1>1, <1>6, <1>8, GoodKept
<1> QED
  BY <1>4, <1>5, <1>6, <1>9 DEF x, B

\* Entry i becomes f, for the same object.
Instead(v, i, f) ==
  [v EXCEPT !.bill = [v.bill EXCEPT ![i] = f], !.owed = v.owed - v.bill[i].quan + f.quan]

LEMMA InsteadIs ==
  ASSUME NEW v, NEW in, Good(v, in), NEW i \in 1 .. Len(v.bill), NEW f \in EntryType,
         f.id = v.bill[i].id, f.price = v.bill[i].price, EntryOK(v.obj[f.id], f)
  PROVE  LET x == Instead(v, i, f)
         IN /\ Good(x, in) /\ x.obj = v.obj /\ Len(x.bill) = Len(v.bill) /\ x.bill[i] = f
            /\ \A k \in 1 .. Len(v.bill) : k # i => x.bill[k] = v.bill[k]
<1> DEFINE x == Instead(v, i, f)
           B == [v.bill EXCEPT ![i] = f]
           W == v.owed - v.bill[i].quan + f.quan
<1>1. /\ v \in World /\ v.obj \in [Ids -> ObjType] /\ v.bill \in Seq(EntryType)
      /\ v.owed \in Int /\ Fit(v.obj, v.bill, v.owed, v.shk.surcharge) /\ Len(v.bill) \in Nat
  BY GoodIs
<1>2. f.id \in Ids /\ v.bill[i].quan \in Nat /\ f.quan \in Nat
  BY <1>1, BillIs DEF EntryType
<1>3. x = [v EXCEPT !.bill = B, !.owed = W]
  BY DEF Instead
<1>4. B \in Seq(EntryType) /\ W \in Int /\ Len(B) = Len(v.bill) /\ B[i] = f
      /\ \A k \in 1 .. Len(v.bill) : k # i => B[k] = v.bill[k]
  BY <1>1, <1>2
<1>5. PriceOK(f.price, v.shk.surcharge)
  BY <1>1 DEF Fit
<1>6. v.obj[f.id].quan >= 1
  <2>1. Named(v.bill, f.id)
    BY DEF Named
  <2> QED
    BY <1>1, <1>2, <2>1, NamedIs
<1>7. Fit(v.obj, [v.bill EXCEPT ![i] = f], v.owed - v.bill[i].quan + f.quan, v.shk.surcharge)
  BY <1>1, <1>5, <1>6, FitEntry, ZenonT(60)
<1>8. Kept(v, x) /\ x.obj = v.obj /\ x.bill = B /\ x.owed = W
  <2> HIDE DEF B, W, x
  <2> QED
    BY <1>1, <1>3, <1>4 DEF World, Kept
<1> HIDE DEF x
<1>9. Fit(x.obj, x.bill, x.owed, v.shk.surcharge)
  BY <1>7, <1>8
<1>10. Good(x, in)
  <2>1. Len(v.bill) # 0
    BY <1>1
  <2> QED
    BY <1>8, <1>9, <2>1, GoodKept
<1> QED
  BY <1>4, <1>8, <1>10 DEF x

LEMMA SumIsNat ==
  \A a, b \in Nat : a * b \in Nat
OBVIOUS

\* Entry i is struck off: what is known of the others is kept.
LEMMA BoughtWhole ==
  ASSUME NEW v, NEW in, Good(v, in), NEW i \in 1 .. Len(v.bill), NEW r \in ObjType,
         Clear(r), r.where # "none" => r.quan >= 1,
         NEW pass, AllWhole(v, pass, i)
  PROVE  AllWhole(Bought(v, i, r), pass, i)
<1> DEFINE x == Bought(v, i, r)
           n == Len(v.bill)
<1>1. /\ Len(x.bill) = n - 1 /\ x.bill = Struck(v.bill, i)
      /\ \A p \in Ids : p # v.bill[i].id => x.obj[p] = v.obj[p]
  BY BoughtIs
<1> HIDE DEF x
<1>2. /\ n \in Nat /\ v.bill \in Seq(EntryType)
      /\ \A j, k \in 1 .. n : v.bill[j].id = v.bill[k].id => j = k
  BY GoodIs DEF Fit, GoodsOK
<1>3. \A k \in 1 .. n : v.bill[k].id \in Ids
  BY <1>2, BillIs
<1>4. SUFFICES ASSUME NEW k \in 1 .. (n - 1), pass = 1 \/ k < i
               PROVE  Whole(x, k)
  BY <1>1 DEF AllWhole, x
<1>5. /\ k \in 1 .. n /\ n \in 1 .. n
      /\ k = i => x.bill[k] = v.bill[n]
      /\ k # i => x.bill[k] = v.bill[k]
  <2>1. k \in 1 .. n /\ n \in 1 .. n
    BY <1>2, <1>4
  <2>2. /\ k = i => Struck(v.bill, i)[k] = v.bill[Len(v.bill)]
        /\ k # i => Struck(v.bill, i)[k] = v.bill[k]
    BY <1>2, <1>4, StruckIs, Zenon
  <2> QED
    BY <1>1, <2>1, <2>2
<1>6. CASE k = i
  <2>1. pass = 1 /\ n # i
    BY <1>2, <1>4, <1>6
  <2>2. Whole(v, n) /\ v.bill[n].id # v.bill[i].id
    BY <1>2, <1>5, <2>1 DEF AllWhole
  <2> QED
    BY <1>1, <1>3, <1>5, <1>6, <2>2 DEF Whole
<1>7. CASE k # i
  <2>1. Whole(v, k) /\ v.bill[k].id # v.bill[i].id
    BY <1>2, <1>4, <1>5, <1>7 DEF AllWhole
  <2> QED
    BY <1>1, <1>3, <1>5, <1>7, <2>1 DEF Whole
<1> QED
  BY <1>6, <1>7

\* Entry i comes to be whole.
LEMMA InsteadWhole ==
  ASSUME NEW v, NEW in, Good(v, in), NEW i \in 1 .. Len(v.bill), NEW f \in EntryType,
         f.id = v.bill[i].id, f.price = v.bill[i].price, EntryOK(v.obj[f.id], f),
         v.obj[f.id].quan = f.quan, NEW pass, NEW j, AllWhole(v, pass, j)
  PROVE  AllWhole(Instead(v, i, f), pass, j)
<1> DEFINE x == Instead(v, i, f)
<1>1. /\ x.obj = v.obj /\ Len(x.bill) = Len(v.bill) /\ x.bill[i] = f
      /\ \A k \in 1 .. Len(v.bill) : k # i => x.bill[k] = v.bill[k]
  BY InsteadIs
<1> HIDE DEF x
<1> QED
  BY <1>1 DEF AllWhole, Whole, x

LEMMA SameWhole ==
  ASSUME NEW v, NEW x, SameBill(v, x), NEW pass, NEW i, AllWhole(v, pass, i)
  PROVE  AllWhole(x, pass, i)
BY DEF SameBill, AllWhole, Whole

\* How many pieces of entry i are to be paid for at once, and what dopayobj makes of
\* the books when they are
Due(v, i, pass) ==
  LET e == v.bill[i]
      have == v.obj[e.id].quan
  IN IF pass # 0 THEN have ELSE IF e.quan > have THEN e.quan - have ELSE e.quan
Paid(v, i, pass) ==
  [Pay(v, v.bill[i].price * Due(v, i, pass)) EXCEPT !.owed = @ - Due(v, i, pass)]

Answered(v, i, pass, itemize, r, o, e, q, sum) ==
  \/ r.v = v /\ (r.res = "stop" \/ (r.res = "skip" /\ itemize))
  \/ /\ ~(v.purse + v.shk.credit < sum)
     /\ pass = 0 /\ q < e.quan /\ r.res = "some"
     /\ r.v = [Paid(v, i, pass) EXCEPT !.bill[i].quan = v.obj[o].quan, !.bill[i].useup = FALSE]
  \/ /\ ~(v.purse + v.shk.credit < sum)
     /\ r.res = "buy"
     /\ pass = 0 => /\ ~(q < e.quan)
                    /\ r.v = [Paid(v, i, pass) EXCEPT !.obj[o] = NoObj]
     /\ pass # 0 => /\ ~(itemize /\ q < e.quan)
                    /\ r.v = [Paid(v, i, pass) EXCEPT !.obj[o].unpaid = FALSE]

LEMMA PayObjCases ==
  ASSUME NEW v, NEW i, NEW pass, NEW itemize \in BOOLEAN, NEW r \in PayObj(v, i, pass, itemize)
  PROVE  Answered(v, i, pass, itemize, r, v.bill[i].id, v.bill[i], Due(v, i, pass),
                  v.bill[i].price * Due(v, i, pass))
<1> DEFINE e == v.bill[i]
           q == Due(v, i, pass)
           m == v.purse + v.shk.credit
           x == Paid(v, i, pass)
           some == [x EXCEPT !.bill[i].quan = v.obj[e.id].quan, !.bill[i].useup = FALSE]
           used == [x EXCEPT !.obj[e.id] = NoObj]
           kept == [x EXCEPT !.obj[e.id].unpaid = FALSE]
           small == m < e.price * q
           part == q < e.quan
           none == m = 0
<1>1. r \in IF itemize /\ none THEN {[v |-> v, res |-> "stop"]}
            ELSE {[v |-> v, res |-> "skip"] : n \in IF itemize THEN {0} ELSE {}} \cup
                 (IF itemize /\ part /\ ~(pass = 0) THEN {}
                  ELSE IF small
                  THEN {[v |-> v, res |-> IF itemize THEN "skip" ELSE "stop"]}
                  ELSE IF pass = 0 /\ part
                  THEN {[v |-> some, res |-> "some"]}
                  ELSE {[v |-> IF pass = 0 THEN used ELSE kept, res |-> "buy"]})
  BY Zenon DEF PayObj, Due, Paid
<1> HIDE DEF some, used, kept, small, part, none
<1>2. \/ r.v = v /\ (r.res = "stop" \/ (r.res = "skip" /\ itemize))
      \/ ~small /\ pass = 0 /\ part /\ r.res = "some" /\ r.v = some
      \/ /\ ~small /\ r.res = "buy" /\ ~(pass = 0 /\ part) /\ ~(itemize /\ part /\ ~(pass = 0))
         /\ r.v = IF pass = 0 THEN used ELSE kept
  BY <1>1
<1> QED
  BY <1>2, Zenon DEF some, used, kept, small, part, Answered

\* The records of dopayobj, written as those of Instead and Bought
LEMMA SomeIs ==
  ASSUME NEW e \in EntryType, NEW n \in Nat, n >= 1
  PROVE  LET f == [e EXCEPT !.quan = n, !.useup = FALSE]
         IN f \in EntryType /\ f.id = e.id /\ f.price = e.price /\ f.quan = n /\ ~f.useup
<1>1. n \in Nat \ {0}
  OBVIOUS
<1> QED
  BY <1>1 DEF EntryType

SomeOf(p, i, n, W) ==
  [[p EXCEPT !.owed = W] EXCEPT !.bill[i].quan = n, !.bill[i].useup = FALSE]
SomeTo(p, i, n, W) ==
  [p EXCEPT !.bill = [p.bill EXCEPT ![i] = [p.bill[i] EXCEPT !.quan = n, !.useup = FALSE]],
            !.owed = W]

LEMMA SomeWorld ==
  ASSUME NEW p \in World, NEW i \in 1 .. Len(p.bill), NEW n, NEW W
  PROVE  SomeOf(p, i, n, W) = SomeTo(p, i, n, W)
<1>1. p.bill \in Seq(EntryType)
  BY WorldIs
<1> DEFINE b1 == [p.bill EXCEPT ![i].quan = n]
           b2 == [b1 EXCEPT ![i].useup = FALSE]
           b3 == [p.bill EXCEPT ![i] = [p.bill[i] EXCEPT !.quan = n, !.useup = FALSE]]
<1>2. b2 = b3
  BY <1>1
<1>3. SomeOf(p, i, n, W) = [[p EXCEPT !.owed = W] EXCEPT !.bill = b2]
  BY DEF World, SomeOf
<1> HIDE DEF b2, b3
<1>4. [[p EXCEPT !.owed = W] EXCEPT !.bill = b3] = [p EXCEPT !.bill = b3, !.owed = W]
  BY DEF World
<1> QED
  BY <1>2, <1>3, <1>4 DEF b3, SomeTo

BuyOf(p, i, o, k, W) == Strike([[p EXCEPT !.owed = W] EXCEPT !.obj[o] = k], i)
BuyTo(p, i, o, k, W) ==
  [p EXCEPT !.obj = [p.obj EXCEPT ![o] = k], !.bill = Struck(p.bill, i), !.owed = W]

LEMMA BoughtWorld ==
  ASSUME NEW p \in World, NEW i \in 1 .. Len(p.bill), NEW o, NEW k, NEW W
  PROVE  BuyOf(p, i, o, k, W) = BuyTo(p, i, o, k, W)
<1> DEFINE O == [p.obj EXCEPT ![o] = k]
           B == Struck(p.bill, i)
           x == [[p EXCEPT !.owed = W] EXCEPT !.obj[o] = k]
<1>1. x = [p EXCEPT !.obj = O, !.owed = W] /\ x.bill = p.bill
  BY DEF World
<1> HIDE DEF x, O
<1>2. Strike(x, i) = [x EXCEPT !.bill = B]
  BY <1>1 DEF Strike, Struck
<1> HIDE DEF B
<1>3. [x EXCEPT !.bill = B] = [p EXCEPT !.obj = O, !.bill = B, !.owed = W]
  BY <1>1 DEF World
<1> QED
  BY <1>2, <1>3, Zenon DEF x, O, B, BuyOf, BuyTo

\* What the loop makes of the answer r of dopayobj
StruckOff(i, r) == IF r.res = "buy" THEN Strike(r.v, i) ELSE r.v

LEMMA PayObjIs ==
  ASSUME NEW v, NEW in, Good(v, in), NEW i \in 1 .. Len(v.bill), NEW pass \in 0 .. 1,
         NEW itemize \in BOOLEAN,
         v.bill[i].useup => v.obj[v.bill[i].id].quan = v.bill[i].quan,
         pass = 1 => ~v.bill[i].useup,
         ~itemize => AllWhole(v, pass, i),
         NEW r \in PayObj(v, i, pass, itemize)
  PROVE  LET y == StruckOff(i, r)
         IN /\ Good(y, in)
            /\ r.res \in {"stop", "some", "buy"} \/ (r.res = "skip" /\ itemize)
            /\ ~itemize => AllWhole(y, pass, i)
<1> DEFINE y == StruckOff(i, r)
           e == v.bill[i]
           o == e.id
           have == v.obj[o].quan
           q == Due(v, i, pass)
           sum == e.price * q
           p == Pay(v, sum)
<1>1. /\ v \in World /\ v.obj \in [Ids -> ObjType] /\ v.bill \in Seq(EntryType)
      /\ v.owed \in Int /\ Fit(v.obj, v.bill, v.owed, v.shk.surcharge) /\ Len(v.bill) \in Nat
      /\ v.purse \in Nat /\ v.shk.credit \in Nat
  BY GoodIs, ShkIs
<1>2. /\ e \in EntryType /\ o \in Ids /\ e.quan \in Nat /\ e.quan >= 1 /\ e.price \in Nat
      /\ e.useup \in BOOLEAN
  BY <1>1, BillIs
<1>3. EntryOK(v.obj[o], e) /\ Named(v.bill, o)
  BY <1>1 DEF Fit, GoodsOK, Named
<1>4. v.obj[o] \in ObjType /\ have \in Nat /\ have >= 1
  BY <1>1, <1>2, <1>3, NamedIs
<1>14. /\ e.useup => have = e.quan
       /\ ~e.useup => have <= e.quan /\ v.obj[o].where \in Places /\ v.obj[o].unpaid
       /\ pass = 1 => ~e.useup
       /\ v.obj[o].quan = have
       /\ ~itemize /\ pass = 1 => have = e.quan
  BY <1>3 DEF EntryOK, AllWhole, Whole
<1>5. /\ pass = 0 \/ pass = 1
      /\ pass = 1 => q = have
      /\ pass = 0 => q = IF e.quan > have THEN e.quan - have ELSE e.quan
  BY DEF Due
<1> HIDE DEF q
<1>6. q \in Nat
  BY <1>2, <1>4, <1>5
<1>7. sum \in Nat
  BY <1>2, <1>6, SumIsNat
<1>8. Answered(v, i, pass, itemize, r, o, e, q, sum)
  BY PayObjCases, Zenon DEF q
<1>9. Paid(v, i, pass) = [p EXCEPT !.owed = p.owed - q]
  BY DEF Paid, q
<1> HIDE DEF sum, p, have
<1>10. ASSUME ~(v.purse + v.shk.credit < sum)
       PROVE  Good(p, in) /\ SameBill(v, p) /\ (~itemize => AllWhole(p, pass, i))
  <2>1. v.purse + v.shk.credit >= sum
    BY <1>1, <1>7, <1>10
  <2>2. Good(p, in) /\ SameBill(v, p)
    BY <1>7, <2>1, PaySumIs DEF p
  <2> QED
    BY <2>2, SameWhole
<1>11. CASE r.v = v /\ (r.res = "stop" \/ (r.res = "skip" /\ itemize))
  BY <1>11 DEF StruckOff
<1>12. CASE /\ ~(v.purse + v.shk.credit < sum)
            /\ pass = 0 /\ q < e.quan /\ r.res = "some"
            /\ r.v = [Paid(v, i, pass) EXCEPT !.bill[i].quan = have, !.bill[i].useup = FALSE]
  <2> DEFINE f == [e EXCEPT !.quan = have, !.useup = FALSE]
  <2>1. Good(p, in) /\ SameBill(v, p) /\ (~itemize => AllWhole(p, pass, i))
    BY <1>10, <1>12
  <2>2. p \in World /\ p.obj = v.obj /\ p.bill = v.bill /\ p.owed = v.owed
    BY <2>1 DEF SameBill
  <2>3. /\ f \in EntryType /\ f.id = o /\ f.price = e.price /\ f.quan = have /\ ~f.useup
    BY <1>2, <1>4, SomeIs, Zenon
  <2>4. ~e.useup /\ q = e.quan - have
    BY <1>2, <1>4, <1>5, <1>12, <1>14
  <2>5. p.owed - q = p.owed - e.quan + have
    <3>1. \A a, b, c \in Int : a - (b - c) = a - b + c
      OBVIOUS
    <3>2. p.owed \in Int /\ e.quan \in Int /\ have \in Int
      BY <1>1, <1>2, <1>4, <2>2
    <3> QED
      BY <2>4, <3>1, <3>2
  <2>6. r.v = [p EXCEPT !.bill = [p.bill EXCEPT ![i] = f], !.owed = p.owed - q]
    <3>1. i \in 1 .. Len(p.bill) /\ p.bill[i] = e
      BY <2>2
    <3>2. SomeOf(p, i, have, p.owed - q) = SomeTo(p, i, have, p.owed - q)
      BY <2>2, <3>1, SomeWorld, Zenon
    <3>3. r.v = SomeOf(p, i, have, p.owed - q)
      BY <1>9, <1>12, Zenon DEF SomeOf
    <3>4. SomeTo(p, i, have, p.owed - q)
          = [p EXCEPT !.bill = [p.bill EXCEPT ![i] = f], !.owed = p.owed - q]
      BY <3>1, Zenon DEF SomeTo
    <3> QED
      BY <3>2, <3>3, <3>4, Zenon
  <2> HIDE DEF f
  <2>7. r.v = Instead(p, i, f)
    BY <2>2, <2>3, <2>5, <2>6 DEF Instead
  <2>8. EntryOK(p.obj[f.id], f) /\ i \in 1 .. Len(p.bill)
    <3>1. p.obj[f.id] = v.obj[o] /\ i \in 1 .. Len(p.bill)
      BY <2>2, <2>3
    <3>2. v.obj[o].where \in Places /\ v.obj[o].unpaid /\ v.obj[o].quan = have
      BY <1>14, <2>4
    <3> QED
      BY <1>4, <2>3, <3>1, <3>2 DEF EntryOK
  <2>11. f.id = p.bill[i].id /\ f.price = p.bill[i].price /\ p.obj[f.id].quan = f.quan
    BY <1>14, <2>2, <2>3
  <2>9. Good(r.v, in)
    BY <2>1, <2>3, <2>7, <2>8, <2>11, InsteadIs
  <2>10. ~itemize => AllWhole(r.v, pass, i)
    BY <2>1, <2>3, <2>7, <2>8, <2>11, InsteadWhole
  <2> QED
    BY <1>12, <2>9, <2>10 DEF StruckOff
<1>13. CASE /\ ~(v.purse + v.shk.credit < sum)
            /\ r.res = "buy"
            /\ pass = 0 => /\ ~(q < e.quan)
                           /\ r.v = [Paid(v, i, pass) EXCEPT !.obj[o] = NoObj]
            /\ pass # 0 => /\ ~(itemize /\ q < e.quan)
                           /\ r.v = [Paid(v, i, pass) EXCEPT !.obj[o].unpaid = FALSE]
  <2>1. Good(p, in) /\ SameBill(v, p) /\ (~itemize => AllWhole(p, pass, i))
    BY <1>10, <1>13
  <2>2. /\ p \in World /\ p.obj = v.obj /\ p.bill = v.bill /\ p.owed = v.owed
        /\ p.obj \in [Ids -> ObjType]
    BY <1>1, <2>1 DEF SameBill
  <2>3. q = e.quan
    <3>1. CASE pass = 0
      BY <1>2, <1>4, <1>5, <1>13, <3>1
    <3>2. CASE pass = 1
      <4>1. ~e.useup /\ q = have /\ have <= e.quan
        BY <1>5, <1>14, <3>2
      <4>2. ASSUME ~itemize
            PROVE  have = e.quan
        BY <1>14, <3>2, <4>2
      <4>3. itemize => ~(q < e.quan)
        BY <1>13, <3>2
      <4> QED
        BY <1>2, <1>4, <4>1, <4>2, <4>3
    <3> QED
      BY <1>5, <3>1, <3>2
  <2>4. PICK k \in ObjType : /\ Clear(k) /\ (k.where # "none" => k.quan >= 1)
                             /\ r.v = [Paid(v, i, pass) EXCEPT !.obj[o] = k]
    <3>1. CASE pass = 0
      BY <1>13, <3>1, NoObjIs
    <3>2. CASE pass = 1
      <4> DEFINE k == [v.obj[o] EXCEPT !.unpaid = FALSE]
      <4>1. k \in ObjType /\ k.where = v.obj[o].where /\ k.quan = have /\ k.unpaid = FALSE
        BY <1>4, <1>14, ObjIs
      <4>2. k.where \in Places
        BY <1>14, <3>2, <4>1
      <4>3. Paid(v, i, pass).obj = v.obj
        BY <1>9, <2>2 DEF World
      <4>4. r.v = [Paid(v, i, pass) EXCEPT !.obj[o] = k]
        <5> DEFINE u == Paid(v, i, pass)
        <5>1. r.v = [u EXCEPT !.obj[o].unpaid = FALSE] /\ u.obj = v.obj
          BY <1>13, <3>2, <4>3
        <5> HIDE DEF u
        <5>2. [u EXCEPT !.obj[o].unpaid = FALSE]
              = [u EXCEPT !.obj[o] = [u.obj[o] EXCEPT !.unpaid = FALSE]]
          OBVIOUS
        <5> QED
          BY <5>1, <5>2 DEF u
      <4> HIDE DEF k
      <4>5. Clear(k)
        BY <4>1, <4>2 DEF Clear, Places
      <4> QED
        BY <1>4, <4>1, <4>4, <4>5
    <3> QED
      BY <1>5, <3>1, <3>2
  <2>5. Strike(r.v, i) = Bought(p, i, k)
    <3>1. i \in 1 .. Len(p.bill) /\ p.bill[i] = e
      BY <2>2
    <3>2. BuyOf(p, i, o, k, p.owed - q) = BuyTo(p, i, o, k, p.owed - q)
      BY <2>2, <3>1, BoughtWorld, Zenon
    <3>3. Strike(r.v, i) = BuyOf(p, i, o, k, p.owed - q)
      BY <1>9, <2>4, Zenon DEF BuyOf
    <3>4. BuyTo(p, i, o, k, p.owed - q) = Bought(p, i, k)
      BY <2>3, <3>1, Zenon DEF BuyTo, Bought
    <3> QED
      BY <3>2, <3>3, <3>4, Zenon
  <2>6. i \in 1 .. Len(p.bill)
    BY <2>2
  <2>7. Good(Bought(p, i, k), in)
    BY <2>1, <2>4, <2>6, BoughtIs
  <2>8. ~itemize => AllWhole(Bought(p, i, k), pass, i)
    BY <2>1, <2>4, <2>6, BoughtWhole
  <2> QED
    BY <1>13, <2>5, <2>7, <2>8 DEF StruckOff
<1> QED
  BY <1>8, <1>11, <1>12, <1>13, <1>14 DEF Answered

\* The object of a used up entry is as large as the entry again, whatever chain it
\* lay on.
Fresh(v, i) == IF v.bill[i].useup
               THEN Put(v, v.bill[i].id, [v.obj[v.bill[i].id] EXCEPT !.quan = v.bill[i].quan])
               ELSE v

LEMMA FreshIs ==
  ASSUME NEW v, NEW in, Good(v, in), NEW i \in 1 .. Len(v.bill)
  PROVE  LET x == Fresh(v, i)
         IN /\ Good(x, in) /\ x.bill = v.bill
            /\ x.bill[i].useup => x.obj[x.bill[i].id].quan = x.bill[i].quan
            /\ \A pass, j : AllWhole(v, pass, j) => AllWhole(x, pass, j)
<1> DEFINE x == Fresh(v, i)
           e == v.bill[i]
           o == e.id
           r == [v.obj[o] EXCEPT !.quan = e.quan]
           O == [v.obj EXCEPT ![o] = r]
<1>1. /\ v \in World /\ v.obj \in [Ids -> ObjType] /\ v.bill \in Seq(EntryType)
      /\ Fit(v.obj, v.bill, v.owed, v.shk.surcharge) /\ Len(v.bill) \in Nat
  BY GoodIs
<1>2. /\ e \in EntryType /\ o \in Ids /\ e.quan \in Nat /\ e.quan >= 1 /\ e.useup \in BOOLEAN
      /\ \A k \in 1 .. Len(v.bill) : v.bill[k].id \in Ids
  BY <1>1, BillIs
<1>3. CASE ~e.useup
  BY <1>3 DEF Fresh
<1>4. CASE e.useup
  <2>1. EntryOK(v.obj[o], e) /\ Named(v.bill, o)
        /\ \A j, k \in 1 .. Len(v.bill) : v.bill[j].id = v.bill[k].id => j = k
    BY <1>1 DEF Fit, GoodsOK, Named
  <2>2. v.obj[o].where = "onbill" /\ v.obj[o] \in ObjType
    BY <1>1, <1>2, <1>4, <2>1 DEF EntryOK
  <2>3. r \in ObjType /\ r.where = "onbill" /\ r.quan = e.quan
    BY <1>2, <2>2 DEF ObjType
  <2>4. x = [v EXCEPT !.obj = O]
    BY <1>4 DEF Fresh, Put
  <2> HIDE DEF r, x
  <2>5. O \in [Ids -> ObjType] /\ O[o] = r /\ \A p \in Ids : p # o => O[p] = v.obj[p]
    BY <1>1, <1>2, <2>3, SetObj
  <2> HIDE DEF O
  <2>6. Kept(v, x) /\ x.obj = O /\ x.bill = v.bill /\ x.owed = v.owed
    BY <1>1, <2>4, <2>5, ObjAny DEF World, Kept
  <2>7. \A p \in Ids : O[p].where # "none" => O[p].quan >= 1
    BY <1>2, <2>3, <2>5, GoodIs
  <2>8. \A k \in 1 .. Len(v.bill) : v.bill[k].id = o => k = i
    BY <2>1
  <2>9. EntryOK(O[o], e)
    BY <1>4, <2>3, <2>5 DEF EntryOK
  <2>10. Fit(O, v.bill, v.owed, v.shk.surcharge)
    <3>1. \A p \in Ids : \/ O[p] = v.obj[p]
                         \/ (~Named(v.bill, p) /\ Clear(O[p]))
                         \/ Named(v.bill, p) /\ \A k \in 1 .. Len(v.bill) :
                                                  v.bill[k].id = p => EntryOK(O[p], v.bill[k])
      BY <2>1, <2>5, <2>8, <2>9
    <3> QED
      BY <1>1, <2>5, <2>7, <3>1, FitGoods
  <2>11. Good(x, in)
    BY <2>6, <2>10, GoodKept
  <2>12. ASSUME NEW pass, NEW j, AllWhole(v, pass, j)
         PROVE  AllWhole(x, pass, j)
    <3>1. SUFFICES ASSUME NEW k \in 1 .. Len(v.bill), Whole(v, k)
                   PROVE  Whole(x, k)
      BY <2>6, <2>12 DEF AllWhole
    <3>2. CASE k = i
      BY <1>4, <2>6, <3>2 DEF Whole
    <3>3. CASE k # i
      BY <1>2, <2>5, <2>6, <2>8, <3>1, <3>3 DEF Whole
    <3> QED
      BY <3>2, <3>3
  <2>13. x.obj[o].quan = e.quan
    BY <2>3, <2>5, <2>6
  <2> QED
    BY <2>6, <2>11, <2>12, <2>13 DEF x
<1> QED
  BY <1>2, <1>3, <1>4

LEMMA AtIs ==
  ASSUME NEW a \in AtType
  PROVE  /\ a.on \in BOOLEAN /\ a.pass \in 0 .. 1 /\ a.i \in Nat /\ a.itemize \in BOOLEAN
         /\ a.one \in Ids \cup {0}
         /\ Idle \in AtType /\ ~Idle.on
         /\ LET b == [a EXCEPT !.pass = 1, !.i = 1]
            IN b \in AtType /\ b.pass = 1 /\ b.i = 1 /\ b.itemize = a.itemize /\ b.one = a.one
         /\ LET b == [a EXCEPT !.i = @ + 1]
            IN b \in AtType /\ b.pass = a.pass /\ b.i = a.i + 1 /\ b.itemize = a.itemize
               /\ b.one = a.one
<1>1. /\ a.on \in BOOLEAN /\ a.pass \in 0 .. 1 /\ a.i \in Nat /\ a.itemize \in BOOLEAN
      /\ a.one \in Ids \cup {0}
  BY DEF AtType
<1>2. Idle \in AtType /\ ~Idle.on
  BY DEF AtType, Idle
<1>3. 1 \in 0 .. 1 /\ 1 \in Nat /\ a.i + 1 \in Nat
  BY <1>1
<1> QED
  BY <1>1, <1>2, <1>3 DEF AtType

\* Whatever the loop does with an entry, one that is not itemized stays whole.
LEMMA PayStepKeeps ==
  ASSUME ShopInv, PayStep
  PROVE  Good(w', inside') /\ at' \in AtType /\ LoopOK(w', at')
<1> DEFINE i == at.i
           e == w.bill[i]
           v == Fresh(w, i)
           n == Len(w.bill)
<1>1. /\ Good(w, inside) /\ at \in AtType /\ at.on /\ i >= 1 /\ inside' = inside
      /\ ~at.itemize => at.one = 0 /\ AllWhole(w, at.pass, i)
  BY DEF ShopInv, LoopOK, PayStep
<1>2. /\ at.pass \in 0 .. 1 /\ i \in Nat /\ at.itemize \in BOOLEAN /\ n \in Nat
      /\ w.bill \in Seq(EntryType) /\ w \in World
  BY <1>1, AtIs, GoodIs
<1>3. CASE i > n
  <2>1. w' = w /\ at' = IF at.pass = 0 THEN [at EXCEPT !.pass = 1, !.i = 1] ELSE Idle
    BY <1>3 DEF PayStep
  <2>2. ASSUME ~at.itemize
        PROVE  AllWhole(w, 1, 1)
    <3>1. \A k \in 1 .. n : k < i
      BY <1>2, <1>3
    <3> QED
      BY <1>1, <2>2, <3>1 DEF AllWhole
  <2>3. CASE at.pass = 0
    <3> DEFINE b == [at EXCEPT !.pass = 1, !.i = 1]
    <3>1. b \in AtType /\ b.pass = 1 /\ b.i = 1 /\ b.itemize = at.itemize /\ b.one = at.one
      BY <1>1, AtIs
    <3>2. at' = b
      BY <2>1, <2>3
    <3> HIDE DEF b
    <3>3. LoopOK(w, b)
      BY <1>1, <2>2, <3>1 DEF LoopOK
    <3> QED
      BY <1>1, <2>1, <3>1, <3>2, <3>3
  <2>4. CASE at.pass # 0
    <3>1. at' = Idle /\ Idle \in AtType /\ ~Idle.on
      BY <1>1, <2>1, <2>4, AtIs
    <3> QED
      BY <1>1, <2>1, <3>1 DEF LoopOK
  <2> QED
    BY <2>3, <2>4
<1>4. CASE ~(i > n)
  <2> DEFINE later == (at.pass = 1) = e.useup /\ v.obj[e.id].quan = e.quan
             skip == later \/ at.one \notin {0, e.id}
  <2>1. i \in 1 .. n
    BY <1>1, <1>2, <1>4
  <2>2. e \in EntryType /\ e.id \in Ids /\ e.useup \in BOOLEAN
    BY <1>2, <2>1, BillIs
  <2>3. v = IF e.useup THEN [w EXCEPT !.obj[e.id].quan = e.quan] ELSE w
    <3>1. [w EXCEPT !.obj[e.id].quan = e.quan]
          = Put(w, e.id, [w.obj[e.id] EXCEPT !.quan = e.quan])
      BY <1>2 DEF Put, World
    <3> QED
      BY <3>1 DEF Fresh
  <2>4. /\ Good(v, inside) /\ v.bill = w.bill
        /\ v.bill[i].useup => v.obj[v.bill[i].id].quan = v.bill[i].quan
        /\ ~at.itemize => AllWhole(v, at.pass, i)
    BY <1>1, <2>1, FreshIs
  <2>5. IF skip THEN w' = v /\ at' = After("skip")
        ELSE \E r \in PayObj(v, i, at.pass, at.itemize) :
               w' = StruckOff(i, r) /\ at' = After(r.res)
    <3> HIDE DEF v
    <3> QED
      BY <1>4, <2>3 DEF PayStep, StruckOff
  <2> HIDE DEF v
  <2>6. After("skip") = [at EXCEPT !.i = @ + 1] /\ After("stop") = Idle
        /\ After("some") = at /\ After("buy") = at
    BY DEF After
  <2>7. CASE skip
    <3> DEFINE b == [at EXCEPT !.i = @ + 1]
    <3>1. b \in AtType /\ b.pass = at.pass /\ b.i = i + 1 /\ b.itemize = at.itemize
          /\ b.one = at.one
      BY <1>1, AtIs
    <3>2. w' = v /\ at' = b
      BY <2>5, <2>6, <2>7
    <3> HIDE DEF b
    <3>3. ASSUME ~at.itemize
          PROVE  AllWhole(v, at.pass, i + 1)
      <4>1. Whole(v, i)
        BY <1>1, <2>4, <2>7, <3>3 DEF Whole
      <4>2. \A k \in 1 .. n : k < i + 1 => k = i \/ k < i
        BY <1>2
      <4> QED
        BY <2>4, <3>3, <4>1, <4>2 DEF AllWhole
    <3>4. LoopOK(v, b)
      BY <1>1, <1>2, <3>1, <3>3 DEF LoopOK
    <3> QED
      BY <1>1, <2>4, <3>1, <3>2, <3>4
  <2>8. CASE ~skip
    <3>1. PICK r \in PayObj(v, i, at.pass, at.itemize) :
            w' = StruckOff(i, r) /\ at' = After(r.res)
      BY <2>5, <2>8
    <3>2. at.pass = 1 => ~v.bill[i].useup
      BY <2>2, <2>4, <2>8
    <3> DEFINE y == StruckOff(i, r)
    <3>3. i \in 1 .. Len(v.bill)
      BY <2>1, <2>4
    <3>4. /\ Good(y, inside)
          /\ r.res \in {"stop", "some", "buy"} \/ (r.res = "skip" /\ at.itemize)
          /\ ~at.itemize => AllWhole(y, at.pass, i)
      BY <1>2, <2>4, <3>2, <3>3, PayObjIs
    <3> HIDE DEF y
    <3>5. at' \in AtType /\ LoopOK(y, at')
      <4>1. CASE r.res = "stop"
        <5>1. at' = Idle /\ Idle \in AtType /\ ~Idle.on
          BY <1>1, <2>6, <3>1, <4>1, AtIs
        <5> QED
          BY <5>1 DEF LoopOK
      <4>2. CASE r.res = "some" \/ r.res = "buy"
        <5>1. at' = at
          BY <2>6, <3>1, <4>2
        <5> QED
          BY <1>1, <3>4, <5>1 DEF LoopOK
      <4>3. CASE r.res = "skip" /\ at.itemize
        <5> DEFINE b == [at EXCEPT !.i = @ + 1]
        <5>1. b \in AtType /\ b.i = i + 1 /\ b.itemize = at.itemize
          BY <1>1, AtIs
        <5>2. at' = b
          BY <2>6, <3>1, <4>3
        <5> HIDE DEF b
        <5>3. b.i >= 1 /\ b.itemize
          BY <1>2, <4>3, <5>1
        <5>4. LoopOK(y, b)
          BY <5>3, Zenon DEF LoopOK
        <5> QED
          BY <5>1, <5>2, <5>4
      <4> QED
        BY <3>4, <4>1, <4>2, <4>3
    <3> QED
      BY <1>1, <3>1, <3>4, <3>5 DEF y
  <2> QED
    BY <2>7, <2>8
<1> QED
  BY <1>3, <1>4

-----------------------------------------------------------------------------
\* The theorems

LEMMA ShopInit ==
  ASSUME Init
  PROVE  ShopInv
<1> DEFINE O == [o \in Ids |-> IF o \in DOMAIN Stock THEN Obj("shelf", Stock[o])
                               ELSE IF o \in DOMAIN Own THEN Obj("invent", Own[o])
                               ELSE NoObj]
           s == [st |-> "home", angry |-> FALSE, surcharge |-> FALSE, inactive |-> FALSE,
                 gold |-> Till, credit |-> 0, debit |-> 0, loan |-> 0, robbed |-> 0]
<1>1. /\ w = [obj |-> O, bill |-> << >>, shk |-> s, purse |-> Purse, floor |-> 0, owed |-> 0]
      /\ inside = TRUE /\ at = Idle
  BY DEF Init
<1>2. /\ O \in [Ids -> ObjType] /\ \A o \in Ids : Clear(O[o])
      /\ \A o \in Ids : O[o].where # "none" => O[o].quan >= 1
  <2>1. ASSUME NEW n \in Nat \ {0}, NEW where \in {"shelf", "invent"}
        PROVE  /\ Obj(where, n) \in ObjType /\ Clear(Obj(where, n)) /\ Obj(where, n).quan >= 1
    <3> DEFINE r == Obj(where, n)
    <3>2. where \in Places /\ n \in Nat /\ n >= 1 /\ where # "onbill"
      BY <2>1 DEF Places
    <3>3. r \in ObjType
      BY <3>2, NoObjIs DEF Obj, ObjType
    <3>1. r.where = where /\ r.quan = n /\ ~r.unpaid
      BY <3>2, NoObjIs DEF Obj, ObjType, Clear
    <3> HIDE DEF r
    <3>4. Clear(r) /\ r.quan >= 1
      BY <3>1, <3>2 DEF Clear
    <3> QED
      BY <3>3, <3>4 DEF r
  <2>2. /\ \A o \in DOMAIN Stock : Stock[o] \in Nat \ {0}
        /\ \A o \in DOMAIN Own : Own[o] \in Nat \ {0}
    BY ShopAssumption
  <2>3. ASSUME NEW o \in Ids
        PROVE  O[o] \in ObjType /\ Clear(O[o]) /\ (O[o].where # "none" => O[o].quan >= 1)
    <3>1. CASE o \in DOMAIN Stock
      <4>1. O[o] = Obj("shelf", Stock[o])
        BY <3>1
      <4> QED
        BY <2>1, <2>2, <3>1, <4>1
    <3>2. CASE o \notin DOMAIN Stock /\ o \in DOMAIN Own
      <4>1. O[o] = Obj("invent", Own[o])
        BY <3>2
      <4> QED
        BY <2>1, <2>2, <3>2, <4>1
    <3>3. CASE o \notin DOMAIN Stock /\ o \notin DOMAIN Own
      <4>1. O[o] = NoObj
        BY <3>3
      <4> QED
        BY <4>1, NoObjIs
    <3> QED
      BY <3>1, <3>2, <3>3
  <2>4. O \in [Ids -> ObjType]
    BY <2>3
  <2> HIDE DEF O
  <2> QED
    BY <2>3, <2>4
<1> HIDE DEF O
<1>3. /\ s \in ShkType /\ s.st = "home" /\ s.angry = FALSE /\ s.surcharge = FALSE
      /\ s.inactive = FALSE /\ s.debit = 0 /\ s.loan = 0
  BY ShopAssumption DEF ShkType
<1> HIDE DEF s
<1>4. Fit(O, << >>, 0, s.surcharge)
  BY <1>2, FitEmpty
<1>5. w.obj = O /\ w.bill = << >> /\ w.shk = s /\ w.owed = 0
  BY <1>1
<1>6. w \in World
  <2>1. O \in [Ids -> AnyObj] /\ << >> \in Seq(EntryType) /\ Purse \in Nat /\ 0 \in Nat /\ 0 \in Int
    BY <1>2, ObjAny, ShopAssumption
  <2> QED
    BY <1>1, <1>3, <2>1 DEF World
<1>7. Good(w, inside)
  <2>1. Books(w)
    <3>1. Fit(w.obj, w.bill, w.owed, w.shk.surcharge)
      BY <1>4, <1>5, Zenon
    <3>2. w.shk.angry = w.shk.surcharge /\ w.shk.debit = 0 /\ w.shk.loan = 0
          /\ ~w.shk.inactive
      BY <1>3, <1>5, Zenon
    <3>3. w.shk.loan <= w.shk.debit
      BY <3>2
    <3> QED
      BY <1>6, <3>1, <3>2, <3>3 DEF Books
  <2>2. Tended(w) /\ inside
    BY <1>1, <1>3, <1>5 DEF Tended
  <2> QED
    BY <2>1, <2>2 DEF Good, Closed
<1>8. Idle \in AtType /\ ~Idle.on
  BY DEF AtType, Idle
<1> QED
  BY <1>1, <1>7, <1>8 DEF ShopInv, LoopOK

\* The actions of the hero, of the shopkeeper and of the thief keep the books.
LEMMA GoodsKeep ==
  ASSUME Good(w, inside), NEW o \in Ids, Goods(o)
  PROVE  Good(w', inside')
<1>1. CASE PickUp(o)
  BY <1>1, PickUpKeeps
<1>2. CASE Drop(o)
  BY <1>2, DropKeeps
<1>3. CASE Throw(o)
  BY <1>3, ThrowKeeps
<1>4. CASE UseUp(o)
  BY <1>4, UseUpKeeps
<1>5. CASE Alter(o)
  BY <1>5, AlterKeeps
<1>6. CASE UseCharge(o)
  BY <1>6, UseChargeKeeps
<1>7. CASE Steal(o)
  BY <1>7, StealKeeps
<1>8. CASE ThiefDies(o)
  BY <1>8, ThiefDiesKeeps
<1> QED
  BY <1>1, <1>2, <1>3, <1>4, <1>5, <1>6, <1>7, <1>8 DEF Goods

\* Nobody but dopay moves on in its loop, which nothing interrupts.
LEMMA AtStays ==
  ASSUME ShopInv, Good(w', inside'), inside' \in BOOLEAN, ~at.on, at' = at
  PROVE  ShopInv'
BY DEF ShopInv, LoopOK

LEMMA ShopStep ==
  ASSUME ShopInv, [Next]_vars
  PROVE  ShopInv'
<1>1. Good(w, inside) /\ inside \in BOOLEAN /\ at \in AtType
  BY DEF ShopInv
<1>2. ASSUME NEW o \in Ids, Goods(o)
      PROVE  ShopInv'
  <2>1. ~at.on /\ at' = at /\ inside' = inside
    BY <1>2 DEF Goods, PickUp, Drop, Throw, UseUp, Alter, UseCharge, Steal, ThiefDies, Ready
  <2> QED
    BY <1>1, <1>2, <2>1, GoodsKeep, AtStays
<1>3. ASSUME NEW n \in 1 .. (Purse + Till), PickGold(n) \/ DropGold(n)
      PROVE  ShopInv'
  <2>1. ~at.on /\ at' = at /\ inside' = inside
    BY <1>3 DEF PickGold, DropGold, Ready
  <2>2. Good(w', inside')
    BY <1>1, <1>3, PickGoldKeeps, DropGoldKeeps
  <2> QED
    BY <1>1, <2>1, <2>2, AtStays
<1>4. ASSUME \/ Leave \/ Enter \/ Attack \/ Calm \/ Tame \/ Pursue
             \/ SendAway \/ ComeHome \/ Die \/ PayLosses
      PROVE  ShopInv'
  <2>1. ~at.on /\ at' = at /\ inside' \in BOOLEAN
    BY <1>1, <1>4 DEF Leave, Enter, Attack, Calm, Tame, Pursue, SendAway, ComeHome, Die,
                      PayLosses, Ready
  <2>2. Good(w', inside')
    BY <1>1, <1>4, LeaveKeeps, EnterKeeps, AttackKeeps, TameKeeps, PursueKeeps,
       SendAwayKeeps, ComeHomeKeeps, DieKeeps, PayLossesKeeps
  <2> QED
    BY <2>1, <2>2, AtStays
<1>5. ASSUME PayBill
      PROVE  ShopInv'
  <2>1. Good(w', inside') /\ inside' = inside /\ ~at.on
    BY <1>1, <1>5, PayBillKeeps DEF PayBill, Ready
  <2>2. CASE at' = at
    BY <1>1, <2>1, <2>2, AtStays
  <2>3. CASE at' # at
    <3>1. PICK itemize \in BOOLEAN, one \in {0} \cup Ids :
            /\ one # 0 \/ Len(w'.bill) = 1 => itemize
            /\ at' = [on |-> TRUE, pass |-> 0, i |-> 1, itemize |-> itemize, one |-> one]
      BY <1>5, <2>3, Zenon DEF PayBill
    <3>2. /\ at' \in AtType /\ at'.i = 1 /\ at'.pass = 0 /\ at'.itemize = itemize
          /\ at'.one = one
      BY <3>1 DEF AtType
    <3>3. AllWhole(w', 0, 1)
      BY DEF AllWhole
    <3>4. LoopOK(w', at')
      BY <3>1, <3>2, <3>3 DEF LoopOK
    <3> QED
      BY <1>1, <2>1, <3>2, <3>4 DEF ShopInv
  <2> QED
    BY <2>2, <2>3
<1>6. ASSUME PayStep
      PROVE  ShopInv'
  <2>1. inside' = inside
    BY <1>6 DEF PayStep
  <2> QED
    BY <1>1, <1>6, <2>1, PayStepKeeps DEF ShopInv
<1>7. ASSUME UNCHANGED vars
      PROVE  ShopInv'
  BY <1>7 DEF ShopInv, vars
<1> QED
  BY <1>2, <1>3, <1>4, <1>5, <1>6, <1>7 DEF Next

\* The books are in order at every moment, for any goods, prices, sizes of the bill
\* and sums of gold: whatever the hero picks up, uses up, splits, merges, drops,
\* throws, loses to a thief or pays for, in the shop and out of it, and whether the
\* shopkeeper is at home, angry, away or dead.
THEOREM ShopInvariant ==
  Spec => []ShopInv
<1>1. Init => ShopInv
  BY ShopInit
<1>2. ShopInv /\ [Next]_vars => ShopInv'
  BY ShopStep
<1> QED
  BY <1>1, <1>2, PTL DEF Spec

\* The books have their types; no sum falls below zero.
THEOREM ShopTypes ==
  Spec => []TypeOK
<1>1. ShopInv => TypeOK
  <2> SUFFICES ASSUME ShopInv PROVE TypeOK
    OBVIOUS
  <2>1. /\ Good(w, inside) /\ inside \in BOOLEAN /\ at \in AtType
    BY DEF ShopInv
  <2>2. /\ w.obj \in [Ids -> ObjType] /\ w.bill \in Seq(EntryType) /\ w.shk \in ShkType
        /\ w.purse \in Nat /\ w.floor \in Nat /\ w.owed \in Nat /\ Len(w.bill) <= BILLSZ
    BY <2>1, GoodIs DEF Fit
  <2>3. ObjType = [where : {"none", "shelf", "out", "invent", "mon", "onbill"},
                   quan : Nat, unpaid : BOOLEAN, nc : BOOLEAN]
    <3>1. Places \cup {"none", "onbill"} = {"none", "shelf", "out", "invent", "mon", "onbill"}
      BY DEF Places
    <3> QED
      BY <3>1, Zenon DEF ObjType
  <2> QED
    BY <2>1, <2>2, <2>3, Zenon DEF TypeOK, EntryType, ShkType, AtType
<1> QED
  BY <1>1, ShopInvariant, PTL

\* An entry of the bill has an object of its own, in the place that the entry says,
\* and no object is unpaid without an entry: the administration is never out of
\* order.
THEOREM BillAgreesAlways ==
  Spec => []BillAgrees
<1>1. ShopInv => BillAgrees
  <2> SUFFICES ASSUME ShopInv PROVE BillAgrees
    OBVIOUS
  <2>1. Good(w, inside) /\ Closed(w, inside)
    BY DEF ShopInv, Good
  <2>2. /\ w.bill \in Seq(EntryType) /\ GoodsOK(w.obj, w.bill) /\ Books(w)
        /\ DOMAIN w.bill = 1 .. Len(w.bill)
    BY <2>1, GoodIs DEF Fit
  <2>3. ASSUME NEW i \in DOMAIN w.bill
        PROVE  LET e == w.bill[i]
                   o == w.obj[e.id]
               IN /\ OnBill(w, e.id) = {i}
                  /\ IF e.useup THEN o.where = "onbill"
                     ELSE /\ o.where \in {"invent", "mon", "shelf", "out"}
                          /\ o.unpaid /\ o.quan <= e.quan
    <3>1. EntryOK(w.obj[w.bill[i].id], w.bill[i])
          /\ \A j \in DOMAIN w.bill : w.bill[j].id = w.bill[i].id => j = i
      BY <2>2, <2>3 DEF GoodsOK
    <3>2. OnBill(w, w.bill[i].id) = {i}
      BY <3>1 DEF OnBill
    <3> QED
      BY <3>1, <3>2 DEF EntryOK, Places
  <2>4. ASSUME NEW o \in Ids, w.obj[o].unpaid \/ w.obj[o].where = "onbill"
        PROVE  OnBill(w, o) # {}
    BY <2>2, <2>4, EntryIs DEF GoodsOK, Clear
  <2>5. (inside /\ Tended(w)) \/ (w.bill = << >> /\ w.shk.debit = 0)
    BY <2>1, <2>2, BillEmpty DEF Closed
  <2> QED
    BY <2>3, <2>4, <2>5 DEF BillAgrees
<1> QED
  BY <1>1, ShopInvariant, PTL

\* The quantities on the bill add up to the pieces that the hero owes for: no call
\* loses a piece or charges one twice.
THEOREM PiecesBilledAlways ==
  Spec => []PiecesBilled
<1>1. ShopInv => PiecesBilled
  BY DEF ShopInv, Good, Books, Fit, Pieces, PiecesBilled
<1> QED
  BY <1>1, ShopInvariant, PTL

\* The prices on the bill follow the shopkeeper's mood, up and back again: for any
\* prices, a surcharge of a third that is put on a standing bill when he is riled is
\* taken off exactly when he is calmed.
THEOREM PricesMatchMoodAlways ==
  Spec => []PricesMatchMood
<1>1. ShopInv => PricesMatchMood
  <2> SUFFICES ASSUME ShopInv PROVE PricesMatchMood
    OBVIOUS
  <2>1. /\ w.bill \in Seq(EntryType) /\ DOMAIN w.bill = 1 .. Len(w.bill)
        /\ \A i \in 1 .. Len(w.bill) : PriceOK(w.bill[i].price, w.shk.surcharge)
        /\ w.shk.angry = w.shk.surcharge \/ (w.shk.inactive /\ w.bill = << >>)
    BY BillEmpty DEF ShopInv, Good, Books, Fit, Closed
  <2>2. ASSUME NEW i \in DOMAIN w.bill
        PROVE  w.bill[i].price \in
                 {c + IF w.shk.surcharge THEN Surcharge(c) ELSE 0 : c \in Range(Cost)}
    BY <2>1, <2>2 DEF PriceOK
  <2> QED
    BY <2>1, <2>2 DEF PricesMatchMood
<1> QED
  BY <1>1, ShopInvariant, PTL

\* What the hero has taken of the shop's gold is never more than his debit, so that
\* settling the debit settles the loan.
THEOREM LoanInDebitAlways ==
  Spec => []LoanInDebit
<1>1. ShopInv => LoanInDebit
  BY DEF ShopInv, Good, Books, LoanInDebit
<1> QED
  BY <1>1, ShopInvariant, PTL
=============================================================================

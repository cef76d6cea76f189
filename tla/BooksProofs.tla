---------------------------- MODULE BooksProofs -----------------------------
(***************************************************************************)
(* Proofs about Assets, for any cost, life, rate, revaluations and         *)
(* overlapping transactions; about Invoices, for any payments, total and   *)
(* overlapping calls; and about Recurring, for any schedules, edits,       *)
(* missed and broken nights.                                               *)
(***************************************************************************)
EXTENDS Assets, Invoices, Recurring, FiniteSetTheorems, TLAPS

-----------------------------------------------------------------------------
(* Assets: rounding *)

\* The quotient is the greatest number whose product is not above the dividend.
LEMMA Quotient ==
  ASSUME NEW a \in Int, NEW b \in Nat \ {0}
  PROVE  a \div b \in Int /\ b * (a \div b) <= a /\ a < b * (a \div b) + b
OBVIOUS

\* A multiple leaves no remainder.
LEMMA NoRemainder ==
  ASSUME NEW a \in Int, NEW b \in Nat, b > 0, NEW k \in Int, a = b * k
  PROVE  a % b = 0
BY SMTT(30)

\* What is rounded is not more than a half away.
LEMMA Near ==
  ASSUME NEW n \in Int, NEW q \in Nat \ {0}, NEW k \in Rounded(n, q)
  PROVE  k \in Int /\ 2 * n - q <= 2 * q * k /\ 2 * q * k <= 2 * n + q
<1> DEFINE t == (2 * n + q) \div (2 * q)
<1>1. 2 * q \in Nat \ {0} /\ 2 * n + q \in Int
  OBVIOUS
<1>2. t \in Int /\ (2 * q) * t <= 2 * n + q
  BY <1>1, Quotient
<1>3. k \in {t - 1, t} /\ 2 * n - q <= 2 * q * k
  BY DEF Rounded
<1> HIDE DEF t
<1>4. (2 * q) * (t - 1) = (2 * q) * t - 2 * q
  BY <1>1, <1>2
<1> QED BY <1>1, <1>2, <1>3, <1>4

\* Two numbers that are both no more than a half away differ by one at most, and only when
\* it is a half to both.
LEMMA SameOrHalf ==
  ASSUME NEW n \in Int, NEW q \in Nat \ {0}, NEW k \in Int, NEW l \in Int,
         2 * n - q <= 2 * q * k, 2 * q * k <= 2 * n + q,
         2 * n - q <= 2 * q * l, 2 * q * l <= 2 * n + q
  PROVE  k - l <= Half(n, q)
<1> DEFINE d == k - l
<1>1. 2 * q \in Nat \ {0} /\ d \in Int
  OBVIOUS
<1>2. (2 * q) * d = 2 * q * k - 2 * q * l
  OBVIOUS
<1>3. (2 * q) * d <= 2 * q
  BY <1>2
<1>4. d <= 1
  <2> SUFFICES ASSUME d >= 2 PROVE FALSE
    BY <1>1
  <2> HIDE DEF d
  <2>1. (2 * q) * d >= (2 * q) * 2
    BY <1>1
  <2>2. (2 * q) * 2 = 2 * q + 2 * q
    OBVIOUS
  <2> QED BY <1>1, <1>3, <2>1, <2>2
<1>5. ASSUME d = 1 PROVE Half(n, q) = 1
  <2>1. (2 * q) * d = 2 * q
    BY <1>5
  <2>2. 2 * q * k = 2 * n + q
    BY <1>2, <2>1
  <2>3. (2 * n + q) % (2 * q) = 0
    <3>1. 2 * q \in Nat /\ 2 * q > 0 /\ 2 * n + q \in Int /\ 2 * n + q = (2 * q) * k
      BY <2>2
    <3> QED BY <3>1, NoRemainder
  <2> QED BY <2>3 DEF Half
<1>6. Half(n, q) \in 0..1
  BY DEF Half
<1> QED BY <1>1, <1>4, <1>5, <1>6

\* The log, the accumulated depreciation and the value take the same depreciation, but for
\* a half.
LEMMA Apportioned ==
  ASSUME NEW n \in Int, NEW q \in Nat \ {0}, NEW a \in Int, NEW b \in Int,
         NEW amount \in Rounded(n, q), NEW acc \in Rounded(a * q + n, q), NEW book \in Rounded(b * q - n, q)
  PROVE  /\ Half(n, q) \in 0..1
         /\ amount \in Int /\ acc \in Int /\ book \in Int
         /\ acc - a - amount <= Half(n, q) /\ amount - (acc - a) <= Half(n, q)
         /\ (b - book) - (acc - a) <= Half(n, q) /\ (acc - a) - (b - book) <= Half(n, q)
<1>1. a * q + n \in Int /\ b * q - n \in Int
  OBVIOUS
<1>2. amount \in Int /\ 2 * n - q <= 2 * q * amount /\ 2 * q * amount <= 2 * n + q
  BY Near
<1>3. acc \in Int /\ 2 * (a * q + n) - q <= 2 * q * acc /\ 2 * q * acc <= 2 * (a * q + n) + q
  BY <1>1, Near
<1>4. book \in Int /\ 2 * (b * q - n) - q <= 2 * q * book /\ 2 * q * book <= 2 * (b * q - n) + q
  BY <1>1, Near
<1>5. 2 * q * (acc - a) = 2 * q * acc - 2 * (a * q)
  BY <1>3
<1>6. 2 * n - q <= 2 * q * (acc - a) /\ 2 * q * (acc - a) <= 2 * n + q
  BY <1>3, <1>5
<1>7. 2 * q * (b - book) = 2 * (b * q) - 2 * q * book
  BY <1>4
<1>8. 2 * n - q <= 2 * q * (b - book) /\ 2 * q * (b - book) <= 2 * n + q
  BY <1>4, <1>7
<1>9. acc - a \in Int /\ b - book \in Int
  BY <1>3, <1>4
<1>10. Half(n, q) \in 0..1
  BY DEF Half
<1>11. acc - a - amount <= Half(n, q)
  BY <1>2, <1>6, <1>9, SameOrHalf
<1>12. amount - (acc - a) <= Half(n, q)
  BY <1>2, <1>6, <1>9, SameOrHalf
<1>13. (b - book) - (acc - a) <= Half(n, q)
  BY <1>6, <1>8, <1>9, SameOrHalf
<1>14. (acc - a) - (b - book) <= Half(n, q)
  BY <1>6, <1>8, <1>9, SameOrHalf
<1> QED BY <1>2, <1>3, <1>4, <1>10, <1>11, <1>12, <1>13, <1>14

\* A fraction above 0 is not rounded below it.
LEMMA RoundedNat ==
  ASSUME NEW n \in Nat, NEW q \in Nat \ {0}, NEW k \in Rounded(n, q)
  PROVE  k \in Nat
<1>1. k \in Int /\ 2 * n - q <= 2 * q * k
  BY Near
<1>2. k >= 0
  <2> SUFFICES ASSUME k <= -1 PROVE FALSE
    BY <1>1
  <2>1. 2 * q * k <= 2 * q * (-1)
    BY <1>1
  <2> QED BY <1>1, <2>1
<1> QED BY <1>1, <1>2

-----------------------------------------------------------------------------
(* The inductive invariant *)

Row == [method : Method, status : AssetStatus, cost : Int, book : Nat, acc : Nat]

\* What is left of the cost, and not yet depreciated, beside the book value.
Excess(row) == row.book + row.acc - row.cost

\* What a transaction makes of the row it has read.
CopyIsSound(b) ==
  /\ b.seen \in Row /\ b.copy \in Row /\ b.amount \in Nat /\ b.half \in 0..1
  /\ b.copy.acc - b.seen.acc - b.amount \in (-b.half)..b.half
  /\ b.copy.status # "DISPOSED" => Excess(b.copy) - Excess(b.seen) \in (-b.half)..b.half
  /\ b.seen.status # "DISPOSED"
  /\ b.op = "dispose" => b.copy.status = "DISPOSED"

BookingInv ==
  \A c \in Call :
    booking[c] # NoBooking => CopyIsSound(booking[c]) /\ booking[c].seen.acc <= logged + halves

Bookings == [at : {"idle", "computed", "compared", "written"},
             op : {"none", "close", "depreciate", "dispose", "revalue"},
             seen : Row \cup {None}, copy : Row \cup {None}, amount : Nat, half : 0..1, writes : SUBSET Column]

AssetInv ==
  /\ asset \in Row /\ logged \in Nat /\ runs \in Nat /\ halves \in Nat /\ disposals \in Nat /\ clashes \in Nat
  /\ booking \in [Call -> Bookings]
  /\ BookingInv
  /\ LogsAgree /\ WorthIsLeft /\ DisposedOnce
  /\ asset.status # "DISPOSED" => disposals <= clashes

LEMMA AssetInvInit == AssetInit => AssetInv
<1> SUFFICES ASSUME AssetInit PROVE AssetInv
  OBVIOUS
<1>1. asset \in Row /\ Excess(asset) = 0 /\ asset.acc = 0
  BY AssetAssumption DEF AssetInit, Row, Method, AssetStatus, Excess
<1>2. booking \in [Call -> Bookings]
  BY DEF AssetInit, NoBooking, Bookings
<1>3. LogsAgree /\ WorthIsLeft /\ DisposedOnce
  BY <1>1, AssetAssumption DEF AssetInit, LogsAgree, WorthIsLeft, DisposedOnce, Row, Excess
<1>4. BookingInv
  BY DEF AssetInit, BookingInv
<1>5. logged \in Nat /\ runs \in Nat /\ halves \in Nat /\ disposals \in Nat /\ clashes \in Nat /\ disposals <= clashes
  BY DEF AssetInit
<1> QED BY <1>1, <1>2, <1>3, <1>4, <1>5 DEF AssetInv

\* A transaction that begins with a sound copy.
LEMMA OpensSoundly ==
  ASSUME AssetInv, NEW c \in Call, NEW op \in {"close", "depreciate", "dispose", "revalue"},
         NEW copy, NEW amount, NEW half, Opens(c, op, copy, amount, half),
         CopyIsSound([NoBooking EXCEPT !.at = "computed", !.op = op, !.seen = asset, !.copy = copy,
                                       !.amount = amount, !.half = half])
  PROVE  AssetInv'
<1> DEFINE b == [NoBooking EXCEPT !.at = "computed", !.op = op, !.seen = asset, !.copy = copy,
                                  !.amount = amount, !.half = half]
<1>1. booking' = [booking EXCEPT ![c] = b] /\ UNCHANGED <<asset, logged, runs, halves, disposals, clashes>>
  BY DEF Opens
<1>2. b.seen = asset /\ CopyIsSound(b)
  BY DEF NoBooking
<1>7. b \in Bookings
  <2>1. copy \in Row /\ amount \in Nat /\ half \in 0..1 /\ asset \in Row
    BY <1>2 DEF CopyIsSound, NoBooking, AssetInv
  <2> QED BY <2>1 DEF NoBooking, Bookings
<1> HIDE DEF b
<1>3. booking \in [Call -> Bookings]
  BY DEF AssetInv
<1>4. booking' \in [Call -> Bookings]
  BY <1>1, <1>3, <1>7
<1>5. \A d \in Call : booking'[d] = IF d = c THEN b ELSE booking[d]
  BY <1>1, <1>3
<1>6. BookingInv'
  <2> SUFFICES ASSUME NEW d \in Call, booking'[d] # NoBooking
               PROVE  CopyIsSound(booking'[d]) /\ booking'[d].seen.acc <= logged + halves
    BY <1>1 DEF BookingInv
  <2>1. CASE d = c
    BY <2>1, <1>2, <1>5 DEF AssetInv, LogsAgree
  <2>2. CASE d # c
    BY <2>2, <1>5 DEF AssetInv, BookingInv
  <2> QED BY <2>1, <2>2
<1>8. LogsAgree' /\ WorthIsLeft' /\ DisposedOnce'
  BY <1>1 DEF AssetInv, LogsAgree, WorthIsLeft, DisposedOnce
<1> QED BY <1>1, <1>4, <1>6, <1>8 DEF AssetInv

\* A month's depreciation: what it does to the copy.
LEMMA DepreciationIsSound ==
  ASSUME asset \in Row, asset.status = "ACTIVE", Depreciation.n > 0,
         NEW amount \in Rounded(Depreciation.n, Depreciation.q),
         NEW acc \in Rounded(asset.acc * Depreciation.q + Depreciation.n, Depreciation.q),
         NEW book \in Rounded(asset.book * Depreciation.q - Depreciation.n, Depreciation.q),
         NEW copy \in Depreciated(acc, book)
  PROVE  CopyIsSound([NoBooking EXCEPT !.at = "computed", !.op = "depreciate", !.seen = asset,
                        !.copy = copy, !.amount = amount, !.half = Half(Depreciation.n, Depreciation.q)])
<1> DEFINE n == Depreciation.n
           q == Depreciation.q
           half == Half(n, q)
<1>1. Fraction.n \in Int /\ Fraction.q \in Nat \ {0}
  BY AssetAssumption DEF Fraction, Row
<1>2. n \in Int /\ q \in Nat \ {0} /\ asset.book * q - n >= Salvage * q
  BY <1>1, AssetAssumption DEF Depreciation, Row
<1>3. asset.book \in Int /\ asset.book \in Nat /\ asset.acc \in Nat /\ asset.acc \in Int /\ asset.cost \in Int
  BY DEF Row
<1>4. n \in Nat
  BY <1>2
<1>5. PICK status \in {"FULLY_DEPRECIATED", "ACTIVE"} :
        copy = [asset EXCEPT !.acc = acc, !.book = book, !.status = status]
  BY DEF Depreciated
<1>6. amount \in Rounded(n, q) /\ acc \in Rounded(asset.acc * q + n, q) /\ book \in Rounded(asset.book * q - n, q)
  OBVIOUS
<1> HIDE DEF n, q, half
<1>7. amount \in Nat
  BY <1>2, <1>4, <1>6, RoundedNat
<1>8. acc \in Nat
  <2>1. asset.acc * q + n \in Nat
    BY <1>2, <1>3, <1>4
  <2> QED BY <1>2, <1>6, <2>1, RoundedNat
<1>9. book \in Nat
  <2>1. Salvage * q >= 0 /\ asset.book * q - n \in Nat
    BY <1>2, <1>3, AssetAssumption
  <2> QED BY <1>2, <1>6, <2>1, RoundedNat
<1>10. /\ half \in 0..1
       /\ acc - asset.acc - amount <= half /\ amount - (acc - asset.acc) <= half
       /\ (asset.book - book) - (acc - asset.acc) <= half /\ (acc - asset.acc) - (asset.book - book) <= half
  BY <1>2, <1>3, <1>6, Apportioned DEF half
<1>11. copy \in Row /\ copy.acc = acc /\ copy.book = book /\ copy.cost = asset.cost
  BY <1>5, <1>8, <1>9 DEF Row, AssetStatus
<1>12. copy.acc - asset.acc - amount \in (-half)..half
  BY <1>3, <1>7, <1>8, <1>10, <1>11
<1>13. Excess(copy) - Excess(asset) \in (-half)..half
  BY <1>3, <1>8, <1>9, <1>10, <1>11 DEF Excess
<1> DEFINE b == [NoBooking EXCEPT !.at = "computed", !.op = "depreciate", !.seen = asset,
                                  !.copy = copy, !.amount = amount, !.half = half]
<1>14. b.seen = asset /\ b.copy = copy /\ b.amount = amount /\ b.op = "depreciate" /\ b.half = half
  BY DEF NoBooking
<1>15. CopyIsSound(b)
  BY <1>7, <1>10, <1>11, <1>12, <1>13, <1>14 DEF CopyIsSound
<1> QED BY <1>15 DEF half, n, q

LEMMA RunKeepsInv ==
  ASSUME AssetInv, NEW c \in Call, RunDepreciation(c)
  PROVE  AssetInv'
<1>1. asset \in Row /\ asset.status = "ACTIVE"
  BY DEF AssetInv, RunDepreciation
<1> DEFINE d == Depreciation
<1>2. CASE d.n <= 0
  <2> DEFINE copy == [asset EXCEPT !.status = "FULLY_DEPRECIATED"]
             b == [NoBooking EXCEPT !.at = "computed", !.op = "close", !.seen = asset,
                                    !.copy = copy, !.amount = 0, !.half = 0]
  <2>1. Opens(c, "close", copy, 0, 0)
    BY <1>2 DEF RunDepreciation
  <2>2. copy \in Row /\ copy.acc = asset.acc /\ Excess(copy) = Excess(asset)
    BY <1>1 DEF Row, AssetStatus, Excess
  <2>3. b.seen = asset /\ b.copy = copy /\ b.amount = 0 /\ b.half = 0 /\ b.op = "close"
    BY DEF NoBooking
  <2> HIDE DEF copy
  <2>4. Excess(copy) \in Int /\ copy.acc - asset.acc - 0 = 0
    BY <1>1, <2>2 DEF Row, Excess
  <2>5. CopyIsSound(b)
    BY <1>1, <2>2, <2>3, <2>4 DEF CopyIsSound
  <2> QED BY <2>1, <2>5, OpensSoundly
<1>3. CASE ~(d.n <= 0)
  <2>1. d.n > 0
    <3>1. d.n \in Int
      BY <1>1, AssetAssumption DEF Depreciation, Fraction, Row
    <3> QED BY <3>1, <1>3
  <2>2. PICK amount \in Rounded(d.n, d.q), acc \in Rounded(asset.acc * d.q + d.n, d.q),
             book \in Rounded(asset.book * d.q - d.n, d.q) :
          \E copy \in Depreciated(acc, book) : Opens(c, "depreciate", copy, amount, Half(d.n, d.q))
    BY <1>3 DEF RunDepreciation, Depreciates
  <2>3. PICK copy \in Depreciated(acc, book) : Opens(c, "depreciate", copy, amount, Half(d.n, d.q))
    BY <2>2
  <2>4. CopyIsSound([NoBooking EXCEPT !.at = "computed", !.op = "depreciate", !.seen = asset,
                       !.copy = copy, !.amount = amount, !.half = Half(d.n, d.q)])
    BY <1>1, <2>1, DepreciationIsSound
  <2> QED BY <2>3, <2>4, OpensSoundly
<1> QED BY <1>2, <1>3

LEMMA DisposeKeepsInv ==
  ASSUME AssetInv, NEW c \in Call, DisposeAsset(c)
  PROVE  AssetInv'
<1> DEFINE copy == [asset EXCEPT !.status = "DISPOSED", !.book = 0]
           b == [NoBooking EXCEPT !.at = "computed", !.op = "dispose", !.seen = asset,
                                  !.copy = copy, !.amount = 0, !.half = 0]
<1>1. asset \in Row /\ asset.status # "DISPOSED" /\ Opens(c, "dispose", copy, 0, 0)
  BY DEF AssetInv, DisposeAsset
<1>2. copy \in Row /\ copy.acc = asset.acc /\ copy.status = "DISPOSED"
  BY <1>1 DEF Row, AssetStatus
<1>5. copy.acc - asset.acc - 0 = 0
  BY <1>1, <1>2 DEF Row
<1>3. b.seen = asset /\ b.copy = copy /\ b.amount = 0 /\ b.half = 0 /\ b.op = "dispose"
  BY DEF NoBooking
<1> HIDE DEF copy
<1>4. CopyIsSound(b)
  BY <1>1, <1>2, <1>3, <1>5 DEF CopyIsSound
<1> QED BY <1>1, <1>4, OpensSoundly

LEMMA RevalueKeepsInv ==
  ASSUME AssetInv, NEW c \in Call, NEW v \in FairValues, RevalueAsset(c, v)
  PROVE  AssetInv'
<1> DEFINE copy == [asset EXCEPT !.book = v, !.cost = @ + v - asset.book]
           b == [NoBooking EXCEPT !.at = "computed", !.op = "revalue", !.seen = asset,
                                  !.copy = copy, !.amount = 0, !.half = 0]
<1>1. asset \in Row /\ asset.status = "ACTIVE" /\ Opens(c, "revalue", copy, 0, 0)
  BY DEF AssetInv, RevalueAsset
<1>2. copy \in Row /\ copy.acc = asset.acc
  <2> DEFINE cost == asset.cost + v - asset.book
  <2>1. v \in Nat /\ cost \in Int
    BY <1>1, AssetAssumption DEF Row
  <2> HIDE DEF cost
  <2>2. [asset EXCEPT !.book = v, !.cost = cost] \in Row
        /\ [asset EXCEPT !.book = v, !.cost = cost].acc = asset.acc
    BY <1>1, <2>1 DEF Row
  <2> QED BY <2>2 DEF cost
<1>6. copy.acc - asset.acc - 0 = 0
  BY <1>1, <1>2 DEF Row
<1>3. Excess(copy) - Excess(asset) = 0
  BY <1>1, AssetAssumption DEF Row, Excess
<1>4. b.seen = asset /\ b.copy = copy /\ b.amount = 0 /\ b.half = 0 /\ b.op = "revalue"
  BY DEF NoBooking
<1> HIDE DEF copy
<1>5. CopyIsSound(b)
  BY <1>1, <1>2, <1>3, <1>4, <1>6 DEF CopyIsSound
<1> QED BY <1>1, <1>5, OpensSoundly

\* The steps of a save that leave the row alone.
LEMMA SaveKeepsInv ==
  ASSUME AssetInv, NEW c \in Call, Compare(c) \/ Write(c) \/ Rollback(c)
  PROVE  AssetInv'
<1>1. UNCHANGED <<asset, logged, runs, halves, disposals, clashes>>
  BY DEF Compare, Write, Rollback
<1>2. booking \in [Call -> Bookings] /\ NoBooking \in Bookings
  BY DEF AssetInv, NoBooking, Bookings
<1>3. PICK r \in Bookings :
         /\ booking' = [booking EXCEPT ![c] = r]
         /\ r # NoBooking =>
              /\ booking[c] # NoBooking
              /\ r.op = booking[c].op /\ r.seen = booking[c].seen
              /\ r.copy = booking[c].copy /\ r.amount = booking[c].amount /\ r.half = booking[c].half
  <2>1. CASE Compare(c)
    <3> DEFINE r == [booking[c] EXCEPT !.at = "compared", !.writes = Changed(booking[c].copy, asset)]
    <3>1. booking[c] # NoBooking /\ booking' = [booking EXCEPT ![c] = r]
      BY <2>1, <1>2 DEF Compare, NoBooking
    <3>2. r \in Bookings /\ r.op = booking[c].op /\ r.seen = booking[c].seen
          /\ r.copy = booking[c].copy /\ r.amount = booking[c].amount /\ r.half = booking[c].half
      BY <1>2 DEF Bookings, Changed
    <3> HIDE DEF r
    <3> QED BY <3>1, <3>2
  <2>2. CASE Write(c)
    <3> DEFINE r == [booking[c] EXCEPT !.at = "written"]
    <3>1. booking[c] # NoBooking /\ booking' = [booking EXCEPT ![c] = r]
      BY <2>2, <1>2 DEF Write, NoBooking
    <3>2. r \in Bookings /\ r.op = booking[c].op /\ r.seen = booking[c].seen
          /\ r.copy = booking[c].copy /\ r.amount = booking[c].amount /\ r.half = booking[c].half
      BY <1>2 DEF Bookings
    <3> HIDE DEF r
    <3> QED BY <3>1, <3>2
  <2>3. CASE Rollback(c)
    BY <2>3, <1>2 DEF Rollback
  <2> QED BY <2>1, <2>2, <2>3
<1>4. booking' \in [Call -> Bookings] /\ \A d \in Call : booking'[d] = IF d = c THEN r ELSE booking[d]
  BY <1>2, <1>3
<1>5. BookingInv'
  <2> SUFFICES ASSUME NEW d \in Call, booking'[d] # NoBooking
               PROVE  CopyIsSound(booking'[d]) /\ booking'[d].seen.acc <= logged + halves
    BY <1>1 DEF BookingInv
  <2>1. CASE d = c
    BY <2>1, <1>3, <1>4 DEF AssetInv, BookingInv, CopyIsSound
  <2>2. CASE d # c
    BY <2>2, <1>4 DEF AssetInv, BookingInv
  <2> QED BY <2>1, <2>2
<1>6. LogsAgree' /\ WorthIsLeft' /\ DisposedOnce'
  BY <1>1 DEF AssetInv, LogsAgree, WorthIsLeft, DisposedOnce
<1> QED BY <1>1, <1>4, <1>5, <1>6 DEF AssetInv

LEMMA CommitKeepsInv ==
  ASSUME AssetInv, NEW c \in Call, Commit(c)
  PROVE  AssetInv'
<1> DEFINE b == booking[c]
           clean == asset = b.seen /\ b.writes = Changed(b.copy, asset)
<1>1. b # NoBooking /\ CopyIsSound(b) /\ b.seen.acc <= logged + halves
  BY DEF Commit, NoBooking, AssetInv, BookingInv
<1>2. /\ asset' = [col \in Column |-> IF col \in b.writes THEN b.copy[col] ELSE asset[col]]
      /\ logged' = logged + b.amount
      /\ runs' = IF b.op = "depreciate" THEN runs + 1 ELSE runs
      /\ halves' = halves + b.half
      /\ disposals' = IF b.op = "dispose" THEN disposals + 1 ELSE disposals
      /\ clashes' = IF clean THEN clashes ELSE clashes + 1
      /\ booking' = [booking EXCEPT ![c] = NoBooking]
  BY DEF Commit
<1>3. /\ asset \in Row /\ logged \in Nat /\ runs \in Nat /\ halves \in Nat /\ disposals \in Nat /\ clashes \in Nat
      /\ LogsAgree /\ WorthIsLeft /\ DisposedOnce /\ BookingInv
      /\ asset.status # "DISPOSED" => disposals <= clashes
  BY DEF AssetInv
<1>4. booking \in [Call -> Bookings] /\ NoBooking \in Bookings
  BY DEF AssetInv, NoBooking, Bookings
<1>5. /\ b.seen \in Row /\ b.copy \in Row /\ b.amount \in Nat /\ b.half \in 0..1
      /\ b.copy.acc - b.seen.acc - b.amount \in (-b.half)..b.half
  BY <1>1 DEF CopyIsSound
<1>6. /\ asset'.status \in {asset.status, b.copy.status}
      /\ asset'.acc \in {asset.acc, b.copy.acc}
      /\ b.copy.status = "DISPOSED" /\ asset.status = "DISPOSED" => asset'.status = "DISPOSED"
  BY <1>2 DEF Column
<1>7. asset' \in Row
  BY <1>2, <1>3, <1>5 DEF Column, Row
<1>8. clean => asset' = b.copy
  <2> SUFFICES ASSUME clean PROVE asset' = b.copy
    OBVIOUS
  <2>1. \A col \in Column : asset'[col] = b.copy[col]
    BY <1>2 DEF Changed
  <2> QED BY <1>5, <1>7, <2>1 DEF Column, Row
<1>9. booking' \in [Call -> Bookings]
  BY <1>2, <1>4
<1>10. /\ logged' \in Nat /\ runs' \in Nat /\ halves' \in Nat /\ disposals' \in Nat /\ clashes' \in Nat
       /\ logged <= logged' /\ halves <= halves'
  BY <1>2, <1>3, <1>5
<1> HIDE DEF b
<1>11. BookingInv'
  <2> SUFFICES ASSUME NEW d \in Call, booking'[d] # NoBooking
               PROVE  CopyIsSound(booking'[d]) /\ booking'[d].seen.acc <= logged' + halves'
    BY DEF BookingInv
  <2>1. booking'[d] = booking[d]
    BY <1>2, <1>4
  <2>2. CopyIsSound(booking[d]) /\ booking[d].seen.acc <= logged + halves
    BY <2>1, <1>3 DEF BookingInv
  <2>3. booking[d].seen.acc \in Nat
    BY <2>2 DEF CopyIsSound, Row
  <2> QED BY <1>3, <1>10, <2>1, <2>2, <2>3
<1>12. LogsAgree'
  <2>1. CASE clean
    BY <2>1, <1>2, <1>3, <1>5, <1>8, <1>10 DEF LogsAgree, Row
  <2>2. CASE ~clean
    BY <2>2, <1>1, <1>2, <1>3, <1>5, <1>6, <1>10 DEF LogsAgree, Row
  <2> QED BY <2>1, <2>2
<1>13. WorthIsLeft'
  <2> SUFFICES ASSUME clashes' = 0, asset'.status # "DISPOSED"
               PROVE  Excess(asset)' \in (-halves')..halves'
    BY DEF WorthIsLeft, Excess
  <2>1. clean /\ clashes = 0
    BY <1>2, <1>3
  <2>2. asset' = b.copy /\ asset = b.seen /\ asset.status # "DISPOSED"
    BY <1>1, <1>8, <2>1 DEF CopyIsSound
  <2>3. Excess(asset) \in (-halves)..halves
    BY <1>3, <2>1, <2>2 DEF WorthIsLeft, Excess
  <2>4. Excess(b.copy) - Excess(b.seen) \in (-b.half)..b.half
    BY <1>1, <2>2 DEF CopyIsSound
  <2>5. Excess(b.copy) \in Int
    BY <1>5 DEF Excess, Row
  <2>6. Excess(b.copy) \in (-halves')..halves'
    BY <1>2, <1>3, <1>5, <2>2, <2>3, <2>4, <2>5
  <2> QED BY <2>2, <2>6 DEF Excess
<1>14. DisposedOnce' /\ (asset'.status # "DISPOSED" => disposals' <= clashes')
  <2>1. b.seen.status # "DISPOSED" /\ (b.op = "dispose" => b.copy.status = "DISPOSED")
    BY <1>1 DEF CopyIsSound
  <2>2. CASE clean
    BY <2>1, <2>2, <1>2, <1>3, <1>8 DEF DisposedOnce
  <2>3. CASE ~clean
    BY <2>1, <2>3, <1>2, <1>3, <1>6 DEF DisposedOnce
  <2> QED BY <2>2, <2>3
<1> QED BY <1>7, <1>9, <1>10, <1>11, <1>12, <1>13, <1>14 DEF AssetInv

LEMMA AssetInvNext == AssetInv /\ [AssetNext]_assetVars => AssetInv'
<1> SUFFICES ASSUME AssetInv, [AssetNext]_assetVars PROVE AssetInv'
  OBVIOUS
<1>1. CASE UNCHANGED assetVars
  BY <1>1 DEF assetVars, AssetInv, BookingInv, LogsAgree, WorthIsLeft, DisposedOnce
<1>2. ASSUME NEW c \in Call, AssetStep(c) PROVE AssetInv'
  BY <1>2, RunKeepsInv, DisposeKeepsInv, RevalueKeepsInv, SaveKeepsInv, CommitKeepsInv DEF AssetStep
<1> QED BY <1>1, <1>2 DEF AssetNext

-----------------------------------------------------------------------------
(* Theorems about an asset *)

LEMMA AssetInvHolds == AssetSpec => []AssetInv
BY AssetInvInit, AssetInvNext, PTL DEF AssetSpec

\* The accumulated depreciation and the logs agree as long as no two transactions clash.
THEOREM AccumulatedIsLogged == AssetSpec => []LogsAgree
<1>1. AssetInv => LogsAgree
  BY DEF AssetInv
<1> QED BY <1>1, AssetInvHolds, PTL

\* The book value is what is left of the cost, up to a hundredth for each depreciation.
THEOREM BookValueIsLeft == AssetSpec => []WorthIsLeft
<1>1. AssetInv => WorthIsLeft
  BY DEF AssetInv
<1> QED BY <1>1, AssetInvHolds, PTL

\* Without a clash an asset is disposed of once.
THEOREM NoSecondDisposal == AssetSpec => []DisposedOnce
<1>1. AssetInv => DisposedOnce
  BY DEF AssetInv
<1> QED BY <1>1, AssetInvHolds, PTL

-----------------------------------------------------------------------------
(* Invoices: shapes of the calls *)

Carried == {"recount", "edit", "send"}

\* What a call may hold where it stands.
BillIsSound(b) ==
  /\ b = [at |-> b.at, op |-> b.op, p |-> b.p, new |-> b.new,
          was |-> b.was, copy |-> b.copy, list |-> b.list]
  /\ b.at \in {"idle", "paying", "recounting", "computed", "compared", "posting"}
  /\ b.at \in {"computed", "compared"} =>
       /\ b.op \in Carried
       /\ b.op = "send" => b.was # "sent"
       /\ b.op = "send" /\ "status" \in DOMAIN b.copy => b.copy.status = "sent"
  /\ b.at = "computed" =>
       /\ InvoiceColumn \subseteq DOMAIN b.copy
       /\ b.op = "recount" => b.copy.pay \in StatusesFor(b.list)
  /\ b.at = "recounting" => b.op = "recount"
  /\ b.at \in {"paying", "posting"} => b.op # "recount"

InvoiceShape ==
  /\ billing = [c \in Call |-> billing[c]]
  /\ \A c \in Call : BillIsSound(billing[c])
  /\ DOMAIN invoice = InvoiceColumn
  /\ drafts \in Nat /\ upsets \in Nat /\ unbooked \in Nat /\ left \in Nat

\* The call is going to write the status that the payments have now.
Restores(b) ==
  \/ b.at = "recounting"
  \/ b.at = "computed" /\ b.op = "recount" /\ Recorded(b.list) = Recorded(payment)
  \/ /\ b.at = "compared" /\ b.op = "recount"
     /\ "pay" \in DOMAIN b.copy /\ b.copy.pay \in StatusesFor(payment)

\* The status about to be written is that of the payments read last.
IsRecount(b) == b.at = "compared" /\ b.op = "recount" /\ "pay" \in DOMAIN b.copy
Recounted(b) == IsRecount(b) => b.copy.pay \in StatusesFor(b.list)

StatusIsRestored ==
  upsets = 0 =>
    /\ \A c \in Call : Recounted(billing[c])
    /\ invoice.pay \in StatusesFor(payment) \/ \E c \in Call : Restores(billing[c])

\* The call carries an old SENT, or is about to write it for the first time.
Resends(b) ==
  /\ b.at \in {"computed", "compared"} /\ b.op # "send"
  /\ "status" \in DOMAIN b.copy /\ b.copy.status = "sent"

Posts(b) == b.at = "posting"
Posting == {c \in Call : Posts(billing[c])}

\* Once the invoice has been SENT it is posted, being posted, or its posting has failed.
SendingIsBooked ==
  invoice.status = "sent" \/ (\E c \in Call : Resends(billing[c]))
    => drafts >= 1 \/ unbooked >= 1 \/ \E c \in Call : Posts(billing[c])

Num(b) == IF b THEN 1 ELSE 0

\* Every draft, posted or on its way, has a turn to SENT of its own.
DraftsAreTurns == drafts + Cardinality(Posting) <= left + Num(invoice.status = "sent")

InvoiceInv == InvoiceShape /\ StatusIsRestored /\ SendingIsBooked /\ DraftsAreTurns

-----------------------------------------------------------------------------
\* The sum of no payments.
LEMMA NoSum == ASSUME NEW list PROVE SumOver(list, {}) = 0
<1> DEFINE Body(f) == [s \in SUBSET {} |-> IF s = {} THEN 0 ELSE list[CHOOSE x \in s : TRUE].amount + f[s \ {CHOOSE x \in s : TRUE}]]
           sum == CHOOSE f : f = Body(f)
<1>1. SumOver(list, {}) = sum[{}]
  BY Zenon DEF SumOver, MapThenSumSet, MapThenFoldSet
<1>2. \E f : f = Body(f)
  <2>1. [s \in SUBSET {} |-> 0] = Body([s \in SUBSET {} |-> 0])
    OBVIOUS
  <2> QED BY <2>1
<1>3. sum = Body(sum)
  <2> HIDE DEF Body
  <2> QED BY <1>2
<1>4. sum[{}] = 0
  <2> HIDE DEF sum
  <2> QED BY <1>3
<1> QED BY <1>1, <1>4

LEMMA PostingIsFinite == IsFiniteSet(Posting) /\ Cardinality(Posting) \in Nat
BY CallsAreFinite, FS_Subset, FS_CardinalityType DEF Posting

\* One call moves: the others, and what they stand for, stay.
LEMMA OneMoves ==
  ASSUME InvoiceShape, NEW c \in Call, NEW b, Moves(c, b)
  PROVE  /\ billing' = [d \in Call |-> billing'[d]]
         /\ billing'[c] = b /\ \A d \in Call : d # c => billing'[d] = billing[d]
         /\ Cardinality(Posting') = Cardinality(Posting) + Num(Posts(b)) - Num(Posts(billing[c]))
         /\ Cardinality(Posting') \in Nat /\ Cardinality(Posting) \in Nat
<1>1. /\ billing' = [d \in Call |-> billing'[d]]
      /\ billing'[c] = b /\ \A d \in Call : d # c => billing'[d] = billing[d]
  BY DEF InvoiceShape, Moves
<1>2. Posting' = IF Posts(b) THEN Posting \cup {c} ELSE Posting \ {c}
  BY <1>1 DEF Posting, Posts
<1>3. c \in Posting <=> Posts(billing[c])
  BY DEF Posting
<1>4. Cardinality(Posting \cup {c}) = IF c \in Posting THEN Cardinality(Posting) ELSE Cardinality(Posting) + 1
  BY PostingIsFinite, FS_AddElement
<1>5. Cardinality(Posting \ {c}) = IF c \in Posting THEN Cardinality(Posting) - 1 ELSE Cardinality(Posting)
  BY PostingIsFinite, FS_RemoveElement
<1>6. Cardinality(Posting') \in Nat
  <2>1. IsFiniteSet(Posting')
    BY <1>2, PostingIsFinite, FS_AddElement, FS_RemoveElement
  <2> QED BY <2>1, FS_CardinalityType
<1> QED BY <1>1, <1>2, <1>3, <1>4, <1>5, <1>6, PostingIsFinite DEF Num

LEMMA InvoiceInvInit == InvoiceInit => InvoiceInv
<1> SUFFICES ASSUME InvoiceInit PROVE InvoiceInv
  OBVIOUS
<1>1. \A c \in Call : BillIsSound(billing[c]) /\ ~Posts(billing[c]) /\ ~Resends(billing[c])
                           /\ Recounted(billing[c])
  BY DEF IsRecount, Recounted, InvoiceInit, NoBill, At, Bill, BillIsSound, Posts, Resends
<1>2. InvoiceShape
  BY <1>1 DEF InvoiceInit, InvoiceShape, InvoiceColumn
<1>3. \A p \in Payment : payment[p].state = "none"
  BY DEF InvoiceInit, NotRecorded
<1>4. Recorded(payment) = {}
  BY <1>3 DEF Recorded
<1>5. StatusesFor(payment) = {"unpaid"}
  BY <1>4, NoSum DEF StatusesFor, StatusesOver
<1>6. StatusIsRestored
  BY <1>1, <1>5 DEF StatusIsRestored, InvoiceInit
<1>7. SendingIsBooked
  BY <1>1 DEF SendingIsBooked, InvoiceInit
<1>8. Posting = {}
  BY <1>1 DEF Posting
<1>9. DraftsAreTurns
  BY <1>8, FS_EmptySet DEF DraftsAreTurns, Num, InvoiceInit
<1> QED BY <1>2, <1>6, <1>7, <1>9 DEF InvoiceInv

\* What a call that goes on leaves alone.
LEMMA ProceedKeepsInv ==
  ASSUME InvoiceInv, NEW c \in Call, NEW b, Moves(c, b), BillIsSound(b),
         UNCHANGED <<invoice, payment, drafts, unbooked, left>>, upsets' \in Nat,
         upsets' = 0 => upsets = 0 /\ Recounted(b),
         upsets' = 0 /\ Restores(billing[c]) => Restores(b) \/ invoice.pay \in StatusesFor(payment),
         Resends(b) => Resends(billing[c]) \/ invoice.status = "sent",
         ~Posts(b), ~Posts(billing[c])
  PROVE  InvoiceInv'
<1> USE DEF InvoiceInv
<1>1. /\ billing' = [d \in Call |-> billing'[d]]
      /\ billing'[c] = b /\ \A d \in Call : d # c => billing'[d] = billing[d]
      /\ Cardinality(Posting') = Cardinality(Posting) + Num(Posts(b)) - Num(Posts(billing[c]))
      /\ Cardinality(Posting') \in Nat /\ Cardinality(Posting) \in Nat
  BY OneMoves
<1>2. InvoiceShape'
  BY <1>1 DEF InvoiceShape, BillIsSound
<1>3. StatusIsRestored'
  BY <1>1 DEF StatusIsRestored, Restores, Recounted, IsRecount
<1>4. SendingIsBooked'
  BY <1>1 DEF SendingIsBooked, Resends, Posts
<1>5. DraftsAreTurns'
  BY <1>1 DEF DraftsAreTurns, Num
<1> QED BY <1>2, <1>3, <1>4, <1>5

\* Payment calls and edits begin.
LEMMA BeginKeepsInv ==
  ASSUME InvoiceInv, NEW c \in Call, NEW b, BeginsBill(c, b), BillIsSound(b), b.at \in {"paying", "computed"},
         Resends(b) => invoice.status = "sent"
  PROVE  InvoiceInv'
<1>1. billing[c] = NoBill /\ Moves(c, b) /\ UNCHANGED <<invoice, payment, drafts, upsets, unbooked, left>>
  BY DEF BeginsBill, MayBegin
<1>2. ~Restores(billing[c]) /\ ~Posts(billing[c]) /\ ~Posts(b) /\ Recounted(b)
  BY <1>1 DEF Recounted, IsRecount, Restores, Posts, NoBill, At, Bill
<1>3. upsets' \in Nat /\ (upsets' = 0 => upsets = 0)
  BY <1>1 DEF InvoiceInv, InvoiceShape
<1> QED BY <1>1, <1>2, <1>3, ProceedKeepsInv

LEMMA PaysIsSound ==
  ASSUME NEW p, NEW row
  PROVE  BillIsSound(Pays(p, row)) /\ Pays(p, row).at = "paying" /\ ~Resends(Pays(p, row))
BY DEF Pays, NoBill, At, Bill, BillIsSound, Resends

\* A computed copy carries SENT only from an invoice that was SENT, unless it is to be posted.
LEMMA ComputedIsSound ==
  ASSUME InvoiceShape, NEW op \in Carried, NEW copy, DOMAIN copy = InvoiceColumn,
         op = "send" => copy.status = "sent" /\ invoice.status # "sent",
         op # "send" /\ copy.status = "sent" => invoice.status = "sent",
         op = "recount" => copy.pay \in StatusesFor(payment)
  PROVE  LET b == Computed(op, copy)
         IN  /\ BillIsSound(b) /\ b.at = "computed" /\ (Resends(b) => invoice.status = "sent")
             /\ (op = "recount" => Restores(b))
BY DEF Computed, NoBill, At, Bill, BillIsSound, Resends, Restores

LEMMA PaymentCallKeepsInv ==
  ASSUME InvoiceInv, NEW c \in Call, NEW p \in Payment, NEW a \in Paid,
         CreatePayment(c, p, a) \/ UpdatePayment(c, p, a)
  PROVE  InvoiceInv'
<1>1. BeginsBill(c, Pays(p, [state |-> "kept", amount |-> a]))
  BY DEF CreatePayment, UpdatePayment
<1> QED BY <1>1, PaysIsSound, BeginKeepsInv

LEMMA RemovePaymentKeepsInv ==
  ASSUME InvoiceInv, NEW c \in Call, NEW p \in Payment, RemovePayment(c, p)
  PROVE  InvoiceInv'
BY PaysIsSound, BeginKeepsInv DEF RemovePayment

LEMMA EditKeepsInv ==
  ASSUME InvoiceInv, NEW c \in Call, NEW status, NEW pay, UpdateInvoice(c, status, pay)
  PROVE  InvoiceInv'
<1> DEFINE copy == [invoice EXCEPT !.status = status, !.pay = pay]
<1>1. BeginsBill(c, Computed(EditTo(status), copy))
  BY DEF UpdateInvoice
<1>2. DOMAIN copy = InvoiceColumn /\ copy.status = status
  BY DEF InvoiceInv, InvoiceShape, InvoiceColumn
<1>3. /\ EditTo(status) \in Carried /\ EditTo(status) # "recount"
      /\ EditTo(status) = "send" => status = "sent" /\ invoice.status # "sent"
      /\ EditTo(status) # "send" /\ status = "sent" => invoice.status = "sent"
  BY DEF EditTo, Carried
<1> HIDE DEF copy
<1>4. LET b == Computed(EditTo(status), copy)
      IN  BillIsSound(b) /\ b.at = "computed" /\ (Resends(b) => invoice.status = "sent")
  BY <1>2, <1>3, ComputedIsSound DEF InvoiceInv
<1> QED BY <1>1, <1>4, BeginKeepsInv

LEMMA RemoveInvoiceKeepsInv ==
  ASSUME InvoiceInv, NEW c \in Call, RemoveInvoice(c)
  PROVE  InvoiceInv'
<1> DEFINE copy == [invoice EXCEPT !.removed = TRUE]
<1>1. BeginsBill(c, Computed("edit", copy))
  BY DEF RemoveInvoice
<1>2. DOMAIN copy = InvoiceColumn /\ copy.status = invoice.status
  BY DEF InvoiceInv, InvoiceShape, InvoiceColumn
<1> HIDE DEF copy
<1>3. LET b == Computed("edit", copy)
      IN  BillIsSound(b) /\ b.at = "computed" /\ (Resends(b) => invoice.status = "sent")
  BY <1>2, ComputedIsSound DEF InvoiceInv, Carried
<1> QED BY <1>1, <1>3, BeginKeepsInv

\* The payments change, and the call that changed them goes on to recount.
LEMMA SavePaymentKeepsInv ==
  ASSUME InvoiceInv, NEW c \in Call, SavePayment(c)
  PROVE  InvoiceInv'
<1> DEFINE b == At("recounting", "recount")
<1>1. /\ billing[c].at = "paying" /\ Moves(c, b)
      /\ UNCHANGED <<invoice, drafts, upsets, unbooked, left>>
  BY DEF SavePayment
<1>2. BillIsSound(b) /\ b.at = "recounting" /\ ~Resends(b) /\ ~Posts(b) /\ ~Posts(billing[c])
  BY <1>1 DEF NoBill, At, Bill, BillIsSound, Resends, Posts
<1> HIDE DEF b
<1>3. /\ billing' = [d \in Call |-> billing'[d]]
      /\ billing'[c] = b /\ \A d \in Call : d # c => billing'[d] = billing[d]
      /\ Cardinality(Posting') = Cardinality(Posting) + Num(Posts(b)) - Num(Posts(billing[c]))
      /\ Cardinality(Posting') \in Nat /\ Cardinality(Posting) \in Nat
  BY <1>1, OneMoves DEF InvoiceInv
<1>4. InvoiceShape'
  BY <1>1, <1>2, <1>3 DEF InvoiceInv, InvoiceShape, BillIsSound
<1>5. StatusIsRestored'
  BY <1>1, <1>2, <1>3 DEF InvoiceInv, StatusIsRestored, Restores, Recounted, IsRecount
<1>6. SendingIsBooked'
  BY <1>1, <1>2, <1>3 DEF InvoiceInv, SendingIsBooked, Resends, Posts
<1>7. DraftsAreTurns'
  BY <1>1, <1>2, <1>3 DEF InvoiceInv, DraftsAreTurns, Num
<1> QED BY <1>4, <1>5, <1>6, <1>7 DEF InvoiceInv

LEMMA RecountKeepsInv ==
  ASSUME InvoiceInv, NEW c \in Call, UpdatePaymentStatus(c)
  PROVE  InvoiceInv'
<1>6. PICK pay \in StatusesFor(payment) :
        Proceeds(c, "recounting", Computed("recount", [invoice EXCEPT !.pay = pay]))
  BY DEF UpdatePaymentStatus
<1> DEFINE copy == [invoice EXCEPT !.pay = pay]
           b == Computed("recount", copy)
<1>1. /\ billing[c].at = "recounting" /\ Moves(c, b)
      /\ UNCHANGED <<invoice, payment, drafts, upsets, unbooked, left>>
  BY <1>6 DEF Proceeds
<1>2. DOMAIN copy = InvoiceColumn /\ copy.status = invoice.status /\ copy.pay \in StatusesFor(payment)
  BY <1>6 DEF InvoiceInv, InvoiceShape, InvoiceColumn
<1> HIDE DEF copy
<1>3. BillIsSound(b) /\ b.at = "computed" /\ (Resends(b) => invoice.status = "sent") /\ Restores(b)
  BY <1>2, ComputedIsSound DEF InvoiceInv, Carried
<1> HIDE DEF b
<1>4. ~Posts(b) /\ ~Posts(billing[c]) /\ Recounted(b)
  BY <1>1, <1>3 DEF Posts, Recounted, IsRecount
<1>5. upsets' \in Nat /\ (upsets' = 0 => upsets = 0)
  BY <1>1 DEF InvoiceInv, InvoiceShape
<1> QED BY <1>1, <1>3, <1>4, <1>5, ProceedKeepsInv

\* The comparison keeps a status that is still that of the payments.
LEMMA CompareKeepsInv ==
  ASSUME InvoiceInv, NEW c \in Call, CompareInvoice(c)
  PROVE  InvoiceInv'
<1> DEFINE o == billing[c]
           fitting == StatusesOver(payment, Recorded(o.list))
           list == IF o.op = "recount" THEN payment ELSE None
           b == Bill("compared", o.op, o.was, Written(o.copy), list)
<1>1. /\ o.at = "computed" /\ Recorded(o.list) = Recorded(payment) /\ Moves(c, b)
      /\ upsets' = IF o.op = "recount" /\ fitting # StatusesFor(o.list) THEN upsets + 1 ELSE upsets
      /\ UNCHANGED <<invoice, payment, drafts, unbooked, left>>
  BY DEF CompareInvoice, Selects
<1>2. BillIsSound(o) /\ upsets \in Nat
  BY DEF InvoiceInv, InvoiceShape
<1>3. b = [at |-> "compared", op |-> o.op, p |-> None, new |-> NotRecorded,
           was |-> o.was, copy |-> Written(o.copy), list |-> list]
  BY DEF Bill
<1>4. /\ DOMAIN Written(o.copy) = {k \in InvoiceColumn : o.copy[k] # invoice[k]}
      /\ \A k \in DOMAIN Written(o.copy) : Written(o.copy)[k] = o.copy[k]
  BY DEF Written
<1> HIDE DEF b, o, fitting
<1>5. upsets' = 0 /\ o.op = "recount" => StatusesFor(o.list) = StatusesFor(payment)
  BY <1>1, <1>2 DEF fitting, StatusesFor
<1>6. o.op = "recount" => o.copy.pay \in StatusesFor(o.list)
  BY <1>1, <1>2 DEF BillIsSound, InvoiceColumn
<1>7. o.op = "send" => o.copy.status = "sent"
  BY <1>1, <1>2 DEF BillIsSound, InvoiceColumn
<1>8. upsets' = 0 /\ o.op = "recount" => Restores(b) \/ invoice.pay \in StatusesFor(payment)
  BY <1>3, <1>4, <1>5, <1>6 DEF Restores, InvoiceColumn
<1>9. upsets' = 0 => Recounted(b)
  BY <1>3, <1>4, <1>5, <1>6 DEF Recounted, IsRecount, list
<1>10. BillIsSound(b) /\ ~Posts(b) /\ ~Posts(o)
  BY <1>1, <1>2, <1>3, <1>4, <1>7 DEF BillIsSound, Posts
<1>11. Resends(b) => Resends(o)
  BY <1>1, <1>2, <1>3, <1>4 DEF BillIsSound, Resends
<1>12. Restores(o) => o.op = "recount"
  BY <1>1, <1>2 DEF Restores
<1>13. upsets' \in Nat /\ (upsets' = 0 => upsets = 0)
  BY <1>1, <1>2
<1> QED BY <1>1, <1>8, <1>9, <1>10, <1>11, <1>12, <1>13, ProceedKeepsInv DEF o

\* A save refused by the payments it does not know restored nothing.
LEMMA DetachKeepsInv ==
  ASSUME InvoiceInv, NEW c \in Call, Detaches(c)
  PROVE  InvoiceInv'
<1>1. /\ billing[c].at = "computed" /\ Recorded(billing[c].list) # Recorded(payment)
      /\ Moves(c, NoBill) /\ UNCHANGED <<invoice, payment, drafts, upsets, unbooked, left>>
  BY DEF Detaches, Proceeds
<1>2. ~Restores(billing[c]) /\ ~Posts(billing[c])
  BY <1>1 DEF Restores, Posts
<1>3. BillIsSound(NoBill) /\ Recounted(NoBill) /\ ~Resends(NoBill) /\ ~Posts(NoBill)
  BY DEF NoBill, At, Bill, BillIsSound, Recounted, IsRecount, Resends, Posts
<1>4. upsets' \in Nat /\ (upsets' = 0 => upsets = 0)
  BY <1>1 DEF InvoiceInv, InvoiceShape
<1> QED BY <1>1, <1>2, <1>3, <1>4, ProceedKeepsInv

\* The row takes the columns that were found changed.
LEMMA WriteKeepsInv ==
  ASSUME InvoiceInv, NEW c \in Call, WriteInvoice(c)
  PROVE  InvoiceInv'
<1> DEFINE o == billing[c]
           row == [col \in InvoiceColumn |-> IF col \in DOMAIN o.copy THEN o.copy[col] ELSE invoice[col]]
           b == IF o.op = "send" THEN At("posting", "none") ELSE NoBill
           lost == \/ invoice.status = "sent" /\ row.status # "sent"
                   \/ o.op = "send" /\ o.was # "sent" /\ (invoice.status = "sent" \/ row.status # "sent")
<1>1. /\ o.at = "compared" /\ invoice' = row /\ Moves(c, b)
      /\ upsets' = IF Upsets(o) THEN upsets + 1 ELSE upsets
      /\ left' = IF lost THEN left + 1 ELSE left
      /\ UNCHANGED <<payment, drafts, unbooked>>
  BY DEF WriteInvoice
<1>2. BillIsSound(o) /\ o.op \in Carried /\ (o.op = "send" => o.was # "sent")
  BY <1>1 DEF InvoiceInv, InvoiceShape, BillIsSound
<1>3. /\ DOMAIN row = InvoiceColumn
      /\ row.status = IF "status" \in DOMAIN o.copy THEN o.copy.status ELSE invoice.status
      /\ row.pay = IF "pay" \in DOMAIN o.copy THEN o.copy.pay ELSE invoice.pay
  BY DEF InvoiceColumn
<1>4. /\ BillIsSound(b) /\ Recounted(b) /\ ~Resends(b) /\ (Posts(b) <=> o.op = "send")
      /\ ~Posts(o) /\ Posts(b) \in BOOLEAN
  BY <1>1 DEF NoBill, At, Bill, BillIsSound, Recounted, IsRecount, Resends, Posts
<1> HIDE DEF row, b
<1>5. /\ billing' = [d \in Call |-> billing'[d]]
      /\ billing'[c] = b /\ \A d \in Call : d # c => billing'[d] = billing[d]
      /\ Cardinality(Posting') = Cardinality(Posting) + Num(Posts(b)) - Num(Posts(o))
      /\ Cardinality(Posting') \in Nat /\ Cardinality(Posting) \in Nat
  BY <1>1, OneMoves DEF InvoiceInv
<1>6. InvoiceShape'
  <2>1. upsets' \in Nat /\ left' \in Nat
    BY <1>1 DEF InvoiceInv, InvoiceShape
  <2> QED BY <1>1, <1>3, <1>4, <1>5, <2>1 DEF InvoiceInv, InvoiceShape, BillIsSound
<1>7. StatusIsRestored'
  <2> SUFFICES ASSUME upsets' = 0
               PROVE  /\ \A d \in Call : Recounted(billing'[d])
                      /\ row.pay \in StatusesFor(payment) \/ \E d \in Call : Restores(billing'[d])
    BY <1>1 DEF StatusIsRestored, Recounted, IsRecount, Restores
  <2>1. upsets = 0 /\ ~Upsets(o)
    BY <1>1 DEF InvoiceInv, InvoiceShape
  <2>2. Recounted(o) /\ \A d \in Call : Recounted(billing'[d])
    BY <1>4, <1>5, <2>1 DEF InvoiceInv, StatusIsRestored
  <2>3. "pay" \in DOMAIN o.copy => row.pay \in StatusesFor(payment)
    <3> SUFFICES ASSUME "pay" \in DOMAIN o.copy PROVE row.pay \in StatusesFor(payment)
      OBVIOUS
    <3>1. o.op = "recount" /\ StatusesFor(o.list) = StatusesFor(payment)
      BY <2>1 DEF Upsets
    <3>2. o.copy.pay \in StatusesFor(o.list)
      BY <1>1, <2>2, <3>1 DEF Recounted, IsRecount
    <3> QED BY <1>3, <3>1, <3>2
  <2>4. "pay" \notin DOMAIN o.copy => row.pay = invoice.pay /\ ~Restores(o)
    BY <1>1, <1>3 DEF Restores
  <2>5. invoice.pay \in StatusesFor(payment) \/ \E d \in Call : Restores(billing[d])
    BY <2>1 DEF InvoiceInv, StatusIsRestored
  <2> QED BY <1>5, <2>2, <2>3, <2>4, <2>5
<1>8. SendingIsBooked'
  <2> SUFFICES ASSUME row.status = "sent" \/ \E d \in Call : Resends(billing'[d])
               PROVE  drafts >= 1 \/ unbooked >= 1 \/ \E d \in Call : Posts(billing'[d])
    BY <1>1 DEF SendingIsBooked, Resends, Posts
  <2>1. CASE o.op = "send"
    BY <1>4, <1>5, <2>1
  <2>2. CASE o.op # "send"
    <3>1. row.status = "sent" => invoice.status = "sent" \/ Resends(o)
      BY <1>1, <1>3, <2>2 DEF Resends
    <3>2. invoice.status = "sent" \/ \E d \in Call : Resends(billing[d])
      BY <1>4, <1>5, <3>1
    <3> QED BY <1>4, <1>5, <3>2 DEF InvoiceInv, SendingIsBooked
  <2> QED BY <2>1, <2>2
<1>9. DraftsAreTurns'
  <2>1. o.op = "send" => ~(invoice.status = "sent" /\ row.status # "sent")
    BY <1>1, <1>2, <1>3 DEF BillIsSound
  <2>2. drafts \in Nat /\ left \in Nat /\ drafts + Cardinality(Posting) <= left + Num(invoice.status = "sent")
    BY DEF InvoiceInv, InvoiceShape, DraftsAreTurns
  <2>3. drafts + Cardinality(Posting)' <= left' + Num(row.status = "sent")
    BY <1>1, <1>2, <1>4, <1>5, <2>1, <2>2 DEF Num
  <2> QED BY <1>1, <2>3 DEF DraftsAreTurns
<1> QED BY <1>6, <1>7, <1>8, <1>9 DEF InvoiceInv

\* What ends a call without touching the rows: a posting, or a break.
LEMMA EndKeepsInv ==
  ASSUME InvoiceInv, NEW c \in Call, Moves(c, NoBill), UNCHANGED <<invoice, payment, left>>,
         upsets' \in Nat, drafts' \in Nat, unbooked' \in Nat, upsets' >= upsets,
         drafts' >= drafts, unbooked' >= unbooked, drafts' <= drafts + Num(Posts(billing[c])),
         Posts(billing[c]) => drafts' >= 1 \/ unbooked' >= 1,
         upsets' = 0 => ~Restores(billing[c])
  PROVE  InvoiceInv'
<1>1. /\ BillIsSound(NoBill) /\ Recounted(NoBill) /\ ~Resends(NoBill) /\ ~Posts(NoBill)
      /\ Posts(billing[c]) \in BOOLEAN
  BY DEF NoBill, At, Bill, BillIsSound, Recounted, IsRecount, Resends, Posts
<1>2. /\ billing' = [d \in Call |-> billing'[d]]
      /\ billing'[c] = NoBill /\ \A d \in Call : d # c => billing'[d] = billing[d]
      /\ Cardinality(Posting') = Cardinality(Posting) + Num(Posts(NoBill)) - Num(Posts(billing[c]))
      /\ Cardinality(Posting') \in Nat /\ Cardinality(Posting) \in Nat
  BY OneMoves DEF InvoiceInv
<1>3. InvoiceShape'
  BY <1>1, <1>2 DEF InvoiceInv, InvoiceShape, BillIsSound
<1>4. StatusIsRestored'
  <2>1. upsets' = 0 => upsets = 0
    BY DEF InvoiceInv, InvoiceShape
  <2> QED BY <1>1, <1>2, <2>1 DEF InvoiceInv, StatusIsRestored, Restores, Recounted, IsRecount
<1>5. SendingIsBooked'
  <2>1. (drafts >= 1 => drafts' >= 1) /\ (unbooked >= 1 => unbooked' >= 1)
    BY DEF InvoiceInv, InvoiceShape
  <2> QED BY <1>1, <1>2, <2>1 DEF InvoiceInv, SendingIsBooked, Resends, Posts
<1>6. DraftsAreTurns'
  <2>1. drafts' + Cardinality(Posting)' <= left + Num(invoice.status = "sent")
    BY <1>1, <1>2 DEF InvoiceInv, InvoiceShape, DraftsAreTurns, Num
  <2> QED BY <2>1 DEF DraftsAreTurns
<1> QED BY <1>3, <1>4, <1>5, <1>6 DEF InvoiceInv

LEMMA PostKeepsInv ==
  ASSUME InvoiceInv, NEW c \in Call, PostToAccounting(c)
  PROVE  InvoiceInv'
<1>1. drafts \in Nat /\ unbooked \in Nat /\ upsets \in Nat
  BY DEF InvoiceInv, InvoiceShape
<1>2. Posts(billing[c]) /\ ~Restores(billing[c])
  BY DEF PostToAccounting, Posts, Restores
<1>3. /\ Moves(c, NoBill) /\ UNCHANGED <<invoice, payment, upsets, left>>
      /\ \/ drafts' = drafts + 1 /\ unbooked' = unbooked
         \/ unbooked' = unbooked + 1 /\ drafts' = drafts
  BY DEF PostToAccounting
<1> QED BY <1>1, <1>2, <1>3, EndKeepsInv DEF Num

LEMMA BreakKeepsInv ==
  ASSUME InvoiceInv, NEW c \in Call, BillBreaks(c)
  PROVE  InvoiceInv'
<1>1. drafts \in Nat /\ unbooked \in Nat /\ upsets \in Nat /\ BillIsSound(billing[c])
  BY DEF InvoiceInv, InvoiceShape
<1>2. /\ Moves(c, NoBill) /\ UNCHANGED <<invoice, payment, drafts, left>>
      /\ upsets' = IF billing[c].op = "recount" THEN upsets + 1 ELSE upsets
      /\ unbooked' = IF Posts(billing[c]) THEN unbooked + 1 ELSE unbooked
  BY DEF BillBreaks, Posts
<1>3. Restores(billing[c]) => billing[c].op = "recount"
  BY <1>1 DEF BillIsSound, Restores
<1>4. Posts(billing[c]) \in BOOLEAN
  BY DEF Posts
<1>5. upsets' \in Nat /\ upsets' >= upsets /\ (upsets' = 0 => ~Restores(billing[c]))
  BY <1>1, <1>2, <1>3
<1> QED BY <1>1, <1>2, <1>4, <1>5, EndKeepsInv DEF Num

LEMMA InvoiceInvNext == InvoiceInv /\ [InvoiceNext]_invoiceVars => InvoiceInv'
<1> SUFFICES ASSUME InvoiceInv, [InvoiceNext]_invoiceVars PROVE InvoiceInv'
  OBVIOUS
<1>1. CASE UNCHANGED invoiceVars
  BY <1>1 DEF invoiceVars, InvoiceInv, InvoiceShape, BillIsSound, StatusIsRestored, Recounted, IsRecount,
              Restores, SendingIsBooked, Resends, DraftsAreTurns, Posting, Posts
<1>2. ASSUME NEW c \in Call, InvoiceStep(c) PROVE InvoiceInv'
  BY <1>2, PaymentCallKeepsInv, RemovePaymentKeepsInv, SavePaymentKeepsInv, RecountKeepsInv,
     EditKeepsInv, RemoveInvoiceKeepsInv, CompareKeepsInv, DetachKeepsInv, WriteKeepsInv,
     PostKeepsInv, BreakKeepsInv DEF InvoiceStep
<1> QED BY <1>1, <1>2 DEF InvoiceNext

-----------------------------------------------------------------------------
(* Theorems about an invoice *)

LEMMA InvoiceInvHolds == InvoiceSpec => []InvoiceInv
BY InvoiceInvInit, InvoiceInvNext, PTL DEF InvoiceSpec

\* Without an upset, an invoice at rest has a status that fits the sum of its payments.
THEOREM StatusIsOfPayments == InvoiceSpec => []StatusFollowsPayments
<1>1. InvoiceInv => StatusFollowsPayments
  BY DEF InvoiceInv, StatusIsRestored, StatusFollowsPayments, Quiet, Restores, NoBill, At, Bill
<1> QED BY <1>1, InvoiceInvHolds, PTL

\* A SENT invoice is booked unless the posting failed or it was created so, and twice only if
\* it left SENT.
THEOREM SentInvoiceIsBooked == InvoiceSpec => []SentIsBooked
<1>1. ASSUME InvoiceInv PROVE SentIsBooked
  <2>1. Quiet /\ unbooked = 0 /\ invoice.status = "sent" => drafts >= 1
    BY <1>1 DEF InvoiceInv, SendingIsBooked, Quiet, Posts, NoBill, At, Bill
  <2>2. drafts <= 1 + left
    BY <1>1, PostingIsFinite DEF InvoiceInv, InvoiceShape, DraftsAreTurns, Num
  <2> QED BY <2>1, <2>2 DEF SentIsBooked
<1>2. InvoiceInv => SentIsBooked
  BY <1>1
<1> QED BY <1>2, InvoiceInvHolds, PTL

-----------------------------------------------------------------------------
(* Recurring transactions *)

-----------------------------------------------------------------------------
(* The inductive invariant *)

ScheduleRow == [status : {"ACTIVE", "PAUSED", "COMPLETED", "deleted"}, next : Nat]
Listing == [s : Schedule, row : ScheduleRow]
Job == [listed : SUBSET Listing, s : Schedule \cup {None}, row : ScheduleRow \cup {None}]
Edit == [s : Schedule \cup {None}, row : ScheduleRow \cup {None},
         to : {None, "same", "ACTIVE", "PAUSED", "deleted"}]

Types ==
  /\ day \in Day /\ plan \in [Schedule -> ScheduleRow] /\ job \in Job /\ editing \in [Call -> Edit]
  /\ ran \in [Schedule -> [Day -> Nat]]
  /\ broken \in [Schedule -> Nat] /\ overwrote \in [Schedule -> Nat]

\* A row stands at the first day, or at one that follows a created occurrence.
Caught(s, row, r) ==
  /\ row \in ScheduleRow
  /\ row.next = First \/ \E e \in Day : r[s][e] >= 1 /\ e + Gap[e] = row.next

CopiesCaught ==
  /\ \A s \in Schedule : Caught(s, plan[s], ran)
  /\ \A s \in Schedule, d \in Day : ran[s][d] >= 1 => Reached(s, d)
  /\ \A c \in Call : editing[c] # Resting =>
       /\ editing[c].s \in Schedule /\ editing[c].to \in {"same", "ACTIVE", "PAUSED", "deleted"}
       /\ Caught(editing[c].s, editing[c].row, ran)
  /\ \A l \in job.listed : Caught(l.s, l.row, ran) /\ l.row.next <= day
  /\ job.s # None => /\ Caught(job.s, job.row, ran) /\ job.row.next \in Day
                     /\ ran[job.s][job.row.next] >= 1

Excused(s) == broken[s] + overwrote[s]

\* What is still to come has not been created yet, up to what is excused; the one that is
\* being worked at has.
OncePerMove ==
  /\ \A s \in Schedule, d \in Day :
       /\ ran[s][d] <= 1 + Excused(s)
       /\ d >= plan[s].next /\ ~(job.s = s /\ job.row.next = d) => ran[s][d] <= Excused(s)
  /\ \A l \in job.listed : l.s # job.s /\ ran[l.s][l.row.next] <= Excused(l.s)
  /\ \A l, m \in job.listed : l.s = m.s => l = m

RecInv == Types /\ CopiesCaught /\ OncePerMove

LEMMA RecInvInit == RecurringInit => RecInv
<1> SUFFICES ASSUME RecurringInit PROVE RecInv
  OBVIOUS
<1> USE ScheduleAssumption
<1>1. Types
  BY DEF RecurringInit, Types, Day, ScheduleRow, Job, Edit, AtNight, Resting
<1>2. CopiesCaught
  <2>1. \A s \in Schedule : plan[s] \in ScheduleRow /\ plan[s].next = First
    BY DEF RecurringInit, ScheduleRow
  <2>2. \A s \in Schedule : Caught(s, plan[s], ran)
    BY <2>1 DEF Caught
  <2>3. \A s \in Schedule, d \in Day : ~(ran[s][d] >= 1)
    BY DEF RecurringInit
  <2> QED BY <2>2, <2>3 DEF RecurringInit, CopiesCaught, AtNight
<1>3. OncePerMove
  BY DEF RecurringInit, OncePerMove, Excused, AtNight
<1> QED BY <1>1, <1>2, <1>3 DEF RecInv

-----------------------------------------------------------------------------
(* Every step keeps it *)

LEMMA ReadPlanKeeps ==
  ASSUME RecInv, NEW c \in Call, NEW s \in Schedule, NEW to \in {"same", "ACTIVE", "PAUSED", "deleted"},
         ReadPlan(c, s, to)
  PROVE  RecInv'
<1> DEFINE e == [s |-> s, row |-> plan[s], to |-> to]
<1>1. editing' = [editing EXCEPT ![c] = e] /\ UNCHANGED <<day, plan, job, ran, broken, overwrote>>
  BY DEF ReadPlan
<1>2. Types /\ CopiesCaught /\ OncePerMove
  BY DEF RecInv
<1>3. e \in Edit /\ e.s = s /\ e.row = plan[s] /\ e.to \in {"same", "ACTIVE", "PAUSED", "deleted"}
  BY <1>2 DEF Types, Edit
<1> HIDE DEF e
<1>4. Types'
  BY <1>1, <1>2, <1>3 DEF Types
<1>5. \A d \in Call : editing'[d] = IF d = c THEN e ELSE editing[d]
  BY <1>1, <1>2 DEF Types
<1>6. CopiesCaught'
  BY <1>1, <1>2, <1>3, <1>5 DEF CopiesCaught, Reached
<1>7. OncePerMove'
  BY <1>1, <1>2 DEF OncePerMove, Excused
<1> QED BY <1>4, <1>6, <1>7 DEF RecInv

\* A call that ends without a save.
LEMMA EditEnds ==
  ASSUME RecInv, NEW c \in Call
  PROVE  LET rest == [editing EXCEPT ![c] = Resting]
         IN  /\ rest \in [Call -> Edit]
             /\ \A d \in Call : rest[d] # Resting => rest[d] = editing[d]
<1>1. editing \in [Call -> Edit] /\ Resting \in Edit
  BY DEF RecInv, Types, Edit, Resting
<1> QED BY <1>1

LEMMA EditRefusedKeeps ==
  ASSUME RecInv, NEW c \in Call, EditRefused(c)
  PROVE  RecInv'
<1>1. editing' = [editing EXCEPT ![c] = Resting] /\ UNCHANGED <<day, plan, job, ran, broken, overwrote>>
  BY DEF EditRefused
<1>2. Types /\ CopiesCaught /\ OncePerMove
  BY DEF RecInv
<1>3. Types' /\ \A d \in Call : editing'[d] # Resting => editing'[d] = editing[d]
  BY <1>1, <1>2, EditEnds DEF Types
<1>4. CopiesCaught'
  BY <1>1, <1>2, <1>3 DEF CopiesCaught, Reached
<1>5. OncePerMove'
  BY <1>1, <1>2 DEF OncePerMove, Excused
<1> QED BY <1>3, <1>4, <1>5 DEF RecInv

LEMMA DeleteKeeps ==
  ASSUME RecInv, NEW c \in Call, Delete(c)
  PROVE  RecInv'
<1> DEFINE s == editing[c].s
<1>1. /\ editing[c] # Resting
      /\ plan' = [plan EXCEPT ![s].status = "deleted"]
      /\ editing' = [editing EXCEPT ![c] = Resting]
      /\ UNCHANGED <<day, job, ran, broken, overwrote>>
  BY DEF Delete
<1>2. Types /\ CopiesCaught /\ OncePerMove
  BY DEF RecInv
<1>3. s \in Schedule
  BY <1>1, <1>2 DEF CopiesCaught
<1> HIDE DEF s
<1>4. plan' \in [Schedule -> ScheduleRow] /\ \A t \in Schedule : plan'[t].next = plan[t].next
  BY <1>1, <1>2, <1>3 DEF Types, ScheduleRow
<1>5. Types' /\ \A d \in Call : editing'[d] # Resting => editing'[d] = editing[d]
  BY <1>1, <1>2, <1>4, EditEnds DEF Types
<1>6. \A t \in Schedule : Caught(t, plan'[t], ran)
  BY <1>2, <1>4 DEF CopiesCaught, Caught
<1>7. CopiesCaught'
  BY <1>1, <1>2, <1>5, <1>6 DEF CopiesCaught, Reached
<1>8. OncePerMove'
  BY <1>1, <1>2, <1>4 DEF OncePerMove, Excused
<1> QED BY <1>5, <1>7, <1>8 DEF RecInv

\* A save over a schedule that has changed since is excused, so that what the row says it
\* has still to do may have been done; one over the row as it was read moves nothing.
LEMMA SavedRow ==
  ASSUME RecInv, NEW s \in Schedule, NEW seen \in ScheduleRow, NEW row \in ScheduleRow,
         overwrote' = [overwrote EXCEPT ![s] = @ + Lost(plan[s], seen)],
         plan' = [plan EXCEPT ![s] = row],
         UNCHANGED <<ran, broken>>,
         job'.listed = job.listed, job'.s \in {job.s, None},
         \A t \in Schedule \ {s} : job.s = t => job'.s = t /\ job'.row = job.row,
         plan[s] = seen => \A d \in Day :
           d >= row.next /\ ~(job'.s = s /\ job'.row.next = d) => ran[s][d] <= Excused(s)
  PROVE  OncePerMove'
<1>1. Types /\ OncePerMove
  BY DEF RecInv
<1>2. \A t \in Schedule : plan'[t] = IF t = s THEN row ELSE plan[t]
  BY <1>1 DEF Types
<1>3. \A t \in Schedule :
        /\ Excused(t) \in Nat /\ Excused(t)' \in Nat /\ Excused(t) <= Excused(t)'
        /\ t = s /\ plan[s] # seen => Excused(t)' = Excused(t) + 1
  <2>1. \A t \in Schedule : broken[t] \in Nat /\ overwrote[t] \in Nat
    BY <1>1 DEF Types
  <2>2. \A t \in Schedule : overwrote'[t] = IF t = s THEN overwrote[s] + Lost(plan[s], seen) ELSE overwrote[t]
    BY <1>1 DEF Types
  <2> QED BY <2>1, <2>2 DEF Excused, Lost
<1>4. \A t \in Schedule, d \in Day : ran'[t][d] = ran[t][d] /\ ran[t][d] \in Nat
  BY <1>1 DEF Types
<1>5. ASSUME NEW t \in Schedule, NEW d \in Day
      PROVE  /\ ran'[t][d] <= 1 + Excused(t)'
             /\ d >= plan'[t].next /\ ~(job'.s = t /\ job'.row.next = d) => ran'[t][d] <= Excused(t)'
  <2>1. ran[t][d] <= 1 + Excused(t)
    BY <1>1 DEF OncePerMove
  <2>2. CASE t # s
    BY <2>1, <2>2, <1>1, <1>2, <1>3, <1>4 DEF OncePerMove
  <2>3. CASE t = s
    BY <2>1, <2>3, <1>2, <1>3, <1>4
  <2> QED BY <2>2, <2>3
<1>6. ASSUME NEW l \in job'.listed PROVE l.s # job'.s /\ ran'[l.s][l.row.next] <= Excused(l.s)'
  <2>1. l \in Listing /\ l.s # job.s /\ ran[l.s][l.row.next] <= Excused(l.s)
    BY <1>1 DEF Types, Job, OncePerMove
  <2>2. l.s \in Schedule /\ l.row.next \in Day
    <3>1. l.s \in Schedule /\ l.row.next \in Nat
      BY <2>1 DEF Listing, ScheduleRow
    <3>2. l.row.next <= day
      BY DEF RecInv, CopiesCaught
    <3>3. day \in 0..MaxDay /\ MaxDay \in Nat
      BY <1>1, ScheduleAssumption DEF Types, Day
    <3> QED BY <3>1, <3>2, <3>3 DEF Day
  <2>3. l.s # None
    BY <2>2, ScheduleAssumption
  <2>4. ran[l.s][l.row.next] \in Nat
    BY <1>4, <2>2
  <2> QED BY <1>3, <1>4, <2>1, <2>2, <2>3, <2>4
<1> QED BY <1>1, <1>5, <1>6 DEF OncePerMove

LEMMA SavePlanKeeps ==
  ASSUME RecInv, NEW c \in Call, SavePlan(c)
  PROVE  RecInv'
<1> DEFINE e == editing[c]
           s == e.s
           row == [e.row EXCEPT !.status = IF e.to = "same" THEN @ ELSE e.to]
<1>1. /\ e # Resting /\ e.to # "deleted"
      /\ plan' = [plan EXCEPT ![s] = row]
      /\ overwrote' = [overwrote EXCEPT ![s] = @ + Lost(plan[s], e.row)]
      /\ editing' = [editing EXCEPT ![c] = Resting]
      /\ UNCHANGED <<day, job, ran, broken>>
  BY DEF SavePlan
<1>2. Types /\ CopiesCaught /\ OncePerMove
  BY DEF RecInv
<1>3. s \in Schedule /\ Caught(s, e.row, ran) /\ e.to \in {"same", "ACTIVE", "PAUSED"}
  BY <1>1, <1>2 DEF CopiesCaught
<1>4. e.row \in ScheduleRow /\ e.to \in {"same", "ACTIVE", "PAUSED"}
  BY <1>1, <1>2, <1>3 DEF Types, Edit, Caught
<1> HIDE DEF e, s
<1>5. row \in ScheduleRow /\ row.next = e.row.next
  <2>1. CASE e.to = "same"
    BY <2>1, <1>4 DEF ScheduleRow
  <2>2. CASE e.to \in {"ACTIVE", "PAUSED"}
    BY <2>2, <1>4 DEF ScheduleRow
  <2> QED BY <1>4, <2>1, <2>2
<1> HIDE DEF row
<1>6. Types' /\ \A d \in Call : editing'[d] # Resting => editing'[d] = editing[d]
  <2>1. overwrote' \in [Schedule -> Nat]
    BY <1>1, <1>2, <1>3 DEF Types, Lost
  <2>2. plan' \in [Schedule -> ScheduleRow]
    BY <1>1, <1>2, <1>3, <1>5 DEF Types
  <2> QED BY <1>1, <1>2, <2>1, <2>2, EditEnds DEF Types
<1>7. \A t \in Schedule : Caught(t, plan'[t], ran)
  <2>1. \A t \in Schedule : plan'[t] = IF t = s THEN row ELSE plan[t]
    BY <1>1, <1>2 DEF Types
  <2>2. Caught(s, row, ran)
    BY <1>3, <1>5 DEF Caught
  <2> QED BY <1>2, <2>1, <2>2 DEF CopiesCaught
<1>8. CopiesCaught'
  BY <1>1, <1>2, <1>6, <1>7 DEF CopiesCaught, Reached
<1>9. OncePerMove'
  <2>1. plan[s] = e.row => \A d \in Day :
          d >= row.next /\ ~(job'.s = s /\ job'.row.next = d) => ran[s][d] <= Excused(s)
    BY <1>1, <1>2, <1>3, <1>5 DEF OncePerMove
  <2> QED BY <1>1, <1>3, <1>4, <1>5, <2>1, SavedRow
<1> QED BY <1>6, <1>8, <1>9 DEF RecInv

LEMMA MoveOnKeeps ==
  ASSUME RecInv, MoveOn
  PROVE  RecInv'
<1> DEFINE s == job.s
           row == MovedOn(s, job.row)
<1>1. /\ s # None
      /\ plan' = [plan EXCEPT ![s] = row]
      /\ overwrote' = [overwrote EXCEPT ![s] = @ + Lost(plan[s], job.row)]
      /\ job' = [job EXCEPT !.s = None, !.row = None]
      /\ UNCHANGED <<day, editing, ran, broken>>
  BY DEF MoveOn
<1>2. Types /\ CopiesCaught /\ OncePerMove
  BY DEF RecInv
<1>3. s \in Schedule /\ Caught(s, job.row, ran) /\ job.row.next \in Day /\ ran[s][job.row.next] >= 1
  BY <1>1, <1>2 DEF CopiesCaught, Types, Job
<1>4. job.row \in ScheduleRow /\ job.row.next \in Nat
  BY <1>3 DEF Caught, ScheduleRow
<1>5. row \in ScheduleRow /\ row.next = job.row.next + Gap[job.row.next] /\ row.next > job.row.next
  BY <1>3, <1>4, ScheduleAssumption DEF MovedOn, ScheduleRow, Day
<1>6. job' \in Job /\ job'.s = None /\ job'.listed = job.listed
  BY <1>1, <1>2 DEF Types, Job
<1> HIDE DEF s, row
<1>7. Types'
  <2>1. overwrote' \in [Schedule -> Nat]
    BY <1>1, <1>2, <1>3 DEF Types, Lost
  <2>2. plan' \in [Schedule -> ScheduleRow]
    BY <1>1, <1>2, <1>3, <1>5 DEF Types
  <2> QED BY <1>1, <1>2, <1>6, <2>1, <2>2 DEF Types
<1>8. Caught(s, row, ran)
  BY <1>3, <1>5 DEF Caught
<1>9. \A t \in Schedule : Caught(t, plan'[t], ran)
  <2>1. \A t \in Schedule : plan'[t] = IF t = s THEN row ELSE plan[t]
    BY <1>1, <1>2 DEF Types
  <2> QED BY <1>2, <1>8, <2>1 DEF CopiesCaught
<1>10. CopiesCaught'
  BY <1>1, <1>2, <1>6, <1>9 DEF CopiesCaught, Reached
<1>11. OncePerMove'
  <2>1. plan[s] = job.row => \A d \in Day :
          d >= row.next /\ ~(job'.s = s /\ job'.row.next = d) => ran[s][d] <= Excused(s)
    <3> SUFFICES ASSUME plan[s] = job.row, NEW d \in Day, d >= row.next PROVE ran[s][d] <= Excused(s)
      OBVIOUS
    <3>1. d >= plan[s].next /\ d # job.row.next
      BY <1>4, <1>5 DEF Day, ScheduleRow
    <3> QED BY <3>1, <1>2, <1>3 DEF OncePerMove, s
  <2>2. \A t \in Schedule \ {s} : job.s = t => job'.s = t /\ job'.row = job.row
    BY DEF s
  <2> QED BY <1>1, <1>3, <1>4, <1>5, <1>6, <2>1, <2>2, SavedRow
<1> QED BY <1>7, <1>10, <1>11 DEF RecInv

LEMMA MidnightKeeps ==
  ASSUME RecInv, Midnight
  PROVE  RecInv'
<1>1. /\ day < MaxDay /\ job = AtNight /\ day' = day + 1
      /\ UNCHANGED <<plan, editing, ran, broken, overwrote>>
  BY DEF Midnight
<1>2. Types /\ CopiesCaught /\ OncePerMove
  BY DEF RecInv
<1>3. PICK listed \in SUBSET {[s |-> s, row |-> plan[s]] : s \in Due} : job' = [AtNight EXCEPT !.listed = listed]
  BY DEF Midnight
<1>4. job.s = None /\ job'.s = None /\ job'.row = None /\ job'.listed = listed
  BY <1>1, <1>3 DEF AtNight
<1>5. \A l \in listed : l.s \in Schedule /\ l.row = plan[l.s] /\ l.row.next <= day' /\ l \in Listing
  BY <1>2 DEF Due, Types, Listing
<1>6. \A l, m \in listed : l.s = m.s => l = m
  BY <1>2 DEF Due
<1>7. day' \in Day
  BY <1>1, <1>2, ScheduleAssumption DEF Types, Day
<1>8. Types'
  <2>1. job' \in Job
    BY <1>3, <1>5 DEF Job, AtNight
  <2> QED BY <1>1, <1>2, <1>7, <2>1 DEF Types
<1>9. CopiesCaught'
  BY <1>1, <1>2, <1>4, <1>5 DEF CopiesCaught, Reached
<1>10. OncePerMove'
  <2>1. \A s \in Schedule, d \in Day : d >= plan[s].next => ran[s][d] <= Excused(s)
    BY <1>2, <1>4, ScheduleAssumption DEF OncePerMove
  <2>2. ASSUME NEW l \in listed PROVE l.s # None /\ ran[l.s][l.row.next] <= Excused(l.s)
    <3>1. l.s \in Schedule /\ l.row = plan[l.s] /\ l.row.next <= day' /\ l.row.next \in Nat
      BY <1>5 DEF Listing, ScheduleRow
    <3>2. l.row.next \in Day
      BY <3>1, <1>7, ScheduleAssumption DEF Day
    <3>3. l.row.next >= plan[l.s].next
      BY <3>1
    <3> QED BY <3>1, <3>2, <3>3, <2>1, ScheduleAssumption
  <2> QED BY <1>1, <1>2, <1>4, <1>6, <2>1, <2>2 DEF OncePerMove, Excused
<1> QED BY <1>8, <1>9, <1>10 DEF RecInv

LEMMA OneMore ==
  ASSUME NEW D, NEW f \in [D -> Nat], NEW d \in D
  PROVE  /\ [f EXCEPT ![d] = @ + 1] \in [D -> Nat]
         /\ \A e \in D : [f EXCEPT ![d] = @ + 1][e] >= f[e]
<1>1. \A e \in D : [f EXCEPT ![d] = @ + 1][e] = IF e = d THEN f[e] + 1 ELSE f[e]
  OBVIOUS
<1>2. \A e \in D : f[e] \in Nat
  OBVIOUS
<1>3. \A e \in D : [f EXCEPT ![d] = @ + 1][e] \in Nat /\ [f EXCEPT ![d] = @ + 1][e] >= f[e]
  BY <1>1, <1>2
<1> DEFINE g == [f EXCEPT ![d] = @ + 1]
<1>4. g = [e \in D |-> g[e]]
  OBVIOUS
<1>5. \A e \in D : g[e] \in Nat
  BY <1>3
<1> HIDE DEF g
<1>6. g \in [D -> Nat]
  BY <1>4, <1>5
<1> QED BY <1>3, <1>6 DEF g

LEMMA CreateKeeps ==
  ASSUME RecInv, CreateTransaction
  PROVE  RecInv'
<1>1. job.s = None /\ UNCHANGED <<day, plan, editing, broken, overwrote>>
  BY DEF CreateTransaction
<1>2. Types /\ CopiesCaught /\ OncePerMove
  BY DEF RecInv
<1>3. PICK l \in job.listed :
        \/ /\ job' = [listed |-> job.listed \ {l}, s |-> l.s, row |-> l.row]
           /\ ran' = [ran EXCEPT ![l.s][l.row.next] = @ + 1]
        \/ job' = [job EXCEPT !.listed = @ \ {l}] /\ ran' = ran
  BY DEF CreateTransaction
<1>4. l \in Listing /\ l.s \in Schedule /\ l.row \in ScheduleRow
  BY <1>2, <1>3 DEF Types, Job, Listing
<1>5. l.row.next \in Day
  <2>1. l.row.next \in Nat /\ l.row.next <= day /\ day \in 0..MaxDay /\ MaxDay \in Nat
    BY <1>2, <1>3, <1>4, ScheduleAssumption DEF CopiesCaught, Types, ScheduleRow, Day
  <2> QED BY <2>1 DEF Day
<1>6. job' \in Job /\ job'.listed = job.listed \ {l}
  BY <1>2, <1>3, <1>4 DEF Types, Job
<1>7. /\ ran' \in [Schedule -> [Day -> Nat]]
      /\ \A s \in Schedule, d \in Day : ran[s][d] \in Nat /\ ran'[s][d] \in Nat /\ ran'[s][d] >= ran[s][d]
  <2>1. ran \in [Schedule -> [Day -> Nat]]
    BY <1>2 DEF Types
  <2>2. CASE ran' = [ran EXCEPT ![l.s][l.row.next] = @ + 1]
    <3>1. \A s \in Schedule : ran'[s] = IF s = l.s THEN [ran[s] EXCEPT ![l.row.next] = @ + 1] ELSE ran[s]
      BY <2>1, <2>2
    <3>2. \A s \in Schedule : ran[s] \in [Day -> Nat]
      BY <2>1
    <3> DEFINE more == [ran[l.s] EXCEPT ![l.row.next] = @ + 1]
    <3>3. more \in [Day -> Nat] /\ \A d \in Day : more[d] >= ran[l.s][d]
      BY <3>2, <1>4, <1>5, OneMore
    <3>4. \A s \in Schedule : ran'[s] = IF s = l.s THEN more ELSE ran[s]
      BY <3>1
    <3> HIDE DEF more
    <3>5. \A s \in Schedule : ran'[s] \in [Day -> Nat]
      BY <3>2, <3>3, <3>4
    <3>6. ran' = [s \in Schedule |-> ran'[s]]
      BY <2>1, <2>2
    <3>7. ran' \in [Schedule -> [Day -> Nat]]
      BY <3>5, <3>6
    <3>8. \A s \in Schedule, d \in Day : ran[s][d] \in Nat /\ ran'[s][d] \in Nat
      BY <3>2, <3>5
    <3>9. \A s \in Schedule, d \in Day : ran'[s][d] >= ran[s][d]
      BY <3>3, <3>4, <3>8
    <3> QED BY <3>7, <3>8, <3>9
  <2>3. CASE ran' = ran
    BY <2>1, <2>3
  <2> QED BY <1>3, <2>2, <2>3
<1>8. Types'
  BY <1>1, <1>2, <1>6, <1>7 DEF Types
<1>9. ASSUME NEW s \in Schedule, NEW row, Caught(s, row, ran) PROVE Caught(s, row, ran')
  BY <1>7, <1>9 DEF Caught
<1>10. CopiesCaught'
  <2>1. job'.s # None => /\ Caught(job'.s, job'.row, ran') /\ job'.row.next \in Day
                         /\ ran'[job'.s][job'.row.next] >= 1
    <3>1. CASE job' = [job EXCEPT !.listed = @ \ {l}]
      BY <3>1, <1>1, <1>2 DEF Types, Job
    <3>2. CASE /\ job' = [listed |-> job.listed \ {l}, s |-> l.s, row |-> l.row]
               /\ ran' = [ran EXCEPT ![l.s][l.row.next] = @ + 1]
      <4>1. job'.s = l.s /\ job'.row = l.row /\ Caught(l.s, l.row, ran')
        BY <3>2, <1>2, <1>3, <1>4, <1>9 DEF CopiesCaught
      <4>2. ran'[l.s][l.row.next] = ran[l.s][l.row.next] + 1
        BY <3>2, <1>2, <1>4, <1>5 DEF Types
      <4> QED BY <4>1, <4>2, <1>4, <1>5, <1>7
    <3> QED BY <3>1, <3>2, <1>3
  <2>2. \A s \in Schedule : Caught(s, plan'[s], ran')
    BY <1>1, <1>2, <1>9 DEF CopiesCaught
  <2>3. \A c \in Call : editing'[c] # Resting =>
          /\ editing'[c].s \in Schedule /\ editing'[c].to \in {"same", "ACTIVE", "PAUSED", "deleted"}
          /\ Caught(editing'[c].s, editing'[c].row, ran')
    BY <1>1, <1>2, <1>9 DEF CopiesCaught
  <2>4. \A m \in job'.listed : Caught(m.s, m.row, ran') /\ m.row.next <= day'
    BY <1>1, <1>2, <1>6, <1>9 DEF CopiesCaught, Types, Job, Listing
  <2>5. ASSUME NEW s \in Schedule, NEW d \in Day, ran'[s][d] >= 1 PROVE Reached(s, d)'
    <3>1. CASE ran[s][d] >= 1
      <4>1. d = First \/ \E e \in Day : ran[s][e] >= 1 /\ e + Gap[e] = d
        BY <3>1, <1>2 DEF CopiesCaught, Reached
      <4>2. \A e \in Day : ran[s][e] >= 1 => ran'[s][e] >= 1
        BY <1>7
      <4> QED BY <4>1, <4>2 DEF Reached
    <3>2. CASE ~(ran[s][d] >= 1)
      <4>1. s = l.s /\ d = l.row.next
        BY <2>5, <3>2, <1>2, <1>3, <1>4, <1>5 DEF Types
      <4>2. Caught(l.s, l.row, ran')
        BY <1>2, <1>3, <1>4, <1>9 DEF CopiesCaught
      <4> QED BY <4>1, <4>2 DEF Caught, Reached
    <3> QED BY <3>1, <3>2
  <2> QED BY <2>1, <2>2, <2>3, <2>4, <2>5 DEF CopiesCaught
<1>11. OncePerMove'
  <2>1. \A s \in Schedule : Excused(s)' = Excused(s) /\ Excused(s) \in Nat
    BY <1>1, <1>2 DEF Excused, Types
  <2>2. CASE job' = [job EXCEPT !.listed = @ \ {l}] /\ ran' = ran
    <3>1. job'.s = None
      BY <2>2, <1>1, <1>2 DEF Types, Job
    <3> QED BY <3>1, <2>1, <2>2, <1>1, <1>2, <1>6, ScheduleAssumption DEF OncePerMove, Types, Job, Listing
  <2>3. CASE /\ job' = [listed |-> job.listed \ {l}, s |-> l.s, row |-> l.row]
             /\ ran' = [ran EXCEPT ![l.s][l.row.next] = @ + 1]
    <3>1. job'.s = l.s /\ job'.row = l.row
      BY <2>3
    <3>2. \A s \in Schedule, d \in Day :
            ran'[s][d] = IF s = l.s /\ d = l.row.next THEN ran[s][d] + 1 ELSE ran[s][d]
      BY <2>3, <1>2, <1>4, <1>5 DEF Types
    <3>3. ran[l.s][l.row.next] <= Excused(l.s)
      BY <1>2, <1>3 DEF OncePerMove
    <3>4. ASSUME NEW s \in Schedule, NEW d \in Day
          PROVE  /\ ran'[s][d] <= 1 + Excused(s)
                 /\ d >= plan'[s].next /\ ~(job'.s = s /\ job'.row.next = d) => ran'[s][d] <= Excused(s)
      <4>1. job.s # s
        BY <1>1, ScheduleAssumption
      <4>2. ran[s][d] <= 1 + Excused(s) /\ (d >= plan[s].next => ran[s][d] <= Excused(s))
        BY <4>1, <1>2 DEF OncePerMove
      <4> QED BY <4>2, <3>1, <3>2, <3>3, <2>1, <1>1, <1>7
    <3>5. ASSUME NEW m \in job'.listed PROVE m.s # job'.s /\ ran'[m.s][m.row.next] <= Excused(m.s)
      <4>1. m \in job.listed /\ m # l /\ m \in Listing
        BY <1>2, <1>6 DEF Types, Job
      <4>2. m.s # l.s /\ ran[m.s][m.row.next] <= Excused(m.s)
        BY <4>1, <1>2, <1>3 DEF OncePerMove
      <4>3. m.s \in Schedule /\ ran'[m.s] = ran[m.s]
        BY <4>1, <4>2, <2>3, <1>2 DEF Types, Listing
      <4> QED BY <3>1, <4>2, <4>3
    <3>6. \A m, o \in job'.listed : m.s = o.s => m = o
      BY <1>2, <1>6 DEF OncePerMove
    <3>7. \A m \in job'.listed : m.s \in Schedule
      BY <1>2, <1>6 DEF Types, Job, Listing
    <3> QED BY <2>1, <3>4, <3>5, <3>6, <3>7 DEF OncePerMove
  <2> QED BY <1>3, <2>2, <2>3
<1> QED BY <1>8, <1>10, <1>11 DEF RecInv

LEMMA NightBreaksKeeps ==
  ASSUME RecInv, NightBreaks
  PROVE  RecInv'
<1>1. /\ job' \in {AtNight, [job EXCEPT !.s = None, !.row = None]}
      /\ broken' = IF job.s = None THEN broken ELSE [broken EXCEPT ![job.s] = @ + 1]
      /\ UNCHANGED <<day, plan, editing, ran, overwrote>>
  BY DEF NightBreaks
<1>2. Types /\ CopiesCaught /\ OncePerMove
  BY DEF RecInv
<1>3. job' \in Job /\ job'.s = None /\ job'.listed \in {{}, job.listed}
  <2>1. CASE job' = AtNight
    BY <2>1 DEF Job, AtNight
  <2>2. CASE job' = [job EXCEPT !.s = None, !.row = None]
    BY <2>2, <1>2 DEF Types, Job
  <2> QED BY <1>1, <2>1, <2>2
<1>4. job.s = None \/ job.s \in Schedule
  BY <1>2 DEF Types, Job
<1>5. broken' \in [Schedule -> Nat]
      /\ \A s \in Schedule : broken'[s] = IF s = job.s THEN broken[s] + 1 ELSE broken[s]
  BY <1>1, <1>2, <1>4, ScheduleAssumption DEF Types
<1>6. Types'
  BY <1>1, <1>2, <1>3, <1>5 DEF Types
<1>7. CopiesCaught'
  BY <1>1, <1>2, <1>3 DEF CopiesCaught, Reached
<1>8. OncePerMove'
  <2>1. \A s \in Schedule :
          /\ Excused(s) \in Nat /\ Excused(s)' \in Nat /\ Excused(s) <= Excused(s)'
          /\ s = job.s => Excused(s)' = Excused(s) + 1
    <3>1. \A s \in Schedule : broken[s] \in Nat /\ overwrote[s] \in Nat /\ overwrote'[s] = overwrote[s]
      BY <1>1, <1>2 DEF Types
    <3> QED BY <3>1, <1>5 DEF Excused
  <2>2. \A s \in Schedule, d \in Day : ran[s][d] \in Nat
    BY <1>2 DEF Types
  <2>3. ASSUME NEW s \in Schedule, NEW d \in Day
        PROVE  /\ ran[s][d] <= 1 + Excused(s)'
               /\ d >= plan[s].next => ran[s][d] <= Excused(s)'
    <3>1. ran[s][d] <= 1 + Excused(s) /\ (d >= plan[s].next /\ job.s # s => ran[s][d] <= Excused(s))
      BY <1>2 DEF OncePerMove
    <3> QED BY <3>1, <2>1, <2>2
  <2>4. ASSUME NEW l \in job'.listed PROVE l.s # None /\ ran[l.s][l.row.next] <= Excused(l.s)'
    <3>1. l \in job.listed /\ l.s \in Schedule /\ l.s # job.s
      BY <1>2, <1>3 DEF Types, Job, Listing, OncePerMove
    <3>2. Excused(l.s)' = Excused(l.s)
      BY <3>1, <1>1, <1>5 DEF Excused
    <3>3. ran[l.s][l.row.next] <= Excused(l.s)
      BY <3>1, <1>2 DEF OncePerMove
    <3> QED BY <3>1, <3>2, <3>3, ScheduleAssumption
  <2>5. \A l, m \in job'.listed : l.s = m.s => l = m
    BY <1>2, <1>3 DEF OncePerMove
  <2> QED BY <1>1, <1>3, <2>3, <2>4, <2>5 DEF OncePerMove
<1> QED BY <1>6, <1>7, <1>8 DEF RecInv

LEMMA RecInvNext == RecInv /\ [RecurringNext]_recurringVars => RecInv'
<1> SUFFICES ASSUME RecInv, [RecurringNext]_recurringVars PROVE RecInv'
  OBVIOUS
<1>1. CASE UNCHANGED recurringVars
  BY <1>1 DEF recurringVars, RecInv, Types, CopiesCaught, Reached, OncePerMove, Excused
<1>2. CASE RecurringNext
  BY <1>2, MidnightKeeps, CreateKeeps, MoveOnKeeps, NightBreaksKeeps, ReadPlanKeeps, SavePlanKeeps,
     DeleteKeeps, EditRefusedKeeps DEF RecurringNext
<1> QED BY <1>1, <1>2

-----------------------------------------------------------------------------
(* Theorems *)

LEMMA RecInvHolds == RecurringSpec => []RecInv
BY RecInvInit, RecInvNext, PTL DEF RecurringSpec

\* However nights break and copies overwrite each other, no schedule moves past an
\* occurrence that was not created.
THEOREM NothingSkipped == RecurringSpec => []NoneSkipped
<1>1. RecInv => NoneSkipped
  BY DEF RecInv, CopiesCaught, Caught, Reached, NoneSkipped
<1> QED BY <1>1, RecInvHolds, PTL

\* An occurrence is created a second time only for a broken night or a lost change.
THEOREM NothingTwice == RecurringSpec => []CreatedOnce
<1>1. RecInv => CreatedOnce
  <2> SUFFICES ASSUME RecInv, NEW s \in Schedule, NEW d \in Day
               PROVE  ran[s][d] <= 1 + broken[s] + overwrote[s]
    BY DEF CreatedOnce
  <2>1. broken[s] \in Nat /\ overwrote[s] \in Nat
    BY DEF RecInv, Types
  <2>2. ran[s][d] <= 1 + (broken[s] + overwrote[s])
    BY DEF RecInv, OncePerMove, Excused
  <2> QED BY <2>1, <2>2
<1> QED BY <1>1, RecInvHolds, PTL
=============================================================================

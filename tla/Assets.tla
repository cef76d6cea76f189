--------------------------------- MODULE Assets ---------------------------------
(***************************************************************************)
(* One fixed asset (mero-accounting/services/fixed-assets.service.ts):     *)
(* depreciation, revaluation and disposal, each in one transaction at READ *)
(* COMMITTED that reads the row, computes a copy and saves it.  The save   *)
(* is two statements: a SELECT finds the columns in which the copy differs *)
(* from the committed row, an UPDATE waits for the row's lock and writes   *)
(* those columns, so that calls can also mix the columns of their copies.  *)
(*                                                                         *)
(* Amounts are hundredths.  A depreciation is a fraction n / q of them; it *)
(* is rounded where a decimal(15,2) column takes it.  The code computes in *)
(* doubles: what is exactly a half may come out on either side of it, in   *)
(* the log, on the asset's depreciation and on its value independently,    *)
(* and a book value that is exactly the salvage value may come out above.  *)
(* (Amounts are taken to be small enough for nothing else to tip over.)    *)
(* The journal entries, which are drafts, are left out, as are maintenance *)
(* (it does not touch the asset) and depreciation by units produced.       *)
(***************************************************************************)
EXTENDS Server, Integers

CONSTANTS
  Cost, Salvage,  \* purchase_cost and salvage_value of a new asset
  Months,         \* useful life
  RateN, RateQ,   \* the monthly rate of the WDV method, RateN / RateQ
  FairValues,     \* values an asset is revalued at
  MaxRuns,        \* bound: depreciations
  MaxClashes      \* bound: no call begins after so many clashes

ASSUME AssetAssumption ==
  /\ {Cost, Salvage, RateN, MaxRuns, MaxClashes} \subseteq Nat
  /\ {Months, RateQ} \subseteq Nat \ {0}
  /\ FairValues \subseteq Nat

VARIABLES
  asset,     \* the fixed_assets row
  logged,    \* the sum of the depreciation_logs
  booking,   \* each call's transaction
  runs,      \* history: depreciations
  halves,    \* history: depreciations that came to a half of a hundredth
  disposals, \* history: disposals
  clashes    \* history: saves of a copy over a row that had changed

assetVars == <<asset, logged, booking, runs, halves, disposals, clashes>>

Method == {"STRAIGHT_LINE", "WDV"}
AssetStatus == {"ACTIVE", "FULLY_DEPRECIATED", "DISPOSED"}
NoBooking == [at |-> "idle", op |-> "none", seen |-> None, copy |-> None, amount |-> 0,
              half |-> 0, writes |-> {}]

\* create
AssetInit ==
  /\ \E m \in Method :
       asset = [method |-> m, status |-> "ACTIVE", cost |-> Cost, book |-> Cost, acc |-> 0]
  /\ logged = 0
  /\ booking = [c \in Call |-> NoBooking]
  /\ runs = 0 /\ halves = 0 /\ disposals = 0 /\ clashes = 0

-----------------------------------------------------------------------------
\* The whole hundredths nearest to n / q: two of them when that is a half.
Rounded(n, q) == {k \in {(2 * n + q) \div (2 * q) - 1, (2 * n + q) \div (2 * q)} : 2 * n - q <= 2 * q * k}
Half(n, q) == IF (2 * n + q) % (2 * q) = 0 THEN 1 ELSE 0

\* The depreciation of a month, and what it is cut down to so that the salvage value stays.
Fraction ==
  IF asset.method = "WDV" THEN [n |-> asset.book * RateN, q |-> RateQ]
  ELSE [n |-> asset.cost - Salvage, q |-> Months]

Depreciation ==
  IF asset.book * Fraction.q - Fraction.n < Salvage * Fraction.q
  THEN [n |-> asset.book - Salvage, q |-> 1] ELSE Fraction

Opens(c, op, copy, amount, half) ==
  /\ booking[c] = NoBooking /\ clashes < MaxClashes
  /\ booking' = [booking EXCEPT ![c] =
       [NoBooking EXCEPT !.at = "computed", !.op = op, !.seen = asset, !.copy = copy,
                 !.amount = amount, !.half = half]]
  /\ UNCHANGED <<asset, logged, runs, halves, disposals, clashes>>

\* What a month makes of the row: the status may stay although the value is the salvage one.
Depreciated(acc, book) ==
  LET left == asset.book * Depreciation.q - Depreciation.n
      spent == Salvage * Depreciation.q
  IN  {[asset EXCEPT !.acc = acc, !.book = book, !.status = status] :
         status \in IF left <= spent THEN {"FULLY_DEPRECIATED", "ACTIVE"} ELSE {"ACTIVE"}}

Depreciates(c, amount) ==
  LET d == Depreciation
  IN  \E acc \in Rounded(asset.acc * d.q + d.n, d.q), book \in Rounded(asset.book * d.q - d.n, d.q) :
        \E copy \in Depreciated(acc, book) : Opens(c, "depreciate", copy, amount, Half(d.n, d.q))

\* Mutant: the amount is logged as computed, not as cut down.
RunUncut(c) ==
  /\ asset.status = "ACTIVE" /\ runs < MaxRuns
  /\ IF Depreciation.n <= 0 THEN Opens(c, "close", [asset EXCEPT !.status = "FULLY_DEPRECIATED"], 0, 0)
     ELSE \E amount \in Rounded(Fraction.n, Fraction.q) : Depreciates(c, amount)

RunDepreciation(c) ==
  /\ asset.status = "ACTIVE" /\ runs < MaxRuns
  /\ IF Depreciation.n <= 0 THEN Opens(c, "close", [asset EXCEPT !.status = "FULLY_DEPRECIATED"], 0, 0)
     ELSE \E amount \in Rounded(Depreciation.n, Depreciation.q) : Depreciates(c, amount)

\* Mutant: an asset that was disposed of is not refused.
DisposeAny(c) ==
  Opens(c, "dispose", [asset EXCEPT !.status = "DISPOSED", !.book = 0], 0, 0)

DisposeAsset(c) ==
  /\ asset.status \in {"ACTIVE", "FULLY_DEPRECIATED"}
  /\ Opens(c, "dispose", [asset EXCEPT !.status = "DISPOSED", !.book = 0], 0, 0)

\* Mutant: the cost is left.
RevalueBookOnly(c, v) ==
  /\ asset.status = "ACTIVE" /\ v # asset.book
  /\ Opens(c, "revalue", [asset EXCEPT !.book = v], 0, 0)

RevalueAsset(c, v) ==
  /\ asset.status = "ACTIVE" /\ v # asset.book
  /\ Opens(c, "revalue", [asset EXCEPT !.book = v, !.cost = @ + v - asset.book], 0, 0)

-----------------------------------------------------------------------------
Column == {"method", "status", "cost", "book", "acc"}
Changed(copy, row) == {col \in Column : copy[col] # row[col]}

\* The SELECT of the save.
Compare(c) ==
  /\ booking[c].at = "computed"
  /\ booking' = [booking EXCEPT ![c] =
       [@ EXCEPT !.at = "compared", !.writes = Changed(booking[c].copy, asset)]]
  /\ UNCHANGED <<asset, logged, runs, halves, disposals, clashes>>

\* The UPDATE, which holds the row until the transaction ends.
Write(c) ==
  /\ booking[c].at = "compared" /\ \A d \in Call : booking[d].at # "written"
  /\ booking' = [booking EXCEPT ![c].at = "written"]
  /\ UNCHANGED <<asset, logged, runs, halves, disposals, clashes>>

Commit(c) ==
  LET b == booking[c]
  IN  /\ b.at = "written"
      /\ asset' = [col \in Column |-> IF col \in b.writes THEN b.copy[col] ELSE asset[col]]
      /\ logged' = logged + b.amount
      /\ runs' = IF b.op = "depreciate" THEN runs + 1 ELSE runs
      /\ halves' = halves + b.half
      /\ disposals' = IF b.op = "dispose" THEN disposals + 1 ELSE disposals
      /\ clashes' = IF asset = b.seen /\ b.writes = Changed(b.copy, asset) THEN clashes ELSE clashes + 1
      /\ booking' = [booking EXCEPT ![c] = NoBooking]

Rollback(c) ==
  /\ booking[c] # NoBooking
  /\ booking' = [booking EXCEPT ![c] = NoBooking]
  /\ UNCHANGED <<asset, logged, runs, halves, disposals, clashes>>

AssetStep(c) ==
  \/ RunDepreciation(c) \/ DisposeAsset(c) \/ (\E v \in FairValues : RevalueAsset(c, v))
  \/ Compare(c) \/ Write(c) \/ Commit(c) \/ Rollback(c)

AssetNext == \E c \in Call : AssetStep(c)
AssetSpec == AssetInit /\ [][AssetNext]_assetVars

-----------------------------------------------------------------------------
(* Properties *)

\* The depreciation accumulated on the asset is what the logs say, but for a hundredth
\* either way for each depreciation that came to a half; and it is less only if calls have
\* saved over each other.
LogsAgree ==
  /\ asset.acc <= logged + halves
  /\ clashes = 0 => logged <= asset.acc + halves

\* What is left of the cost is the book value, but for a hundredth either way for each
\* depreciation that came to a half.
WorthIsLeft ==
  clashes = 0 /\ asset.status # "DISPOSED"
    => asset.book + asset.acc - asset.cost \in -halves..halves

\* An asset is disposed of once, and once more only for a call that saved over a change.
DisposedOnce == disposals <= 1 + clashes
=============================================================================

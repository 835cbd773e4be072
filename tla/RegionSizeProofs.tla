-------------------------- MODULE RegionSizeProofs --------------------------
(***************************************************************************)
(* The numeric prelude of allocation_query is correct at every width,      *)
(* 64 bits included, for every maximum region size whose 25% overhead      *)
(* still fits in i64 (as 1023 GiB + 25% does below 2^63): TLC checks       *)
(* SizeDeltaCorrect at width 8 over small fields; this proves it for all   *)
(* u64 fields.                                                             *)
(***************************************************************************)
EXTENDS RegionSize, TLAPS

\* i64::MAX lies below the u64 bound of the same width.
LEMMA I64BelowU64 == I64Max \in Nat /\ U64Bound \in Nat /\ I64Max < U64Bound
BY WidthAssumption DEF I64Max, U64Bound

\* A request of at most MAX_REGION_SIZE_BYTES, when that maximum leaves
\* room in i64 for its 25% overhead, fits in u64 and in i64 with its
\* overhead.
LEMMA ReserveFits ==
  ASSUME MaxRegionSize + MaxRegionSize \div 4 <= I64Max,
         NEW x \in Nat, x <= MaxRegionSize
  PROVE  /\ x < U64Bound
         /\ x <= I64Max
         /\ x + x \div 4 <= I64Max
<1>1. x \div 4 <= MaxRegionSize \div 4
  BY MaxRegionSizeAssumption
<1>2. x \div 4 \in Nat /\ MaxRegionSize \div 4 \in Nat
  BY MaxRegionSizeAssumption
<1>3. x <= I64Max
  BY <1>2, I64BelowU64, MaxRegionSizeAssumption
<1>4. x + x \div 4 <= MaxRegionSize + MaxRegionSize \div 4
  BY <1>1, <1>2, MaxRegionSizeAssumption
<1>5. x < U64Bound
  BY <1>3, I64BelowU64
<1>6. x + x \div 4 <= I64Max
  BY <1>4, <1>2, I64BelowU64, MaxRegionSizeAssumption
<1>. QED
  BY <1>3, <1>5, <1>6

\* For u64 parameters, and a maximum region size that leaves room in i64
\* for its 25% overhead, allocation_query's checked_mul, maximum-size,
\* try_into, divisibility and checked_add checks accept exactly the
\* requests within the maximum and divisible by 4 whose first product does
\* not overflow, and reserve 5/4 of their size, without the truncation or
\* overhead-overflow errors ever being taken.
THEOREM PreludeCorrectness ==
  ASSUME MaxRegionSize + MaxRegionSize \div 4 <= I64Max,
         NEW params \in ParamsOver(0 .. U64Bound - 1)
  PROVE  SizeDeltaCorrect(params)
<1> DEFINE partial == params.block_size * params.blocks_per_extent
           requested == partial * params.extent_count
<1>1. partial \in Nat /\ requested \in Nat
  BY DEF ParamsOver
<1>2. I64Max \in Nat /\ U64Bound \in Nat /\ I64Max < U64Bound
  BY I64BelowU64
<1>3. MaxRegionSize \in Nat
  BY MaxRegionSizeAssumption
<1>4. requested <= MaxRegionSize =>
        /\ requested < U64Bound
        /\ requested <= I64Max
        /\ requested + requested \div 4 <= I64Max
  BY <1>1, ReserveFits
<1>5. SizeDelta(params) =
        IF partial >= U64Bound \/ requested >= U64Bound
          THEN Result("RegionSizeOverflow", 0, 0)
        ELSE IF requested > MaxRegionSize
          THEN Result("RequestedRegionOverMaxSize", requested, 0)
        ELSE IF requested > I64Max
          THEN Result("RequestedRegionSizeTruncated", requested, 0)
        ELSE IF requested % 4 # 0
          THEN Result("RequestedRegionNotDivisibleByFactor", requested, 0)
        ELSE IF requested + requested \div 4 > I64Max
          THEN Result("RequestedRegionOverheadOverflow", requested, 0)
        ELSE Result(NoError, requested, requested + requested \div 4)
  BY DEF SizeDelta
<1>. QED
  BY <1>1, <1>2, <1>3, <1>4, <1>5 DEF SizeDeltaCorrect, Result, NoError
=============================================================================

----------------------------- MODULE RegionSize -----------------------------
(***************************************************************************)
(* The numeric prelude of allocation_query                                 *)
(* (nexus/db-queries/src/db/queries/region_allocation.rs, lines 202-261):  *)
(* the requested region size block_size * blocks_per_extent * extent_count *)
(* computed with u64 overflow detection, the maximum-size check, the cast  *)
(* to i64, the divisibility check of the 25% reservation policy and the    *)
(* checked addition of the overhead.  Integers keep their width: Width is  *)
(* the bit width of u64 (64 in the code), i64 is the signed type of the    *)
(* same width.                                                             *)
(***************************************************************************)
EXTENDS Integers

CONSTANTS
  Width,          \* bit width of u64 / i64 (64 in the code)
  MaxRegionSize   \* MAX_REGION_SIZE_BYTES (1023 * 2^30 in the code)

\* The width is at least 2 bits; 2^Width doubles 2^(Width - 1), a fact of
\* arithmetic stated here because the provers have none about ^.
ASSUME WidthAssumption ==
  /\ Width \in Nat /\ Width >= 2
  /\ 2^(Width - 1) \in Nat \ {0}
  /\ 2^Width = 2 * 2^(Width - 1)
ASSUME MaxRegionSizeAssumption == MaxRegionSize \in Nat

U64Bound == 2^Width              \* u64 values are 0 .. U64Bound - 1
I64Max == 2^(Width - 1) - 1      \* i64::MAX

\* The outcomes of the prelude: one error per AllocationQueryError variant.
Errors == {"RegionSizeOverflow", "RequestedRegionOverMaxSize",
           "RequestedRegionSizeTruncated",
           "RequestedRegionNotDivisibleByFactor",
           "RequestedRegionOverheadOverflow"}
NoError == "Ok"

\* RegionParameters: the three u64 size fields.
ParamsOver(S) == [block_size : S, blocks_per_extent : S, extent_count : S]

\* The result of the prelude: an error, or the size_delta to reserve.
Result(err, request, delta) == [err |-> err, request |-> request, delta |-> delta]

\* Mutant of SizeDelta: the maximum-size check rejects a request of
\* exactly MAX_REGION_SIZE_BYTES.
SizeDeltaMaxInclusive(params) ==
  LET requested == params.block_size * params.blocks_per_extent
                     * params.extent_count
  IN  IF requested >= MaxRegionSize
        THEN Result("RequestedRegionOverMaxSize", requested, 0)
        ELSE Result(NoError, requested, requested + requested \div 4)

(***************************************************************************)
(* allocation_query, lines 202-259: each early return is one branch, in    *)
(* the order the code takes them.  checked_mul fails when the product      *)
(* leaves u64; try_into fails above i64::MAX; checked_div(4) cannot fail   *)
(* for a divisor of 4, so its error branch is absent; checked_add fails    *)
(* above i64::MAX.                                                         *)
(***************************************************************************)
SizeDelta(params) ==
  LET partial == params.block_size * params.blocks_per_extent
      requested == partial * params.extent_count
      overhead == requested \div 4
  IN  IF partial >= U64Bound \/ requested >= U64Bound
        THEN Result("RegionSizeOverflow", 0, 0)
      ELSE IF requested > MaxRegionSize
        THEN Result("RequestedRegionOverMaxSize", requested, 0)
      ELSE IF requested > I64Max
        THEN Result("RequestedRegionSizeTruncated", requested, 0)
      ELSE IF requested % 4 # 0
        THEN Result("RequestedRegionNotDivisibleByFactor", requested, 0)
      ELSE IF requested + overhead > I64Max
        THEN Result("RequestedRegionOverheadOverflow", requested, 0)
      ELSE Result(NoError, requested, requested + overhead)

(***************************************************************************)
(* The reference the prelude is checked against, from the mathematical     *)
(* product.  When MAX_REGION_SIZE_BYTES plus its 25% overhead fits in i64  *)
(* (as 1023 GiB does for 64 bits), a request is accepted exactly when the  *)
(* product of the first two fields fits in u64, the whole product is at    *)
(* most MAX_REGION_SIZE_BYTES and divisible by 4; an accepted request      *)
(* reserves exactly 5/4 of its size, and that reservation fits in i64.     *)
(* The truncation and overhead-overflow errors are then never returned.    *)
(* (The first-product condition is the code's: with extent_count 0 an      *)
(* overflowing block_size * blocks_per_extent is still an error.)          *)
(***************************************************************************)
SizeDeltaCorrect(params) ==
  LET requested == params.block_size * params.blocks_per_extent
                     * params.extent_count
      out == SizeDelta(params)
  IN  /\ (out.err = NoError) <=>
           /\ params.block_size * params.blocks_per_extent < U64Bound
           /\ requested <= MaxRegionSize
           /\ requested % 4 = 0
      /\ out.err = NoError =>
           /\ out.delta = requested + requested \div 4
           /\ out.delta <= I64Max

=============================================================================

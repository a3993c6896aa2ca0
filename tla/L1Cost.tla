------------------------------- MODULE L1Cost -------------------------------
(***************************************************************************)
(* The L1 data fee of an Optimism transaction: L1BlockInfo of              *)
(* crates/revm/src/optimism/l1block.rs.  The decimal factor 10^6, and the  *)
(* constants that are multiples of it, are parameters: their real values   *)
(* do not fit TLC's integers.                                              *)
(***************************************************************************)
EXTENDS Env

CONSTANTS
    Million,        \* 1_000_000
    FlzCoef,        \* 836_500
    FlzIntercept,   \* 42_585_600
    FlzMinSize,     \* 100_000_000
    FlzSize(_)      \* flz_compress_len

ASSUME L1CostAssumption ==
    /\ {FlzCoef, FlzIntercept, FlzMinSize} \subseteq Nat
    /\ Million \in Nat \ {0}

ZeroByteCost == 4
NonZeroByteCost == 16

\* try_fetch: the L1 block contract's slots, as the fork reads them.
TryFetch(slots, spec) ==
    IF ~Enabled(spec, ECOTONE)
    THEN [base_fee |-> slots.base_fee, overhead |-> slots.overhead, scalar |-> slots.scalar,
          blob_fee |-> 0, blob_scalar |-> 0, empty_scalars |-> FALSE]
    ELSE LET empty == /\ slots.blob_fee = 0
                      /\ slots.ecotone_scalar = 0
                      /\ slots.blob_scalar = 0
         IN  [base_fee |-> slots.base_fee, overhead |-> IF empty THEN slots.overhead ELSE 0,
              scalar |-> slots.ecotone_scalar, blob_fee |-> slots.blob_fee,
              blob_scalar |-> slots.blob_scalar, empty_scalars |-> empty]

EstimatedSizeFjord(bytes) ==
    LET size == SaturatingSub(SaturatingMul(FlzSize(bytes), FlzCoef), FlzIntercept)
    IN  IF size < FlzMinSize THEN FlzMinSize ELSE size

\* data_gas of the forks before Fjord; the cost functions of Fjord do not use it.
DataGas(bytes, spec) ==
    LET zeros == Cardinality({i \in DOMAIN bytes : bytes[i] = 0})
    IN    zeros * ZeroByteCost + (Len(bytes) - zeros) * NonZeroByteCost
        + (IF Enabled(spec, REGOLITH) THEN 0 ELSE 68 * NonZeroByteCost)

CostBedrock(l1, bytes, spec) ==
    SaturatingMul(SaturatingMul(SaturatingAdd(DataGas(bytes, spec), l1.overhead), l1.base_fee),
                  l1.scalar) \div Million

FeeScaledEcotone(l1) ==
    SaturatingAdd(SaturatingMul(SaturatingMul(l1.base_fee, NonZeroByteCost), l1.scalar),
                  SaturatingMul(l1.blob_fee, l1.blob_scalar))

CostEcotone(l1, bytes, spec) ==
    IF l1.empty_scalars THEN CostBedrock(l1, bytes, spec)
    ELSE SaturatingMul(FeeScaledEcotone(l1), DataGas(bytes, spec))
            \div (Million * NonZeroByteCost)

CostFjord(l1, bytes) ==
    SaturatingMul(EstimatedSizeFjord(bytes), FeeScaledEcotone(l1)) \div (Million * Million)

\* A deposit's envelope starts with 0x7F, here 127.
CalculateTxL1Cost(l1, bytes, spec) ==
    IF bytes = << >> \/ bytes[1] = 127 THEN 0
    ELSE IF Enabled(spec, FJORD) THEN CostFjord(l1, bytes)
    ELSE IF Enabled(spec, ECOTONE) THEN CostEcotone(l1, bytes, spec)
    ELSE CostBedrock(l1, bytes, spec)
=============================================================================

------------------------------ MODULE Convert ------------------------------
(***************************************************************************)
(* The conversions of internal/formatter that compute: an interval to its  *)
(* text, and wide integers to the two's complement bytes of Avro decimals. *)
(*                                                                         *)
(* The sizes are parameters: 3600000000, 60000000, 1000000 and 1000        *)
(* microseconds, 256, 17 and 9 bytes in the code.                          *)
(***************************************************************************)
EXTENDS Integers, FiniteSets, FiniteSetsExt

CONSTANTS
    Hour, Min1, Sec, Msec,  \* the units of Interval.Micros
    Byte,                   \* the number of values of a byte
    HugeBytes, LongBytes    \* the sizes of the two buffers

ASSUME ConvertAssumption ==
    /\ Hour \in Nat \ {0} /\ Min1 \in Nat \ {0}
    /\ Sec \in Nat \ {0} /\ Msec \in Nat \ {0}
    /\ Byte \in Nat \ {0, 1}
    /\ HugeBytes \in Nat \ {0, 1} /\ LongBytes \in Nat \ {0, 1}

\* Division and remainder of Go: towards zero.
Quo(a, b) == IF a >= 0 THEN a \div b ELSE -((-a) \div b)
Rem(a, b) == a - b * Quo(a, b)

-----------------------------------------------------------------------------
Intervals == [months : Int, days : Int, micros : Int]

\* Variant: negative counts are not taken off.
LeftPositive(us, unit) ==
    IF Quo(us, unit) > 0 THEN us - Quo(us, unit) * unit ELSE us

\* What is left of us when its whole units are taken off.
Left(us, unit) == us - Quo(us, unit) * unit

\* The text names the units in this order and leaves out those whose count
\* is zero; it is "0" when all are.
IntervalToStr(v) ==
    LET r1 == Left(v.micros, Hour)
        r2 == Left(r1, Min1)
        r3 == Left(r2, Sec)
    IN  [y |-> Quo(v.months, 12), mo |-> Rem(v.months, 12), d |-> v.days,
         h |-> Quo(v.micros, Hour), m |-> Quo(r1, Min1), s |-> Quo(r2, Sec),
         ms |-> Quo(r3, Msec), us |-> Left(r3, Msec)]

\* The interval that a reader of the text adds up.
Summed(t) ==
    [months |-> 12 * t.y + t.mo, days |-> t.d,
     micros |-> t.h * Hour + t.m * Min1 + t.s * Sec + t.ms * Msec + t.us]

-----------------------------------------------------------------------------
Pow[k \in Nat] == IF k = 0 THEN 1 ELSE Byte * Pow[k - 1]

\* big.Int.FillBytes and PutUint64: the digits of n, which panic when n does
\* not fit, as they do for a negative n.
Panic == <<-1>>
FillBytes(n, size) ==
    IF n \in 0 .. Pow[size] - 1
      THEN [i \in 1..size |-> (n \div Pow[size - i]) % Byte]
      ELSE Panic

\* The code gives HUGEINT and UHUGEINT one byte more than they have.
hugeIntToDecimalBytes(n) ==
    FillBytes(IF n < 0 THEN n + Pow[HugeBytes] ELSE n, HugeBytes)

\* Variant: no leading byte for the sign.
uint64ToDecimalBytesTight(n) == FillBytes(n, LongBytes - 1)

uint64ToDecimalBytes(n) == FillBytes(n, LongBytes)

\* The ranges of the three types, and what an Avro reader makes of the bytes,
\* which it takes from the first to the last.
HugeInts == LET h == Pow[HugeBytes - 1] IN -(h \div 2) .. h - 1
UInt64s  == 0 .. Pow[LongBytes - 1] - 1

SetBytes(b) ==
    LET size == Cardinality(DOMAIN b)
        val[i \in 0..size] == IF i = 0 THEN 0 ELSE Byte * val[i - 1] + b[i]
    IN  val[size]

Decimal(b) ==
    IF b[1] >= Byte \div 2 THEN SetBytes(b) - Pow[Cardinality(DOMAIN b)] ELSE SetBytes(b)

=============================================================================

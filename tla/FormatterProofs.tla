-------------------------- MODULE FormatterProofs --------------------------
(***************************************************************************)
(* The proofs about a response, for every format, options and result: the  *)
(* text of an interval is exact, csv keeps values apart, Avro keeps wide   *)
(* integers, and the client has the whole text, or a beginning of it and   *)
(* the text of an error.                                                   *)
(***************************************************************************)
EXTENDS Formatter, SequenceTheorems, FiniteSetTheorems, WellFoundedInduction, TLAPS

\* Euclid's division, for a dividend that is not negative.
LEMMA DivMod ==
  ASSUME NEW a \in Nat, NEW b \in Nat \ {0}
  PROVE  /\ a \div b \in Nat
         /\ a - (a \div b) * b \in 0 .. b - 1
  BY SMT

\* A quotient is the number of times the divisor goes into the dividend.
LEMMA DivUnique ==
  ASSUME NEW a \in Nat, NEW w \in Nat \ {0}, NEW k \in Nat, w * k <= a, a < w * (k + 1)
  PROVE  a \div w = k
<1> DEFINE q == a \div w
<1>1. q \in Nat /\ w * q <= a /\ a < w * (q + 1)
  BY SMT
<1> HIDE DEF q
<1>2. CASE q < k
  <2>1. q + 1 <= k
    BY <1>1, <1>2
  <2>2. w * (q + 1) <= w * k
    BY <1>1, <2>1, SMT
  <2>3. w * (q + 1) \in Nat /\ w * k \in Nat
    BY <1>1
  <2>4. QED
    BY <1>1, <2>2, <2>3
<1>3. CASE q > k
  <2>1. k + 1 <= q
    BY <1>1, <1>3
  <2>2. w * (k + 1) <= w * q
    BY <1>1, <2>1, SMT
  <2>3. w * (k + 1) \in Nat /\ w * q \in Nat
    BY <1>1
  <2>4. QED
    BY <1>1, <2>2, <2>3
<1>4. q = k
  BY <1>1, <1>2, <1>3
<1>5. QED
  BY <1>4 DEF q

\* The division of Go is exact up to a remainder smaller than the divisor,
\* and what it takes off is no larger than the dividend.
LEMMA QuoLeft ==
  ASSUME NEW a \in Int, NEW b \in Nat \ {0}
  PROVE  /\ Quo(a, b) \in Int
         /\ Left(a, b) = a - Quo(a, b) * b
         /\ Left(a, b) \in -b + 1 .. b - 1
         /\ \A n \in Nat : a \in -n .. n => Quo(a, b) * b \in -n .. n
<1>1. CASE a >= 0
  <2>1. a \in Nat /\ Quo(a, b) = a \div b
    BY <1>1 DEF Quo
  <2>2. Quo(a, b) \in Nat /\ a - Quo(a, b) * b \in 0 .. b - 1
    BY <2>1, DivMod
  <2>3. Quo(a, b) * b \in Nat
    BY <2>2
  <2> QED
    BY <2>1, <2>2, <2>3 DEF Left
<1>2. CASE a < 0
  <2> DEFINE c == -a
  <2>1. c \in Nat /\ a = -c
    BY <1>2
  <2>2. Quo(a, b) = -(c \div b)
    BY <1>2 DEF Quo
  <2>3. c \div b \in Nat /\ c - (c \div b) * b \in 0 .. b - 1
    BY <2>1, DivMod
  <2> HIDE DEF c
  <2>4. Quo(a, b) * b = -((c \div b) * b)
    BY <2>2, <2>3
  <2> QED
    BY <2>1, <2>2, <2>3, <2>4 DEF Left
<1> QED
  BY <1>1, <1>2

\* The same for a dividend that is smaller than the unit before.
LEMMA NextUnit ==
  ASSUME NEW n \in Nat \ {0}, NEW b \in Nat \ {0}, NEW a \in -n + 1 .. n - 1
  PROVE  /\ Left(a, b) = a - Quo(a, b) * b
         /\ Left(a, b) \in -b + 1 .. b - 1
         /\ Quo(a, b) * b \in -n + 1 .. n - 1
<1>1. n - 1 \in Nat /\ a \in Int /\ a \in -(n - 1) .. n - 1
  OBVIOUS
<1>2. Quo(a, b) * b \in -(n - 1) .. n - 1
  BY <1>1, QuoLeft
<1>3. -(n - 1) = -n + 1
  OBVIOUS
<1> QED
  BY <1>1, <1>2, <1>3, QuoLeft

\* The counts of the clock part of an interval.
LEMMA ClockParts ==
  ASSUME NEW us \in Int
  PROVE  LET r1 == Left(us, Hour)
             r2 == Left(r1, Min1)
             r3 == Left(r2, Sec)
             h  == Quo(us, Hour)
             m  == Quo(r1, Min1)
             s  == Quo(r2, Sec)
             ms == Quo(r3, Msec)
             u  == Left(r3, Msec)
         IN  /\ h * Hour + m * Min1 + s * Sec + ms * Msec + u = us
             /\ m * Min1 \in -Hour + 1 .. Hour - 1
             /\ s * Sec \in -Min1 + 1 .. Min1 - 1
             /\ ms * Msec \in -Sec + 1 .. Sec - 1
             /\ u \in -Msec + 1 .. Msec - 1
<1> DEFINE r1 == Left(us, Hour)
           r2 == Left(r1, Min1)
           r3 == Left(r2, Sec)
           u  == Left(r3, Msec)
           H  == Quo(us, Hour) * Hour
           M  == Quo(r1, Min1) * Min1
           S  == Quo(r2, Sec) * Sec
           MS == Quo(r3, Msec) * Msec
<1>0. /\ Hour \in Nat \ {0} /\ Min1 \in Nat \ {0}
      /\ Sec \in Nat \ {0} /\ Msec \in Nat \ {0}
  BY ConvertAssumption
<1>1. r1 = us - H /\ H \in Int /\ r1 \in -Hour + 1 .. Hour - 1
  BY <1>0, QuoLeft
<1> HIDE DEF r1
<1>2. /\ r2 = r1 - M /\ r2 \in -Min1 + 1 .. Min1 - 1
      /\ M \in -Hour + 1 .. Hour - 1
  BY <1>0, <1>1, NextUnit
<1> HIDE DEF r2
<1>3. /\ r3 = r2 - S /\ r3 \in -Sec + 1 .. Sec - 1
      /\ S \in -Min1 + 1 .. Min1 - 1
  BY <1>0, <1>2, NextUnit
<1> HIDE DEF r3
<1>4. /\ u = r3 - MS /\ u \in -Msec + 1 .. Msec - 1
      /\ MS \in -Sec + 1 .. Sec - 1
  BY <1>0, <1>3, NextUnit
<1> HIDE DEF u
<1> HIDE DEF H, M, S, MS
<1>5. /\ H + M + S + MS + u = us
      /\ M \in -Hour + 1 .. Hour - 1
      /\ S \in -Min1 + 1 .. Min1 - 1
      /\ MS \in -Sec + 1 .. Sec - 1
      /\ u \in -Msec + 1 .. Msec - 1
  BY <1>0, <1>1, <1>2, <1>3, <1>4
<1> QED
  BY <1>5 DEF r1, r2, r3, u, H, M, S, MS

\* What IntervalSums says of one interval.
Exact(v) ==
    LET t == IntervalToStr(v) IN
    /\ Summed(t) = v
    /\ t.m * Min1 \in -Hour + 1 .. Hour - 1
    /\ t.s * Sec \in -Min1 + 1 .. Min1 - 1
    /\ t.ms * Msec \in -Sec + 1 .. Sec - 1
    /\ t.us \in -Msec + 1 .. Msec - 1
    /\ t.mo \in -11 .. 11

\* IntervalToStr is exact, for every interval and all units.
LEMMA IntervalExact ==
  ASSUME NEW v \in Intervals
  PROVE  Exact(v)
<1> DEFINE t == IntervalToStr(v)
<1>1. v.months \in Int /\ v.days \in Int /\ v.micros \in Int
  BY DEF Intervals
<1>2. /\ t.h * Hour + t.m * Min1 + t.s * Sec + t.ms * Msec + t.us = v.micros
      /\ t.m * Min1 \in -Hour + 1 .. Hour - 1
      /\ t.s * Sec \in -Min1 + 1 .. Min1 - 1
      /\ t.ms * Msec \in -Sec + 1 .. Sec - 1
      /\ t.us \in -Msec + 1 .. Msec - 1
  BY <1>1, ClockParts DEF IntervalToStr
<1>3. 12 * t.y + t.mo = v.months /\ t.mo \in -11 .. 11
  <2> DEFINE n == v.months
  <2>1. n \in Int /\ 12 \in Nat \ {0}
    BY <1>1
  <2> HIDE DEF n
  <2>2. /\ Quo(n, 12) \in Int
        /\ Left(n, 12) = n - Quo(n, 12) * 12
        /\ Left(n, 12) \in -12 + 1 .. 12 - 1
    BY <2>1, QuoLeft
  <2>3. /\ Quo(v.months, 12) \in Int
        /\ v.months - Quo(v.months, 12) * 12 \in -11 .. 11
    BY <2>1, <2>2 DEF n
  <2>4. t.y = Quo(v.months, 12) /\ t.mo = v.months - 12 * Quo(v.months, 12)
    BY DEF IntervalToStr, Rem
  <2> QED
    BY <1>1, <2>3, <2>4
<1>4. t.d = v.days
  BY DEF IntervalToStr
<1>5. v = [months |-> v.months, days |-> v.days, micros |-> v.micros]
  BY DEF Intervals
<1>6. Summed(t) = v
  BY <1>2, <1>3, <1>4, <1>5 DEF Summed
<1> QED
  BY <1>2, <1>3, <1>6 DEF Exact

\* The rows that were read are rows of the result.
ReadInv == result \in Results /\ read \in 0 .. Len(result.rows)

\* writeRows reads no more rows than there are.
LEMMA ReadInvAlways == Spec => []ReadInv
<1>1. Init => ReadInv
  BY FormatterAssumption DEF Init, ReadInv
<1>2. ReadInv /\ [Next]_vars => ReadInv'
  <2> SUFFICES ASSUME ReadInv, [Next]_vars PROVE ReadInv'
    OBVIOUS
  <2>1. CASE NextRow
    BY <2>1, FormatterAssumption DEF NextRow, ReadInv
  <2>2. CASE UNCHANGED <<result, read>>
    BY <2>2 DEF ReadInv
  <2> QED
    BY <2>1, <2>2 DEF Next, vars, option, FindAndCreate, unsupported, cancel, WriteHeader,
        headerError, canceled, WriteBody, writeError, rowsEnd, nextError, Flush, error,
        Finished
<1> QED
  BY <1>1, <1>2, PTL DEF Spec

\* In every response the text of an interval adds up to the interval, and its
\* counts are in lowest terms (IntervalToStr), for any units and any result.
THEOREM IntervalSumsAlways == Spec => []IntervalSums
<1>1. ReadInv => IntervalSums
  <2> SUFFICES ASSUME ReadInv,
                      NEW k \in 1 .. read, NEW i \in Cols,
                      result.cols[i] = "INTERVAL", result.rows[k][i] # NULL
               PROVE  Exact(result.rows[k][i])
    BY DEF IntervalSums, Exact
  <2>1. k \in DOMAIN result.rows
    BY FormatterAssumption DEF ReadInv
  <2>2. result.rows[k][i] \in Intervals
    BY <2>1, FormatterAssumption DEF ReadInv, Cols
  <2> QED
    BY <2>2, IntervalExact
<1> QED
  BY <1>1, ReadInvAlways, PTL

-----------------------------------------------------------------------------
(* What csv keeps of the values.                                           *)

\* Intervals with the same text are the same.
LEMMA IntervalInjective ==
  ASSUME NEW v \in Intervals, NEW w \in Intervals, IntervalToStr(v) = IntervalToStr(w)
  PROVE  v = w
<1>1. Summed(IntervalToStr(v)) = v /\ Summed(IntervalToStr(w)) = w
  BY IntervalExact DEF Exact
<1>2. QED
  BY <1>1

\* The converters of scalar types lose the fraction of a second, and nothing
\* else.
LEMMA ConverterKeeps ==
  ASSUME NEW type \in Scalars, NEW v, NEW w,
         type = "INTERVAL" => v \in Intervals /\ w \in Intervals,
         converter(type, v) = converter(type, w)
  PROVE  v = w \/ (type \in {"TIME", "TIMESTAMP"} /\ v.sec = w.sec)
<1>1. CASE type = "INTERVAL"
  <2>1. /\ converter(type, v) = IF v = Zero THEN Text(<<"0">>) ELSE <<type, IntervalToStr(v)>>
        /\ converter(type, w) = IF w = Zero THEN Text(<<"0">>) ELSE <<type, IntervalToStr(w)>>
    BY <1>1 DEF converter
  <2>2. \A t : <<type, t>> # Text(<<"0">>)
    BY <1>1 DEF Text
  <2>3. CASE v = Zero \/ w = Zero
    BY <2>1, <2>2, <2>3
  <2>4. CASE v # Zero /\ w # Zero
    <3>1. IntervalToStr(v) = IntervalToStr(w)
      <4>1. <<type, IntervalToStr(v)>> = <<type, IntervalToStr(w)>>
        BY <2>1, <2>4, Zenon
      <4>2. \A a, b : <<type, a>> = <<type, b>> => a = b
        OBVIOUS
      <4>3. QED
        BY <4>1, <4>2, Zenon
    <3>2. QED
      BY <1>1, <3>1, IntervalInjective
  <2>5. QED
    BY <2>3, <2>4
<1>2. CASE type \in {"TIME", "TIMESTAMP"}
  BY <1>2 DEF converter
<1>3. CASE type = "BLOB"
  BY <1>3 DEF converter, Text
<1>4. CASE type \notin {"INTERVAL", "TIME", "TIMESTAMP", "BLOB"}
  <2>1. AnyToStr(type, v) = AnyToStr(type, w)
    BY <1>4 DEF converter
  <2>2. CASE type = "VARCHAR"
    <3>1. AnyToStr(type, v) = Text(v) /\ AnyToStr(type, w) = Text(w)
      BY <2>2 DEF AnyToStr, Wide
    <3>2. <<"text", v>> = <<"text", w>>
      BY <2>1, <3>1, Zenon DEF Text
    <3>3. QED
      BY <3>2
  <2>3. CASE type # "VARCHAR"
    <3>1. \A u : AnyToStr(type, u) =
                IF type \in Wide /\ u = 0 THEN Text(<<"0">>) ELSE <<type, u>>
      BY <2>3 DEF AnyToStr
    <3>2. \A u : type \in Wide => <<type, u>> # Text(<<"0">>)
      BY DEF Text, Wide
    <3>3. \A a, b : <<type, a>> = <<type, b>> => a = b
      OBVIOUS
    <3>4. v = w
      BY <2>1, <3>1, <3>2, <3>3, Zenon
    <3>5. QED
      BY <3>4
  <2>4. QED
    BY <2>2, <2>3
<1>5. QED
  BY <1>1, <1>2, <1>3, <1>4

\* Values of a scalar column that look the same in csv are the same, but for the
\* fraction of a second, and a null beside a text that is the null text
\* (CsvDistinguishes).
THEOREM CsvDistinguishesAlways == Spec => []CsvDistinguishes
<1>1. ReadInv => CsvDistinguishes
  <2> SUFFICES ASSUME ReadInv, NEW i \in Cols, NEW j \in 1 .. read, NEW k \in 1 .. read,
                      NEW type, type = result.cols[i],
                      NEW v, v = result.rows[j][i], NEW w, w = result.rows[k][i],
                      type \in Scalars,
                      CsvCell(type, v, null) = CsvCell(type, w, null)
               PROVE  Same(type, v, w)
    BY DEF CsvDistinguishes
  <2>1. j \in DOMAIN result.rows /\ k \in DOMAIN result.rows
    BY FormatterAssumption DEF ReadInv
  <2>2. type = "INTERVAL" => v \in Intervals \cup {NULL} /\ w \in Intervals \cup {NULL}
    BY <2>1, FormatterAssumption DEF ReadInv, Cols
  <2>3. CASE v # NULL /\ w # NULL
    <3>1. converter(type, v) = converter(type, w)
      BY <2>3 DEF CsvCell
    <3>2. v = w \/ (type \in {"TIME", "TIMESTAMP"} /\ v.sec = w.sec)
      BY <2>2, <2>3, <3>1, ConverterKeeps
    <3>3. QED
      BY <2>3, <3>2 DEF Same
  <2>4. CASE v = NULL \/ w = NULL
    BY <2>4 DEF CsvCell, Same
  <2>5. QED
    BY <2>3, <2>4
<1>2. QED
  BY <1>1, ReadInvAlways, PTL

-----------------------------------------------------------------------------
(* What Avro keeps of the wide integers.                                   *)

\* A set of natural numbers has a least one.
LEMMA LeastNat ==
  ASSUME NEW T, T \subseteq Nat, T # {}
  PROVE  \E x \in T : \A y \in T : x <= y
<1> DEFINE R == {ss \in Nat \X Nat : ss[1] < ss[2]}
<1>1. IsWellFoundedOn(R, Nat)
  BY NatLessThanWellFounded DEF OpToRel
<1>0. \A y, x \in Nat : y < x => <<y, x>> \in R
  OBVIOUS
<1> HIDE DEF R
<1>2. PICK x \in T : \A y \in T : ~(<<y, x>> \in R)
  BY <1>1, WFMin
<1>3. \A y \in T : x <= y
  <2> SUFFICES ASSUME NEW y \in T PROVE x <= y
    OBVIOUS
  <2>1. x \in Nat /\ y \in Nat
    OBVIOUS
  <2>2. ~(y < x)
    BY <1>0, <1>2, <2>1, Zenon
  <2>3. QED
    BY <2>1, <2>2
<1>4. QED
  BY <1>3

\* A set with 0 and the successor of each of its numbers has all of them.
LEMMA NatSet ==
  ASSUME NEW T, 0 \in T, \A n \in Nat : n \in T => n + 1 \in T
  PROVE  Nat \subseteq T
<1> SUFFICES ASSUME Nat \ T # {} PROVE FALSE
  OBVIOUS
<1>1. PICK x \in Nat \ T : \A y \in Nat \ T : x <= y
  BY LeastNat
<1>2. x # 0 /\ x - 1 \in Nat /\ (x - 1) + 1 = x /\ ~(x <= x - 1)
  BY <1>1
<1>3. x - 1 \in T
  BY <1>1, <1>2
<1>4. QED
  BY <1>1, <1>2, <1>3

\* f is the table of the first n + 1 powers.
Powers(f, n) ==
    /\ f \in [0 .. n -> Nat]
    /\ f[0] = 1 /\ \A k \in 1 .. n : f[k] = Byte * f[k - 1]

\* There is one such table of every size.
LEMMA PowersExist == \A n \in Nat : \E f : Powers(f, n)
<1> DEFINE T == {n \in Nat : \E f : Powers(f, n)}
<1>1. 0 \in T
  <2> DEFINE f == [k \in 0 .. 0 |-> 1]
  <2>1. Powers(f, 0)
    BY DEF Powers
  <2>2. QED
    BY <2>1
<1>2. ASSUME NEW n \in Nat, n \in T PROVE n + 1 \in T
  <2>1. PICK f : Powers(f, n)
    BY <1>2
  <2> DEFINE g == [k \in 0 .. n + 1 |-> IF k = n + 1 THEN Byte * f[n] ELSE f[k]]
  <2>2. Byte \in Nat
    BY ConvertAssumption
  <2>3. f \in [0 .. n -> Nat] /\ f[0] = 1 /\ \A k \in 1 .. n : f[k] = Byte * f[k - 1]
    BY <2>1 DEF Powers
  <2>4. f[n] \in Nat /\ Byte * f[n] \in Nat
    BY <2>2, <2>3
  <2>5. g \in [0 .. n + 1 -> Nat]
    BY <2>3, <2>4
  <2>6. g[0] = 1
    BY <2>3
  <2>7. \A k \in 1 .. n + 1 : g[k] = Byte * g[k - 1]
    <3> SUFFICES ASSUME NEW k \in 1 .. n + 1 PROVE g[k] = Byte * g[k - 1]
      OBVIOUS
    <3>1. CASE k = n + 1
      BY <3>1
    <3>2. CASE k # n + 1
      <4>1. k \in 1 .. n /\ k - 1 \in 0 .. n /\ k - 1 # n + 1
        BY <3>2
      <4>2. g[k] = f[k] /\ g[k - 1] = f[k - 1]
        BY <4>1
      <4>3. QED
        BY <2>3, <4>1, <4>2
    <3>3. QED
      BY <3>1, <3>2
  <2> HIDE DEF g
  <2>8. Powers(g, n + 1)
    BY <2>5, <2>6, <2>7 DEF Powers
  <2>9. QED
    BY <2>8
<1> HIDE DEF T
<1>3. Nat \subseteq T
  BY <1>1, <1>2, NatSet
<1>4. QED
  BY <1>3 DEF T

\* Two tables agree where both have an entry.
LEMMA PowersAgree ==
  ASSUME NEW f, NEW g, NEW n \in Nat, NEW m \in Nat, n <= m,
         Powers(f, n), Powers(g, m)
  PROVE  \A k \in 0 .. n : f[k] = g[k]
<1> DEFINE T == {k \in Nat : k <= n => f[k] = g[k]}
<1>0. /\ f[0] = 1 /\ \A k \in 1 .. n : f[k] = Byte * f[k - 1]
      /\ g[0] = 1 /\ \A k \in 1 .. m : g[k] = Byte * g[k - 1]
  BY DEF Powers
<1>1. 0 \in T
  BY <1>0
<1>2. ASSUME NEW k \in Nat, k \in T PROVE k + 1 \in T
  <2> SUFFICES ASSUME k + 1 <= n PROVE f[k + 1] = g[k + 1]
    OBVIOUS
  <2>1. k + 1 \in 1 .. n /\ k + 1 \in 1 .. m /\ k <= n /\ (k + 1) - 1 = k
    OBVIOUS
  <2>2. f[k] = g[k]
    BY <1>2, <2>1
  <2>3. f[k + 1] = Byte * f[k] /\ g[k + 1] = Byte * g[k]
    BY <1>0, <2>1
  <2>4. QED
    BY <2>2, <2>3
<1> HIDE DEF T
<1>3. Nat \subseteq T
  BY <1>1, <1>2, NatSet
<1>4. QED
  BY <1>3 DEF T

\* Pow is the function its definition describes, and its values are positive:
\* the powers that big.Int.FillBytes of avro.go writes a number in.
LEMMA PowFacts ==
  /\ Pow[0] = 1
  /\ \A k \in Nat : Pow[k] \in Nat \ {0} /\ Pow[k + 1] = Byte * Pow[k]
<1> DEFINE Tab(n) == CHOOSE f : Powers(f, n)
           F == [n \in Nat |-> Tab(n)[n]]
           Def(p) == [k \in Nat |-> IF k = 0 THEN 1 ELSE Byte * p[k - 1]]
<1>0. Byte \in Nat \ {0}
  BY ConvertAssumption
<1>1. \A n \in Nat : Powers(Tab(n), n)
  BY PowersExist
<1> HIDE DEF Tab
<1>2. F[0] = 1
  BY <1>1 DEF Powers
<1>3. ASSUME NEW k \in Nat PROVE F[k + 1] = Byte * F[k]
  <2>1. Powers(Tab(k), k) /\ Powers(Tab(k + 1), k + 1) /\ k <= k + 1 /\ k + 1 \in Nat
    BY <1>1
  <2>2. Tab(k)[k] = Tab(k + 1)[k]
    <3>1. k \in 0 .. k
      OBVIOUS
    <3>2. \A j \in 0 .. k : Tab(k)[j] = Tab(k + 1)[j]
      BY <2>1, PowersAgree
    <3>3. QED
      BY <3>1, <3>2
  <2>3. Tab(k + 1)[k + 1] = Byte * Tab(k + 1)[k]
    <3>1. k + 1 \in 1 .. k + 1 /\ (k + 1) - 1 = k
      OBVIOUS
    <3>2. QED
      BY <2>1, <3>1 DEF Powers
  <2>4. QED
    BY <2>1, <2>2, <2>3
<1>4. F = Def(F)
  <2>1. ASSUME NEW k \in Nat PROVE F[k] = Def(F)[k]
    <3>1. CASE k = 0
      BY <1>2, <3>1
    <3>2. CASE k # 0
      <4>1. k - 1 \in Nat /\ (k - 1) + 1 = k
        BY <3>2
      <4>2. F[k] = Byte * F[k - 1]
        BY <1>3, <4>1
      <4>3. QED
        BY <3>2, <4>2
    <3>3. QED
      BY <3>1, <3>2
  <2>2. QED
    BY <2>1
<1> HIDE DEF F
<1>5. Pow = Def(Pow)
  BY <1>4 DEF Pow
<1> DEFINE T == {k \in Nat : Pow[k] \in Nat \ {0}}
<1>6. Pow[0] = 1
  BY <1>5
<1>7. ASSUME NEW k \in Nat PROVE Pow[k + 1] = Byte * Pow[k]
  <2>1. k + 1 \in Nat /\ k + 1 # 0 /\ (k + 1) - 1 = k
    OBVIOUS
  <2>2. QED
    BY <1>5, <2>1
<1>8. ASSUME NEW k \in Nat, k \in T PROVE k + 1 \in T
  <2>1. Pow[k] \in Nat \ {0}
    BY <1>8
  <2>2. Byte * Pow[k] \in Nat \ {0}
    BY <1>0, <2>1
  <2>3. QED
    BY <1>7, <2>2
<1>9. 0 \in T
  BY <1>6
<1> HIDE DEF T
<1>10. Nat \subseteq T
  BY <1>8, <1>9, NatSet
<1>11. QED
  BY <1>6, <1>7, <1>10 DEF T

\* Dividing by a product divides by one factor after the other.
LEMMA DivDiv ==
  ASSUME NEW n \in Nat, NEW p \in Nat \ {0}, NEW q \in Nat \ {0}
  PROVE  n \div (q * p) = (n \div p) \div q
<1> DEFINE x == n \div p
           y == x \div q
<1>1. x \in Nat /\ p * x <= n /\ n < p * (x + 1)
  BY SMT
<1> HIDE DEF x
<1>2. y \in Nat /\ q * y <= x /\ x < q * (y + 1)
  BY <1>1, SMT
<1> HIDE DEF y
<1>3. x + 1 <= q * (y + 1) /\ q * y \in Nat /\ q * (y + 1) \in Nat
  BY <1>1, <1>2
<1>4. p * (q * y) <= p * x /\ p * (x + 1) <= p * (q * (y + 1))
  <2>1. \A c, d \in Nat : c <= d => p * c <= p * d
    BY SMT
  <2>2. QED
    BY <1>1, <1>2, <1>3, <2>1
<1>5. p * (q * y) = (q * p) * y /\ p * (q * (y + 1)) = (q * p) * (y + 1)
  BY <1>2, SMT
<1>6. q * p \in Nat \ {0}
  BY SMT
<1>7. p * x \in Nat /\ p * (x + 1) \in Nat /\ (q * p) * y \in Nat /\ (q * p) * (y + 1) \in Nat
  BY <1>1, <1>2, <1>6
<1>8. (q * p) * y <= n /\ n < (q * p) * (y + 1)
  BY <1>1, <1>4, <1>5, <1>7
<1>9. n \div (q * p) = y
  BY <1>2, <1>6, <1>8, DivUnique
<1>10. QED
  BY <1>9 DEF x, y

\* A number is its quotient and its remainder.
LEMMA DivRem ==
  ASSUME NEW x \in Nat, NEW w \in Nat \ {0}
  PROVE  /\ x = w * (x \div w) + (x % w)
         /\ x % w = x - w * (x \div w)
  BY SMT

\* The bytes of FillBytes, read from the first to the last, are the number.
LEMMA SetBytesFill ==
  ASSUME NEW s \in Nat, NEW n \in Nat, n < Pow[s]
  PROVE  SetBytes(FillBytes(n, s)) = n /\ DOMAIN FillBytes(n, s) = 1 .. s
<1> DEFINE b == [i \in 1 .. s |-> (n \div Pow[s - i]) % Byte]
           V == [i \in 0 .. s |-> n \div Pow[s - i]]
           Def(f) == [i \in 0 .. s |-> IF i = 0 THEN 0 ELSE Byte * f[i - 1] + b[i]]
<1>0. Byte \in Nat \ {0}
  BY ConvertAssumption
<1>1. FillBytes(n, s) = b
  <2>1. Pow[s] \in Nat
    BY PowFacts
  <2>2. n \in 0 .. Pow[s] - 1
    BY <2>1
  <2>3. QED
    BY <2>2 DEF FillBytes
<1>2. Cardinality(DOMAIN b) = s
  <2>1. DOMAIN b = 1 .. s
    OBVIOUS
  <2>2. Cardinality(1 .. s) = s
    BY FS_Interval
  <2>3. QED
    BY <2>1, <2>2
<1>3. V[0] = 0
  <2>1. Pow[s] \in Nat \ {0} /\ Pow[s] * 0 <= n /\ n < Pow[s] * (0 + 1)
    BY PowFacts
  <2>2. n \div Pow[s] = 0
    BY <2>1, DivUnique
  <2>3. QED
    BY <2>2
<1>4. ASSUME NEW i \in 1 .. s PROVE V[i] = Byte * V[i - 1] + b[i]
  <2> DEFINE p == Pow[s - i]
  <2>1. s - i \in Nat /\ i \in 0 .. s /\ i - 1 \in 0 .. s /\ s - (i - 1) = (s - i) + 1
    OBVIOUS
  <2>2. p \in Nat \ {0} /\ Pow[s - (i - 1)] = Byte * p
    BY <2>1, PowFacts
  <2>3. V[i] = n \div p /\ V[i - 1] = n \div (Byte * p) /\ b[i] = (n \div p) % Byte
    BY <2>1, <2>2
  <2> HIDE DEF p, V, b
  <2>4. n \div (Byte * p) = (n \div p) \div Byte
    BY <1>0, <2>2, DivDiv
  <2>5. n \div p \in Nat
    BY <2>2, SMT
  <2>6. n \div p = Byte * ((n \div p) \div Byte) + ((n \div p) % Byte)
    BY <1>0, <2>5, DivRem
  <2>7. QED
    BY <2>3, <2>4, <2>6
<1>5. V = Def(V)
  <2>1. ASSUME NEW i \in 0 .. s PROVE V[i] = Def(V)[i]
    <3>1. CASE i = 0
      BY <1>3, <3>1
    <3>2. CASE i # 0
      <4>1. i \in 1 .. s
        BY <3>2
      <4>2. V[i] = Byte * V[i - 1] + b[i]
        BY <1>4, <4>1
      <4>3. QED
        BY <3>2, <4>2
    <3>3. QED
      BY <3>1, <3>2
  <2>2. QED
    BY <2>1
<1>6. V[s] = n
  <2>1. V[s] = n \div Pow[s - s] /\ s - s = 0
    OBVIOUS
  <2>2. Pow[s - s] = 1
    BY <2>1, PowFacts
  <2>3. n \div 1 = n
    BY SMT
  <2>4. QED
    BY <2>1, <2>2, <2>3
<1> DEFINE val == CHOOSE f : f = Def(f)
<1> HIDE DEF V
<1>7. val = Def(val)
  BY <1>5
<1>8. SetBytes(b) = val[s]
  BY <1>2 DEF SetBytes
<1>9. val[s] = V[s]
  <2> HIDE DEF val, b
  <2>0. /\ val[0] = 0 /\ V[0] = 0
        /\ \A i \in 1 .. s : val[i] = Byte * val[i - 1] + b[i]
    BY <1>3, <1>7
  <2> DEFINE T == {i \in Nat : i <= s => val[i] = V[i]}
  <2>1. 0 \in T
    BY <2>0
  <2>2. ASSUME NEW i \in Nat, i \in T PROVE i + 1 \in T
    <3> SUFFICES ASSUME i + 1 <= s PROVE val[i + 1] = V[i + 1]
      OBVIOUS
    <3>1. i + 1 \in 1 .. s /\ (i + 1) - 1 = i /\ i <= s
      OBVIOUS
    <3>2. val[i] = V[i]
      BY <2>2, <3>1
    <3>3. val[i + 1] = Byte * val[i] + b[i + 1]
      BY <2>0, <3>1
    <3>4. V[i + 1] = Byte * V[i] + b[i + 1]
      BY <1>4, <3>1
    <3>5. QED
      BY <3>2, <3>3, <3>4
  <2> HIDE DEF T
  <2>3. Nat \subseteq T
    BY <2>1, <2>2, NatSet
  <2>4. QED
    BY <2>3 DEF T
<1>10. QED
  BY <1>1, <1>6, <1>8, <1>9

\* A number below the last power has no sign, and reads as itself.
LEMMA DecimalNat ==
  ASSUME NEW s \in Nat \ {0}, NEW n \in 0 .. Pow[s - 1] - 1
  PROVE  Decimal(FillBytes(n, s)) = n
<1> DEFINE p == Pow[s - 1]
           b == FillBytes(n, s)
<1>0. Byte \in Nat /\ Byte >= 2
  BY ConvertAssumption
<1>1. s - 1 \in Nat /\ (s - 1) + 1 = s
  OBVIOUS
<1>2. p \in Nat \ {0} /\ Pow[s] = Byte * p
  BY <1>1, PowFacts
<1>3. n \in Nat /\ n < p
  BY <1>2
<1>4. p <= Byte * p /\ Byte * p \in Nat
  <2> HIDE DEF p
  <2>1. QED
    BY <1>0, <1>2, SMT
<1>5. n < Pow[s] /\ n \in 0 .. Pow[s] - 1
  BY <1>2, <1>3, <1>4
<1>6. SetBytes(b) = n
  BY <1>3, <1>5, SetBytesFill
<1>7. b[1] = 0
  <2>1. b[1] = (n \div p) % Byte
    BY <1>1, <1>5 DEF FillBytes
  <2>2. p * 0 <= n /\ n < p * (0 + 1)
    BY <1>2, <1>3
  <2>3. n \div p = 0
    BY <1>2, <1>3, <2>2, DivUnique
  <2>4. 0 % Byte = 0
    BY <1>0
  <2>5. QED
    BY <2>1, <2>3, <2>4
<1>8. Byte \div 2 \in Nat /\ Byte \div 2 >= 1
  BY <1>0
<1> HIDE DEF b
<1>9. Decimal(b) = n
  BY <1>6, <1>7, <1>8 DEF Decimal
<1>10. QED
  BY <1>9 DEF b

\* The two's complement of a negative number reads as that number.
LEMMA DecimalNegative ==
  ASSUME NEW s \in Nat \ {0}, NEW n \in -(Pow[s - 1] \div 2) .. -1
  PROVE  Decimal(FillBytes(n + Pow[s], s)) = n
<1> DEFINE p == Pow[s - 1]
           m == n + Pow[s]
           b == FillBytes(m, s)
<1>0. Byte \in Nat /\ Byte >= 2 /\ Byte - 1 \in Nat
  BY ConvertAssumption
<1>1. s - 1 \in Nat /\ (s - 1) + 1 = s
  OBVIOUS
<1>2. p \in Nat \ {0} /\ Pow[s] = Byte * p
  BY <1>1, PowFacts
<1>3. n \in Int /\ n < 0 /\ -p <= n
  <2>1. p \div 2 \in Nat /\ p \div 2 <= p /\ n \in -(p \div 2) .. -1
    BY <1>2
  <2> HIDE DEF p
  <2>2. QED
    BY <1>2, <2>1
<1>4. /\ p * (Byte - 1) = Byte * p - p /\ p * ((Byte - 1) + 1) = Byte * p
      /\ Byte * p - p \in Nat /\ Byte * p \in Nat
  <2> HIDE DEF p
  <2>1. QED
    BY <1>0, <1>2, SMT
<1>5. m \in Nat /\ p * (Byte - 1) <= m /\ m < p * ((Byte - 1) + 1) /\ m < Pow[s]
  <2> HIDE DEF p
  <2>1. QED
    BY <1>2, <1>3, <1>4
<1>6. SetBytes(b) = m /\ Cardinality(DOMAIN b) = s
  <2>1. SetBytes(b) = m /\ DOMAIN b = 1 .. s
    BY <1>5, SetBytesFill
  <2>2. Cardinality(1 .. s) = s
    BY FS_Interval
  <2>3. QED
    BY <2>1, <2>2
<1>7. b[1] = Byte - 1
  <2>0. Pow[s] \in Nat /\ m \in 0 .. Pow[s] - 1
    BY <1>2, <1>4, <1>5
  <2>1. b[1] = (m \div p) % Byte
    <3> HIDE DEF m
    <3>1. QED
      BY <1>1, <2>0 DEF FillBytes
  <2> HIDE DEF m, p
  <2>2. m \div p = Byte - 1
    BY <1>0, <1>2, <1>5, DivUnique
  <2>3. (Byte - 1) % Byte = Byte - 1
    BY <1>0
  <2>4. QED
    BY <2>1, <2>2, <2>3
<1>8. Byte \div 2 \in Nat /\ Byte - 1 >= Byte \div 2
  BY <1>0
<1>9. m - Pow[s] = n
  BY <1>2, <1>3, <1>4
<1> HIDE DEF b, m
<1>10. Decimal(b) = n
  BY <1>0, <1>6, <1>7, <1>8, <1>9 DEF Decimal
<1>11. QED
  BY <1>10 DEF b, m

\* hugeIntToDecimalBytes and uint64ToDecimalBytes of avro.go lose nothing, for
\* every value in the ranges of the types.
LEMMA DecimalExact ==
  /\ \A n \in HugeInts : Decimal(hugeIntToDecimalBytes(n)) = n
  /\ \A n \in UInt64s : Decimal(uint64ToDecimalBytes(n)) = n
<1>0. HugeBytes \in Nat \ {0} /\ LongBytes \in Nat \ {0}
  BY ConvertAssumption
<1>1. ASSUME NEW n \in HugeInts PROVE Decimal(hugeIntToDecimalBytes(n)) = n
  <2> DEFINE p == Pow[HugeBytes - 1]
  <2>1. p \in Nat /\ p \div 2 \in Nat
    BY <1>0, PowFacts
  <2>2. n \in -(p \div 2) .. p - 1
    BY DEF HugeInts
  <2>3. CASE n < 0
    <3>1. n \in -(p \div 2) .. -1
      BY <2>1, <2>2, <2>3
    <3>2. hugeIntToDecimalBytes(n) = FillBytes(n + Pow[HugeBytes], HugeBytes)
      BY <2>3 DEF hugeIntToDecimalBytes
    <3>3. QED
      BY <1>0, <3>1, <3>2, DecimalNegative
  <2>4. CASE ~(n < 0)
    <3>1. n \in 0 .. p - 1
      BY <2>1, <2>2, <2>4
    <3>2. hugeIntToDecimalBytes(n) = FillBytes(n, HugeBytes)
      BY <2>4 DEF hugeIntToDecimalBytes
    <3>3. QED
      BY <1>0, <3>1, <3>2, DecimalNat
  <2>5. QED
    BY <2>3, <2>4
<1>2. ASSUME NEW n \in UInt64s PROVE Decimal(uint64ToDecimalBytes(n)) = n
  BY <1>0, DecimalNat DEF UInt64s, uint64ToDecimalBytes
<1>3. QED
  BY <1>1, <1>2

\* In every response the wide integers of an Avro row read as the ones of the
\* result (convertFunc and its converters in avro.go), for every size of a
\* byte and of the two buffers, and any result.
THEOREM AvroExactAlways == Spec => []AvroExact
<1>1. ReadInv => AvroExact
  <2> SUFFICES ASSUME ReadInv, NEW k \in 1 .. read, NEW i \in Cols,
                      NEW type, type = result.cols[i], NEW v, v = result.rows[k][i],
                      type \in {"HUGEINT", "UHUGEINT", "UBIGINT"}, v # NULL
               PROVE  Decimal(convertFunc(type, v)) = v
    BY DEF AvroExact, Wide
  <2>1. k \in DOMAIN result.rows
    BY FormatterAssumption DEF ReadInv
  <2>2. /\ type \in {"HUGEINT", "UHUGEINT"} => v \in HugeInts
        /\ type = "UBIGINT" => v \in UInt64s
    BY <2>1, FormatterAssumption DEF ReadInv, Cols
  <2>3. CASE type \in {"HUGEINT", "UHUGEINT"}
    <3>1. convertFunc(type, v) = hugeIntToDecimalBytes(v)
      BY <2>3 DEF convertFunc
    <3>2. QED
      BY <2>2, <2>3, <3>1, DecimalExact
  <2>4. CASE type = "UBIGINT"
    <3>1. convertFunc(type, v) = uint64ToDecimalBytes(v)
      BY <2>4 DEF convertFunc
    <3>2. QED
      BY <2>2, <2>4, <3>1, DecimalExact
  <2>5. QED
    BY <2>3, <2>4
<1>2. QED
  BY <1>1, ReadInvAlways, PTL

-----------------------------------------------------------------------------
(* The options.                                                            *)

\* What the parameters know of the first n options: the last one named null.
LastNull(n) ==
    LET o == format.opts IN
    \/ /\ \A i \in 1 .. n : o[i][1] # "null"
       /\ "null" \notin DOMAIN params
    \/ \E i \in 1 .. n :
          /\ o[i][1] = "null"
          /\ \A j \in i + 1 .. n : o[j][1] # "null"
          /\ "null" \in DOMAIN params /\ params["null"] = Value(o[i])

Options ==
    /\ format \in Formats
    /\ parsed \in 0 .. Len(format.opts) /\ LastNull(parsed)
    /\ pc \in {"header", "next", "body", "flush"} => null = NullText

\* The map of the parameters has the value of the last option.
LEMMA NullFound ==
  ASSUME Options, parsed = Len(format.opts)
  PROVE  Text(Get(params, "null", <<"NULL">>)) = NullText
<1> DEFINE o == format.opts
           n == Len(o)
           at == {i \in DOMAIN o : o[i][1] = "null"}
<1>1. n \in Nat /\ DOMAIN o = 1 .. n
  BY FormatterAssumption DEF Options
<1>2. NullText = Text(IF at = {} THEN <<"NULL">> ELSE Value(o[Max(at)]))
  BY DEF NullText
<1>3. CASE (\A i \in 1 .. n : o[i][1] # "null") /\ "null" \notin DOMAIN params
  <2>1. at = {}
    BY <1>1, <1>3
  <2>2. Get(params, "null", <<"NULL">>) = <<"NULL">>
    BY <1>3 DEF Get
  <2>3. QED
    BY <1>2, <2>1, <2>2
<1>4. ASSUME NEW i \in 1 .. n, o[i][1] = "null",
             \A j \in i + 1 .. n : o[j][1] # "null",
             "null" \in DOMAIN params, params["null"] = Value(o[i])
      PROVE  Text(Get(params, "null", <<"NULL">>)) = NullText
  <2>1. i \in at /\ at \subseteq 1 .. n
    BY <1>1, <1>4
  <2>2. \A j \in at : i >= j
    BY <1>1, <1>4
  <2> HIDE DEF at
  <2>3. Max(at) = i
    <3>1. \A x \in at : (\A y \in at : x >= y) => x = i
      BY <1>1, <2>1, <2>2
    <3>2. QED
      BY <2>1, <2>2, <3>1 DEF Max
  <2>4. Get(params, "null", <<"NULL">>) = Value(o[i])
    BY <1>4 DEF Get
  <2>5. QED
    BY <1>2, <2>1, <2>3, <2>4
<1>5. QED
  BY <1>3, <1>4 DEF Options, LastNull

\* Every step keeps what is known of the options; a later one named null
\* replaces the earlier (FindAndCreate of formatter.go).
LEMMA NextOptions == Options /\ [Next]_vars => Options'
<1> SUFFICES ASSUME Options, [Next]_vars PROVE Options'
  OBVIOUS
<1>1. CASE option
  <2> DEFINE n == parsed + 1
             o == format.opts[n]
  <2>1. /\ pc = "find" /\ parsed < Len(format.opts) /\ parsed' = n
        /\ UNCHANGED <<format, pc>>
    BY <1>1 DEF option
  <2>2. params' = IF Head(o) = "" THEN params ELSE
            [k \in DOMAIN params \cup {Head(o)} |->
                IF k = Head(o) THEN Value(o) ELSE params[k]]
    BY <1>1 DEF option
  <2>3. format.opts \in Seq(Seq(STRING) \ {<<>>}) /\ Len(format.opts) \in Nat
    BY FormatterAssumption DEF Options
  <2>4. n \in 1 .. Len(format.opts) /\ parsed \in Nat
    <3>1. parsed \in 0 .. Len(format.opts)
      BY DEF Options
    <3>2. QED
      BY <2>1, <2>3, <3>1
  <2>5. LastNull(parsed)' => Options'
    <3>1. format' \in Formats /\ parsed' \in 0 .. Len(format'.opts) /\ pc' = "find"
      <4>1. n \in 0 .. Len(format.opts) /\ format \in Formats
        BY <2>3, <2>4 DEF Options
      <4>2. QED
        BY <2>1, <4>1, Zenon
    <3>2. QED
      BY <3>1 DEF Options
  <2>6. Head(o) = o[1]
    <3>1. o \in Seq(STRING) /\ o # <<>>
      BY <2>3, <2>4
    <3>2. QED
      BY <3>1
  <2>7. CASE o[1] = "null"
    <3>1. "null" \in DOMAIN params' /\ params'["null"] = Value(o)
      BY <2>2, <2>6, <2>7
    <3>2. /\ n \in 1 .. n /\ format'.opts[n][1] = "null"
          /\ \A j \in n + 1 .. n : format'.opts[j][1] # "null"
          /\ "null" \in DOMAIN params' /\ params'["null"] = Value(format'.opts[n])
      <4>1. n \in 1 .. n /\ n + 1 .. n = {}
        BY <2>4
      <4>2. QED
        BY <2>1, <2>7, <3>1, <4>1
    <3>3. LastNull(parsed)'
      BY <2>1, <3>2, Zenon DEF LastNull
    <3>4. QED
      BY <2>5, <3>3
  <2>8. CASE o[1] # "null"
    <3>1. /\ "null" \in DOMAIN params' <=> "null" \in DOMAIN params
          /\ "null" \in DOMAIN params => params'["null"] = params["null"]
      BY <2>2, <2>6, <2>8
    <3>2. \A i \in 1 .. n : i = n \/ i \in 1 .. parsed
      BY <2>4
    <3>3. \/ /\ \A i \in 1 .. parsed : format.opts[i][1] # "null"
             /\ "null" \notin DOMAIN params
          \/ \E i \in 1 .. parsed :
                /\ format.opts[i][1] = "null"
                /\ \A j \in i + 1 .. parsed : format.opts[j][1] # "null"
                /\ "null" \in DOMAIN params /\ params["null"] = Value(format.opts[i])
      BY DEF Options, LastNull
    <3>4. CASE /\ \A i \in 1 .. parsed : format.opts[i][1] # "null"
               /\ "null" \notin DOMAIN params
      <4>1. \A i \in 1 .. n : format.opts[i][1] # "null"
        BY <2>8, <3>2, <3>4
      <4>2. LastNull(parsed)'
        BY <2>1, <3>1, <3>4, <4>1 DEF LastNull
      <4>3. QED
        BY <2>5, <4>2
    <3>5. ASSUME NEW i \in 1 .. parsed,
                 format.opts[i][1] = "null",
                 \A j \in i + 1 .. parsed : format.opts[j][1] # "null",
                 "null" \in DOMAIN params, params["null"] = Value(format.opts[i])
          PROVE  LastNull(parsed)'
      <4>1. i \in 1 .. n /\ \A j \in i + 1 .. n : j = n \/ j \in i + 1 .. parsed
        BY <2>4
      <4>2. \A j \in i + 1 .. n : format.opts[j][1] # "null"
        BY <2>8, <3>5, <4>1
      <4>3. params'["null"] = Value(format.opts[i]) /\ "null" \in DOMAIN params'
        BY <3>1, <3>5
      <4>4. QED
        BY <2>1, <3>5, <4>1, <4>2, <4>3 DEF LastNull
    <3>6. QED
      BY <2>5, <3>3, <3>4, <3>5
  <2>9. QED
    BY <2>7, <2>8
<1>2. CASE FindAndCreate
  <2>1. null' = NullText /\ UNCHANGED <<format, params, parsed>>
    BY <1>2, NullFound DEF FindAndCreate
  <2>2. QED
    BY <2>1 DEF Options, LastNull, NullText
<1>3. CASE UNCHANGED <<format, params, parsed, null>>
           /\ (pc' \in {"header", "next", "body", "flush"} =>
                pc \in {"header", "next", "body", "flush"})
  BY <1>3 DEF Options, LastNull, NullText
<1>4. QED
  BY <1>1, <1>2, <1>3 DEF Next, vars, unsupported, cancel, WriteHeader, headerError,
      canceled, NextRow, WriteBody, writeError, rowsEnd, nextError, Flush, error, Finished, End

-----------------------------------------------------------------------------
(* The text.                                                               *)

\* The pieces s, and then h, are a beginning of W.
Begins(s, h, W) ==
    /\ \A j \in 1 .. Len(s) : s[j] = W[j]
    /\ \A j \in 1 .. Len(h) : h[j] = W[Len(s) + j]

\* What is written after a beginning, when it is what comes next.
LEMMA BeginsMore ==
  ASSUME NEW S, NEW W, NEW s \in Seq(S), NEW h \in Seq(S), NEW ps \in Seq(S),
         Begins(s, h, W),
         \A j \in 1 .. Len(ps) : ps[j] = W[Len(s) + Len(h) + j]
  PROVE  /\ h \o ps \in Seq(S) /\ Len(h \o ps) = Len(h) + Len(ps)
         /\ Begins(s, h \o ps, W)
<1>1. /\ h \o ps \in Seq(S) /\ Len(h \o ps) = Len(h) + Len(ps)
      /\ \A i \in 1 .. Len(h) + Len(ps) :
            (h \o ps)[i] = IF i <= Len(h) THEN h[i] ELSE ps[i - Len(h)]
  BY ConcatProperties
<1>2. Len(s) \in Nat /\ Len(h) \in Nat /\ Len(ps) \in Nat
  BY LenProperties
<1>3. ASSUME NEW i \in 1 .. Len(h) + Len(ps) PROVE (h \o ps)[i] = W[Len(s) + i]
  <2>1. CASE i <= Len(h)
    BY <1>1, <1>2, <1>3, <2>1 DEF Begins
  <2>2. CASE ~(i <= Len(h))
    <3>1. i - Len(h) \in 1 .. Len(ps) /\ Len(s) + Len(h) + (i - Len(h)) = Len(s) + i
      BY <1>2, <1>3, <2>2
    <3>2. (h \o ps)[i] = ps[i - Len(h)]
      BY <1>1, <1>3, <2>2
    <3>3. ps[i - Len(h)] = W[Len(s) + Len(h) + (i - Len(h))]
      BY <3>1
    <3>4. QED
      BY <3>1, <3>2, <3>3
  <2>3. QED
    BY <2>1, <2>2
<1>4. QED
  BY <1>1, <1>3 DEF Begins

\* A writer that passes on some of what it holds keeps the order.
LEMMA BeginsPass ==
  ASSUME NEW S, NEW W, NEW s \in Seq(S), NEW ps \in Seq(S), NEW n \in 0 .. Len(ps),
         Begins(s, ps, W)
  PROVE  LET t == s \o SubSeq(ps, 1, n)
             g == SubSeq(ps, n + 1, Len(ps))
         IN  /\ t \in Seq(S) /\ Len(t) = Len(s) + n
             /\ g \in Seq(S) /\ Len(g) = Len(ps) - n
             /\ Begins(t, g, W)
<1> DEFINE a == SubSeq(ps, 1, n)
           t == s \o a
           g == SubSeq(ps, n + 1, Len(ps))
<1>1. Len(s) \in Nat /\ Len(ps) \in Nat /\ n \in Nat /\ n <= Len(ps)
  BY LenProperties
<1>2. \A i \in 1 .. Len(ps) : ps[i] \in S
  BY ElementOfSeq
<1>3. (\A i \in 1 .. n : ps[i] \in S) /\ (\A i \in n + 1 .. Len(ps) : ps[i] \in S)
  BY <1>1, <1>2
<1>4. a \in Seq(S) /\ Len(a) = n /\ \A i \in 1 .. n : a[i] = ps[i]
  <2>1. /\ a \in Seq(S) /\ Len(a) = (IF 1 <= n THEN n - 1 + 1 ELSE 0)
        /\ \A i \in 1 .. n - 1 + 1 : a[i] = ps[1 + i - 1]
    BY <1>1, <1>3, SubSeqProperties
  <2>2. QED
    BY <1>1, <2>1
<1>5. g \in Seq(S) /\ Len(g) = Len(ps) - n /\ \A i \in 1 .. Len(ps) - n : g[i] = ps[n + i]
  <2>1. /\ g \in Seq(S) /\ Len(g) = (IF n + 1 <= Len(ps) THEN Len(ps) - (n + 1) + 1 ELSE 0)
        /\ \A i \in 1 .. Len(ps) - (n + 1) + 1 : g[i] = ps[(n + 1) + i - 1]
    BY <1>1, <1>3, SubSeqProperties
  <2>2. QED
    BY <1>1, <2>1
<1>6. t \in Seq(S) /\ Len(t) = Len(s) + n
      /\ \A i \in 1 .. Len(s) + n : t[i] = IF i <= Len(s) THEN s[i] ELSE a[i - Len(s)]
  BY <1>4, ConcatProperties
<1> HIDE DEF a, t, g
<1>7. ASSUME NEW i \in 1 .. Len(t) PROVE t[i] = W[i]
  <2>1. CASE i <= Len(s)
    BY <1>1, <1>6, <1>7, <2>1 DEF Begins
  <2>2. CASE ~(i <= Len(s))
    <3>1. i - Len(s) \in 1 .. n /\ i - Len(s) \in 1 .. Len(ps) /\ Len(s) + (i - Len(s)) = i
      BY <1>1, <1>6, <1>7, <2>2
    <3>2. t[i] = ps[i - Len(s)]
      BY <1>4, <1>6, <1>7, <2>2, <3>1
    <3>3. ps[i - Len(s)] = W[Len(s) + (i - Len(s))]
      BY <3>1 DEF Begins
    <3>4. QED
      BY <3>1, <3>2, <3>3
  <2>3. QED
    BY <2>1, <2>2
<1>8. ASSUME NEW i \in 1 .. Len(g) PROVE g[i] = W[Len(t) + i]
  <2>1. n + i \in 1 .. Len(ps) /\ i \in 1 .. Len(ps) - n /\ Len(s) + (n + i) = Len(t) + i
    BY <1>1, <1>5, <1>6, <1>8
  <2>2. ps[n + i] = W[Len(s) + (n + i)]
    BY <2>1 DEF Begins
  <2>3. QED
    BY <1>5, <2>1, <2>2
<1>9. Begins(t, g, W)
  BY <1>7, <1>8 DEF Begins
<1>10. QED
  BY <1>5, <1>6, <1>9 DEF a, t, g

\* Where piece i of line k is in the text.
LEMMA Position ==
  ASSUME NEW w \in Nat \ {0}, NEW m \in Nat, NEW k \in 0 .. m, NEW i \in 1 .. w
  PROVE  /\ w * k + i \in 1 .. w * (m + 1)
         /\ (w * k + i - 1) \div w = k
         /\ (w * k + i - 1) % w = i - 1
<1>1. w * k \in Nat /\ w * m \in Nat /\ w * (m + 1) = w * m + w /\ w * (k + 1) = w * k + w
  OBVIOUS
<1>2. w * k <= w * m
  OBVIOUS
<1>3. w * k + i \in 1 .. w * (m + 1)
  BY <1>1, <1>2
<1> DEFINE a == w * k + i - 1
<1>4. a \in Nat /\ w * k <= a /\ a < w * (k + 1)
  BY <1>1
<1>5. a % w = a - w * (a \div w)
  BY <1>4, DivRem
<1> HIDE DEF a
<1>6. a \div w = k
  BY <1>4, DivUnique
<1>7. a % w = i - 1
  <2>1. a % w = a - w * k
    BY <1>5, <1>6
  <2>2. a - w * k = i - 1
    BY <1>1 DEF a
  <2>3. QED
    BY <2>1, <2>2
<1>8. QED
  BY <1>3, <1>6, <1>7 DEF a

\* A line of n cells and one more.
LEMMA LineFacts ==
  ASSUME NEW n \in Nat, NEW f, DOMAIN f = 1 .. n, f = [i \in 1 .. n |-> f[i]], NEW e
  PROVE  /\ Len(f \o <<e>>) = n + 1
         /\ f \o <<e>> \in Seq({f[i] : i \in 1 .. n} \cup {e})
         /\ \A i \in 1 .. n : (f \o <<e>>)[i] = f[i]
         /\ (f \o <<e>>)[n + 1] = e
<1> DEFINE S == {f[i] : i \in 1 .. n} \cup {e}
<1>1. f \in Seq(S) /\ Len(f) = n
  <2>1. \A i \in 1 .. n : f[i] \in S
    OBVIOUS
  <2> HIDE DEF S
  <2>2. f \in [1 .. n -> S]
    BY <2>1
  <2>3. QED
    BY <2>2
<1>2. <<e>> \in Seq(S) /\ Len(<<e>>) = 1 /\ <<e>>[1] = e
  OBVIOUS
<1> HIDE DEF S
<1>3. /\ f \o <<e>> \in Seq(S) /\ Len(f \o <<e>>) = n + 1
      /\ \A i \in 1 .. n + 1 : (f \o <<e>>)[i] = IF i <= n THEN f[i] ELSE <<e>>[i - n]
  <2>1. /\ f \o <<e>> \in Seq(S) /\ Len(f \o <<e>>) = Len(f) + Len(<<e>>)
        /\ \A i \in 1 .. Len(f) + Len(<<e>>) :
              (f \o <<e>>)[i] = IF i <= Len(f) THEN f[i] ELSE <<e>>[i - Len(f)]
    BY <1>1, <1>2, ConcatProperties
  <2>2. QED
    BY <1>1, <1>2, <2>1
<1>4. QED
  BY <1>2, <1>3 DEF S

\* The header has at least one piece, and none of them is an error's.
LEMMA HeaderFacts ==
  ASSUME result \in Results
  PROVE  /\ Width \in Nat \ {0} /\ \E S : HeaderPieces \in Seq(S)
         /\ \A i \in 1 .. Width : HeaderPieces[i] # ErrorText
<1> DEFINE n == Len(result.cols)
           f == [i \in Cols |-> <<"name", i>>]
<1>1. n \in Nat /\ Cols = 1 .. n
  BY FormatterAssumption DEF Cols
<1>2. CASE Kind = "csv"
  <2>1. HeaderPieces = f \o <<EndOfLine>>
    BY <1>2 DEF HeaderPieces
  <2>2. DOMAIN f = 1 .. n /\ f = [i \in 1 .. n |-> f[i]]
    BY <1>1
  <2>3. \A i \in 1 .. n : f[i] # ErrorText
    BY <1>1 DEF ErrorText
  <2>4. EndOfLine # ErrorText
    BY DEF EndOfLine, ErrorText
  <2> HIDE DEF f
  <2>5. /\ Len(f \o <<EndOfLine>>) = n + 1
        /\ f \o <<EndOfLine>> \in Seq({f[i] : i \in 1 .. n} \cup {EndOfLine})
        /\ \A i \in 1 .. n : (f \o <<EndOfLine>>)[i] = f[i]
        /\ (f \o <<EndOfLine>>)[n + 1] = EndOfLine
    BY <1>1, <2>2, LineFacts
  <2>6. \A i \in 1 .. n + 1 : i = n + 1 \/ i \in 1 .. n
    BY <1>1
  <2>7. Width = n + 1 /\ Width \in Nat \ {0}
    BY <1>1, <2>1, <2>5 DEF Width
  <2>8. \A i \in 1 .. Width : HeaderPieces[i] # ErrorText
    BY <2>1, <2>3, <2>4, <2>5, <2>6, <2>7
  <2>9. QED
    BY <2>1, <2>5, <2>7, <2>8
<1>3. CASE Kind # "csv"
  <2>1. HeaderPieces = <<<<"header">>>>
    BY <1>3 DEF HeaderPieces
  <2>2. Width = 1 /\ HeaderPieces \in Seq({<<"header">>}) /\ HeaderPieces[1] = <<"header">>
    BY <2>1 DEF Width
  <2>3. <<"header">> # ErrorText
    BY DEF ErrorText
  <2>4. \A i \in 1 .. Width : HeaderPieces[i] # ErrorText
    <3>1. \A i \in 1 .. 1 : i = 1
      OBVIOUS
    <3>2. QED
      BY <2>2, <2>3, <3>1, Zenon
  <2>5. QED
    BY <2>2, <2>4
<1>4. QED
  BY <1>2, <1>3

\* A row has as many pieces as the header, and none of them is an error's.
LEMMA RowFacts ==
  ASSUME result \in Results, NEW k, NEW nul
  PROVE  /\ Len(Pieces(k, nul)) = Width /\ \E S : Pieces(k, nul) \in Seq(S)
         /\ \A i \in 1 .. Width : Pieces(k, nul)[i] # ErrorText
<1> DEFINE n == Len(result.cols)
           row == result.rows[k]
           f == [i \in Cols |-> <<k, CsvCell(result.cols[i], row[i], nul)>>]
           g == [i \in Cols |-> <<"name", i>>]
<1>1. n \in Nat /\ Cols = 1 .. n
  BY FormatterAssumption DEF Cols
<1>2. CASE Kind = "csv"
  <2>1. Pieces(k, nul) = f \o <<EndOfLine>> /\ Width = Len(g \o <<EndOfLine>>)
    BY <1>2 DEF Pieces, HeaderPieces, Width
  <2>2. /\ DOMAIN f = 1 .. n /\ f = [i \in 1 .. n |-> f[i]]
        /\ DOMAIN g = 1 .. n /\ g = [i \in 1 .. n |-> g[i]]
    BY <1>1
  <2>3. \A i \in 1 .. n : f[i] # ErrorText
    BY <1>1 DEF ErrorText
  <2>4. EndOfLine # ErrorText
    BY DEF EndOfLine, ErrorText
  <2> HIDE DEF f, g
  <2>5. /\ Len(f \o <<EndOfLine>>) = n + 1 /\ Len(g \o <<EndOfLine>>) = n + 1
        /\ f \o <<EndOfLine>> \in Seq({f[i] : i \in 1 .. n} \cup {EndOfLine})
        /\ \A i \in 1 .. n : (f \o <<EndOfLine>>)[i] = f[i]
        /\ (f \o <<EndOfLine>>)[n + 1] = EndOfLine
    BY <1>1, <2>2, LineFacts
  <2>6. \A i \in 1 .. n + 1 : i = n + 1 \/ i \in 1 .. n
    BY <1>1
  <2>7. \A i \in 1 .. Width : Pieces(k, nul)[i] # ErrorText
    BY <2>1, <2>3, <2>4, <2>5, <2>6
  <2>8. QED
    BY <2>1, <2>5, <2>7
<1>3. ASSUME NEW c, Kind # "csv", Pieces(k, nul) = << <<k, c>> >>
      PROVE  /\ Len(Pieces(k, nul)) = Width /\ \E S : Pieces(k, nul) \in Seq(S)
             /\ \A i \in 1 .. Width : Pieces(k, nul)[i] # ErrorText
  <2>1. Width = 1
    BY <1>3 DEF Width, HeaderPieces
  <2>2. /\ Len(<< <<k, c>> >>) = 1 /\ << <<k, c>> >> \in Seq({<<k, c>>})
        /\ << <<k, c>> >>[1] = <<k, c>>
    OBVIOUS
  <2>3. <<k, c>> # ErrorText
    BY DEF ErrorText
  <2>4. \A i \in 1 .. Width : Pieces(k, nul)[i] # ErrorText
    BY <1>3, <2>1, <2>2, <2>3
  <2>5. QED
    BY <1>3, <2>1, <2>2, <2>4
<1>4. CASE Kind = "avro"
  BY <1>3, <1>4 DEF Pieces
<1>5. CASE Kind \notin {"csv", "avro"}
  BY <1>3, <1>5 DEF Pieces
<1>6. QED
  BY <1>2, <1>4, <1>5

\* A sequence is one over any set that has its elements.
LEMMA SeqOf ==
  ASSUME NEW S, NEW T, NEW s \in Seq(S), \A i \in 1 .. Len(s) : s[i] \in T
  PROVE  s \in Seq(T)
<1>1. Len(s) \in Nat /\ s \in [1 .. Len(s) -> S]
  BY LenProperties
<1>2. s \in [1 .. Len(s) -> T]
  BY <1>1
<1>3. QED
  BY <1>1, <1>2

Last == Width * (Len(result.rows) + 1)
Bits == {Whole[j] : j \in 1 .. Last} \cup {ErrorText}

\* The pieces of the whole text are the ones of the header and of the rows.
LEMMA WholeFacts ==
  ASSUME result \in Results
  PROVE  /\ Last \in Nat /\ Whole \in Seq(Bits) /\ Len(Whole) = Last
         /\ \A j \in 1 .. Last : Whole[j] # ErrorText /\ Whole[j] \in Bits
         /\ \A i \in 1 .. Width : i \in 1 .. Last /\ Whole[i] = HeaderPieces[i]
         /\ \A k \in 1 .. Len(result.rows) : \A i \in 1 .. Width :
               Width * k + i \in 1 .. Last /\ Whole[Width * k + i] = Pieces(k, NullText)[i]
<1> DEFINE m == Len(result.rows)
           piece(j) == LET k == (j - 1) \div Width
                           i == 1 + ((j - 1) % Width)
                       IN  IF k = 0 THEN HeaderPieces[i] ELSE Pieces(k, NullText)[i]
<1>1. Width \in Nat \ {0} /\ m \in Nat
  BY HeaderFacts, FormatterAssumption
<1>2. Last \in Nat
  BY <1>1 DEF Last
<1>3. Whole = [j \in 1 .. Last |-> piece(j)]
  BY DEF Whole, Last
<1>4. ASSUME NEW j \in 1 .. Last PROVE Whole[j] # ErrorText
  <2> DEFINE k == (j - 1) \div Width
             i == 1 + ((j - 1) % Width)
  <2>1. Whole[j] = IF k = 0 THEN HeaderPieces[i] ELSE Pieces(k, NullText)[i]
    BY <1>3
  <2>2. i \in 1 .. Width
    BY <1>1, <1>2
  <2> HIDE DEF k, i
  <2>3. HeaderPieces[i] # ErrorText /\ Pieces(k, NullText)[i] # ErrorText
    BY <2>2, HeaderFacts, RowFacts
  <2>4. QED
    BY <2>1, <2>3
<1>5. ASSUME NEW k \in 0 .. m, NEW i \in 1 .. Width
      PROVE  /\ Width * k + i \in 1 .. Last
             /\ Whole[Width * k + i] = IF k = 0 THEN HeaderPieces[i]
                                       ELSE Pieces(k, NullText)[i]
  <2> DEFINE j == Width * k + i
  <2>1. j \in 1 .. Last /\ (j - 1) \div Width = k /\ (j - 1) % Width = i - 1
    BY <1>1, Position DEF Last
  <2>2. 1 + (i - 1) = i
    BY <1>1
  <2> HIDE DEF j
  <2>3. Whole[j] = piece(j)
    BY <1>3, <2>1
  <2>4. piece(j) = IF k = 0 THEN HeaderPieces[i] ELSE Pieces(k, NullText)[i]
    BY <2>1, <2>2
  <2>5. QED
    BY <2>1, <2>3, <2>4 DEF j
<1>6. \A i \in 1 .. Width : i \in 1 .. Last /\ Whole[i] = HeaderPieces[i]
  <2>1. 0 \in 0 .. m /\ \A i \in 1 .. Width : Width * 0 + i = i
    BY <1>1
  <2>2. QED
    BY <1>5, <2>1
<1>7. \A k \in 1 .. m : k \in 0 .. m /\ k # 0
  BY <1>1
<1>8. \A j \in 1 .. Last : Whole[j] \in Bits
  BY DEF Bits
<1>9. Whole \in Seq(Bits) /\ Len(Whole) = Last
  <2> HIDE DEF piece
  <2>1. Whole \in [1 .. Last -> Bits]
    BY <1>3, <1>8
  <2>2. QED
    BY <1>2, <2>1
<1> HIDE DEF piece
<1>10. QED
  BY <1>2, <1>4, <1>5, <1>6, <1>7, <1>8, <1>9

-----------------------------------------------------------------------------
(* What was written.                                                       *)

\* The text is made of pieces, and as long as no error is written it is a
\* beginning of the whole text.
Written ==
    /\ sent \in Seq(Bits) /\ held \in Seq(Bits)
    /\ status # "error" =>
          Begins(sent, held, Whole) /\ Len(sent) + Len(held) <= Last

\* How much of the text is written.
Amount ==
    /\ pc \in {"find", "header"} => sent = <<>> /\ held = <<>> /\ read = 0
    /\ pc = "body" => read # 0 /\ Len(sent) + Len(held) = Width * read
    /\ pc \in {"next", "flush"} \/ status = "200" =>
          Len(sent) + Len(held) = Width * (read + 1)

\* How the handler ends: with the last row unless it was cancelled or DuckDB
\* failed, without any text, or with an error after a beginning of the text.
Ended ==
    /\ pc = "flush" /\ open /\ ~failed => read = Len(result.rows)
    /\ status = "none" <=> pc # "done"
    /\ status \in {"none", "200", "400", "error"}
    /\ status = "200" => held = <<>> /\ (open /\ ~failed => read = Len(result.rows))
    /\ status = "error" => \E m \in 0 .. Last :
          /\ Len(sent) = m + 1 /\ sent[m + 1] = ErrorText
          /\ \A j \in 1 .. m : sent[j] = Whole[j]

TextInv == Written /\ Amount /\ Ended

\* The text a response should have is fixed by its request and its result.
LEMMA Frame ==
  ASSUME UNCHANGED <<format, result>>
  PROVE  /\ Whole' = Whole /\ Last' = Last /\ Width' = Width /\ Bits' = Bits
         /\ HeaderPieces' = HeaderPieces
<1>1. Kind' = Kind /\ Cols' = Cols /\ NullText' = NullText
  BY DEF Kind, Cols, NullText
<1>2. HeaderPieces' = HeaderPieces
  BY <1>1 DEF HeaderPieces
<1>3. Width' = Width /\ Last' = Last
  BY <1>2 DEF Width, Last
<1>4. \A k : Pieces(k, NullText)' = Pieces(k, NullText)
  BY <1>1 DEF Pieces
<1>5. Whole' = Whole
  BY <1>2, <1>3, <1>4 DEF Whole
<1>6. QED
  BY <1>2, <1>3, <1>5 DEF Bits

\* A writer is given what comes next, and passes some of it on.
LEMMA Writes ==
  ASSUME ReadInv, Written, status # "error", UNCHANGED <<format, result>>,
         NEW ps, NEW n \in 0 .. Len(ps), ps \in Seq(Bits), Begins(sent, ps, Whole),
         Len(sent) + Len(ps) <= Last, Pass(ps, n)
  PROVE  Written' /\ Len(sent)' + Len(held)' = Len(sent) + Len(ps)
<1>1. Whole' = Whole /\ Last' = Last /\ Bits' = Bits
  BY Frame
<1>2. sent' = sent \o SubSeq(ps, 1, n) /\ held' = SubSeq(ps, n + 1, Len(ps))
  BY DEF Pass
<1>3. sent \in Seq(Bits)
  BY DEF Written
<1>4. /\ sent' \in Seq(Bits) /\ Len(sent') = Len(sent) + n
      /\ held' \in Seq(Bits) /\ Len(held') = Len(ps) - n
      /\ Begins(sent', held', Whole)
  <2> DEFINE t == sent \o SubSeq(ps, 1, n)
             g == SubSeq(ps, n + 1, Len(ps))
  <2>1. /\ t \in Seq(Bits) /\ Len(t) = Len(sent) + n
        /\ g \in Seq(Bits) /\ Len(g) = Len(ps) - n
        /\ Begins(t, g, Whole)
    BY <1>3, BeginsPass, Zenon
  <2>2. QED
    BY <1>2, <2>1, Zenon
<1>5. Len(sent) \in Nat /\ Len(ps) \in Nat
  BY <1>3, LenProperties
<1>6. Len(sent') + Len(held') = Len(sent) + Len(ps)
  BY <1>4, <1>5
<1>7. Begins(sent, held, Whole)'
  BY <1>1, <1>4 DEF Begins
<1>8. QED
  BY <1>1, <1>4, <1>6, <1>7 DEF Written

\* Every step of the handler keeps what is known of the text.
LEMMA NextText ==
  ASSUME ReadInv, ReadInv', Options, TextInv, [Next]_vars
  PROVE  TextInv'
<1> USE DEF TextInv
<1>0. UNCHANGED <<format, result>>
  BY DEF Next, vars, option, FindAndCreate, unsupported, cancel, WriteHeader,
     headerError, canceled, NextRow, WriteBody, writeError, rowsEnd, nextError, Flush, error, Finished
<1>1. /\ Whole' = Whole /\ Last' = Last /\ Width' = Width /\ Bits' = Bits
      /\ HeaderPieces' = HeaderPieces
  BY <1>0, Frame
<1>2. /\ Width \in Nat \ {0} /\ Last \in Nat /\ read \in Nat /\ Len(result.rows) \in Nat
      /\ read <= Len(result.rows) /\ Last = Width * (Len(result.rows) + 1)
  <2>1. Len(result.rows) \in Nat
    BY FormatterAssumption DEF ReadInv
  <2>2. QED
    BY <2>1, HeaderFacts, WholeFacts DEF ReadInv, Last
<1>3. Len(sent) \in Nat /\ Len(held) \in Nat
  BY LenProperties DEF Written
\* The steps that write nothing.
<1>4. ASSUME UNCHANGED <<sent, held>>, status' # "error" => status # "error"
      PROVE  Written'
  <2>1. Begins(sent, held, Whole)' <=> Begins(sent, held, Whole)
    BY <1>1, <1>4 DEF Begins
  <2>2. QED
    BY <1>1, <1>4, <2>1 DEF Written
<1>5. CASE option
  <2>1. UNCHANGED <<sent, held, status, pc, read, open, failed, result>>
    BY <1>5 DEF option
  <2>2. QED
    BY <1>1, <1>4, <2>1 DEF Amount, Ended
<1>6. CASE FindAndCreate
  <2>1. UNCHANGED <<sent, held, status, read, open, failed, result>> /\ pc = "find" /\ pc' = "header"
    BY <1>6 DEF FindAndCreate
  <2>2. QED
    BY <1>1, <1>4, <2>1 DEF Amount, Ended
<1>7. CASE unsupported
  <2>1. /\ UNCHANGED <<sent, held, read, open, failed, result>>
        /\ pc = "find" /\ pc' = "done" /\ status' = "400"
    BY <1>7 DEF unsupported, End
  <2>2. QED
    BY <1>1, <1>4, <2>1 DEF Amount, Ended
<1>8. CASE cancel
  <2>1. UNCHANGED <<sent, held, status, pc, read, failed, result>> /\ pc # "done" /\ open' = FALSE
    BY <1>8 DEF cancel
  <2>2. QED
    BY <1>1, <1>4, <2>1 DEF Amount, Ended
<1>9. CASE WriteHeader
  <2>1. /\ UNCHANGED <<read, open, failed, result, status>> /\ pc = "header" /\ pc' = "next"
        /\ \E n \in 0 .. Width : Pass(HeaderPieces, n)
    <3>1. CASE Kind = "avro"
      <4>1. Width = 1
        BY <3>1 DEF Width, HeaderPieces
      <4>2. 1 \in 0 .. 1
        OBVIOUS
      <4>3. QED
        BY <1>9, <3>1, <4>1, <4>2 DEF WriteHeader
    <3>2. CASE Kind # "avro"
      <4>1. \E n \in Spilt(HeaderPieces) : Pass(HeaderPieces, n)
        BY <1>9, <3>2 DEF WriteHeader
      <4>2. Spilt(HeaderPieces) \subseteq 0 .. Width
        BY <1>2, <3>2 DEF Spilt, Width
      <4>3. QED
        BY <1>9, <4>1, <4>2 DEF WriteHeader
    <3>3. QED
      BY <3>1, <3>2
  <2>2. PICK n \in 0 .. Width : Pass(HeaderPieces, n)
    BY <2>1
  <2>3. sent = <<>> /\ held = <<>> /\ read = 0 /\ status = "none" /\ Len(sent) = 0
    BY <2>1 DEF Amount, Ended
  <2>4. HeaderPieces \in Seq(Bits)
    <3>1. PICK S : HeaderPieces \in Seq(S)
      BY HeaderFacts DEF ReadInv
    <3>2. \A i \in 1 .. Len(HeaderPieces) : HeaderPieces[i] \in Bits
      BY WholeFacts DEF ReadInv, Width
    <3>3. QED
      BY <3>1, <3>2, SeqOf
  <2>5. Begins(sent, HeaderPieces, Whole)
    <3>1. \A i \in 1 .. Len(HeaderPieces) : HeaderPieces[i] = Whole[i]
      BY WholeFacts DEF ReadInv, Width
    <3>2. Len(HeaderPieces) \in Nat /\ \A i \in 1 .. Len(HeaderPieces) : 0 + i = i
      BY <1>2 DEF Width
    <3>3. 1 .. Len(sent) = {}
      BY <2>3
    <3>4. QED
      BY <2>3, <3>1, <3>2, <3>3 DEF Begins
  <2>6. Width <= Last /\ Len(sent) + Len(HeaderPieces) = Width
    <3>1. Width * Len(result.rows) >= 0 /\ Last = Width * Len(result.rows) + Width
      BY <1>2
    <3>2. Len(HeaderPieces) = Width
      BY DEF Width
    <3>3. QED
      BY <1>2, <2>3, <3>1, <3>2
  <2>7. Written' /\ Len(sent)' + Len(held)' = Width
    <3>1. n \in 0 .. Len(HeaderPieces) /\ status # "error" /\ Len(sent) + Len(HeaderPieces) <= Last
      BY <2>3, <2>6 DEF Width
    <3>2. QED
      BY <1>0, <2>2, <2>4, <2>5, <2>6, <3>1, Writes
  <2>8. Width = Width * (read + 1)
    BY <1>2, <2>3
  <2>9. QED
    BY <1>1, <2>1, <2>3, <2>7, <2>8 DEF Amount, Ended
<1>10. CASE headerError \/ canceled \/ writeError
  <2>1. /\ UNCHANGED <<sent, held, status, read, open, failed, result>> /\ pc # "done"
        /\ pc' = "error"
    BY <1>10 DEF headerError, canceled, writeError
  <2>2. QED
    BY <1>1, <1>4, <2>1 DEF Amount, Ended
<1>11. CASE NextRow
  <2>1. /\ UNCHANGED <<sent, held, status, open, failed, result>> /\ read' = read + 1
        /\ pc = "next" /\ pc' = "body"
    BY <1>11 DEF NextRow
  <2>2. read' # 0
    BY <1>2, <2>1
  <2>3. QED
    BY <1>1, <1>4, <2>1, <2>2 DEF Amount, Ended
<1>12. CASE WriteBody
  <2> DEFINE row == Pieces(read, null)
             ps == held \o row
  <2>1. /\ UNCHANGED <<read, open, failed, result, status>> /\ pc = "body" /\ pc' = "next"
        /\ \E n \in Spilt(ps) : Pass(ps, n)
    BY <1>12 DEF WriteBody
  <2>2. /\ status = "none" /\ read \in 1 .. Len(result.rows)
        /\ Len(sent) + Len(held) = Width * read /\ null = NullText
    BY <1>2, <2>1 DEF Amount, Ended, Options
  <2>3. Len(row) = Width /\ row \in Seq(Bits)
        /\ \A i \in 1 .. Len(row) : row[i] = Whole[Len(sent) + Len(held) + i]
    <3>1. Len(row) = Width
      BY RowFacts DEF ReadInv
    <3>2. PICK S : row \in Seq(S)
      BY RowFacts DEF ReadInv
    <3>3. \A i \in 1 .. Width : Width * read + i \in 1 .. Last /\ row[i] = Whole[Width * read + i]
      BY <2>2, WholeFacts DEF ReadInv
    <3>4. \A i \in 1 .. Len(row) : row[i] \in Bits
      BY <3>1, <3>3, WholeFacts DEF ReadInv
    <3>5. row \in Seq(Bits)
      BY <3>2, <3>4, SeqOf
    <3>6. QED
      BY <2>2, <3>1, <3>3, <3>5
  <2> HIDE DEF row
  <2>4. sent \in Seq(Bits) /\ held \in Seq(Bits) /\ Begins(sent, held, Whole)
    BY <2>2 DEF Written
  <2>5. /\ ps \in Seq(Bits) /\ Len(ps) = Len(held) + Width
        /\ Begins(sent, ps, Whole)
    <3>1. /\ held \o row \in Seq(Bits) /\ Len(held \o row) = Len(held) + Len(row)
          /\ Begins(sent, held \o row, Whole)
      BY <2>3, <2>4, BeginsMore, Zenon
    <3>2. QED
      BY <2>3, <3>1, Zenon
  <2> HIDE DEF ps
  <2>6. PICK n \in 0 .. Len(ps) : Pass(ps, n)
    <3>1. Len(ps) \in Nat
      BY <2>5, LenProperties
    <3>2. Spilt(ps) \subseteq 0 .. Len(ps)
      BY <3>1 DEF Spilt
    <3>3. QED
      BY <2>1, <3>2
  <2>7. Width * read + Width = Width * (read + 1) /\ Width * (read + 1) <= Last
    BY <1>2, <2>2
  <2>8. Len(sent) + Len(ps) = Width * (read + 1) /\ Len(sent) + Len(ps) <= Last
    BY <1>2, <1>3, <2>2, <2>5, <2>7
  <2>9. Written' /\ Len(sent)' + Len(held)' = Width * (read + 1)
    <3>1. status # "error"
      BY <2>2
    <3>2. QED
      BY <1>0, <2>5, <2>6, <2>8, <3>1, Writes
  <2>10. QED
    BY <1>1, <2>1, <2>2, <2>9 DEF Amount, Ended
<1>13. CASE rowsEnd
  <2>1. /\ UNCHANGED <<sent, held, status, read, open, failed, result>> /\ pc = "next"
        /\ pc' = "flush" /\ (open => read = Len(result.rows))
    BY <1>13 DEF rowsEnd
  <2>2. QED
    BY <1>1, <1>4, <2>1 DEF Amount, Ended
<1>13a. CASE nextError
  <2>1. /\ UNCHANGED <<sent, held, status, read, open, result>> /\ pc = "next"
        /\ pc' = "flush" /\ failed'
    BY <1>13a DEF nextError
  <2>2. QED
    BY <1>1, <1>4, <2>1 DEF Amount, Ended
<1>14. CASE Flush
  <2>1. /\ UNCHANGED <<read, open, failed, result>> /\ pc = "flush" /\ pc' = "done"
        /\ status' = "200" /\ Pass(held, Len(held))
    BY <1>14 DEF Flush, End
  <2>2. status # "error" /\ Len(sent) + Len(held) = Width * (read + 1)
    BY <2>1 DEF Amount, Ended
  <2>3. Written' /\ Len(sent)' + Len(held)' = Len(sent) + Len(held)
    <3>1. Len(held) \in 0 .. Len(held)
      BY <1>3
    <3>2. QED
      BY <1>0, <2>1, <2>2, <3>1, Writes DEF Written
  <2>4. held' = <<>>
    <3>1. Len(held) \in Int /\ Len(held) + 1 \in Int /\ Len(held) < Len(held) + 1
      BY <1>3
    <3>2. QED
      BY <2>1, <3>1, SubSeqEmpty DEF Pass
  <2>5. QED
    BY <1>1, <2>1, <2>2, <2>3, <2>4 DEF Amount, Ended
<1>15. CASE error
  <2>1. /\ UNCHANGED <<read, open, failed, result>> /\ pc = "error" /\ pc' = "done"
        /\ status' = "error" /\ sent' = Append(sent, ErrorText) /\ held' = <<>>
    BY <1>15 DEF error, End
  <2>2. /\ status # "error" /\ Begins(sent, held, Whole) /\ sent \in Seq(Bits)
        /\ Len(sent) + Len(held) <= Last
    BY <2>1 DEF Ended, Written
  <2>3. ErrorText \in Bits
    BY DEF Bits
  <2>4. /\ sent' \in Seq(Bits) /\ Len(sent') = Len(sent) + 1
        /\ \A i \in 1 .. Len(sent) : sent'[i] = sent[i]
        /\ sent'[Len(sent) + 1] = ErrorText
    BY <2>1, <2>2, <2>3, AppendProperties
  <2>5. Written'
    <3>1. held' \in Seq(Bits)
      BY <2>1
    <3>2. QED
      BY <1>1, <2>1, <2>4, <3>1 DEF Written
  <2>6. Len(sent) \in 0 .. Last
    BY <1>2, <1>3, <2>2
  <2>7. \A j \in 1 .. Len(sent) : sent'[j] = Whole[j]
    BY <2>2, <2>4 DEF Begins
  <2>8. Ended'
    BY <1>1, <2>1, <2>4, <2>6, <2>7 DEF Ended
  <2>9. Amount'
    BY <2>1 DEF Amount
  <2>10. QED
    BY <2>5, <2>8, <2>9
<1>16. CASE Finished \/ UNCHANGED vars
  <2>1. UNCHANGED <<sent, held, status, pc, read, open, failed, result>>
    BY <1>16 DEF Finished, vars
  <2>2. QED
    BY <1>1, <1>4, <2>1 DEF Amount, Ended
<1>17. QED
  BY <1>5, <1>6, <1>7, <1>8, <1>9, <1>10, <1>11, <1>12, <1>13, <1>14, <1>15, <1>16, <1>13a
  DEF Next

\* The text is a beginning of the whole text in every state, an error aside.
LEMMA TextAlways == Spec => [](ReadInv /\ TextInv)
<1>1. Init => ReadInv /\ Options /\ TextInv
  <2> SUFFICES ASSUME Init PROVE ReadInv /\ Options /\ TextInv
    OBVIOUS
  <2>1. /\ format \in Formats /\ result \in Results /\ pc = "find" /\ params = <<>>
        /\ parsed = 0 /\ read = 0 /\ held = <<>> /\ sent = <<>> /\ status = "none"
    BY DEF Init
  <2>2. ReadInv
    BY <2>1, FormatterAssumption DEF ReadInv
  <2>3. Options
    <3>1. format.opts \in Seq(Seq(STRING) \ {<<>>})
      BY <2>1, FormatterAssumption
    <3>2. parsed \in 0 .. Len(format.opts)
      BY <2>1, <3>1
    <3>3. 1 .. 0 = {} /\ DOMAIN <<>> = {}
      OBVIOUS
    <3>4. LastNull(parsed)
      BY <2>1, <3>3 DEF LastNull
    <3>5. QED
      BY <2>1, <3>2, <3>4 DEF Options
  <2>4. Last \in Nat
    BY <2>1, WholeFacts
  <2>5. Written
    <3>1. <<>> \in Seq(Bits) /\ Len(<<>>) = 0 /\ 1 .. 0 = {}
      OBVIOUS
    <3>2. Begins(<<>>, <<>>, Whole)
      BY <3>1 DEF Begins
    <3>3. QED
      BY <2>1, <2>4, <3>1, <3>2 DEF Written
  <2>6. Amount /\ Ended
    BY <2>1 DEF Amount, Ended
  <2>7. QED
    BY <2>2, <2>3, <2>5, <2>6 DEF TextInv
<1>2. QED
  BY <1>1, ReadInvAlways, NextOptions, NextText, PTL DEF Spec

\* A response that nobody stopped and that has no error's text is the whole
\* result (writeRows and Flush), whatever the writer passed on before.
THEOREM CompleteOrMarkedAlways == Spec => []CompleteOrMarked
<1>1. ReadInv /\ TextInv => CompleteOrMarked
  <2> SUFFICES ASSUME ReadInv, TextInv, status = "200", open, ~failed
               PROVE  sent = Whole /\ held = <<>>
    BY DEF CompleteOrMarked
  <2>1. /\ held = <<>> /\ read = Len(result.rows) /\ Len(sent) + Len(held) = Last
        /\ sent \in Seq(Bits) /\ \A j \in 1 .. Len(sent) : sent[j] = Whole[j]
    BY DEF TextInv, Ended, Amount, Written, Begins, Last
  <2>2. Whole \in Seq(Bits) /\ Len(Whole) = Last /\ Last \in Nat
    BY WholeFacts DEF ReadInv
  <2>3. Len(sent) = Len(Whole)
    <3>1. Len(sent) \in Nat /\ Len(held) = 0
      BY <2>1, LenProperties
    <3>2. QED
      BY <2>1, <2>2, <3>1
  <2>4. QED
    BY <2>1, <2>2, <2>3, SeqEqual
<1>2. QED
  BY <1>1, TextAlways, PTL

\* Whatever fails, and wherever the connection is cut, the client has a
\* beginning of the whole text, and the text of an error only at its end
\* (httperror.Write after writeRows).
THEOREM PrefixThenErrorAlways == Spec => []PrefixThenError
<1>1. ReadInv /\ TextInv => PrefixThenError
  <2> SUFFICES ASSUME ReadInv, TextInv PROVE PrefixThenError
    OBVIOUS
  <2> DEFINE n == Len(sent)
             m == IF n > 0 /\ sent[n] = ErrorText THEN n - 1 ELSE n
  <2>1. /\ Whole \in Seq(Bits) /\ Len(Whole) = Last /\ Last \in Nat
        /\ \A j \in 1 .. Last : Whole[j] # ErrorText /\ Whole[j] \in Bits
    BY WholeFacts DEF ReadInv
  <2>2. sent \in Seq(Bits) /\ n \in Nat /\ Len(held) \in Nat
    BY LenProperties DEF TextInv, Written
  <2>3. \A l \in 0 .. Last : (\A j \in 1 .. l : sent[j] = Whole[j]) =>
            SubSeq(sent, 1, l) = SubSeq(Whole, 1, l)
    <3> SUFFICES ASSUME NEW l \in 0 .. Last, \A j \in 1 .. l : sent[j] = Whole[j]
                 PROVE  SubSeq(sent, 1, l) = SubSeq(Whole, 1, l)
      OBVIOUS
    <3>1. l \in Int /\ \A j \in 1 .. l : sent[j] \in Bits /\ Whole[j] \in Bits
      BY <2>1
    <3>2. /\ SubSeq(sent, 1, l) \in Seq(Bits)
          /\ Len(SubSeq(sent, 1, l)) = (IF 1 <= l THEN l - 1 + 1 ELSE 0)
          /\ \A i \in 1 .. l - 1 + 1 : SubSeq(sent, 1, l)[i] = sent[1 + i - 1]
      BY <3>1, SubSeqProperties
    <3>3. /\ SubSeq(Whole, 1, l) \in Seq(Bits)
          /\ Len(SubSeq(Whole, 1, l)) = (IF 1 <= l THEN l - 1 + 1 ELSE 0)
          /\ \A i \in 1 .. l - 1 + 1 : SubSeq(Whole, 1, l)[i] = Whole[1 + i - 1]
      BY <3>1, SubSeqProperties
    <3>4. Len(SubSeq(sent, 1, l)) = l /\ \A i \in 1 .. l : SubSeq(sent, 1, l)[i] = sent[i]
      BY <3>1, <3>2
    <3>5. Len(SubSeq(Whole, 1, l)) = l /\ \A i \in 1 .. l : SubSeq(Whole, 1, l)[i] = Whole[i]
      BY <3>1, <3>3
    <3>6. \A i \in 1 .. l : SubSeq(sent, 1, l)[i] = SubSeq(Whole, 1, l)[i]
      BY <3>4, <3>5
    <3>7. QED
      BY <3>2, <3>3, <3>4, <3>5, <3>6, SeqEqual
  <2>4. CASE status = "error"
    <3>1. PICK l \in 0 .. Last : /\ n = l + 1 /\ sent[l + 1] = ErrorText
                                 /\ \A j \in 1 .. l : sent[j] = Whole[j]
      BY <2>4 DEF TextInv, Ended
    <3>2. m = l /\ m < n /\ m <= Len(Whole)
      BY <2>1, <3>1
    <3>3. SubSeq(sent, 1, m) = SubSeq(Whole, 1, m)
      BY <2>3, <3>1, <3>2
    <3> HIDE DEF n, m
    <3>4. QED
      BY <2>4, <3>2, <3>3 DEF PrefixThenError, n, m
  <2>5. CASE status # "error"
    <3>1. n + Len(held) <= Last /\ \A j \in 1 .. n : sent[j] = Whole[j]
      BY <2>5 DEF TextInv, Written, Begins
    <3>2. n \in 0 .. Last /\ (n > 0 => n \in 1 .. n /\ n \in 1 .. Last)
      BY <2>1, <2>2, <3>1
    <3>3. ~(n > 0 /\ sent[n] = ErrorText)
      BY <2>1, <3>1, <3>2
    <3>4. m = n /\ m <= Len(Whole) /\ ~(m < n)
      BY <2>1, <2>2, <3>2, <3>3
    <3>5. SubSeq(sent, 1, m) = SubSeq(Whole, 1, m)
      BY <2>3, <3>1, <3>2, <3>4
    <3> HIDE DEF n, m
    <3>6. QED
      BY <2>5, <3>4, <3>5 DEF PrefixThenError, n, m
  <2>6. QED
    BY <2>4, <2>5
<1>2. QED
  BY <1>1, TextAlways, PTL
=============================================================================

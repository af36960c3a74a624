-------------------------------- MODULE Numerics --------------------------------
(***************************************************************************)
(* Numbers of Polar (polar-core/src/numerics.rs): integers of a fixed      *)
(* width and floats.  A float is the number of units it is worth, so many  *)
(* of which make one: what matters of floats is that they have fractions   *)
(* only where they are small, and that the large integers fall between     *)
(* them.  NaN, which is equal to nothing, is left out, and so is the       *)
(* arithmetic of floats, which the processor does.                         *)
(***************************************************************************)
EXTENDS Integers, TLAPS

CONSTANTS
    MaxInt,     \* i64::MAX
    Exact,      \* MOST_POSITIVE_EXACT_FLOAT
    Unit        \* units in a one

ASSUME NumericsAssumption ==
    /\ MaxInt \in Nat /\ Exact \in Nat \ {0} /\ Unit \in Nat \ {0}
    /\ Exact <= MaxInt

MinInt == -MaxInt - 1
I64    == MinInt .. MaxInt

\* The numbers that may be floats: from Exact on without a fraction.
F64 == {f \in Int : f >= Exact * Unit \/ f <= -(Exact * Unit) => f % Unit = 0}

Integer(i) == [is |-> "int", num |-> i]
Float(f)   == [is |-> "float", num |-> f]
Numeric    == {Integer(i) : i \in I64} \cup {Float(f) : f \in F64}

(***************************************************************************)
(* Comparison                                                              *)
(***************************************************************************)
Order(m, n) == IF m < n THEN "Less" ELSE IF m = n THEN "Equal" ELSE "Greater"

Opposite(o) == CASE o = "Less" -> "Greater" [] o = "Greater" -> "Less" [] OTHER -> o

\* f as i64: the fraction is cut off.
AsInteger(f) == IF f >= 0 THEN f \div Unit ELSE -((-f) \div Unit)

\* As if every integer were a float: it is rounded to one, or to the next
\* even number of units where there is none.
MixedCmpAsFloat(i, f) ==
    IF -Exact < i /\ i < Exact THEN Order(i * Unit, f) ELSE Order((i - (i % 2)) * Unit, f)

\* An integer and a float.  The integers that are not floats are compared as
\* integers, with floats that are large too, or far away.
MixedCmp(i, f) ==
    IF -Exact < i /\ i < Exact     THEN Order(i * Unit, f)
    ELSE IF f >= (MaxInt + 1) * Unit THEN "Less"
    ELSE IF f < MinInt * Unit        THEN "Greater"
    ELSE Order(i, AsInteger(f))

PartialCmp(a, b) ==
    CASE a.is = "int" /\ b.is = "int"     -> Order(a.num, b.num)
      [] a.is = "int" /\ b.is = "float"   -> MixedCmp(a.num, b.num)
      [] a.is = "float" /\ b.is = "int"   -> Opposite(MixedCmp(b.num, a.num))
      [] a.is = "float" /\ b.is = "float" -> Order(a.num, b.num)

\* What is hashed of a number: the integer it is worth, if it is worth one.
HashOf(a) ==
    IF /\ a.is = "float" /\ a.num % Unit = 0
       /\ MinInt * Unit <= a.num /\ a.num < (MaxInt + 1) * Unit
    THEN Integer(AsInteger(a.num)) ELSE a

(***************************************************************************)
(* Arithmetic of integers: a set of one number, or of none where the       *)
(* checked operations of Rust give None.                                   *)
(***************************************************************************)
Checked(n) == IF n \in I64 THEN {n} ELSE {}

Magnitude(n) == IF n < 0 THEN -n ELSE n

\* The remainder of Rust has the sign of the left operand.
Remainder(a, b) ==
    LET r == Magnitude(a) % Magnitude(b)
    IN  IF a < 0 THEN -r ELSE r

CheckedRem(a, b) == IF b = 0 \/ (a = MinInt /\ b = -1) THEN {} ELSE {Remainder(a, b)}

\* An unchecked addition wraps in a release build.
Wrapped(n) == ((n - MinInt) % (2 * (MaxInt + 1))) + MinInt

Modulo(a, b) == {Remainder(Wrapped(c + b), b) : c \in CheckedRem(a, b)}

Arithmetic(op, a, b) ==
    CASE op = "Add" -> Checked(a + b)
      [] op = "Sub" -> Checked(a - b)
      [] op = "Mul" -> Checked(a * b)
      [] op = "Mod" -> Modulo(a, b)
      [] op = "Rem" -> CheckedRem(a, b)

(***************************************************************************)
(* The comparison is that of what the numbers are worth, in units.         *)
(***************************************************************************)
Worth(a) == IF a.is = "int" THEN a.num * Unit ELSE a.num

\* Units keep the order of integers.
LEMMA TimesUnit ==
    ASSUME NEW m \in Int, NEW n \in Int
    PROVE  /\ m * Unit \in Int
           /\ m < n => m * Unit < n * Unit
           /\ m <= n => m * Unit <= n * Unit
BY NumericsAssumption

LEMMA Division ==
    ASSUME NEW f \in Int
    PROVE  /\ f \div Unit \in Int /\ f % Unit \in 0..Unit - 1
           /\ f = ((f \div Unit) * Unit) + (f % Unit)
BY NumericsAssumption

\* Cutting off the fraction: a float without one stays what it is, and a
\* small one stays small.
LEMMA CutOff ==
    ASSUME NEW f \in Int
    PROVE  /\ AsInteger(f) \in Int
           /\ f % Unit = 0 => f = AsInteger(f) * Unit
           /\ -(Exact * Unit) < f /\ f < Exact * Unit =>
                -Exact < AsInteger(f) /\ AsInteger(f) < Exact
<1>1. CASE f >= 0
  <2> DEFINE k == f \div Unit
             r == f % Unit
  <2>1. k \in Int /\ r \in 0..Unit - 1 /\ f = (k * Unit) + r
    BY Division
  <2>2. AsInteger(f) = k
    BY <1>1 DEF AsInteger
  <2>3. k >= 0
    <3>1. SUFFICES ASSUME k <= -1 PROVE FALSE
      BY <2>1
    <3>2. k * Unit <= (-1) * Unit
      BY <3>1, <2>1, TimesUnit
    <3> QED
      BY <3>2, <2>1, <1>1, NumericsAssumption
  <2>4. f < Exact * Unit => k < Exact
    <3>1. SUFFICES ASSUME Exact <= k, f < Exact * Unit PROVE FALSE
      BY <2>1, NumericsAssumption
    <3>2. Exact * Unit <= k * Unit
      BY <3>1, <2>1, TimesUnit, NumericsAssumption
    <3> QED
      BY <3>1, <3>2, <2>1, NumericsAssumption
  <2> QED
    BY <2>1, <2>2, <2>3, <2>4, NumericsAssumption
<1>2. CASE f < 0
  <2> DEFINE k == (-f) \div Unit
             r == (-f) % Unit
             q == f \div Unit
  <2>1. k \in Int /\ r \in 0..Unit - 1 /\ -f = (k * Unit) + r
    BY Division
  <2>2. AsInteger(f) = -k
    BY <1>2 DEF AsInteger
  <2>3. q \in Int /\ f = (q * Unit) + (f % Unit)
    BY Division
  <2>4. f % Unit = 0 => f = (-k) * Unit
    <3>1. SUFFICES ASSUME f % Unit = 0 PROVE r = 0
      BY <2>1, NumericsAssumption
    <3>2. r = (-q - k) * Unit
      BY <3>1, <2>1, <2>3, NumericsAssumption
    <3>3. CASE -q - k <= 0
      <4>1. (-q - k) * Unit <= 0 * Unit
        BY <3>3, <2>1, <2>3, TimesUnit
      <4> QED
        BY <4>1, <3>2, <2>1, NumericsAssumption
    <3>4. CASE 1 <= -q - k
      <4>1. 1 * Unit <= (-q - k) * Unit
        BY <3>4, <2>1, <2>3, TimesUnit
      <4> QED
        BY <4>1, <3>2, <2>1, NumericsAssumption
    <3> QED
      BY <3>3, <3>4, <2>1, <2>3
  <2>5. k >= 0
    <3>1. SUFFICES ASSUME k <= -1 PROVE FALSE
      BY <2>1
    <3>2. k * Unit <= (-1) * Unit
      BY <3>1, <2>1, TimesUnit
    <3> QED
      BY <3>2, <2>1, <1>2, NumericsAssumption
  <2>6. -(Exact * Unit) < f => k < Exact
    <3>1. SUFFICES ASSUME Exact <= k, -(Exact * Unit) < f PROVE FALSE
      BY <2>1, NumericsAssumption
    <3>2. Exact * Unit <= k * Unit
      BY <3>1, <2>1, TimesUnit, NumericsAssumption
    <3> QED
      BY <3>1, <3>2, <2>1, NumericsAssumption
  <2> QED
    BY <2>1, <2>2, <2>4, <2>5, <2>6, NumericsAssumption
<1> QED
  BY <1>1, <1>2

\* An integer and a float are compared as what they are worth, whatever the
\* width of the integers and wherever floats cease to have fractions.
LEMMA MixedExact ==
    ASSUME NEW i \in I64, NEW f \in F64
    PROVE  MixedCmp(i, f) = Order(i * Unit, f)
<1> DEFINE c == AsInteger(f)
<1> USE NumericsAssumption
<1>0. i \in Int /\ MinInt <= i /\ i <= MaxInt /\ f \in Int /\ i * Unit \in Int
  BY TimesUnit DEF I64, MinInt, F64
<1>1. CASE -Exact < i /\ i < Exact
  BY <1>1 DEF MixedCmp
<1>2. CASE ~(-Exact < i /\ i < Exact) /\ f >= (MaxInt + 1) * Unit
  <2>1. i * Unit < (MaxInt + 1) * Unit
    BY <1>0, TimesUnit
  <2> QED
    BY <2>1, <1>0, <1>2 DEF MixedCmp, Order
<1>3. CASE ~(-Exact < i /\ i < Exact) /\ ~(f >= (MaxInt + 1) * Unit) /\ f < MinInt * Unit
  <2>1. MinInt * Unit <= i * Unit
    BY <1>0, TimesUnit DEF MinInt
  <2>2. MinInt * Unit \in Int
    BY DEF MinInt
  <2> QED
    BY <2>1, <2>2, <1>0, <1>3 DEF MixedCmp, Order
<1>4. CASE ~(-Exact < i /\ i < Exact) /\ ~(f >= (MaxInt + 1) * Unit) /\ ~(f < MinInt * Unit)
  <2>1. MixedCmp(i, f) = Order(i, c)
    BY <1>4 DEF MixedCmp
  <2>2. c \in Int
    BY <1>0, CutOff
  <2>3. CASE f >= Exact * Unit \/ f <= -(Exact * Unit)
    <3>1. f = c * Unit
      BY <2>3, <1>0, CutOff DEF F64
    <3>2. /\ i < c => i * Unit < c * Unit
          /\ c < i => c * Unit < i * Unit
      BY <1>0, <2>2, TimesUnit
    <3> QED
      BY <3>1, <3>2, <2>1, <2>2, <1>0 DEF Order
  <2>4. CASE ~(f >= Exact * Unit \/ f <= -(Exact * Unit))
    <3>1. -Exact < c /\ c < Exact /\ -(Exact * Unit) < f /\ f < Exact * Unit
      BY <2>4, <1>0, CutOff
    <3>2. CASE Exact <= i
      <4>1. Exact * Unit <= i * Unit
        BY <3>2, <1>0, TimesUnit
      <4> QED
        BY <4>1, <3>1, <3>2, <2>1, <2>2, <1>0 DEF Order
    <3>3. CASE i <= -Exact
      <4>1. i * Unit <= (-Exact) * Unit
        BY <3>3, <1>0, TimesUnit
      <4> QED
        BY <4>1, <3>1, <3>3, <2>1, <2>2, <1>0 DEF Order
    <3> QED
      BY <3>2, <3>3, <1>4, <1>0
  <2> QED
    BY <2>3, <2>4
<1> QED
  BY <1>1, <1>2, <1>3, <1>4

\* partial_cmp orders all numbers but NaN by what they are worth.  Hence equal
\* is an equivalence, less is transitive, and no order of the conversions
\* matters: what Eq, PartialOrd and the search in a list rely on.
THEOREM ComparesExactly ==
    \A a, b \in Numeric : PartialCmp(a, b) = Order(Worth(a), Worth(b))
<1> SUFFICES ASSUME NEW a \in Numeric, NEW b \in Numeric
             PROVE  PartialCmp(a, b) = Order(Worth(a), Worth(b))
  OBVIOUS
<1>1. ASSUME NEW i \in I64, NEW j \in I64, a = Integer(i), b = Integer(j)
      PROVE  PartialCmp(a, b) = Order(Worth(a), Worth(b))
  <2>1. i \in Int /\ j \in Int
    BY NumericsAssumption DEF I64, MinInt
  <2>2. /\ i < j => i * Unit < j * Unit
        /\ j < i => j * Unit < i * Unit
        /\ i * Unit \in Int /\ j * Unit \in Int
    BY <2>1, TimesUnit
  <2> QED
    BY <1>1, <2>1, <2>2 DEF PartialCmp, Worth, Order, Integer
<1>2. ASSUME NEW i \in I64, NEW f \in F64, a = Integer(i), b = Float(f)
      PROVE  PartialCmp(a, b) = Order(Worth(a), Worth(b))
  BY <1>2, MixedExact DEF PartialCmp, Worth, Integer, Float
<1>3. ASSUME NEW i \in I64, NEW f \in F64, a = Float(f), b = Integer(i)
      PROVE  PartialCmp(a, b) = Order(Worth(a), Worth(b))
  <2>1. i * Unit \in Int /\ f \in Int
    BY TimesUnit, NumericsAssumption DEF I64, MinInt, F64
  <2>2. PartialCmp(a, b) = Opposite(Order(i * Unit, f))
    BY <1>3, MixedExact DEF PartialCmp, Integer, Float
  <2> QED
    BY <1>3, <2>1, <2>2 DEF Worth, Order, Opposite, Integer, Float
<1>4. ASSUME NEW f \in F64, NEW g \in F64, a = Float(f), b = Float(g)
      PROVE  PartialCmp(a, b) = Order(Worth(a), Worth(b))
  BY <1>4 DEF PartialCmp, Worth, Float
<1> QED
  BY <1>1, <1>2, <1>3, <1>4 DEF Numeric

\* Numbers that are equal are hashed as the same: an integer and the float of
\* that worth are one key of a map.
THEOREM EqualHashEqual ==
    \A a, b \in Numeric : PartialCmp(a, b) = "Equal" => HashOf(a) = HashOf(b)
<1> SUFFICES ASSUME NEW a \in Numeric, NEW b \in Numeric, PartialCmp(a, b) = "Equal"
             PROVE  HashOf(a) = HashOf(b)
  OBVIOUS
<1>1. Order(Worth(a), Worth(b)) = "Equal"
  BY ComparesExactly
<1>2. Worth(a) = Worth(b)
  BY <1>1 DEF Order
<1>3. ASSUME NEW i \in I64, NEW f \in F64, f = i * Unit
      PROVE  HashOf(Float(f)) = Integer(i) /\ HashOf(Integer(i)) = Integer(i)
  <2>1. i \in Int /\ MinInt <= i /\ i < MaxInt + 1 /\ MaxInt + 1 \in Int /\ MinInt \in Int
    BY NumericsAssumption DEF I64, MinInt
  <2>2. MinInt * Unit <= f /\ f < (MaxInt + 1) * Unit /\ f \in Int
    BY <1>3, <2>1, TimesUnit
  <2>3. f % Unit = 0
    BY <1>3, <2>1, NumericsAssumption
  <2>4. AsInteger(f) = i
    <3>1. AsInteger(f) \in Int /\ AsInteger(f) * Unit = i * Unit
      BY <1>3, <2>2, <2>3, CutOff
    <3>2. /\ AsInteger(f) < i => AsInteger(f) * Unit < i * Unit
          /\ i < AsInteger(f) => i * Unit < AsInteger(f) * Unit
          /\ i * Unit \in Int
      BY <3>1, <2>1, TimesUnit
    <3> QED
      BY <3>1, <3>2, <2>1
  <2> QED
    BY <2>2, <2>3, <2>4 DEF HashOf, Float, Integer
<1>4. ASSUME NEW i \in I64, NEW j \in I64, a = Integer(i), b = Integer(j)
      PROVE  HashOf(a) = HashOf(b)
  <2>1. i \in Int /\ j \in Int /\ i * Unit = j * Unit
    BY <1>4, <1>2, NumericsAssumption DEF I64, MinInt, Worth, Integer
  <2>2. i = j
    BY <2>1, TimesUnit
  <2> QED
    BY <2>2, <1>4
<1>5. ASSUME NEW i \in I64, NEW f \in F64, a = Integer(i), b = Float(f)
      PROVE  HashOf(a) = HashOf(b)
  BY <1>5, <1>2, <1>3 DEF Worth, Integer, Float
<1>6. ASSUME NEW i \in I64, NEW f \in F64, a = Float(f), b = Integer(i)
      PROVE  HashOf(a) = HashOf(b)
  BY <1>6, <1>2, <1>3 DEF Worth, Integer, Float
<1>7. ASSUME NEW f \in F64, NEW g \in F64, a = Float(f), b = Float(g)
      PROVE  HashOf(a) = HashOf(b)
  BY <1>7, <1>2 DEF Worth, Float
<1> QED
  BY <1>4, <1>5, <1>6, <1>7 DEF Numeric
================================================================================

--------------------------- MODULE ChecksumProofs ---------------------------
(***************************************************************************)
(* Theorems about Checksum, for bytes and words of any width and blocks of *)
(* any length: the sum of a block is the remainder of its division by the  *)
(* generator, and blocks that differ within one word have different names. *)
(*                                                                         *)
(* One turn of the table's loop, Shift, is linear and has no kernel, for   *)
(* the generator has the highest bit.  So the eight turns of a byte, of    *)
(* which the table holds those of the low bits, take a byte in as eight    *)
(* turns that take in a bit each (Update, Remainder), and two sums that    *)
(* once differ, as those of two blocks do at the end of the word in which  *)
(* they differ, differ ever after (Differ).                                *)
(***************************************************************************)
EXTENDS Checksum, TLAPS, FiniteSetTheorems, WellFoundedInduction

Word == SUBSET Low(Width)

-----------------------------------------------------------------------------
(* Induction and division.                                                 *)

LEMMA Least ==
  ASSUME NEW T \in SUBSET Nat, T # {}
  PROVE  \E x \in T : \A y \in T : x <= y
<1> DEFINE less == OpToRel(<, Nat)
<1>1. \A x, y \in Nat : y < x => <<y, x>> \in less
  BY DEF OpToRel
<1> HIDE DEF less
<1>2. PICK x \in T : \A y \in T : <<y, x>> \notin less
  <2>1. IsWellFoundedOn(less, Nat)
    BY NatLessThanWellFounded DEF less
  <2> QED  BY <2>1, WFMin
<1>3. ASSUME NEW y \in T PROVE x <= y
  <2>1. x \in Nat /\ y \in Nat /\ ~(y < x)
    BY <1>1, <1>2
  <2> QED  BY <2>1
<1> QED  BY <1>3

LEMMA Induction ==
  ASSUME NEW S \in SUBSET Nat, 0 \in S, \A n \in S : n + 1 \in S
  PROVE  \A n \in Nat : n \in S
<1> SUFFICES ASSUME Nat \ S # {} PROVE FALSE
  OBVIOUS
<1>1. PICK x \in Nat \ S : \A y \in Nat \ S : x <= y
  BY Least
<1>2. x - 1 \in S
  BY <1>1
<1> QED  BY <1>2

LEMMA Divided ==
  ASSUME NEW n \in Nat, NEW m \in Nat \ {0}
  PROVE  n \div m \in Nat /\ n % m \in 0 .. m - 1 /\ n = (n \div m) * m + (n % m)
<1>1. n % m \in 0 .. m - 1 /\ n \div m \in Int
  OBVIOUS
<1>2. n = (n \div m) * m + (n % m)
  OBVIOUS
<1>3. ASSUME NEW d \in Int, NEW r \in 0 .. m - 1, n = d * m + r, d <= -1
      PROVE  FALSE
  <2>1. d * m <= (-1) * m
    BY <1>3
  <2> QED  BY <1>3, <2>1
<1> QED  BY <1>1, <1>2, <1>3

LEMMA Quotient ==
  ASSUME NEW n \in Nat, NEW m \in Nat \ {0}, NEW q \in 0 .. m - 1
  PROVE  (n * m + q) \div m = n /\ (n * m + q) % m = q
OBVIOUS

\* Which byte a bit is in.
LEMMA Placed ==
  ASSUME NEW l \in Nat, NEW m \in Nat \ {0}, NEW j \in Nat, j < l * m
  PROVE  j \div m \in Nat /\ j \div m < l
<1>1. PICK d \in Nat, r \in 0 .. m - 1 : d = j \div m /\ j = d * m + r
  BY Divided
<1>2. ASSUME l <= d PROVE FALSE
  <2>1. l * m <= d * m
    BY <1>2
  <2> QED  BY <1>1, <2>1
<1> QED  BY <1>1, <1>2

LEMMA Widths ==
  /\ ByteBits \in Nat \ {0} /\ Width \in Nat \ {0} /\ ByteBits <= Width
  /\ DigitBits < ByteBits /\ ByteBits = DigitBits + DigitBits
  /\ Width = WordBytes * ByteBits
<1>1. ByteBits \in Nat \ {0} /\ DigitBits < ByteBits /\ ByteBits = DigitBits + DigitBits
  BY ChecksumAssumption DEF ByteBits
<1>2. WordBytes * ByteBits \in Nat /\ 1 * ByteBits <= WordBytes * ByteBits
  BY ChecksumAssumption, <1>1
<1> QED  BY <1>1, <1>2 DEF Width

-----------------------------------------------------------------------------
(* One turn.                                                               *)

LEMMA XorTyped ==
  ASSUME NEW x \in Word, NEW y \in Word
  PROVE  SymDiff(x, y) \in Word
BY DEF SymDiff, Word

LEMMA XorAssociates ==
  ASSUME NEW x, NEW y, NEW z
  PROVE  SymDiff(SymDiff(x, y), z) = SymDiff(x, SymDiff(y, z))
BY DEF SymDiff

LEMMA ShiftTyped ==
  ASSUME NEW x \in Word
  PROVE  Shift(x) \in Word
BY ChecksumAssumption DEF Shift, Down, SymDiff, Word

LEMMA ShiftBit ==
  ASSUME NEW x \in Word, NEW i \in Low(Width)
  PROVE  i \in Shift(x) <=> ~(i + 1 \in x <=> (0 \in x /\ i \in Polynomial))
BY DEF Shift, Down, SymDiff

LEMMA ShiftXor ==
  ASSUME NEW x \in Word, NEW y \in Word
  PROVE  Shift(SymDiff(x, y)) = SymDiff(Shift(x), Shift(y))
<1>1. SymDiff(x, y) \in Word /\ Shift(SymDiff(x, y)) \in Word /\ Shift(x) \in Word /\ Shift(y) \in Word
  BY XorTyped, ShiftTyped
<1>2. ASSUME NEW i \in Low(Width)
      PROVE  i \in Shift(SymDiff(x, y)) <=> ~(i \in Shift(x) <=> i \in Shift(y))
  <2>1. \A j : j \in SymDiff(x, y) <=> ~(j \in x <=> j \in y)
    BY DEF SymDiff
  <2> QED  BY <1>1, <2>1, ShiftBit
<1> QED  BY <1>1, <1>2 DEF SymDiff, Word

\* The highest bit of the generator tells whether a bit fell out.
LEMMA ShiftZero ==
  ASSUME NEW x \in Word, Shift(x) = {}
  PROVE  x = {}
<1>1. Width - 1 \in Low(Width) /\ Width - 1 + 1 \notin x
  BY Widths DEF Low, Word
<1>2. 0 \notin x
  BY <1>1, ShiftBit, ChecksumAssumption
<1>3. ASSUME NEW i \in x PROVE FALSE
  <2>1. i # 0 /\ i - 1 \in Low(Width) /\ i - 1 + 1 = i
    BY <1>2, Widths DEF Low, Word
  <2> QED  BY <1>2, <2>1, ShiftBit
<1> QED  BY <1>3

LEMMA ShiftOne ==
  ASSUME NEW x \in Word, NEW y \in Word, Shift(x) = Shift(y)
  PROVE  x = y
<1>1. Shift(SymDiff(x, y)) = {}
  BY ShiftXor DEF SymDiff
<1>2. SymDiff(x, y) = {}
  BY <1>1, XorTyped, ShiftZero
<1> QED  BY <1>2 DEF SymDiff

-----------------------------------------------------------------------------
(* Several turns.                                                          *)

IsSteps(s, x, n) == s = [k \in 0 .. n |-> IF k = 0 THEN x ELSE Shift(s[k - 1])]

LEMMA StepsAgree ==
  ASSUME NEW x, NEW n \in Nat, NEW m \in Nat, NEW s, NEW t, IsSteps(s, x, n), IsSteps(t, x, m)
  PROVE  \A k \in 0 .. n : k <= m => s[k] = t[k]
<1> DEFINE S == {k \in Nat : k <= n /\ k <= m => s[k] = t[k]}
<1>1. 0 \in S
  BY DEF IsSteps
<1>2. ASSUME NEW k \in S PROVE k + 1 \in S
  <2> SUFFICES ASSUME k + 1 <= n, k + 1 <= m PROVE s[k + 1] = t[k + 1]
    OBVIOUS
  <2>1. k + 1 \in 0 .. n /\ k + 1 \in 0 .. m /\ k + 1 # 0 /\ k + 1 - 1 = k /\ s[k] = t[k]
    OBVIOUS
  <2>2. s[k + 1] = Shift(s[k]) /\ t[k + 1] = Shift(t[k])
    BY <2>1 DEF IsSteps
  <2> QED  BY <2>1, <2>2
<1> HIDE DEF S
<1>3. \A k \in Nat : k \in S
  BY <1>1, <1>2, Induction DEF S
<1> QED  BY <1>3 DEF S

LEMMA StepsExist ==
  ASSUME NEW x
  PROVE  \A n \in Nat : \E s : IsSteps(s, x, n)
<1> DEFINE S == {n \in Nat : \E s : IsSteps(s, x, n)}
<1>1. 0 \in S
  <2>1. IsSteps([k \in 0 .. 0 |-> x], x, 0)
    BY DEF IsSteps
  <2> QED  BY <2>1
<1>2. ASSUME NEW n \in S PROVE n + 1 \in S
  <2>1. PICK s : IsSteps(s, x, n)
    OBVIOUS
  <2> DEFINE t == [k \in 0 .. n + 1 |-> IF k = 0 THEN x ELSE Shift(s[k - 1])]
  <2>2. \A k \in 0 .. n : t[k] = s[k]
    BY <2>1 DEF IsSteps
  <2> HIDE DEF t
  <2>3. \A k \in 0 .. n + 1 : k # 0 => k - 1 \in 0 .. n
    OBVIOUS
  <2>4. \A k \in 0 .. n + 1 : (IF k = 0 THEN x ELSE Shift(s[k - 1]))
                                = (IF k = 0 THEN x ELSE Shift(t[k - 1]))
    BY <2>2, <2>3
  <2>5. IsSteps(t, x, n + 1)
    BY <2>4 DEF IsSteps, t
  <2> QED  BY <2>5
<1> HIDE DEF S
<1>3. \A n \in Nat : n \in S
  BY <1>1, <1>2, Induction DEF S
<1> QED  BY <1>3 DEF S

LEMMA ShiftedSteps ==
  ASSUME NEW x, NEW n \in Nat
  PROVE  \E s : IsSteps(s, x, n) /\ Shifted(x, n) = s[n]
<1> DEFINE s == CHOOSE s : s = [k \in 0 .. n |-> IF k = 0 THEN x ELSE Shift(s[k - 1])]
<1>1. \E t : t = [k \in 0 .. n |-> IF k = 0 THEN x ELSE Shift(t[k - 1])]
  BY StepsExist DEF IsSteps
<1>2. s = [k \in 0 .. n |-> IF k = 0 THEN x ELSE Shift(s[k - 1])]
  BY <1>1
<1>3. Shifted(x, n) = s[n]
  BY DEF Shifted
<1> HIDE DEF s
<1> QED  BY <1>2, <1>3 DEF IsSteps

LEMMA ShiftedNext ==
  ASSUME NEW x
  PROVE  /\ Shifted(x, 0) = x
         /\ \A n \in Nat : Shifted(x, n + 1) = Shift(Shifted(x, n))
<1>1. Shifted(x, 0) = x
  BY ShiftedSteps DEF IsSteps
<1>2. ASSUME NEW n \in Nat PROVE Shifted(x, n + 1) = Shift(Shifted(x, n))
  <2>1. PICK s : IsSteps(s, x, n) /\ Shifted(x, n) = s[n]
    BY ShiftedSteps
  <2>2. PICK t : IsSteps(t, x, n + 1) /\ Shifted(x, n + 1) = t[n + 1]
    BY ShiftedSteps
  <2>3. t[n + 1] = Shift(t[n])
    BY <2>2 DEF IsSteps
  <2>4. s[n] = t[n]
    BY <2>1, <2>2, StepsAgree
  <2> QED  BY <2>1, <2>2, <2>3, <2>4
<1> QED  BY <1>1, <1>2

LEMMA ShiftedTyped ==
  ASSUME NEW x \in Word
  PROVE  \A n \in Nat : Shifted(x, n) \in Word
<1> DEFINE S == {n \in Nat : Shifted(x, n) \in Word}
<1>1. 0 \in S /\ \A n \in S : n + 1 \in S
  BY ShiftedNext, ShiftTyped
<1> HIDE DEF S
<1>2. \A n \in Nat : n \in S
  BY <1>1, Induction DEF S
<1> QED  BY <1>2 DEF S

LEMMA ShiftedXor ==
  ASSUME NEW x \in Word, NEW y \in Word
  PROVE  \A n \in Nat : Shifted(SymDiff(x, y), n) = SymDiff(Shifted(x, n), Shifted(y, n))
<1> DEFINE S == {n \in Nat : Shifted(SymDiff(x, y), n) = SymDiff(Shifted(x, n), Shifted(y, n))}
<1>1. 0 \in S
  BY ShiftedNext
<1>2. ASSUME NEW n \in S PROVE n + 1 \in S
  <2>1. Shifted(x, n) \in Word /\ Shifted(y, n) \in Word
    BY ShiftedTyped
  <2>2. Shift(SymDiff(Shifted(x, n), Shifted(y, n))) = SymDiff(Shift(Shifted(x, n)), Shift(Shifted(y, n)))
    BY <2>1, ShiftXor
  <2>3. \A z : Shifted(z, n + 1) = Shift(Shifted(z, n))
    BY ShiftedNext
  <2>4. Shifted(SymDiff(x, y), n + 1) = SymDiff(Shifted(x, n + 1), Shifted(y, n + 1))
    BY <2>2, <2>3
  <2> QED  BY <2>4
<1> HIDE DEF S
<1>3. \A n \in Nat : n \in S
  BY <1>1, <1>2, Induction DEF S
<1> QED  BY <1>3 DEF S

LEMMA ShiftedOne ==
  ASSUME NEW x \in Word, NEW y \in Word
  PROVE  \A n \in Nat : Shifted(x, n) = Shifted(y, n) => x = y
<1> DEFINE S == {n \in Nat : Shifted(x, n) = Shifted(y, n) => x = y}
<1>1. 0 \in S
  BY ShiftedNext
<1>2. ASSUME NEW n \in S PROVE n + 1 \in S
  <2>1. Shifted(x, n) \in Word /\ Shifted(y, n) \in Word
    BY ShiftedTyped
  <2>2. Shifted(x, n + 1) = Shift(Shifted(x, n)) /\ Shifted(y, n + 1) = Shift(Shifted(y, n))
    BY ShiftedNext
  <2>3. Shifted(x, n + 1) = Shifted(y, n + 1) => Shifted(x, n) = Shifted(y, n)
    BY <2>1, <2>2, ShiftOne
  <2> QED  BY <2>3
<1> HIDE DEF S
<1>3. \A n \in Nat : n \in S
  BY <1>1, <1>2, Induction DEF S
<1> QED  BY <1>3 DEF S

LEMMA ShiftedTwice ==
  ASSUME NEW x, NEW n \in Nat
  PROVE  \A m \in Nat : Shifted(x, n + m) = Shifted(Shifted(x, n), m)
<1> DEFINE S == {m \in Nat : Shifted(x, n + m) = Shifted(Shifted(x, n), m)}
<1>1. 0 \in S
  BY ShiftedNext
<1>2. ASSUME NEW m \in S PROVE m + 1 \in S
  <2>1. n + (m + 1) = (n + m) + 1 /\ n + m \in Nat
    OBVIOUS
  <2> QED  BY <2>1, ShiftedNext
<1> HIDE DEF S
<1>3. \A m \in Nat : m \in S
  BY <1>1, <1>2, Induction DEF S
<1> QED  BY <1>3 DEF S

\* Bits that are high enough only move.
LEMMA ShiftedHigh ==
  ASSUME NEW x \in Word
  PROVE  \A n \in Nat : (\A i \in x : n <= i) => Shifted(x, n) = Down(x, n)
<1> DEFINE S == {n \in Nat : (\A i \in x : n <= i) => Shifted(x, n) = Down(x, n)}
<1>1. 0 \in S
  <2>1. \A i \in Low(Width) : i + 0 = i
    BY Widths DEF Low
  <2>2. Down(x, 0) = x
    BY <2>1 DEF Down, Word
  <2> QED  BY <2>2, ShiftedNext
<1>2. ASSUME NEW n \in S PROVE n + 1 \in S
  <2> SUFFICES ASSUME \A i \in x : n + 1 <= i PROVE Shifted(x, n + 1) = Down(x, n + 1)
    OBVIOUS
  <2>1. \A i \in x : n <= i /\ i \in Nat /\ i \in Low(Width)
    BY Widths DEF Word, Low
  <2>2. Shifted(x, n) = Down(x, n) /\ Shifted(x, n + 1) = Shift(Shifted(x, n))
    BY <2>1, ShiftedNext
  <2>3. 0 \notin Down(x, n)
    BY DEF Down
  <2>4. ASSUME NEW i \in Low(Width) PROVE i + 1 \in Down(x, n) <=> i + (n + 1) \in x
    <3>1. i \in Nat /\ i + 1 + n = i + (n + 1)
      BY Widths DEF Low
    <3>2. i + 1 + n \in x => i + 1 \in Low(Width)
      BY <2>1, <3>1, Widths DEF Low
    <3> QED  BY <3>1, <3>2 DEF Down
  <2>5. Down(Down(x, n), 1) = Down(x, n + 1)
    BY <2>4 DEF Down
  <2> QED  BY <2>2, <2>3, <2>5 DEF Shift
<1> HIDE DEF S
<1>3. \A n \in Nat : n \in S
  BY <1>1, <1>2, Induction DEF S
<1> QED  BY <1>3 DEF S

\* A bit that moves to the lowest place.
LEMMA ShiftedBit ==
  ASSUME NEW n \in Low(Width)
  PROVE  Shifted({n}, n) = {0}
<1>1. {n} \in Word /\ n \in Nat /\ 0 \in Low(Width)
  BY Widths DEF Word, Low
<1>2. Down({n}, n) = {0}
  BY <1>1, Widths DEF Down, Low
<1>3. \A i \in {n} : n <= i
  BY <1>1
<1> QED  BY <1>1, <1>2, <1>3, ShiftedHigh

\* The table holds the turns of the low bits; the others only move.
LEMMA Updated ==
  ASSUME NEW x \in Word, NEW byte \in Byte
  PROVE  Update(x, byte) = Shifted(SymDiff(x, byte), ByteBits)
<1> DEFINE y == SymDiff(x, byte)
           low == y \cap Low(ByteBits)
           high == y \ Low(ByteBits)
<1>1. Low(ByteBits) \subseteq Low(Width)
  BY Widths DEF Low
<1>2. low \in Byte /\ low \in Word /\ high \in Word
  BY <1>1 DEF SymDiff, Word, Byte
<1>3. y = SymDiff(low, high)
  BY DEF SymDiff
<1>4. Table[low] = Shifted(low, ByteBits)
  BY <1>2 DEF Table
<1>5. Shifted(high, ByteBits) = Down(high, ByteBits)
  <2>1. \A i \in high : ByteBits <= i
    BY <1>2, Widths DEF Low, Word
  <2> QED  BY <1>2, <2>1, ShiftedHigh, Widths
<1>6. Down(high, ByteBits) = Down(x, ByteBits)
  <2>1. \A i \in Low(Width) : i + ByteBits \notin Low(ByteBits)
    BY Widths DEF Low
  <2>2. \A i \in Low(Width) : i + ByteBits \in high <=> i + ByteBits \in x
    BY <2>1 DEF SymDiff, Byte
  <2> QED  BY <2>2 DEF Down
<1> HIDE DEF low, high
<1>7. Shifted(y, ByteBits) = SymDiff(Shifted(low, ByteBits), Shifted(high, ByteBits))
  BY <1>2, <1>3, ShiftedXor, Widths
<1> QED  BY <1>4, <1>5, <1>6, <1>7 DEF Update, low

-----------------------------------------------------------------------------
(* A sum after so many of the bits of a block, D those that are one: the   *)
(* places where an odd number of them count.                               *)

Odd(S) == Cardinality(S) % 2 = 1
Counting(D, m, i) == {j \in D : j < m /\ i \in Shifted({0}, m - j)}
Sum(D, m) == {i \in Low(Width) : Odd(Counting(D, m, i))}
Taken(D, m) == IF m \in D THEN {0} ELSE {}

LEMMA OddXor ==
  ASSUME NEW A, NEW B, IsFiniteSet(A), IsFiniteSet(B)
  PROVE  IsFiniteSet(SymDiff(A, B)) /\ (Odd(SymDiff(A, B)) <=> ~(Odd(A) <=> Odd(B)))
<1> DEFINE a == Cardinality(A)
           b == Cardinality(B)
           c == Cardinality(A \cap B)
<1>1. IsFiniteSet(A \ B) /\ Cardinality(A \ B) = a - c
  BY FS_Difference
<1>2. IsFiniteSet(B \ A) /\ Cardinality(B \ A) = b - c
  <2>1. B \cap A = A \cap B
    OBVIOUS
  <2> QED  BY <2>1, FS_Difference
<1>3. IsFiniteSet((A \ B) \cup (B \ A))
      /\ Cardinality((A \ B) \cup (B \ A)) = (a - c) + (b - c) - Cardinality((A \ B) \cap (B \ A))
  BY <1>1, <1>2, FS_Union
<1>4. Cardinality((A \ B) \cap (B \ A)) = 0
  <2>1. (A \ B) \cap (B \ A) = {}
    OBVIOUS
  <2> QED  BY <2>1, FS_EmptySet
<1>5. a \in Nat /\ b \in Nat /\ c \in Nat
  BY FS_CardinalityType, FS_Intersection
<1> HIDE DEF a, b, c
<1>6. Cardinality(SymDiff(A, B)) = (a - c) + (b - c)
  BY <1>1, <1>2, <1>3, <1>4, <1>5 DEF SymDiff
<1>7. ((a - c) + (b - c)) % 2 = 1 <=> ~(a % 2 = 1 <=> b % 2 = 1)
  BY <1>5
<1> QED  BY <1>3, <1>6, <1>7 DEF Odd, SymDiff, a, b

LEMMA OddOne ==
  /\ ~Odd({})
  /\ \A x : Odd({x})
<1>1. Cardinality({}) = 0 /\ \A x : Cardinality({x}) = 1
  BY FS_EmptySet, FS_Singleton
<1>2. 0 % 2 # 1 /\ 1 % 2 = 1
  OBVIOUS
<1> QED  BY <1>1, <1>2 DEF Odd

LEMMA CountingFinite ==
  ASSUME NEW D \in SUBSET Nat, NEW m \in Nat, NEW i
  PROVE  IsFiniteSet(Counting(D, m, i))
<1>1. Counting(D, m, i) \in SUBSET (0 .. m)
  <2>1. \A j \in D : j < m => j \in 0 .. m
    OBVIOUS
  <2> QED  BY <2>1 DEF Counting
<1>2. IsFiniteSet(0 .. m)
  BY FS_Interval
<1> QED  BY <1>1, <1>2, FS_Subset

LEMMA SumTyped ==
  ASSUME NEW D, NEW m
  PROVE  Sum(D, m) \in Word
BY DEF Sum, Word

LEMMA SumNone ==
  ASSUME NEW D \in SUBSET Nat
  PROVE  Sum(D, 0) = {}
<1>1. \A i : Counting(D, 0, i) = {}
  <2>1. \A j \in D : ~(j < 0)
    OBVIOUS
  <2> QED  BY <2>1 DEF Counting
<1> QED  BY <1>1, OddOne DEF Sum

LEMMA SumSame ==
  ASSUME NEW D \in SUBSET Nat, NEW E \in SUBSET Nat, NEW m \in Nat,
         \A j \in Nat : j < m => (j \in D <=> j \in E)
  PROVE  Sum(D, m) = Sum(E, m)
<1>1. \A i : Counting(D, m, i) = Counting(E, m, i)
  BY DEF Counting
<1> QED  BY <1>1 DEF Sum

\* Each bit is a turn.
LEMMA SumNext ==
  ASSUME NEW D \in SUBSET Nat, NEW m \in Nat
  PROVE  Sum(D, m + 1) = Shift(SymDiff(Sum(D, m), Taken(D, m)))
<1> DEFINE x == SymDiff(Sum(D, m), Taken(D, m))
<1>1. Taken(D, m) \in Word /\ x \in Word /\ {0} \in Word
  BY SumTyped, XorTyped, Widths DEF Taken, Word, Low
<1>2. ASSUME NEW i \in Low(Width)
      PROVE  i \in Sum(D, m + 1) <=> i \in Shift(x)
  <2> DEFINE A == Counting(D, m, i + 1)
             B == IF i \in Polynomial THEN Counting(D, m, 0) ELSE {}
             C == IF m \in D /\ i \in Shift({0}) THEN {m} ELSE {}
  <2>1. Counting(D, m + 1, i) = SymDiff(SymDiff(A, B), C)
    <3>1. ASSUME NEW j \in D, j < m
          PROVE  i \in Shifted({0}, (m + 1) - j)
                   <=> ~(i + 1 \in Shifted({0}, m - j) <=> (0 \in Shifted({0}, m - j) /\ i \in Polynomial))
      <4>1. m - j \in Nat /\ (m + 1) - j = (m - j) + 1
        BY <3>1
      <4>2. Shifted({0}, (m + 1) - j) = Shift(Shifted({0}, m - j))
        BY <4>1, ShiftedNext
      <4>3. Shifted({0}, m - j) \in Word
        BY <1>1, <4>1, ShiftedTyped
      <4> QED  BY <4>2, <4>3, ShiftBit
    <3>2. Shifted({0}, (m + 1) - m) = Shift({0})
      <4>1. (m + 1) - m = 0 + 1
        OBVIOUS
      <4> QED  BY <4>1, ShiftedNext
    <3>3. \A j \in D : j < m + 1 <=> j < m \/ j = m
      OBVIOUS
    <3>4. ASSUME NEW j PROVE j \in Counting(D, m + 1, i) <=> j \in SymDiff(SymDiff(A, B), C)
      <4>1. CASE j \in D /\ j < m
        BY <4>1, <3>1 DEF Counting, SymDiff
      <4>2. CASE j \in D /\ j = m
        BY <4>2, <3>2 DEF Counting, SymDiff
      <4>3. CASE ~(j \in D /\ j < m) /\ ~(j \in D /\ j = m)
        BY <4>3, <3>3 DEF Counting, SymDiff
      <4> QED  BY <4>1, <4>2, <4>3
    <3> QED  BY <3>4
  <2>2. IsFiniteSet(A) /\ IsFiniteSet(B) /\ IsFiniteSet(C)
    BY CountingFinite, FS_EmptySet, FS_Singleton
  <2>3. Odd(Counting(D, m + 1, i)) <=> ~(~(Odd(A) <=> Odd(B)) <=> Odd(C))
    <3> HIDE DEF A, B, C
    <3>1. IsFiniteSet(SymDiff(A, B)) /\ (Odd(SymDiff(A, B)) <=> ~(Odd(A) <=> Odd(B)))
      BY <2>2, OddXor
    <3> QED  BY <2>1, <2>2, <3>1, OddXor
  <2>4. Odd(A) <=> i + 1 \in Sum(D, m)
    <3>1. CASE i + 1 \in Low(Width)
      BY <3>1 DEF Sum
    <3>2. CASE i + 1 \notin Low(Width)
      <4>1. \A j \in D : j < m => m - j \in Nat
        OBVIOUS
      <4>2. A = {}
        BY <1>1, <3>2, <4>1, ShiftedTyped DEF Counting, Word
      <4> QED  BY <3>2, <4>2, OddOne DEF Sum
    <3> QED  BY <3>1, <3>2
  <2>5. Odd(B) <=> 0 \in Sum(D, m) /\ i \in Polynomial
    BY OddOne, <1>1 DEF Sum, Word
  <2>6. Odd(C) <=> m \in D /\ i \in Shift({0})
    BY OddOne
  <2>7. i \in Shift({0}) <=> i \in Polynomial
    <3>1. i + 1 # 0
      BY Widths DEF Low
    <3> QED  BY <1>1, <3>1, ShiftBit
  <2>8. i \in Shift(x) <=> ~(i + 1 \in Sum(D, m) <=> (0 \in x /\ i \in Polynomial))
    <3>1. i + 1 # 0
      BY Widths DEF Low
    <3>2. i + 1 \in x <=> i + 1 \in Sum(D, m)
      BY <3>1 DEF SymDiff, Taken
    <3> QED  BY <1>1, <3>2, ShiftBit
  <2>9. 0 \in x <=> ~(0 \in Sum(D, m) <=> m \in D)
    BY DEF SymDiff, Taken
  <2>10. i \in Sum(D, m + 1) <=> Odd(Counting(D, m + 1, i))
    BY DEF Sum
  <2> HIDE DEF A, B, C, x
  <2> QED  BY <2>3, <2>4, <2>5, <2>6, <2>7, <2>8, <2>9, <2>10
<1>3. Shift(x) \in Word /\ Sum(D, m + 1) \in Word
  BY <1>1, ShiftTyped, SumTyped
<1> HIDE DEF x
<1>4. Sum(D, m + 1) = Shift(x)
  BY <1>2, <1>3 DEF Word
<1> QED  BY <1>4 DEF x

\* The bits that a word's width of turns takes in count as if taken in at once, in their places.
Window(D, a, k) == {q \in Low(k) : a + q \in D}

LEMMA SumMoved ==
  ASSUME NEW D \in SUBSET Nat, NEW a \in Nat
  PROVE  \A k \in Nat :
            k <= Width => Sum(D, a + k) = Shifted(SymDiff(Sum(D, a), Window(D, a, k)), k)
<1> DEFINE y(k) == SymDiff(Sum(D, a), Window(D, a, k))
           S == {k \in Nat : k <= Width => Sum(D, a + k) = Shifted(y(k), k)}
<1>1. 0 \in S
  <2>1. y(0) = Sum(D, a)
    BY DEF Window, Low, SymDiff
  <2> QED  BY <2>1, ShiftedNext
<1>2. ASSUME NEW k \in S PROVE k + 1 \in S
  <2> SUFFICES ASSUME k + 1 <= Width PROVE Sum(D, a + (k + 1)) = Shifted(y(k + 1), k + 1)
    OBVIOUS
  <2> DEFINE t == IF a + k \in D THEN {k} ELSE {}
  <2>1. k \in Low(Width) /\ y(k) \in Word /\ t \in Word
    <3>1. k \in Low(Width)
      BY Widths DEF Low
    <3>2. Low(k) \subseteq Low(Width)
      BY Widths DEF Low
    <3>3. Window(D, a, k) \in Word
      BY <3>2 DEF Window, Word
    <3> QED  BY <3>1, <3>3, SumTyped, XorTyped DEF Word
  <2>2. y(k + 1) = SymDiff(y(k), t)
    <3>1. Low(k + 1) = Low(k) \cup {k} /\ k \notin Low(k)
      BY DEF Low
    <3>2. Window(D, a, k + 1) = SymDiff(Window(D, a, k), t)
      BY <3>1 DEF Window, SymDiff
    <3> QED  BY <3>2, XorAssociates
  <2>3. Shifted(t, k) = Taken(D, a + k)
    <3>1. Shifted({}, k) = {}
      <4>1. {} \in Word /\ (\A i \in {} : k <= i) /\ Down({}, k) = {}
        BY DEF Word, Down
      <4> QED  BY <4>1, ShiftedHigh
    <3> QED  BY <2>1, <3>1, ShiftedBit DEF Taken
  <2>4. Sum(D, a + (k + 1)) = Shift(SymDiff(Sum(D, a + k), Taken(D, a + k)))
    <3>1. a + (k + 1) = (a + k) + 1 /\ a + k \in Nat
      OBVIOUS
    <3> QED  BY <3>1, SumNext
  <2> HIDE DEF y, t
  <2>5. Sum(D, a + k) = Shifted(y(k), k)
    BY <2>1, Widths DEF Low
  <2>6. Shifted(y(k + 1), k) = SymDiff(Shifted(y(k), k), Shifted(t, k))
    BY <2>1, <2>2, ShiftedXor
  <2> QED  BY <2>3, <2>4, <2>5, <2>6, ShiftedNext
<1> HIDE DEF S
<1>3. \A k \in Nat : k \in S
  BY <1>1, <1>2, Induction DEF S
<1> QED  BY <1>3 DEF S

-----------------------------------------------------------------------------
(* The bits of a block.                                                    *)

LEMMA BitsTyped ==
  ASSUME NEW s \in Seq(Byte)
  PROVE  /\ Len(s) * ByteBits \in Nat
         /\ Bits(s) \in SUBSET Nat
         /\ \A j \in Bits(s) : j < Len(s) * ByteBits
<1>1. Len(s) * ByteBits \in Nat
  BY Widths
<1> QED  BY <1>1 DEF Bits, Low

LEMMA BitsAppended ==
  ASSUME NEW s \in Seq(Byte), NEW byte \in Byte
  PROVE  /\ Len(Append(s, byte)) * ByteBits = Len(s) * ByteBits + ByteBits
         /\ \A j \in Nat : j < Len(s) * ByteBits => (j \in Bits(Append(s, byte)) <=> j \in Bits(s))
         /\ \A q \in Low(ByteBits) : Len(s) * ByteBits + q \in Bits(Append(s, byte)) <=> q \in byte
<1> DEFINE n == Len(s) * ByteBits
           t == Append(s, byte)
<1>1. Len(s) \in Nat /\ Len(t) = Len(s) + 1 /\ ByteBits \in Nat \ {0}
  BY Widths
<1>2. n \in Nat /\ Len(t) * ByteBits = n + ByteBits
  <2> HIDE DEF t
  <2>1. Len(t) * ByteBits = (Len(s) + 1) * ByteBits
    BY <1>1
  <2> QED  BY <1>1, <2>1
<1>3. ASSUME NEW j \in Nat, j < n PROVE j \in Bits(t) <=> j \in Bits(s)
  <2>1. j \in Low(n + ByteBits) /\ j \in Low(n)
    <3> HIDE DEF n
    <3> QED  BY <1>1, <1>2, <1>3 DEF Low
  <2>2. j \div ByteBits + 1 \in 1 .. Len(s)
    <3> DEFINE d == j \div ByteBits
    <3>1. d \in Nat /\ d < Len(s)
      BY <1>1, <1>3, Placed
    <3> HIDE DEF d
    <3>2. d + 1 \in 1 .. Len(s)
      BY <1>1, <3>1
    <3> QED  BY <3>2 DEF d
  <2>3. t[j \div ByteBits + 1] = s[j \div ByteBits + 1]
    BY <2>2
  <2> HIDE DEF t
  <2> QED  BY <1>2, <2>1, <2>3 DEF Bits
<1>4. ASSUME NEW q \in Low(ByteBits) PROVE n + q \in Bits(t) <=> q \in byte
  <2>1. q \in 0 .. ByteBits - 1
    BY DEF Low
  <2>2. (n + q) \div ByteBits = Len(s) /\ (n + q) % ByteBits = q
    BY <1>1, <2>1, Quotient
  <2>3. n + q \in Low(n + ByteBits)
    <3> HIDE DEF n
    <3> QED  BY <1>1, <1>2, <2>1 DEF Low
  <2>4. t[Len(s) + 1] = byte
    OBVIOUS
  <2> HIDE DEF t, n
  <2> QED  BY <1>2, <2>2, <2>3, <2>4 DEF Bits
<1> QED  BY <1>2, <1>3, <1>4

-----------------------------------------------------------------------------
(* The sums of two blocks.                                                 *)

Remainder(s) == SymDiff(Shifted(Low(Width), Len(s) * ByteBits), Sum(Bits(s), Len(s) * ByteBits))

CInv ==
    /\ block \in [Both -> Seq(Byte)] /\ crc \in [Both -> Word]
    /\ Len(block[1]) = Len(block[2]) /\ Len(block[1]) <= MaxBytes
    /\ \A b \in Both : crc[b] = Remainder(block[b])

LEMMA RemainderTyped ==
  ASSUME NEW s \in Seq(Byte)
  PROVE  Remainder(s) \in Word
<1>1. Low(Width) \in Word /\ Len(s) * ByteBits \in Nat
  BY BitsTyped DEF Word
<1> QED  BY <1>1, ShiftedTyped, SumTyped, XorTyped DEF Remainder

LEMMA RemainderNext ==
  ASSUME NEW s \in Seq(Byte), NEW byte \in Byte
  PROVE  Remainder(Append(s, byte)) = Update(Remainder(s), byte)
<1> DEFINE n == Len(s) * ByteBits
           t == Append(s, byte)
           D == Bits(t)
           ones == Shifted(Low(Width), n)
           x == SymDiff(Sum(Bits(s), n), byte)
<1>1. /\ n \in Nat /\ Len(t) * ByteBits = n + ByteBits
      /\ D \in SUBSET Nat /\ Bits(s) \in SUBSET Nat
      /\ ByteBits \in Nat /\ ByteBits <= Width
  <2>1. t \in Seq(Byte)
    OBVIOUS
  <2> QED  BY <2>1, BitsTyped, BitsAppended, Widths
<1>2. Low(Width) \in Word /\ ones \in Word /\ byte \in Word /\ x \in Word
  <2>1. Low(ByteBits) \subseteq Low(Width)
    BY Widths DEF Low
  <2>2. Low(Width) \in Word /\ byte \in Word
    BY <2>1 DEF Word, Byte
  <2> QED  BY <1>1, <2>2, ShiftedTyped, SumTyped, XorTyped
<1>3. Sum(D, n) = Sum(Bits(s), n)
  BY <1>1, BitsAppended, SumSame
<1>4. Window(D, n, ByteBits) = byte
  BY BitsAppended DEF Window, Byte
<1>5. Sum(D, n + ByteBits) = Shifted(x, ByteBits)
  <2> HIDE DEF D, n
  <2> QED  BY <1>1, <1>3, <1>4, SumMoved
<1>6. Shifted(Low(Width), n + ByteBits) = Shifted(ones, ByteBits)
  BY <1>1, ShiftedTwice
<1>7. Update(Remainder(s), byte) = Shifted(SymDiff(Remainder(s), byte), ByteBits)
  BY RemainderTyped, Updated
<1>8. SymDiff(Remainder(s), byte) = SymDiff(ones, x)
  BY XorAssociates DEF Remainder
<1>9. Shifted(SymDiff(ones, x), ByteBits) = SymDiff(Shifted(ones, ByteBits), Shifted(x, ByteBits))
  <2> HIDE DEF ones, x
  <2> QED  BY <1>1, <1>2, ShiftedXor
<1>10. Remainder(t) = SymDiff(Shifted(Low(Width), n + ByteBits), Sum(D, n + ByteBits))
  BY <1>1 DEF Remainder
<1> HIDE DEF t, D, ones, x, n
<1>11. Remainder(t) = Update(Remainder(s), byte)
  BY <1>5, <1>6, <1>7, <1>8, <1>9, <1>10
<1> QED  BY <1>11 DEF t

LEMMA CInvInit ==
  ASSUME ChecksumInit
  PROVE  CInv
<1>1. 0 * ByteBits = 0
  BY Widths
<1>2. Remainder(<<>>) = Low(Width)
  <2>1. <<>> \in Seq(Byte) /\ Len(<<>>) = 0
    OBVIOUS
  <2>2. Sum(Bits(<<>>), 0) = {}
    BY <2>1, BitsTyped, SumNone
  <2> QED  BY <1>1, <2>1, <2>2, ShiftedNext DEF Remainder, SymDiff
<1> QED  BY <1>2, ChecksumAssumption DEF CInv, ChecksumInit, Word, Both

LEMMA CInvNext ==
  ASSUME CInv, [ChecksumNext]_checksumVars
  PROVE  CInv'
<1>1. CASE UpdateBoth
  <2>1. PICK d \in [Both -> Byte] : /\ Len(block[1]) < MaxBytes
                                    /\ block' = [b \in Both |-> Append(block[b], d[b])]
                                    /\ crc' = [b \in Both |-> Update(crc[b], d[b])]
    BY <1>1 DEF UpdateBoth
  <2>2. ASSUME NEW b \in Both
        PROVE  /\ block[b] \in Seq(Byte) /\ d[b] \in Byte
               /\ block'[b] = Append(block[b], d[b]) /\ block'[b] \in Seq(Byte)
               /\ Len(block'[b]) = Len(block[b]) + 1
    <3>1. block[b] \in Seq(Byte) /\ d[b] \in Byte /\ block'[b] = Append(block[b], d[b])
      BY <2>1 DEF CInv
    <3> QED  BY <3>1
  <2>3. ASSUME NEW b \in Both
        PROVE  crc'[b] = Remainder(block'[b]) /\ crc'[b] \in Word
    <3>1. crc'[b] = Update(Remainder(block[b]), d[b])
      BY <2>1 DEF CInv
    <3> QED  BY <2>2, <3>1, RemainderNext, RemainderTyped
  <2>4. block' \in [Both -> Seq(Byte)] /\ crc' \in [Both -> Word]
    BY <2>1, <2>2, <2>3
  <2>5. Len(block'[1]) = Len(block'[2]) /\ Len(block'[1]) <= MaxBytes
    <3>1. 1 \in Both /\ 2 \in Both /\ Len(block[1]) \in Nat
      BY <2>2 DEF Both
    <3> QED  BY <2>1, <2>2, <3>1, ChecksumAssumption DEF CInv
  <2>6. (\A b \in Both : crc[b] = Remainder(block[b]))'
    <3>1. \A b \in Both : crc'[b] = Remainder(block'[b])
      BY <2>3
    <3> QED  BY <3>1 DEF Remainder, Sum, Counting, Odd
  <2> QED  BY <2>4, <2>5, <2>6 DEF CInv
<1>2. CASE UNCHANGED checksumVars
  BY <1>2 DEF CInv, checksumVars, Remainder
<1> QED  BY <1>1, <1>2 DEF ChecksumNext

\* The run's property tells the powers from a table.
LEMMA RemainderHolds ==
  ASSUME CInv
  PROVE  IsRemainder
<1> SUFFICES ASSUME NEW b \in Both
             PROVE  crc[b] = SymDiff(Shifted(Low(Width), Len(block[b]) * ByteBits),
                       {i \in Low(Width) : Cardinality({j \in Bits(block[b]) :
                          i \in Power[Len(block[b]) * ByteBits - j]}) % 2 = 1})
  BY DEF IsRemainder
<1> DEFINE n == Len(block[b]) * ByteBits
           D == Bits(block[b])
<1>1. block[b] \in Seq(Byte) /\ Len(block[b]) \in Nat /\ Len(block[b]) <= MaxBytes
  BY DEF CInv, Both
<1>2. n \in Nat /\ D \in SUBSET Nat /\ \A j \in D : j < n
  BY <1>1, BitsTyped
<1>3. n <= MaxBytes * ByteBits /\ MaxBytes * ByteBits \in Nat
  <2>1. \A l, k, m \in Nat : l <= k => l * m <= k * m /\ k * m \in Nat
    OBVIOUS
  <2> QED  BY <1>1, <2>1, Widths, ChecksumAssumption
<1> HIDE DEF n, D
<1>4. \A j \in D : Power[n - j] = Shifted({0}, n - j)
  <2>1. \A j \in D : n - j \in 0 .. MaxBytes * ByteBits
    BY <1>2, <1>3
  <2> QED  BY <2>1 DEF Power
<1>5. \A i : {j \in D : i \in Power[n - j]} = Counting(D, n, i)
  BY <1>2, <1>4 DEF Counting
<1>6. crc[b] = SymDiff(Shifted(Low(Width), n), Sum(D, n))
  BY DEF CInv, Remainder, n, D
<1>7. crc[b] = SymDiff(Shifted(Low(Width), n),
                 {i \in Low(Width) : Cardinality({j \in D : i \in Power[n - j]}) % 2 = 1})
  BY <1>5, <1>6 DEF Sum, Odd
<1> QED  BY <1>7 DEF n, D

-----------------------------------------------------------------------------
(* Names.                                                                  *)

\* Two sums that differ differ as long as the bits that follow are the same.
LEMMA Differ ==
  ASSUME NEW D \in SUBSET Nat, NEW E \in SUBSET Nat, NEW a \in Nat, Sum(D, a) # Sum(E, a),
         \A j \in Nat : a <= j => (j \in D <=> j \in E)
  PROVE  \A t \in Nat : Sum(D, a + t) # Sum(E, a + t)
<1> DEFINE S == {t \in Nat : Sum(D, a + t) # Sum(E, a + t)}
<1>1. 0 \in S
  OBVIOUS
<1>2. ASSUME NEW t \in S PROVE t + 1 \in S
  <2>1. a + t \in Nat /\ a <= a + t /\ a + (t + 1) = (a + t) + 1
    OBVIOUS
  <2>2. PICK taken \in Word : taken = Taken(D, a + t) /\ taken = Taken(E, a + t)
    <3>1. Taken(D, a + t) = Taken(E, a + t)
      BY <2>1 DEF Taken
    <3>2. Taken(D, a + t) \in Word
      BY Widths DEF Taken, Word, Low
    <3> QED  BY <3>1, <3>2
  <2>3. /\ Sum(D, a + (t + 1)) = Shift(SymDiff(Sum(D, a + t), taken))
        /\ Sum(E, a + (t + 1)) = Shift(SymDiff(Sum(E, a + t), taken))
    BY <2>1, <2>2, SumNext
  <2>4. SymDiff(Sum(D, a + t), taken) # SymDiff(Sum(E, a + t), taken)
    <3>1. \A x, y, z : SymDiff(x, z) = SymDiff(y, z) => x = y
      BY DEF SymDiff
    <3> QED  BY <3>1
  <2>5. SymDiff(Sum(D, a + t), taken) \in Word /\ SymDiff(Sum(E, a + t), taken) \in Word
    BY SumTyped, XorTyped
  <2>6. Sum(D, a + (t + 1)) # Sum(E, a + (t + 1))
    BY <2>3, <2>4, <2>5, ShiftOne
  <2> QED  BY <2>6
<1> HIDE DEF S
<1>3. \A t \in Nat : t \in S
  BY <1>1, <1>2, Induction DEF S
<1> QED  BY <1>3 DEF S

LEMMA NearApart ==
  ASSUME NEW D \in SUBSET Nat, NEW E \in SUBSET Nat, NEW n \in Nat,
         \A j \in D \cup E : j < n,
         SymDiff(D, E) # {}, \A i, j \in SymDiff(D, E) : j < i + Width
  PROVE  Sum(D, n) # Sum(E, n)
<1> DEFINE differ == SymDiff(D, E)
<1>1. differ \in SUBSET Nat /\ \A j : j \in differ <=> ~(j \in D <=> j \in E)
  BY DEF SymDiff
<1>2. PICK a \in differ : \A j \in differ : a <= j
  BY <1>1, Least
<1>3. a \in Nat /\ a < n
  BY <1>1
<1>4. PICK k \in Nat : k <= Width /\ 0 < k /\ a + k <= n /\ \A j \in differ : j < a + k
  <2>1. \A j \in differ : j \in Nat /\ j < n /\ j < a + Width
    BY <1>1
  <2>2. CASE Width <= n - a
    BY <1>3, <2>1, <2>2, Widths
  <2>3. CASE n - a < Width
    <3>1. n - a \in Nat /\ 0 < n - a /\ a + (n - a) = n
      BY <1>3
    <3> QED  BY <2>1, <2>3, <3>1, Widths
  <2> QED  BY <1>3, <2>2, <2>3, Widths
<1>5. Sum(D, a) = Sum(E, a)
  <2>1. \A j \in Nat : j < a => (j \in D <=> j \in E)
    BY <1>1, <1>2, <1>3
  <2> QED  BY <1>3, <2>1, SumSame
<1>6. Sum(D, a + k) # Sum(E, a + k)
  <2>1. Window(D, a, k) # Window(E, a, k)
    <3>1. 0 \in Low(k) /\ a + 0 = a
      BY <1>3, <1>4 DEF Low
    <3> QED  BY <1>1, <3>1 DEF Window
  <2>2. SymDiff(Sum(D, a), Window(D, a, k)) # SymDiff(Sum(E, a), Window(E, a, k))
    BY <1>5, <2>1 DEF SymDiff
  <2>3. Window(D, a, k) \in Word /\ Window(E, a, k) \in Word
    <3>1. Low(k) \subseteq Low(Width)
      BY <1>4, Widths DEF Low
    <3> QED  BY <3>1 DEF Window, Word
  <2>4. /\ Sum(D, a + k) = Shifted(SymDiff(Sum(D, a), Window(D, a, k)), k)
        /\ Sum(E, a + k) = Shifted(SymDiff(Sum(E, a), Window(E, a, k)), k)
    BY <1>3, <1>4, SumMoved
  <2>5. SymDiff(Sum(D, a), Window(D, a, k)) \in Word /\ SymDiff(Sum(E, a), Window(E, a, k)) \in Word
    BY <2>3, SumTyped, XorTyped
  <2> QED  BY <2>2, <2>4, <2>5, ShiftedOne
<1>7. \A j \in Nat : a + k <= j => (j \in D <=> j \in E)
  BY <1>1, <1>3, <1>4
<1>8. a + k \in Nat /\ n - (a + k) \in Nat /\ (a + k) + (n - (a + k)) = n
  BY <1>3, <1>4
<1> HIDE DEF differ
<1> QED  BY <1>6, <1>7, <1>8, Differ

ByteOf(x, k) == {q \in Low(ByteBits) : k * ByteBits + q \in x}
DigitOf(x, d) == Digits(ByteOf(x, d \div 2))[1 + (d % 2)]

\* A line is longer than a name.
LEMMA NameDigits ==
  ASSUME NEW x
  PROVE  NameOfSum(x) = [p \in 1 .. 2 * WordBytes |-> DigitOf(x, p - 1)]
<1> DEFINE line == LineChars + 1
<1>1. 2 * WordBytes \in Nat /\ 2 * WordBytes < LineChars /\ LineChars \in Nat \ {0}
  BY ChecksumAssumption
<1>2. (2 * WordBytes) \div LineChars = 0
  <2>1. 2 * WordBytes \in 0 .. LineChars - 1
    BY <1>1
  <2>2. \A m \in Nat \ {0} : \A q \in 0 .. m - 1 : q \div m = 0
    OBVIOUS
  <2> QED  BY <1>1, <2>1, <2>2
<1>3. ASSUME NEW p \in 1 .. 2 * WordBytes
      PROVE  p % line # 0 /\ p - 1 - (p \div line) = p - 1
  <2>1. p \in 0 .. line - 1 /\ line \in Nat \ {0} /\ p # 0 /\ p \in Nat
    BY <1>1
  <2>2. p \div line = 0 /\ p % line = p
    <3>1. \A m \in Nat \ {0} : \A q \in 0 .. m - 1 : q \div m = 0 /\ q % m = q
      OBVIOUS
    <3> QED  BY <2>1, <3>1
  <2> QED  BY <2>1, <2>2
<1>4. 2 * WordBytes + (2 * WordBytes) \div LineChars = 2 * WordBytes
  BY <1>1, <1>2
<1> HIDE DEF line
<1>5. NameOfSum(x) = [p \in 1 .. 2 * WordBytes + (2 * WordBytes) \div LineChars |->
                        IF p % line = 0 THEN "newline" ELSE DigitOf(x, p - 1 - (p \div line))]
  BY DEF NameOfSum, DigitOf, ByteOf, line
<1>6. NameOfSum(x) = [p \in 1 .. 2 * WordBytes |->
                        IF p % line = 0 THEN "newline" ELSE DigitOf(x, p - 1 - (p \div line))]
  BY <1>4, <1>5
<1>7. \A p \in 1 .. 2 * WordBytes :
         (IF p % line = 0 THEN "newline" ELSE DigitOf(x, p - 1 - (p \div line))) = DigitOf(x, p - 1)
  BY <1>3
<1> QED  BY <1>6, <1>7

LEMMA NameTells ==
  ASSUME NEW x \in Word, NEW y \in Word, NameOfSum(x) = NameOfSum(y)
  PROVE  x = y
<1>1. ASSUME NEW d \in 0 .. 2 * WordBytes - 1
      PROVE  DigitOf(x, d) = DigitOf(y, d)
  <2>1. d + 1 \in 1 .. 2 * WordBytes /\ (d + 1) - 1 = d
    BY ChecksumAssumption
  <2>2. NameOfSum(x)[d + 1] = DigitOf(x, d) /\ NameOfSum(y)[d + 1] = DigitOf(y, d)
    BY <2>1, NameDigits
  <2> QED  BY <2>2
<1>2. ASSUME NEW k \in 0 .. WordBytes - 1
      PROVE  ByteOf(x, k) = ByteOf(y, k)
  <2>1. /\ 2 * k \in 0 .. 2 * WordBytes - 1 /\ 2 * k + 1 \in 0 .. 2 * WordBytes - 1
        /\ (2 * k) \div 2 = k /\ (2 * k) % 2 = 0
        /\ (2 * k + 1) \div 2 = k /\ (2 * k + 1) % 2 = 1
    BY ChecksumAssumption
  <2>2. \A z : /\ DigitOf(z, 2 * k) = Digits(ByteOf(z, k))[1]
               /\ DigitOf(z, 2 * k + 1) = Digits(ByteOf(z, k))[2]
    <3>1. 1 + 0 = 1 /\ 1 + 1 = 2
      OBVIOUS
    <3> QED  BY <2>1, <3>1 DEF DigitOf
  <2>3. \A z : /\ Digits(ByteOf(z, k))[1] = {i \in Low(DigitBits) : i + DigitBits \in ByteOf(z, k)}
               /\ Digits(ByteOf(z, k))[2] = ByteOf(z, k) \cap Low(DigitBits)
    BY DEF Digits
  <2>4. /\ \A i \in Low(DigitBits) : i + DigitBits \in ByteOf(x, k) <=> i + DigitBits \in ByteOf(y, k)
        /\ \A i \in Low(DigitBits) : i \in ByteOf(x, k) <=> i \in ByteOf(y, k)
    <3>1. /\ Digits(ByteOf(x, k))[1] = Digits(ByteOf(y, k))[1]
          /\ Digits(ByteOf(x, k))[2] = Digits(ByteOf(y, k))[2]
      BY <1>1, <2>1, <2>2
    <3> QED  BY <2>3, <3>1
  <2>5. ASSUME NEW q \in Low(ByteBits) PROVE q \in ByteOf(x, k) <=> q \in ByteOf(y, k)
    <3>1. q \in Low(DigitBits) \/ (q - DigitBits \in Low(DigitBits) /\ (q - DigitBits) + DigitBits = q)
      BY Widths, ChecksumAssumption DEF Low
    <3> QED  BY <2>4, <3>1
  <2> QED  BY <2>5 DEF ByteOf
<1>3. ASSUME NEW i \in Low(Width) PROVE i \in x <=> i \in y
  <2>1. ByteBits \in Nat \ {0} /\ WordBytes \in Nat /\ i \in Nat /\ i < WordBytes * ByteBits
    BY Widths, ChecksumAssumption DEF Low
  <2>2. PICK k \in Nat, q \in 0 .. ByteBits - 1 : k = i \div ByteBits /\ i = k * ByteBits + q
    BY <2>1, Divided
  <2>3. k < WordBytes
    BY <2>1, <2>2, Placed
  <2>4. k \in 0 .. WordBytes - 1 /\ q \in Low(ByteBits)
    BY <2>1, <2>2, <2>3 DEF Low
  <2>5. \A z : i \in z <=> q \in ByteOf(z, k)
    BY <2>2, <2>4 DEF ByteOf
  <2> QED  BY <1>2, <2>4, <2>5
<1> QED  BY <1>3 DEF Word

LEMMA NamesHold ==
  ASSUME CInv
  PROVE  NamesApart
<1> DEFINE n == Len(block[1]) * ByteBits
           D == Bits(block[1])
           E == Bits(block[2])
<1>1. /\ n \in Nat /\ n = Len(block[2]) * ByteBits
      /\ D \in SUBSET Nat /\ E \in SUBSET Nat /\ \A j \in D \cup E : j < n
      /\ crc[1] \in Word /\ crc[2] \in Word
  BY BitsTyped DEF CInv, Both
<1>2. /\ crc[1] = SymDiff(Shifted(Low(Width), n), Sum(D, n))
      /\ crc[2] = SymDiff(Shifted(Low(Width), n), Sum(E, n))
  BY <1>1 DEF CInv, Remainder, Both
<1> HIDE DEF n, D, E
<1>3. ASSUME SymDiff(D, E) # {}, \A i, j \in SymDiff(D, E) : j < i + Width
      PROVE  NameOfSum(crc[1]) # NameOfSum(crc[2])
  <2>1. Sum(D, n) # Sum(E, n)
    BY <1>1, <1>3, NearApart
  <2>2. crc[1] # crc[2]
    <3>1. \A x, y, z : SymDiff(z, x) = SymDiff(z, y) => x = y
      BY DEF SymDiff
    <3> QED  BY <1>2, <2>1, <3>1
  <2> QED  BY <1>1, <2>2, NameTells
<1>4. ASSUME NEW b \in Both PROVE Len(NameOfSum(crc[b])) = 2 * WordBytes
  <2>1. 2 * WordBytes \in Nat
    BY ChecksumAssumption
  <2> QED  BY <2>1, NameDigits
<1> QED  BY <1>3, <1>4 DEF NamesApart, D, E

-----------------------------------------------------------------------------
LEMMA Summed == ChecksumSpec => []CInv
BY CInvInit, CInvNext, PTL DEF ChecksumSpec

\* The sum that update and the table compute is the remainder of the division of the block, after
\* the initial ones, by the generator.
THEOREM RemainderSafe == ChecksumSpec => []IsRemainder
BY Summed, RemainderHolds, PTL

\* get_checksum_str, by which the block store names a block, gives different names to blocks that
\* differ within one word, and breaks no name into lines.
THEOREM NamesSafe == ChecksumSpec => []NamesApart
BY Summed, NamesHold, PTL
=============================================================================

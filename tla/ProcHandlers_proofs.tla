------------------------- MODULE ProcHandlers_proofs -------------------------
(***************************************************************************)
(* Operands and results are of their types, blocks wait for their          *)
(* condition, and what is stored is the result of operands that were       *)
(* current: for any threads, instructions, parameters and widths.          *)
(***************************************************************************)
EXTENDS ProcHandlers, WellFoundedInduction, TLAPS

-----------------------------------------------------------------------------
(* Powers of two.                                                          *)

\* A set of numbers has a least one.
LEMMA Least ==
  ASSUME NEW S \in SUBSET Nat, S # {}
  PROVE  \E x \in S : \A y \in S : x <= y
<1>1. PICK x \in S : \A y \in S : ~ (<<y, x>> \in OpToRel(<, Nat))
  BY WFMin, NatLessThanWellFounded
<1>2. ASSUME NEW y \in S PROVE x <= y
  <2>1. x \in Nat /\ y \in Nat
    OBVIOUS
  <2>2. ~ (y < x)
    BY <1>1, <2>1 DEF OpToRel
  <2> QED BY <2>1, <2>2
<1> QED BY <1>2

LEMMA PowerIsPositive ==
  ASSUME NEW n \in 0 .. 2 * OperandBits
  PROVE  2 ^ n \in Nat \ {0}
<1> DEFINE Bad == {k \in 0 .. 2 * OperandBits : 2 ^ k \notin Nat \ {0}}
<1> SUFFICES ASSUME Bad # {} PROVE FALSE
  OBVIOUS
<1>1. OperandBits \in Nat /\ 2 ^ 0 = 1 /\ \A k \in 0 .. 2 * OperandBits : 2 ^ (k + 1) = 2 * 2 ^ k
  BY OperandsAssumption, PowerAssumption
<1>2. Bad \in SUBSET Nat
  BY <1>1
<1>3. PICK k \in Bad : \A l \in Bad : k <= l
  <2> HIDE DEF Bad
  <2> QED BY <1>2, Least
<1>4. k # 0
  <2>1. 1 \in Nat \ {0} /\ 2 ^ k \notin Nat \ {0}
    OBVIOUS
  <2> QED BY <1>1, <2>1
<1>40. k \in 1 .. 2 * OperandBits /\ k - 1 \in 0 .. 2 * OperandBits /\ ~(k <= k - 1)
  BY <1>1, <1>4
<1>5. 2 ^ (k - 1) \in Nat \ {0}
  BY <1>3, <1>40
<1>6. 2 ^ (k - 1 + 1) = 2 * 2 ^ (k - 1)
  BY <1>1, <1>40
<1>7. k - 1 + 1 = k
  BY <1>40
<1> QED BY <1>5, <1>6, <1>7

LEMMA PowerOfSum ==
  ASSUME NEW m \in Nat, NEW n \in Nat, m + n <= 2 * OperandBits
  PROVE  2 ^ (m + n) = 2 ^ m * 2 ^ n
<1> DEFINE Bad == {k \in 0 .. 2 * OperandBits : m + k <= 2 * OperandBits /\ 2 ^ (m + k) # 2 ^ m * 2 ^ k}
<1>0. n \in 0 .. 2 * OperandBits
  BY OperandsAssumption
<1> SUFFICES ASSUME Bad # {} PROVE FALSE
  BY <1>0
<1>1. OperandBits \in Nat /\ 2 ^ 0 = 1 /\ \A k \in 0 .. 2 * OperandBits : 2 ^ (k + 1) = 2 * 2 ^ k
  BY OperandsAssumption, PowerAssumption
<1>2. Bad \in SUBSET Nat
  BY <1>1
<1>3. PICK k \in Bad : \A l \in Bad : k <= l
  <2> HIDE DEF Bad
  <2> QED BY <1>2, Least
<1>4. m \in 0 .. 2 * OperandBits /\ 2 ^ m \in Nat
  BY <1>1, PowerIsPositive
<1>5. k # 0
  <2>1. m + 0 = m /\ 2 ^ m * 1 = 2 ^ m
    BY <1>4
  <2> QED BY <1>1, <2>1
<1>6. k - 1 \in 0 .. 2 * OperandBits /\ m + (k - 1) \in 0 .. 2 * OperandBits /\ k - 1 + 1 = k
      /\ m + (k - 1) + 1 = m + k /\ ~(k <= k - 1)
  BY <1>1, <1>5
<1>7. 2 ^ (m + (k - 1)) = 2 ^ m * 2 ^ (k - 1)
  BY <1>3, <1>6
<1>8. 2 ^ k = 2 * 2 ^ (k - 1) /\ 2 ^ (m + k) = 2 * 2 ^ (m + (k - 1))
  BY <1>1, <1>6
<1>9. 2 ^ (k - 1) \in Nat
  BY <1>6, PowerIsPositive
<1>10. 2 * (2 ^ m * 2 ^ (k - 1)) = 2 ^ m * (2 * 2 ^ (k - 1))
  BY <1>4, <1>9
<1> QED BY <1>7, <1>8, <1>10

\* Smaller powers divide larger ones.
LEMMA PowerDivides ==
  ASSUME NEW m \in Nat, NEW n \in Nat, m <= n, n <= 2 * OperandBits
  PROVE  \E k \in Nat \ {0} : 2 ^ n = k * 2 ^ m /\ 2 ^ m <= 2 ^ n
<1>1. n - m \in Nat /\ m + (n - m) = n /\ n - m \in 0 .. 2 * OperandBits /\ m \in 0 .. 2 * OperandBits
  BY OperandsAssumption
<1>2. 2 ^ m \in Nat \ {0} /\ 2 ^ (n - m) \in Nat \ {0}
  BY <1>1, PowerIsPositive
<1>3. 2 ^ n = 2 ^ m * 2 ^ (n - m)
  BY <1>1, PowerOfSum
<1>4. \A a, b \in Nat \ {0} : a * b = b * a /\ a <= b * a
  OBVIOUS
<1> QED BY <1>2, <1>3, <1>4

LEMMA Powers ==
  ASSUME NEW type \in DOMAIN Bits
  PROVE  /\ Bits[type] \in 1 .. OperandBits /\ OperandBits \in Nat \ {0}
         /\ 2 ^ Bits[type] \in Nat \ {0} /\ 2 ^ (Bits[type] - 1) \in Nat \ {0}
         /\ 2 ^ Bits[type] = 2 * 2 ^ (Bits[type] - 1)
         /\ 2 ^ OperandBits \in Nat \ {0} /\ 2 ^ (OperandBits - 1) \in Nat \ {0}
         /\ 2 ^ OperandBits = 2 * 2 ^ (OperandBits - 1)
         /\ 2 ^ Bits[type] <= 2 ^ OperandBits /\ 2 ^ (Bits[type] - 1) <= 2 ^ (OperandBits - 1)
<1>1. Bits[type] \in 1 .. OperandBits /\ OperandBits \in Nat \ {0}
  BY OperandsAssumption
<1>2. PICK b \in Nat : b = Bits[type] /\ b - 1 \in Nat /\ b \in 0 .. 2 * OperandBits
      /\ b - 1 \in 0 .. 2 * OperandBits /\ b - 1 + 1 = b /\ b <= OperandBits /\ b - 1 <= OperandBits - 1
  BY <1>1
<1>3. OperandBits \in 0 .. 2 * OperandBits /\ OperandBits - 1 \in 0 .. 2 * OperandBits
      /\ OperandBits - 1 + 1 = OperandBits /\ OperandBits - 1 \in Nat
      /\ OperandBits <= 2 * OperandBits /\ OperandBits - 1 <= 2 * OperandBits
  BY <1>1
<1>4. 2 ^ b \in Nat \ {0} /\ 2 ^ (b - 1) \in Nat \ {0} /\ 2 ^ OperandBits \in Nat \ {0}
      /\ 2 ^ (OperandBits - 1) \in Nat \ {0}
  BY <1>2, <1>3, PowerIsPositive
<1>5. 2 ^ b = 2 * 2 ^ (b - 1) /\ 2 ^ OperandBits = 2 * 2 ^ (OperandBits - 1)
  BY <1>2, <1>3, PowerAssumption
<1>6. 2 ^ b <= 2 ^ OperandBits
  BY <1>1, <1>2, <1>3, PowerDivides
<1>7. 2 ^ (b - 1) <= 2 ^ (OperandBits - 1)
  BY <1>1, <1>2, <1>3, PowerDivides
<1> QED BY <1>1, <1>2, <1>4, <1>5, <1>6, <1>7

-----------------------------------------------------------------------------
(* Types.                                                                  *)

LEMMA RawIs ==
  ASSUME NEW type \in DOMAIN Bits
  PROVE  0 \in Raw(type) /\ Raw(type) \subseteq Buffers /\ Raw(type) \subseteq Nat
<1>1. 2 ^ Bits[type] \in Nat \ {0}
  BY Powers
<1>2. 0 \in Raw(type) /\ Raw(type) \subseteq Nat
  BY <1>1 DEF Raw
<1> QED BY <1>2 DEF Buffers

LEMMA Zeros == 0 \in Numbers /\ 0 \in Buffers
<1>1. PICK type : type \in DOMAIN Bits
  BY OperandsAssumption
<1>2. 2 ^ OperandBits \in Nat \ {0}
  BY <1>1, Powers
<1>3. 0 \in Operands("UINT")
  BY <1>2 DEF Operands
<1> QED BY <1>1, <1>3, RawIs DEF Numbers

\* Parameters are numbers of their kind.
LEMMA ParsedIs ==
  ASSUME NEW type \in DOMAIN Bits, NEW raw \in Raw(type)
  PROVE  /\ Parsed(type, raw) \in Numbers /\ Parsed(type, raw) \in Int
         /\ Kind(type) \in {"UINT", "INT"} => Parsed(type, raw) \in Operands(Kind(type))
<1>1. PICK m, h, top, half : m = 2 ^ Bits[type] /\ h = 2 ^ (Bits[type] - 1)
                             /\ top = 2 ^ OperandBits /\ half = 2 ^ (OperandBits - 1)
  OBVIOUS
<1>2. /\ m \in Nat \ {0} /\ h \in Nat \ {0} /\ m = 2 * h /\ top \in Nat \ {0} /\ half \in Nat \ {0}
      /\ top = 2 * half /\ m <= top /\ h <= half
  BY <1>1, Powers
<1>3. raw \in 0 .. m - 1
  BY <1>1 DEF Raw
<1>4. CASE Kind(type) = "INT"
  <2>1. Parsed(type, raw) = IF raw >= h THEN raw - m ELSE raw
    BY <1>1, <1>4 DEF Parsed
  <2>2. Parsed(type, raw) \in -half .. half - 1
    BY <1>2, <1>3, <2>1
  <2>3. Operands("INT") = -half .. half - 1
    BY <1>1 DEF Operands
  <2> QED BY <1>2, <1>4, <2>2, <2>3 DEF Numbers
<1>5. CASE Kind(type) # "INT"
  <2>1. Parsed(type, raw) = raw
    BY <1>5 DEF Parsed
  <2>2. raw \in 0 .. top - 1
    BY <1>2, <1>3
  <2>3. Operands("UINT") = 0 .. top - 1
    BY <1>1 DEF Operands
  <2> QED BY <1>3, <1>5, <2>1, <2>2, <2>3, <1>2 DEF Numbers
<1> QED BY <1>4, <1>5

LEMMA CutOff ==
  ASSUME NEW type \in DOMAIN Bits, NEW value \in Int
  PROVE  Written(type, value) \in Raw(type) /\ Taken(type, value) \in Raw(type)
<1>1. PICK m \in Nat \ {0} : m = 2 ^ Bits[type]
  BY Powers
<1>2. value % m \in 0 .. m - 1
  BY <1>1
<1> QED BY <1>1, <1>2 DEF Written, Taken, Raw

LEMMA NumbersAre == \A x \in Numbers : x \in Int
<1>1. PICK type : type \in DOMAIN Bits
  BY OperandsAssumption
<1>2. 2 ^ OperandBits \in Nat /\ 2 ^ (OperandBits - 1) \in Nat
  BY <1>1, Powers
<1> QED BY <1>2 DEF Numbers, Operands

LEMMA BuffersAre == \A n \in Buffers : n \in Nat
BY RawIs DEF Buffers

-----------------------------------------------------------------------------
(* Bits.                                                                   *)

Weight(kind, bits, n) ==
    IF n - 1 \notin bits THEN 0
    ELSE IF kind = "INT" /\ n = OperandBits THEN -(2 ^ (n - 1)) ELSE 2 ^ (n - 1)

LEMMA SumExists ==
  ASSUME NEW w, NEW n \in Nat
  PROVE  \E g : g = [i \in 0 .. n |-> IF i = 0 THEN 0 ELSE g[i - 1] + w[i]]
<1> DEFINE Sums(g, m) == g = [i \in 0 .. m |-> IF i = 0 THEN 0 ELSE g[i - 1] + w[i]]
           Bad == {m \in Nat : ~ \E g : Sums(g, m)}
<1> SUFFICES ASSUME Bad # {} PROVE FALSE
  OBVIOUS
<1>1. PICK m \in Bad : \A k \in Bad : m <= k
  <2>1. Bad \in SUBSET Nat
    OBVIOUS
  <2> HIDE DEF Bad
  <2> QED BY <2>1, Least
<1>2. m # 0
  <2>1. PICK g : g = [i \in 0 .. 0 |-> 0]
    OBVIOUS
  <2>2. \A i \in 0 .. 0 : i = 0
    OBVIOUS
  <2>3. g = [i \in 0 .. 0 |-> IF i = 0 THEN 0 ELSE g[i - 1] + w[i]]
    BY <2>1, <2>2
  <2>4. 0 \notin Bad
    BY <2>3
  <2> QED BY <2>4
<1>3. m - 1 \in Nat /\ ~(m <= m - 1)
  BY <1>2
<1>4. PICK f : Sums(f, m - 1)
  BY <1>1, <1>3
<1>5. PICK g : g = [i \in 0 .. m |-> IF i = m THEN f[m - 1] + w[m] ELSE f[i]]
  OBVIOUS
<1>6. ASSUME NEW i \in 0 .. m PROVE g[i] = IF i = 0 THEN 0 ELSE g[i - 1] + w[i]
  <2>1. CASE i = m
    <3>1. g[i - 1] = f[i - 1]
      BY <1>2, <1>5, <2>1
    <3> QED BY <1>2, <1>5, <2>1, <3>1
  <2>2. CASE i # m
    <3>1. i \in 0 .. m - 1
      BY <2>2
    <3>2. g[i] = f[i]
      BY <1>5, <2>2
    <3>3. f[i] = IF i = 0 THEN 0 ELSE f[i - 1] + w[i]
      BY <1>4, <3>1
    <3>4. i # 0 => g[i - 1] = f[i - 1]
      BY <1>5, <2>2, <3>1
    <3> QED BY <3>2, <3>3, <3>4
  <2> QED BY <2>1, <2>2
<1>7. Sums(g, m)
  BY <1>5, <1>6
<1> QED BY <1>7

LEMMA DivisionWithRest ==
  ASSUME NEW m \in Nat \ {0}, NEW n \in Int
  PROVE  \E q \in Int, r \in Nat : q = n \div m /\ r = n % m /\ n = m * q + r /\ r < m
OBVIOUS

\* The quotient is the only one with a rest below the divisor.
LEMMA QuotientIs ==
  ASSUME NEW m \in Nat \ {0}, NEW n \in Int, NEW q \in Int, NEW r \in Nat, n = m * q + r, r < m
  PROVE  n \div m = q
<1>1. PICK p \in Int, s \in Nat : p = n \div m /\ n = m * p + s /\ s < m
  BY DivisionWithRest
<1>2. \A a, b \in Int : a < b => m * a + m <= m * b
  OBVIOUS
<1>3. PICK mp \in Int, mq \in Int : mp = m * p /\ mq = m * q
  OBVIOUS
<1>4. ~(p < q) /\ ~(q < p)
  BY <1>1, <1>2, <1>3
<1> QED BY <1>1, <1>4

\* Higher powers do not change a bit.
LEMMA BitBelow ==
  ASSUME NEW x \in Int, NEW n \in 0 .. 2 * OperandBits, NEW i \in 0 .. n - 1
  PROVE  (Bit(x + 2 ^ n, i) <=> Bit(x, i)) /\ (Bit(x - 2 ^ n, i) <=> Bit(x, i))
<1>1. OperandBits \in Nat /\ i \in 0 .. 2 * OperandBits /\ i + 1 \in Nat /\ n \in Nat
      /\ i + 1 <= n /\ n <= 2 * OperandBits
  BY OperandsAssumption
<1>2. PICK m \in Nat \ {0} : m = 2 ^ i
  BY <1>1, PowerIsPositive
<1>3. 2 ^ (i + 1) = 2 * m
  BY <1>1, <1>2, PowerAssumption
<1>4. PICK k \in Nat : 2 ^ n = k * 2 ^ (i + 1)
  BY <1>1, PowerDivides
<1>5. PICK q \in Int, r \in Nat : q = x \div m /\ x = m * q + r /\ r < m
  BY <1>2, DivisionWithRest
<1>6. PICK e \in Int, f \in Int : e = q + 2 * k /\ f = q - 2 * k
  OBVIOUS
<1>7. 2 ^ n \in Int /\ x + 2 ^ n = m * e + r /\ x - 2 ^ n = m * f + r
  <2>1. PICK mq \in Int, mk \in Int : mq = m * q /\ mk = m * k
    OBVIOUS
  <2>2. k * (2 * m) = 2 * mk /\ m * (2 * k) = 2 * mk
    BY <2>1
  <2>3. m * (q + 2 * k) = mq + 2 * mk /\ m * (q - 2 * k) = mq - 2 * mk
    BY <2>1, <2>2
  <2>4. 2 ^ n = 2 * mk /\ m * e = mq + 2 * mk /\ m * f = mq - 2 * mk
    BY <1>3, <1>4, <1>6, <2>2, <2>3
  <2>5. x = mq + r
    BY <1>5, <2>1
  <2>6. PICK p \in Int, me \in Int, mf \in Int : p = 2 ^ n /\ me = m * e /\ mf = m * f
    BY <1>6, <2>1, <2>4
  <2>7. p = 2 * mk /\ me = mq + 2 * mk /\ mf = mq - 2 * mk
    BY <2>4, <2>6
  <2>8. x + p = me + r /\ x - p = mf + r
    BY <2>5, <2>7
  <2> QED BY <2>6, <2>8
<1>8. (x + 2 ^ n) \div m = e /\ (x - 2 ^ n) \div m = f
  <2>1. x + 2 ^ n \in Int /\ x - 2 ^ n \in Int
    BY <1>7
  <2> QED BY <1>5, <1>7, <2>1, QuotientIs
<1>9. e % 2 = q % 2 /\ f % 2 = q % 2
  BY <1>6
<1> QED BY <1>2, <1>5, <1>8, <1>9 DEF Bit

\* The bit of a power itself.
LEMMA BitAt ==
  ASSUME NEW n \in 0 .. 2 * OperandBits, NEW x \in 0 .. 2 ^ n - 1
  PROVE  ~ Bit(x, n) /\ Bit(x + 2 ^ n, n) /\ Bit(x - 2 ^ n, n)
<1>1. PICK m \in Nat \ {0} : m = 2 ^ n
  BY PowerIsPositive
<1>2. x \in Nat /\ x < m /\ x = m * 0 + x /\ x + m = m * 1 + x /\ x - m = m * (-1) + x
      /\ x + m \in Int /\ x - m \in Int
  BY <1>1
<1>3. x \div m = 0 /\ (x + m) \div m = 1 /\ (x - m) \div m = -1
  BY <1>1, <1>2, QuotientIs
<1>4. 0 % 2 = 0 /\ 1 % 2 = 1 /\ (-1) % 2 = 1
  <2>1. PICK a \in Int : a = -1
    OBVIOUS
  <2>2. PICK q \in Int, r \in Nat : r = a % 2 /\ a = 2 * q + r /\ r < 2
    BY DivisionWithRest
  <2> QED BY <2>1, <2>2
<1> QED BY <1>1, <1>3, <1>4 DEF Bit

\* The sum of OfBits is made one bit at a time.
LEMMA OfBitsIsSum ==
  ASSUME NEW kind, NEW bits
  PROVE  \E h : /\ OfBits(kind, bits) = h[OperandBits]
                /\ h[0] = 0
                /\ \A n \in 1 .. OperandBits : h[n] = h[n - 1] + Weight(kind, bits, n)
<1>1. OperandBits \in Nat \ {0}
  BY OperandsAssumption
<1>2. PICK w : w = [i \in 0 .. OperandBits |-> IF i = 0 THEN 0 ELSE Weight(kind, bits, i)]
  OBVIOUS
<1>3. \A i \in 1 .. OperandBits : w[i] = Weight(kind, bits, i)
  BY <1>1, <1>2
<1> DEFINE Adds(h) ==
      h = [n \in 0 .. OperandBits |->
             IF n = 0 THEN 0
             ELSE h[n - 1] + (IF n - 1 \notin bits THEN 0
                              ELSE IF kind = "INT" /\ n = OperandBits THEN -(2 ^ (n - 1))
                              ELSE 2 ^ (n - 1))]
<1>4. \E h : Adds(h)
  <2>1. PICK g : g = [i \in 0 .. OperandBits |-> IF i = 0 THEN 0 ELSE g[i - 1] + w[i]]
    BY <1>1, SumExists
  <2>2. \A n \in 0 .. OperandBits : n # 0 => w[n] = Weight(kind, bits, n)
    BY <1>1, <1>3
  <2>3. Adds(g)
    BY <2>1, <2>2 DEF Weight
  <2> QED BY <2>3
<1>5. PICK h : h = CHOOSE q : Adds(q)
  OBVIOUS
<1>6. OfBits(kind, bits) = h[OperandBits]
  BY <1>5 DEF OfBits
<1>7. Adds(h)
  <2> HIDE DEF Adds
  <2> QED BY <1>4, <1>5
<1>8. h[0] = 0 /\ \A n \in 1 .. OperandBits : h[n] = h[n - 1] + Weight(kind, bits, n)
  BY <1>1, <1>7 DEF Weight
<1> QED BY <1>6, <1>8

\* OfBits gives the operand with these bits and no others.
LEMMA OfBitsHas ==
  ASSUME NEW kind \in {"UINT", "INT"}, NEW bits
  PROVE  /\ OfBits(kind, bits) \in Operands(kind)
         /\ \A i \in Positions : Bit(OfBits(kind, bits), i) <=> i \in bits
<1>1. OperandBits \in Nat \ {0}
  BY OperandsAssumption
<1>2. PICK h : /\ OfBits(kind, bits) = h[OperandBits]
               /\ h[0] = 0
               /\ \A n \in 1 .. OperandBits : h[n] = h[n - 1] + Weight(kind, bits, n)
  BY OfBitsIsSum
<1> DEFINE Top(n) == kind = "INT" /\ n = OperandBits
           Good(n) == /\ IF Top(n) THEN h[n] \in -(2 ^ (n - 1)) .. 2 ^ (n - 1) - 1
                         ELSE h[n] \in 0 .. 2 ^ n - 1
                      /\ \A i \in 0 .. n - 1 : Bit(h[n], i) <=> i \in bits
           Bad == {n \in 0 .. OperandBits : ~Good(n)}
<1>3. ASSUME Bad # {} PROVE FALSE
  <2>1. Bad \in SUBSET Nat
    BY <1>1
  <2>2. PICK n \in Bad : \A k \in Bad : n <= k
    <3> HIDE DEF Bad
    <3> QED BY <1>3, <2>1, Least
  <2>3. n # 0
    <3>1. 0 # OperandBits /\ 2 ^ 0 = 1
      BY <1>1, PowerAssumption
    <3>2. h[0] \in 0 .. 2 ^ 0 - 1 /\ ~Top(0)
      BY <1>2, <3>1
    <3>3. \A i \in 0 .. 0 - 1 : FALSE
      OBVIOUS
    <3>4. Good(0)
      BY <3>2, <3>3
    <3> QED BY <3>4, <2>2
  <2>4. PICK k \in 0 .. OperandBits : k = n - 1 /\ n = k + 1 /\ k < OperandBits /\ k \in 0 .. 2 * OperandBits
                                   /\ k \notin Bad /\ n \in 1 .. OperandBits
    <3>1. n - 1 \in 0 .. OperandBits /\ ~(n <= n - 1) /\ n = (n - 1) + 1 /\ n - 1 < OperandBits
          /\ n - 1 \in 0 .. 2 * OperandBits /\ n \in 1 .. OperandBits
      BY <1>1, <2>3
    <3> HIDE DEF Bad
    <3> QED BY <2>2, <3>1
  <2>5. h[k] \in 0 .. 2 ^ k - 1 /\ \A i \in 0 .. k - 1 : Bit(h[k], i) <=> i \in bits
    <3>1. Good(k) /\ ~Top(k)
      BY <1>1, <2>4
    <3> QED BY <3>1
  <2>6. PICK m \in Nat \ {0} : m = 2 ^ k /\ 2 ^ n = 2 * m
    BY <2>4, PowerIsPositive, PowerAssumption
  <2>7. PICK x \in Int : x = h[k] /\ x \in 0 .. m - 1
    BY <2>5, <2>6
  <2>8. h[n] = IF k \notin bits THEN x ELSE IF Top(n) THEN x - m ELSE x + m
    BY <1>2, <2>4, <2>6, <2>7 DEF Weight
  <2>9. IF Top(n) THEN h[n] \in -(2 ^ (n - 1)) .. 2 ^ (n - 1) - 1 ELSE h[n] \in 0 .. 2 ^ n - 1
    BY <2>4, <2>6, <2>7, <2>8
  <2>10. ASSUME NEW i \in 0 .. n - 1 PROVE Bit(h[n], i) <=> i \in bits
    <3>1. CASE i = k
      <4>1. ~ Bit(x, k) /\ Bit(x + m, k) /\ Bit(x - m, k)
        BY <2>4, <2>6, <2>7, BitAt
      <4> QED BY <2>8, <3>1, <4>1
    <3>2. CASE i # k
      <4>1. i \in 0 .. k - 1
        BY <2>4, <3>2
      <4>2. (Bit(x + m, i) <=> Bit(x, i)) /\ (Bit(x - m, i) <=> Bit(x, i))
        BY <2>4, <2>6, <4>1, BitBelow
      <4> QED BY <2>5, <2>7, <2>8, <4>1, <4>2
    <3> QED BY <3>1, <3>2
  <2>11. Good(n)
    BY <2>9, <2>10
  <2> QED BY <2>2, <2>11
<1>4. Good(OperandBits)
  BY <1>1, <1>3
<1> QED BY <1>2, <1>4 DEF Operands, Positions

-----------------------------------------------------------------------------
(* What operations give.                                                   *)

\* Division rounds towards zero.
LEMMA Division ==
  ASSUME NEW x \in Int, NEW y \in Int, y # 0
  PROVE  /\ Quotient(x, y) \in Int
         /\ Magnitude(x - Quotient(x, y) * y) < Magnitude(y) /\ (x - Quotient(x, y) * y) * x >= 0
         /\ y * Quotient(x, y) = Quotient(x, y) * y
         /\ x > 0 /\ y > 0 => Quotient(x, y) \in 0 .. x
<1>1. PICK a \in Nat, b \in Nat \ {0} : a = Magnitude(x) /\ b = Magnitude(y)
  BY DEF Magnitude
<1>2. PICK q \in Nat, r \in Nat : q = a \div b /\ r = a % b /\ a = b * q + r /\ r < b
  BY <1>1
<1>3. Quotient(x, y) = IF (x < 0) = (y < 0) THEN q ELSE -q
  BY <1>1, <1>2 DEF Quotient
<1>4. x - Quotient(x, y) * y = IF x < 0 THEN -r ELSE r
  <2>1. CASE x < 0 /\ y < 0
    <3>1. x = -a /\ y = -b /\ Quotient(x, y) = q
      BY <1>1, <1>3, <2>1 DEF Magnitude
    <3> QED BY <1>2, <2>1, <3>1
  <2>2. CASE x < 0 /\ ~(y < 0)
    <3>1. x = -a /\ y = b /\ Quotient(x, y) = -q
      BY <1>1, <1>3, <2>2 DEF Magnitude
    <3> QED BY <1>2, <2>2, <3>1
  <2>3. CASE ~(x < 0) /\ y < 0
    <3>1. x = a /\ y = -b /\ Quotient(x, y) = -q
      BY <1>1, <1>3, <2>3 DEF Magnitude
    <3> QED BY <1>2, <2>3, <3>1
  <2>4. CASE ~(x < 0) /\ ~(y < 0)
    <3>1. x = a /\ y = b /\ Quotient(x, y) = q
      BY <1>1, <1>3, <2>4 DEF Magnitude
    <3>2. a - q * b = r
      BY <1>2
    <3> QED BY <2>4, <3>1, <3>2
  <2> QED BY <2>1, <2>2, <2>3, <2>4
<1>5. Quotient(x, y) \in Int
  BY <1>2, <1>3
<1>6. Magnitude(x - Quotient(x, y) * y) < Magnitude(y)
  BY <1>1, <1>2, <1>4 DEF Magnitude
<1>7. (x - Quotient(x, y) * y) * x >= 0
  <2>1. \A u, v \in Nat : u * v >= 0 /\ (-u) * (-v) >= 0
    OBVIOUS
  <2>2. CASE x < 0
    <3>1. x = -a
      BY <1>1, <2>2 DEF Magnitude
    <3> QED BY <1>2, <1>4, <2>1, <2>2, <3>1
  <2>3. CASE ~(x < 0)
    <3>1. x = a
      BY <1>1, <2>3 DEF Magnitude
    <3> QED BY <1>2, <1>4, <2>1, <2>3, <3>1
  <2> QED BY <2>2, <2>3
<1>8. y * Quotient(x, y) = Quotient(x, y) * y
  BY <1>5
<1>9. x > 0 /\ y > 0 => Quotient(x, y) \in 0 .. x
  <2>1. \A u \in Nat, v \in Nat \ {0} : u <= v * u
    OBVIOUS
  <2>2. q <= a
    BY <1>2, <2>1
  <2>3. x > 0 /\ y > 0 => x = a /\ Quotient(x, y) = q
    BY <1>1, <1>3 DEF Magnitude
  <2> QED BY <1>2, <2>2, <2>3
<1> QED BY <1>5, <1>6, <1>7, <1>8, <1>9

\* A multiple of a number is 0 modulo it.
LEMMA Multiple ==
  ASSUME NEW m \in Nat \ {0}, NEW n \in Int
  PROVE  (m * n) % m = 0 /\ (n * m) % m = 0
OBVIOUS

LEMMA IsMultiple ==
  ASSUME NEW m \in Nat \ {0}, NEW n \in Int, n % m = 0
  PROVE  \E k \in Int : n = m * k
<1>1. PICK q \in Int, r \in Nat : r = n % m /\ n = m * q + r
  BY DivisionWithRest
<1>2. n = m * q
  BY <1>1
<1> QED BY <1>2

\* The bits that are kept are those of the number.
LEMMA ModuloIs ==
  ASSUME NEW m \in Nat \ {0}, NEW n \in Int
  PROVE  \E k \in Int : (n % m) - n = m * k
<1>1. PICK q \in Int, r \in Nat : r = n % m /\ n = m * q + r
  BY DivisionWithRest
<1>2. r - n = m * (-q)
  BY <1>1
<1>3. -q \in Int
  OBVIOUS
<1> QED BY <1>1, <1>2, <1>3

LEMMA KeptBits ==
  ASSUME NEW type \in DOMAIN Bits, NEW kind, NEW value \in Int
  PROVE  /\ Written(type, Wrapped(kind, value)) \in Raw(type)
         /\ (Written(type, Wrapped(kind, value)) - value) % 2 ^ Bits[type] = 0
<1>1. PICK m \in Nat \ {0}, top \in Nat \ {0} : m = 2 ^ Bits[type] /\ top = 2 ^ OperandBits
  BY Powers
<1>2. PICK k \in Nat \ {0} : top = k * m
  <2>1. Bits[type] \in Nat /\ OperandBits \in Nat /\ Bits[type] <= OperandBits /\ OperandBits <= 2 * OperandBits
    BY OperandsAssumption
  <2>2. \E k \in Nat \ {0} : 2 ^ OperandBits = k * 2 ^ Bits[type]
    BY <2>1, PowerDivides
  <2> QED BY <1>1, <2>2
<1>3. PICK w \in Int : w = Wrapped(kind, value)
  <2>1. value % top \in Int
    BY <1>1
  <2> QED BY <1>1, <2>1 DEF Wrapped
<1>4. PICK j \in Int : w - value = m * j
  <2>1. CASE kind = "UINT"
    <3>1. PICK i \in Int : (value % top) - value = top * i
      BY <1>1, ModuloIs
    <3>2. top * i = m * (k * i) /\ k * i \in Int
      BY <1>1, <1>2
    <3> QED BY <1>1, <1>3, <2>1, <3>1, <3>2 DEF Wrapped
  <2>2. CASE kind # "UINT"
    <3>1. w - value = m * 0
      BY <1>1, <1>3, <2>2 DEF Wrapped
    <3> QED BY <3>1
  <2> QED BY <2>1, <2>2
<1>5. PICK i \in Int : (w % m) - w = m * i
  BY <1>1, <1>3, ModuloIs
<1>6. w % m \in Int
  BY <1>1, <1>3
<1>7. (w % m) - value = m * (i + j)
  <2>1. PICK u \in Int, mi \in Int, mj \in Int : u = w % m /\ mi = m * i /\ mj = m * j
    BY <1>1, <1>6
  <2>2. u - w = mi /\ w - value = mj
    BY <1>4, <1>5, <2>1
  <2>4. u - value = mi + mj
    <3>1. \A a, b, c, d, e \in Int : a - b = d /\ b - c = e => a - c = d + e
      OBVIOUS
    <3> QED BY <2>2, <3>1
  <2>3. m * i + m * j = m * (i + j)
    BY <1>1
  <2> QED BY <2>1, <2>3, <2>4
<1>8. ((w % m) - value) % m = 0
  BY <1>1, <1>7, Multiple
<1> QED BY <1>1, <1>3, <1>8, CutOff DEF Written

LEMMA ProductsAre ==
  \E top \in Nat \ {0}, half \in Nat \ {0} :
    /\ top = 2 ^ OperandBits /\ half = 2 ^ (OperandBits - 1) /\ top = 2 * half
    /\ Operands("UINT") = 0 .. top - 1 /\ Operands("INT") = -half .. half - 1
    /\ Products = -top .. top * top /\ top <= top * top
<1>1. PICK type : type \in DOMAIN Bits
  BY OperandsAssumption
<1>2. PICK top \in Nat \ {0}, half \in Nat \ {0} : top = 2 ^ OperandBits /\ half = 2 ^ (OperandBits - 1) /\ top = 2 * half
  BY <1>1, Powers
<1>3. 2 ^ (2 * OperandBits) = top * top
  <2>1. OperandBits \in Nat /\ OperandBits + OperandBits = 2 * OperandBits /\ OperandBits + OperandBits <= 2 * OperandBits
    BY OperandsAssumption
  <2> QED BY <1>2, <2>1, PowerOfSum
<1>4. Operands("UINT") = 0 .. top - 1 /\ Operands("INT") = -half .. half - 1
  BY <1>2 DEF Operands
<1>5. Products = -top .. top * top
  BY <1>2, <1>3 DEF Products
<1>6. top <= top * top
  BY <1>2
<1> QED BY <1>2, <1>4, <1>5, <1>6

LEMMA UnopMeans ==
  ASSUME NEW type \in DOMAIN Bits, Kind(type) \in {"UINT", "INT"}, NEW x \in Operands(Kind(type)),
         NEW op, UnopSupported(op, type), ~ Overflows(Kind(type), UnopValue(op, x))
  PROVE  /\ UnopValue(op, x) \in Int /\ UnopValue(op, x) \in Products
         /\ Means(op, IF op = "-" THEN 0 ELSE x, x, UnopValue(op, x))
<1>1. PICK top \in Nat \ {0}, half \in Nat \ {0} :
        /\ top = 2 * half
        /\ Operands("UINT") = 0 .. top - 1 /\ Operands("INT") = -half .. half - 1
        /\ Products = -top .. top * top /\ top <= top * top
  BY ProductsAre
<1>2. x \in Int /\ -half <= x /\ x <= top - 1
  BY <1>1
<1>3. top * top \in Int
  BY <1>1
<1>4. CASE op = "++"
  <2>1. UnopValue(op, x) = x + 1
    BY <1>4 DEF UnopValue
  <2>2. Means(op, x, x, x + 1)
    BY <1>2, <1>4 DEF Means
  <2> QED BY <1>1, <1>2, <1>3, <1>4, <2>1, <2>2
<1>5. CASE op = "--"
  <2>1. UnopValue(op, x) = x - 1
    BY <1>5 DEF UnopValue
  <2>2. Means(op, x, x, x - 1)
    BY <1>2, <1>5 DEF Means
  <2> QED BY <1>1, <1>2, <1>3, <1>5, <2>1, <2>2
<1>6. CASE op = "!"
  <2>1. UnopValue(op, x) = -x - 1
    BY <1>6 DEF UnopValue
  <2>2. Means(op, x, x, -x - 1)
    BY <1>2, <1>6 DEF Means
  <2> QED BY <1>1, <1>2, <1>3, <1>6, <2>1, <2>2
<1>7. CASE op = "-"
  <2>1. Kind(type) = "INT"
    BY <1>7 DEF UnopSupported
  <2> QED BY <1>1, <1>2, <1>3, <1>7, <2>1 DEF UnopValue, Means
<1>8. CASE op \in {"idt", "rmt"}
  <2>1. UnopValue(op, x) = x
    BY <1>8 DEF UnopValue
  <2>2. Means(op, x, x, x) /\ op # "-"
    BY <1>8 DEF Means
  <2> QED BY <1>1, <1>2, <1>3, <2>1, <2>2
<1> QED BY <1>4, <1>5, <1>6, <1>7, <1>8 DEF UnopSupported

LEMMA BinopMeans ==
  ASSUME NEW kind \in {"UINT", "INT"}, NEW x \in Operands(kind), NEW y \in Operands(kind),
         NEW op \in {"+", "-", "*", "/", "%", "<<", ">>", "&", "|", "^"},
         Divides(op) => y # 0, ~ BinopUndefined(op, kind, x, y),
         ~ Overflows(kind, BinopValue(op, kind, x, y))
  PROVE  /\ BinopValue(op, kind, x, y) \in Int /\ BinopValue(op, kind, x, y) \in Products
         /\ Means(op, x, y, BinopValue(op, kind, x, y))
<1>0. PICK top \in Nat \ {0}, half \in Nat \ {0} :
        /\ top = 2 ^ OperandBits /\ top = 2 * half
        /\ Operands("UINT") = 0 .. top - 1 /\ Operands("INT") = -half .. half - 1
        /\ Products = -top .. top * top /\ top <= top * top
  BY ProductsAre
<1>1. /\ top = 2 * half
      /\ Operands("UINT") = 0 .. top - 1 /\ Operands("INT") = -half .. half - 1
      /\ Products = -top .. top * top /\ top <= top * top
  BY <1>0
<1>2. PICK v : v = BinopValue(op, kind, x, y)
  OBVIOUS
<1>3. x \in Int /\ y \in Int
  BY <1>1
<1>4. ASSUME v \in Int, kind = "UINT" => v \in -top .. top * top
      PROVE  v \in Products
  <2>1. top * top \in Int
    BY <1>1
  <2>2. CASE kind = "INT"
    <3>1. v \in Operands("INT")
      BY <1>2, <2>2 DEF Overflows
    <3> QED BY <1>1, <2>1, <3>1
  <2> QED BY <1>1, <1>4, <2>2
<1>5. kind = "UINT" => x \in 0 .. top - 1 /\ y \in 0 .. top - 1
  BY <1>1
<1>6. top * top \in Int
  BY <1>1
<1>7. CASE op = "+"
  <2>1. v = x + y /\ v \in Int
    BY <1>2, <1>3, <1>7 DEF BinopValue
  <2>2. kind = "UINT" => v \in -top .. top * top
    <3>1. \A n \in Nat \ {0} : n + n - 2 <= n * n
      OBVIOUS
    <3>2. top + top - 2 <= top * top
      BY <1>1, <3>1
    <3> QED BY <1>1, <1>5, <1>6, <2>1, <3>2
  <2>3. Means(op, x, y, v)
    BY <1>3, <1>7, <2>1 DEF Means
  <2> QED BY <1>2, <1>4, <1>7, <2>1, <2>2, <2>3
<1>8. CASE op = "-"
  <2>1. v = x - y /\ v \in Int
    BY <1>2, <1>3, <1>8 DEF BinopValue
  <2>2. kind = "UINT" => v \in -top .. top * top
    BY <1>1, <1>5, <1>6, <2>1
  <2>3. Means(op, x, y, v)
    BY <1>3, <1>8, <2>1 DEF Means
  <2> QED BY <1>2, <1>4, <1>8, <2>1, <2>2, <2>3
<1>9. CASE op = "*"
  <2>1. v = x * y /\ v \in Int /\ x * y = y * x
    BY <1>2, <1>3, <1>9 DEF BinopValue
  <2>2. kind = "UINT" => v \in -top .. top * top
    <3>1. \A a, b, c \in Nat : a <= c /\ b <= c => a * b <= c * c /\ 0 <= a * b
      OBVIOUS
    <3>2. kind = "UINT" => x * y <= top * top /\ 0 <= x * y
      BY <1>1, <1>5, <3>1
    <3> QED BY <1>1, <1>6, <2>1, <3>2
  <2>3. Means(op, x, y, v)
    BY <1>3, <1>9, <2>1 DEF Means
  <2> QED BY <1>2, <1>4, <1>9, <2>1, <2>2, <2>3
<1>10. CASE op \in {"/", "%"}
  <2>1. y # 0
    BY <1>10 DEF Divides
  <2>2. PICK q \in Int :
          /\ q = Quotient(x, y)
          /\ Magnitude(x - q * y) < Magnitude(y) /\ (x - q * y) * x >= 0
          /\ y * q = q * y
          /\ x > 0 /\ y > 0 => q \in 0 .. x
    BY <1>3, <2>1, Division
  <2>3. CASE op = "/"
    <3>1. v = q
      BY <1>2, <2>2, <2>3 DEF BinopValue
    <3>2. kind = "UINT" => v \in -top .. top * top
      <4>1. x = 0 => q = 0
        BY <1>3, <2>1, <2>2, <2>3 DEF Quotient, Magnitude
      <4>2. kind = "UINT" => q \in 0 .. top - 1
        <5>1. kind = "UINT" => x \in 0 .. top - 1 /\ y > 0 /\ (x = 0 \/ x > 0)
          BY <1>1, <1>5, <2>1
        <5>2. kind = "UINT" /\ x > 0 => q \in 0 .. x
          BY <2>2, <5>1
        <5> QED BY <1>1, <1>3, <4>1, <5>1, <5>2
      <4> QED BY <1>1, <1>6, <3>1, <4>2
    <3>3. Means(op, x, y, v)
      BY <2>2, <2>3, <3>1 DEF Means
    <3> QED BY <1>2, <1>4, <2>2, <2>3, <3>1, <3>2, <3>3
  <2>4. CASE op = "%"
    <3>1. v = x - y * q
      BY <1>2, <2>2, <2>4 DEF BinopValue
    <3>2. y * q \in Int /\ v \in Int /\ v = x - q * y /\ x - v = q * y
      BY <1>3, <2>2, <3>1
    <3>3. kind = "UINT" => v \in -top .. top * top
      <4>1. kind = "UINT" => Magnitude(v) < top
        <5>1. kind = "UINT" => Magnitude(y) = y /\ y < top
          BY <1>1, <1>5 DEF Magnitude
        <5>2. Magnitude(v) < Magnitude(y) /\ Magnitude(v) \in Int /\ Magnitude(y) \in Int
          <6>1. Magnitude(v) < Magnitude(y)
            BY <2>2, <3>2
          <6> QED BY <1>3, <3>2, <6>1 DEF Magnitude
        <5> QED BY <1>1, <5>1, <5>2
      <4> QED BY <1>1, <1>6, <3>2, <4>1 DEF Magnitude
    <3>4. Magnitude(x - v) % Magnitude(y) = 0
      <4>1. PICK b \in Nat \ {0} : b = Magnitude(y) /\ (y = b \/ y = -b)
        BY <1>3, <2>1 DEF Magnitude
      <4>2. PICK p \in Nat : p = Magnitude(q) /\ (q = p \/ q = -p)
        BY <2>2 DEF Magnitude
      <4>3. p * b \in Nat /\ (q * y = p * b \/ q * y = -(p * b))
        BY <4>1, <4>2
      <4>4. Magnitude(q * y) = p * b
        BY <4>3 DEF Magnitude
      <4> QED BY <3>2, <4>1, <4>2, <4>4, Multiple
    <3>5. Means(op, x, y, v)
      BY <2>2, <2>4, <3>2, <3>4 DEF Means
    <3> QED BY <1>2, <1>4, <2>4, <3>2, <3>3, <3>5
  <2> QED BY <1>10, <2>3, <2>4
<1>11. CASE op \in {"<<", ">>"}
  <2>1. y \in Positions /\ y \in Nat /\ y <= OperandBits /\ y \in 0 .. 2 * OperandBits
        /\ OperandBits <= 2 * OperandBits /\ OperandBits \in Nat
    BY <1>11, OperandsAssumption DEF BinopUndefined, Shifts, Positions
  <2>2. PICK p \in Nat \ {0} : p = 2 ^ y
    BY <2>1, PowerIsPositive
  <2>3. p <= top
    BY <1>0, <2>1, <2>2, PowerDivides
  <2>4. CASE op = "<<"
    <3>1. v = x * p /\ v \in Int /\ x >= 0
      BY <1>2, <1>3, <1>11, <2>2, <2>4 DEF BinopValue, BinopUndefined
    <3>2. \A a, b, c \in Nat : a <= c /\ b <= c => a * b <= c * c /\ 0 <= a * b
      OBVIOUS
    <3>3. kind = "UINT" => v \in -top .. top * top
      <4>1. kind = "UINT" => x * p <= top * top /\ 0 <= x * p
        BY <1>1, <1>5, <2>3, <3>2
      <4> QED BY <1>1, <1>6, <3>1, <4>1
    <3>4. Means(op, x, y, v)
      BY <2>1, <2>2, <2>4, <3>1 DEF Means
    <3> QED BY <1>2, <1>4, <3>1, <3>3, <3>4
  <2>5. CASE op = ">>"
    <3>1. PICK q \in Int, r \in Nat : q = x \div p /\ x = p * q + r /\ r < p
      BY <1>3, DivisionWithRest
    <3>2. v = q
      BY <1>2, <2>2, <2>5, <3>1 DEF BinopValue
    <3>3. v * p <= x /\ x < (v + 1) * p
      <4>1. PICK pq \in Int : pq = p * q
        OBVIOUS
      <4>2. q * p = pq /\ (q + 1) * p = pq + p
        BY <4>1
      <4> QED BY <3>1, <3>2, <4>1, <4>2
    <3>4. kind = "UINT" => v \in -top .. top * top
      <4>1. \A a \in Int, b \in Nat \ {0} : (a < 0 => b * a + b <= 0) /\ (a >= 0 => a <= b * a)
        OBVIOUS
      <4>2. PICK pq \in Int : pq = p * q
        OBVIOUS
      <4>3. (q < 0 => pq + p <= 0) /\ (q >= 0 => q <= pq)
        BY <4>1, <4>2
      <4>4. kind = "UINT" => q >= 0 /\ q <= x
        BY <1>5, <1>1, <3>1, <4>2, <4>3
      <4> QED BY <1>1, <1>5, <1>6, <3>2, <4>4
    <3>5. Means(op, x, y, v)
      BY <2>1, <2>2, <2>5, <3>3 DEF Means
    <3> QED BY <1>2, <1>4, <3>2, <3>4, <3>5
  <2> QED BY <1>11, <2>4, <2>5
<1>12. CASE op \in {"&", "|", "^"}
  <2>1. PICK bits :
          /\ v = OfBits(kind, bits)
          /\ \A i \in Positions : i \in bits <=> CASE op = "&" -> Bit(x, i) /\ Bit(y, i)
                                                   [] op = "|" -> Bit(x, i) \/ Bit(y, i)
                                                   [] op = "^" -> Bit(x, i) # Bit(y, i)
    <3>1. CASE op = "&"
      BY <1>2, <3>1 DEF BinopValue
    <3>2. CASE op = "|"
      BY <1>2, <3>2 DEF BinopValue
    <3>3. CASE op = "^"
      BY <1>2, <3>3 DEF BinopValue
    <3> QED BY <1>12, <3>1, <3>2, <3>3
  <2>2. v \in Operands(kind) /\ \A i \in Positions : Bit(v, i) <=> i \in bits
    BY <2>1, OfBitsHas
  <2>3. v \in Int /\ v \in Products
    BY <1>1, <1>6, <2>2
  <2>4. Means(op, x, y, v)
    <3>1. CASE op = "&"
      BY <2>1, <2>2, <3>1 DEF Means
    <3>2. CASE op = "|"
      BY <2>1, <2>2, <3>2 DEF Means
    <3>3. CASE op = "^"
      BY <2>1, <2>2, <3>3 DEF Means
    <3> QED BY <1>12, <3>1, <3>2, <3>3
  <2> QED BY <1>2, <2>3, <2>4
<1> QED BY <1>7, <1>8, <1>9, <1>10, <1>11, <1>12

-----------------------------------------------------------------------------
(* The inductive invariant.                                                *)

\* The operands of an instruction, and which of its fetches reads them.
Needs(i) == IF i.type = "set" THEN {} ELSE IF i.type = "unop" THEN {"a"} ELSE {"a", "b"}
Turn(i, which) == (IF which = "a" THEN 1 ELSE 2) + (IF Compares(i) THEN 2 ELSE 0)
Fetched(t, which) ==
    which \in Needs(instruction[t]) /\ frame[t].step > Turn(instruction[t], which)

Fetching(t) == pc[t] \in {"fetch", "pulled", "read"}
Storing(t) == pc[t] \in {"store", "push"}
Home(p) == IF Local(p) THEN memory[p] ELSE peer[p]

\* Where a thread is fits what it performs.
Placed(t) ==
    /\ pc[t] = "idle" => instruction[t] = NONE /\ frame[t] = NewFrame
    /\ pc[t] # "idle" => instruction[t] \in Instructions[t] /\ outcome[t] = "NONE"
    /\ Fetching(t) => frame[t].step \in DOMAIN Fetches(instruction[t])
    /\ pc[t] = "compute" =>
        /\ instruction[t].type # "set"
        /\ \A which \in Needs(instruction[t]) : Fetched(t, which)
        /\ ~Compares(instruction[t]) => frame[t].step = Len(Fetches(instruction[t]))
    /\ pc[t] \in {"check", "sleep", "end"} => instruction[t].type = "block"
    /\ Storing(t) => ~Compares(instruction[t]) /\ frame[t].step = Len(Fetches(instruction[t]))
    /\ pc[t] \in {"pulled", "read", "store", "push"} => Wanted(t) \in P
    /\ pc[t] \in {"pulled", "read", "push"} => ~Local(Wanted(t))

\* Numbers of a type's kind, if it is one.
IsOperand(type, x) == Kind(type) # "NONE" /\ (Kind(type) # "FLOAT" => x \in Operands(Kind(type)))

\* What an operand is made of, and what is on its way there, was seen.
Origin(t, which) ==
    LET p == OperandOf(instruction[t], which)
    IN  /\ p \in P => Home(p) \in seen[t][which]
        /\ Fetched(t, which) =>
            p \in P /\ IsOperand(Type(p), frame[t][which]) /\ frame[t][which] \in Witnessed(t, which)
Arriving(t) ==
    /\ pc[t] = "pulled" => frame[t].reply \in Values(Wanted(t))
    /\ Fetching(t) /\ Use(t) \in {"a", "b"} =>
        /\ pc[t] = "pulled" => frame[t].reply \in seen[t][Use(t)]
        /\ pc[t] = "read" => memory[Wanted(t)] \in seen[t][Use(t)]
Watched(t) ==
    pc[t] # "idle" => (\A which \in Needs(instruction[t]) : Origin(t, which)) /\ Arriving(t)

\* A result of operands that were current.
Right(t, r) ==
    LET i == instruction[t]
        type == OperandType(t, "a")
    IN  /\ r \in Raw(type)
        /\ Kind(type) # "FLOAT" =>
            \E x \in IF i.type = "unop" /\ i.op = "-" THEN {0} ELSE Witnessed(t, "a"),
               y \in IF i.type = "binop" THEN Witnessed(t, "b") ELSE Witnessed(t, "a"),
               z \in Products :
                Means(i.op, x, y, z) /\ (r - z) % 2 ^ Bits[type] = 0
Calculated(t) ==
    /\ pc[t] # "idle" /\ instruction[t].type \in {"unop", "binop"} =>
        /\ Fetching(t) /\ Use(t) = "result" => Right(t, frame[t].result)
        /\ Storing(t) => \E r : Right(t, r) /\ frame[t].result = Taken(Type(Wanted(t)), r)
    /\ Storing(t) => frame[t].result \in Values(Wanted(t))

\* A block that goes on in time has met its condition.
Met(t) ==
    pc[t] = "end" =>
        left[t] = 0 \/ ((\A which \in {"a", "b"} : Fetched(t, which)) /\ "TRUE" \in Flags(t))

ThreadInv(t) == Placed(t) /\ Watched(t) /\ Calculated(t) /\ Met(t)
Inv == TypeOK /\ \A t \in Threads : ThreadInv(t)

-----------------------------------------------------------------------------
(* What is fetched.                                                        *)

LEMMA InstructionIs ==
  ASSUME NEW t \in Threads, NEW i \in Instructions[t]
  PROVE  /\ i.type \in {"set", "unop", "binop", "ifelse", "block"}
         /\ \A which \in Needs(i) : which \in {"a", "b"} /\ which \in DOMAIN i
         /\ i.type = "set" => i.value \in Int
         /\ i.type = "binop" => i.op \in {"+", "-", "*", "/", "%", "<<", ">>", "&", "|", "^"}
BY HandlersAssumption DEF Needs

LEMMA FetchesAre ==
  ASSUME NEW t \in Threads, NEW i \in Instructions[t]
  PROVE  /\ Len(Fetches(i)) \in 1 .. 4 /\ DOMAIN Fetches(i) = 1 .. Len(Fetches(i))
         /\ \A n \in DOMAIN Fetches(i) : Fetches(i)[n][2] \in {"look", "a", "b", "result"}
         /\ \A n \in DOMAIN Fetches(i), which \in {"a", "b"} :
                Fetches(i)[n][2] = which =>
                    which \in Needs(i) /\ n = Turn(i, which) /\ Fetches(i)[n][1] = i[which]
         /\ \A n \in DOMAIN Fetches(i) : Fetches(i)[n][2] = "result" <=> ~Compares(i) /\ n = Len(Fetches(i))
         /\ \A n \in DOMAIN Fetches(i) : Fetches(i)[n][2] = "look" => Compares(i) /\ n \in {1, 2} /\ Len(Fetches(i)) = 4
         /\ \A which \in Needs(i) : ~Compares(i) => Len(Fetches(i)) > Turn(i, which)
         /\ i.type = "unop" => Len(Fetches(i)) = 2
         /\ i.type = "binop" => Len(Fetches(i)) = 3
         /\ i.type = "set" => Len(Fetches(i)) = 1
         /\ Compares(i) => Len(Fetches(i)) = 4
         /\ \A which \in Needs(i) : Turn(i, which) \in {1, 2, 3, 4}
<1>1. CASE i.type = "set"
  <2>1. Fetches(i) = << <<i.result, "result">> >> /\ ~Compares(i) /\ Needs(i) = {}
    BY <1>1 DEF Fetches, Compares, Needs
  <2> QED BY <1>1, <2>1
<1>2. CASE i.type = "unop"
  <2>1. Fetches(i) = << <<i.a, "a">>, <<i.result, "result">> >> /\ ~Compares(i) /\ Needs(i) = {"a"}
    BY <1>2 DEF Fetches, Compares, Needs
  <2>2. Turn(i, "a") = 1
    BY <2>1 DEF Turn
  <2> QED BY <1>2, <2>1, <2>2
<1>3. CASE i.type = "binop"
  <2>1. Fetches(i) = << <<i.a, "a">>, <<i.b, "b">>, <<i.result, "result">> >> /\ ~Compares(i) /\ Needs(i) = {"a", "b"}
    BY <1>3 DEF Fetches, Compares, Needs
  <2>2. Turn(i, "a") = 1 /\ Turn(i, "b") = 2
    BY <2>1 DEF Turn
  <2> QED BY <1>3, <2>1, <2>2
<1>4. CASE i.type \in {"ifelse", "block"}
  <2>1. Fetches(i) = << <<i.a, "look">>, <<i.b, "look">>, <<i.a, "a">>, <<i.b, "b">> >> /\ Compares(i)
        /\ Needs(i) = {"a", "b"}
    BY <1>4 DEF Fetches, Compares, Needs
  <2>2. Turn(i, "a") = 3 /\ Turn(i, "b") = 4
    BY <2>1 DEF Turn
  <2> QED BY <1>4, <2>1, <2>2
<1> QED BY <1>1, <1>2, <1>3, <1>4, InstructionIs

LEMMA WantedIs ==
  ASSUME NEW t \in Threads, instruction[t] \in Instructions[t],
         frame[t].step \in DOMAIN Fetches(instruction[t]), Use(t) \in {"a", "b"}
  PROVE  /\ Wanted(t) = OperandOf(instruction[t], Use(t)) /\ Use(t) \in Needs(instruction[t])
         /\ frame[t].step = Turn(instruction[t], Use(t))
<1>1. Use(t) = Fetches(instruction[t])[frame[t].step][2]
  BY DEF Use
<1>2. /\ Use(t) \in Needs(instruction[t]) /\ frame[t].step = Turn(instruction[t], Use(t))
      /\ Fetches(instruction[t])[frame[t].step][1] = instruction[t][Use(t)]
  BY <1>1, FetchesAre
<1>3. Wanted(t) = Entry(instruction[t][Use(t)], OperandNode(instruction[t]))
  BY <1>2 DEF Wanted
<1> QED BY <1>2, <1>3 DEF OperandOf

-----------------------------------------------------------------------------
(* A thread at which nothing happens keeps its part of the invariant.      *)

Same(t) ==
    /\ pc'[t] = pc[t] /\ instruction'[t] = instruction[t] /\ frame'[t] = frame[t]
    /\ outcome'[t] = outcome[t] /\ (left[t] = 0 => left'[t] = 0)

NewHome(p) == IF Local(p) THEN memory'[p] ELSE peer'[p]

\* What changes is seen.
Follows(t) ==
    pc[t] # "idle" => \A which \in Needs(instruction[t]) :
        LET p == OperandOf(instruction[t], which)
        IN  p \in P =>
            /\ seen[t][which] \subseteq seen'[t][which]
            /\ NewHome(p) \in seen'[t][which]
            /\ memory'[p] = memory[p] \/ memory'[p] \in seen'[t][which]

LEMMA PlacedStays ==
  ASSUME NEW t \in Threads, Placed(t), Same(t)
  PROVE  Placed(t)'
BY DEF Placed, Same, Fetching, Storing, Wanted, Fetched, Use, OperandOf

LEMMA MetStays ==
  ASSUME NEW t \in Threads, Met(t), Same(t)
  PROVE  Met(t)'
BY DEF Met, Same, Flags, Fetched, OperandType

LEMMA WitnessedGrows ==
  ASSUME NEW t \in Threads, Placed(t), Watched(t), Same(t), Follows(t), pc[t] # "idle",
         NEW which \in Needs(instruction[t]), Fetched(t, which)
  PROVE  Witnessed(t, which) \subseteq Witnessed(t, which)'
<1>1. OperandOf(instruction[t], which) \in P
  BY DEF Watched, Origin
<1>2. seen[t][which] \subseteq seen'[t][which]
  BY <1>1 DEF Follows
<1> QED BY <1>2 DEF Witnessed, Same

LEMMA WatchedStays ==
  ASSUME NEW t \in Threads, Placed(t), Watched(t), Same(t), Follows(t)
  PROVE  Watched(t)'
<1> SUFFICES ASSUME pc[t] # "idle" PROVE Watched(t)'
  BY DEF Same, Watched
<1>1. ASSUME NEW which \in Needs(instruction[t]) PROVE Origin(t, which)'
  <2>1. PICK p : p = OperandOf(instruction[t], which) /\ p = OperandOf(instruction'[t], which)
    BY DEF Same
  <2>2. p \in P => NewHome(p) \in seen'[t][which]
    BY <2>1 DEF Follows
  <2>3. ASSUME Fetched(t, which)
        PROVE  p \in P /\ IsOperand(Type(p), frame'[t][which]) /\ frame'[t][which] \in Witnessed(t, which)'
    <3>1. p \in P /\ IsOperand(Type(p), frame[t][which]) /\ frame[t][which] \in Witnessed(t, which)
      BY <2>1, <2>3 DEF Watched, Origin
    <3>2. Witnessed(t, which) \subseteq Witnessed(t, which)'
      BY <2>3, WitnessedGrows
    <3> QED BY <3>1, <3>2 DEF Same
  <2>4. Fetched(t, which)' <=> Fetched(t, which)
    BY DEF Fetched, Same
  <2> QED BY <2>1, <2>2, <2>3, <2>4 DEF Origin, Home, NewHome
<1>2. Arriving(t)'
  <2>1. (Fetching(t)' <=> Fetching(t)) /\ (Use(t)' = Use(t)) /\ Wanted(t)' = Wanted(t)
    BY DEF Same, Fetching, Use, Wanted
  <2>2. pc'[t] = "pulled" => frame'[t].reply \in Values(Wanted(t)')
    BY <2>1 DEF Same, Watched, Arriving
  <2>3. ASSUME Fetching(t), Use(t) \in {"a", "b"}, pc[t] \in {"pulled", "read"}
        PROVE  /\ pc[t] = "pulled" => frame[t].reply \in seen'[t][Use(t)]
               /\ pc[t] = "read" => memory'[Wanted(t)] \in seen'[t][Use(t)]
    <3>1. instruction[t] \in Instructions[t] /\ frame[t].step \in DOMAIN Fetches(instruction[t])
          /\ Wanted(t) \in P
      BY <2>3 DEF Placed
    <3>2. Wanted(t) = OperandOf(instruction[t], Use(t)) /\ Use(t) \in Needs(instruction[t])
      BY <2>3, <3>1, WantedIs
    <3>3. /\ pc[t] = "pulled" => frame[t].reply \in seen[t][Use(t)]
          /\ pc[t] = "read" => memory[Wanted(t)] \in seen[t][Use(t)]
      BY <2>3 DEF Watched, Arriving
    <3>4. /\ seen[t][Use(t)] \subseteq seen'[t][Use(t)]
          /\ memory'[Wanted(t)] = memory[Wanted(t)] \/ memory'[Wanted(t)] \in seen'[t][Use(t)]
      BY <3>1, <3>2 DEF Follows
    <3> QED BY <3>3, <3>4
  <2> QED BY <2>1, <2>2, <2>3 DEF Arriving, Same
<1>3. \A which \in Needs(instruction'[t]) : Origin(t, which)'
  BY <1>1 DEF Same
<1> QED BY <1>2, <1>3 DEF Watched

\* At the destination everything was fetched.
LEMMA AllFetched ==
  ASSUME NEW t \in Threads, Placed(t), pc[t] # "idle", frame[t].step \in DOMAIN Fetches(instruction[t]),
         Use(t) = "result" \/ Storing(t) \/ pc[t] = "compute"
  PROVE  \A which \in Needs(instruction[t]) : Fetched(t, which)
<1>1. instruction[t] \in Instructions[t]
  BY DEF Placed
<1>2. CASE pc[t] = "compute"
  BY <1>2 DEF Placed
<1>3. CASE Use(t) = "result" \/ Storing(t)
  <2>1. ~Compares(instruction[t]) /\ frame[t].step = Len(Fetches(instruction[t]))
    BY <1>1, <1>3, FetchesAre DEF Placed, Use
  <2> QED BY <1>1, <2>1, FetchesAre DEF Fetched
<1> QED BY <1>2, <1>3

LEMMA RightGrows ==
  ASSUME NEW t \in Threads, instruction'[t] = instruction[t],
         instruction[t].type \in {"unop", "binop"},
         \A which \in Needs(instruction[t]) : Witnessed(t, which) \subseteq Witnessed(t, which)',
         NEW r, Right(t, r)
  PROVE  Right(t, r)'
<1>1. Witnessed(t, "a") \subseteq Witnessed(t, "a")'
  BY DEF Needs
<1>2. instruction[t].type = "binop" => Witnessed(t, "b") \subseteq Witnessed(t, "b")'
  BY DEF Needs
<1>3. OperandType(t, "a")' = OperandType(t, "a")
  BY DEF OperandType
<1> QED BY <1>1, <1>2, <1>3 DEF Right

LEMMA CalculatedStays ==
  ASSUME NEW t \in Threads, Placed(t), Watched(t), Calculated(t), Same(t), Follows(t)
  PROVE  Calculated(t)'
<1>1. /\ (Fetching(t)' <=> Fetching(t)) /\ (Use(t)' = Use(t)) /\ Wanted(t)' = Wanted(t)
      /\ (Storing(t)' <=> Storing(t)) /\ instruction'[t] = instruction[t] /\ frame'[t] = frame[t]
  BY DEF Same, Fetching, Storing, Use, Wanted
<1>2. Storing(t)' => frame'[t].result \in Values(Wanted(t))'
  BY <1>1 DEF Calculated, Values
<1>3. ASSUME pc[t] # "idle", instruction[t].type \in {"unop", "binop"},
             (Fetching(t) /\ Use(t) = "result") \/ Storing(t), NEW r, Right(t, r)
      PROVE  Right(t, r)'
  <2>1. pc[t] # "idle"
    BY <1>3
  <2>2. instruction[t] \in Instructions[t] /\ frame[t].step \in DOMAIN Fetches(instruction[t])
    BY <1>3, <2>1, FetchesAre DEF Placed
  <2>3. \A which \in Needs(instruction[t]) : Fetched(t, which)
    BY <1>3, <2>1, <2>2, AllFetched
  <2> QED BY <1>3, <2>1, <2>3, WitnessedGrows, RightGrows DEF Same
<1> QED BY <1>1, <1>2, <1>3 DEF Calculated, Same

LEMMA Bystander ==
  ASSUME NEW t \in Threads, ThreadInv(t), Same(t), Follows(t)
  PROVE  ThreadInv(t)'
BY PlacedStays, WatchedStays, CalculatedStays, MetStays DEF ThreadInv

\* A thread that has nothing to do.
LEMMA AtRest ==
  ASSUME NEW t \in Threads, pc'[t] = "idle", instruction'[t] = NONE, frame'[t] = NewFrame
  PROVE  ThreadInv(t)'
BY DEF ThreadInv, Placed, Watched, Calculated, Met, Fetching, Storing

-----------------------------------------------------------------------------
(* The history.                                                            *)

LEMMA WatchShows ==
  ASSUME NEW writer, NEW beginner, Watch(writer, beginner),
         NEW t \in Threads, pc'[t] # "idle", instruction'[t] \in Instructions[t],
         NEW which \in Needs(instruction'[t]), OperandOf(instruction'[t], which) \in P
  PROVE  LET p == OperandOf(instruction'[t], which)
         IN  /\ NewHome(p) \in seen'[t][which]
             /\ t # beginner => seen[t][which] \subseteq seen'[t][which]
             /\ t # writer => memory'[p] = memory[p] \/ memory'[p] \in seen'[t][which]
<1>1. which \in {"a", "b"} /\ which \in DOMAIN instruction'[t]
  BY InstructionIs
<1>2. PICK p : p = OperandOf(instruction'[t], which)
  OBVIOUS
<1>3. seen'[t][which] = {IF Local(p) THEN memory'[p] ELSE peer'[p]}
                 \cup (IF t = beginner THEN {} ELSE seen[t][which])
                 \cup (IF t # writer /\ memory'[p] # memory[p] THEN {memory'[p]} ELSE {})
  <2>1. seen'[t] = [w \in {"a", "b"} |->
            IF pc'[t] = "idle" \/ w \notin DOMAIN instruction'[t] \/ OperandOf(instruction'[t], w) \notin P THEN {}
            ELSE {IF Local(OperandOf(instruction'[t], w)) THEN memory'[OperandOf(instruction'[t], w)]
                  ELSE peer'[OperandOf(instruction'[t], w)]}
                 \cup (IF t = beginner THEN {} ELSE seen[t][w])
                 \cup (IF t # writer /\ memory'[OperandOf(instruction'[t], w)] # memory[OperandOf(instruction'[t], w)]
                       THEN {memory'[OperandOf(instruction'[t], w)]} ELSE {})]
    BY DEF Watch
  <2> QED BY <1>1, <1>2, <2>1
<1>4. NewHome(p) = IF Local(p) THEN memory'[p] ELSE peer'[p]
  BY DEF NewHome
<1>5. NewHome(p) \in seen'[t][which]
  BY <1>3, <1>4
<1>6. t # beginner => seen[t][which] \subseteq seen'[t][which]
  BY <1>3
<1>7. t # writer => memory'[p] = memory[p] \/ memory'[p] \in seen'[t][which]
  BY <1>3
<1> QED BY <1>2, <1>5, <1>6, <1>7

LEMMA WatchFollows ==
  ASSUME NEW writer, NEW beginner, Watch(writer, beginner),
         NEW t \in Threads, Placed(t), Same(t), t # beginner, t # writer \/ memory' = memory
  PROVE  Follows(t)
<1> SUFFICES ASSUME pc[t] # "idle", NEW which \in Needs(instruction[t]),
                    OperandOf(instruction[t], which) \in P
             PROVE  LET p == OperandOf(instruction[t], which)
                    IN  /\ seen[t][which] \subseteq seen'[t][which]
                        /\ NewHome(p) \in seen'[t][which]
                        /\ memory'[p] = memory[p] \/ memory'[p] \in seen'[t][which]
  BY DEF Follows
<1>1. instruction'[t] = instruction[t] /\ pc'[t] # "idle" /\ instruction[t] \in Instructions[t]
  BY DEF Same, Placed
<1> QED BY <1>1, WatchShows

LEMMA NothingToFollow ==
  ASSUME NEW t \in Threads, Watched(t), UNCHANGED <<memory, peer, seen>>
  PROVE  Follows(t)
<1> SUFFICES ASSUME pc[t] # "idle", NEW which \in Needs(instruction[t]),
                    OperandOf(instruction[t], which) \in P
             PROVE  LET p == OperandOf(instruction[t], which)
                    IN  /\ seen[t][which] \subseteq seen'[t][which]
                        /\ NewHome(p) \in seen'[t][which]
                        /\ memory'[p] = memory[p] \/ memory'[p] \in seen'[t][which]
  BY DEF Follows
<1>1. PICK p : p = OperandOf(instruction[t], which)
  OBVIOUS
<1>2. Home(p) \in seen[t][which]
  BY <1>1 DEF Watched, Origin
<1>3. NewHome(p) = Home(p)
  BY DEF Home, NewHome
<1> QED BY <1>1, <1>2, <1>3

\* The values of parameters.
Parametric(m, o) ==
    /\ DOMAIN m = P /\ \A p \in P : m[p] \in Values(p)
    /\ DOMAIN o = {p \in P : ~Local(p)} /\ \A p \in DOMAIN o : o[p] \in Values(p)

LEMMA ValuesAre ==
  ASSUME NEW p \in P
  PROVE  Type(p) \in DOMAIN Bits /\ Values(p) \subseteq Buffers
BY HandlersAssumption, RawIs DEF P, Type, Values

LEMMA WatchType ==
  ASSUME NEW writer, NEW beginner, Watch(writer, beginner), Parametric(memory', peer'),
         seen \in [Threads -> [{"a", "b"} -> SUBSET Buffers]]
  PROVE  seen' \in [Threads -> [{"a", "b"} -> SUBSET Buffers]]
<1> DEFINE S(t, which) ==
        LET i == instruction'[t]
            p == OperandOf(i, which)
        IN  IF pc'[t] = "idle" \/ which \notin DOMAIN i \/ p \notin P THEN {}
            ELSE {IF Local(p) THEN memory'[p] ELSE peer'[p]}
                 \cup (IF t = beginner THEN {} ELSE seen[t][which])
                 \cup (IF t # writer /\ memory'[p] # memory[p] THEN {memory'[p]} ELSE {})
<1>1. seen' = [t \in Threads |-> [which \in {"a", "b"} |-> S(t, which)]]
  BY DEF Watch
<1>2. ASSUME NEW t \in Threads, NEW which \in {"a", "b"} PROVE S(t, which) \subseteq Buffers
  <2>1. \A p \in P : (IF Local(p) THEN memory'[p] ELSE peer'[p]) \in Buffers /\ memory'[p] \in Buffers
    BY ValuesAre DEF Parametric
  <2>2. seen[t][which] \subseteq Buffers
    OBVIOUS
  <2> QED BY <2>1, <2>2
<1> HIDE DEF S
<1> QED BY <1>1, <1>2

-----------------------------------------------------------------------------
(* Types.                                                                  *)

Places == {"idle", "check", "fetch", "pulled", "read", "compute", "sleep", "end", "store", "push"}
Frames == [step : 1 .. 5, reply : Buffers, a : Numbers, b : Numbers, result : Buffers,
           flag : {"TRUE", "FALSE", "ERR_TYPE", "ERR", "NONE"}]

\* The types of what threads have, and of what is under way.
ThreadTypes ==
    /\ pc \in [Threads -> Places]
    /\ DOMAIN instruction = Threads
    /\ \A t \in Threads : instruction[t] \in Instructions[t] \cup {NONE}
    /\ frame \in [Threads -> Frames]
    /\ left \in [Threads -> 0 .. TIMEOUT]
    /\ outcome \in [Threads -> {"NONE", "ok", "error", "TRUE", "FALSE"}]
    /\ runs \in [Threads -> 0 .. MaxInstructions]
    /\ seen \in [Threads -> [{"a", "b"} -> SUBSET Buffers]]
PacketTypes ==
    /\ \A r \in requests : r[1] \in Threads /\ r[3] \in DOMAIN peer /\ r[4] \in Values(r[3])
    /\ acked \subseteq {t \in Threads : pc[t] = "push"}

LEMMA Types ==
  TypeOK <=> /\ Parametric(memory, peer) /\ ThreadTypes /\ PacketTypes
             /\ changes \in 0 .. MaxChanges /\ undefined \in BOOLEAN
BY DEF TypeOK, Parametric, ThreadTypes, PacketTypes, Places, Frames

LEMMA TypesNext ==
  ASSUME Parametric(memory', peer'), ThreadTypes', PacketTypes', changes' \in 0 .. MaxChanges,
         undefined' \in BOOLEAN
  PROVE  TypeOK'
BY DEF TypeOK, Parametric, ThreadTypes, PacketTypes, Places, Frames

LEMMA FirstFrame == NewFrame \in Frames
BY Zeros DEF NewFrame, Frames

LEMMA FrameChanges ==
  ASSUME NEW f \in Frames
  PROVE  /\ \A n \in 1 .. 5 : [f EXCEPT !.step = n] \in Frames
         /\ \A n \in Buffers : [f EXCEPT !.reply = n] \in Frames /\ [f EXCEPT !.result = n] \in Frames
         /\ \A n \in {"TRUE", "FALSE", "ERR_TYPE", "ERR", "NONE"} : [f EXCEPT !.flag = n] \in Frames
         /\ \A n \in Numbers, k \in 1 .. 5, which \in {"a", "b"} :
                [f EXCEPT ![which] = n, !.step = k] \in Frames
BY DEF Frames

\* A handler returns.
LEMMA FinishedTypes ==
  ASSUME NEW t \in Threads, NEW how \in {"ok", "error", "TRUE", "FALSE"}, Finished(t, how),
         ThreadTypes, Parametric(memory', peer')
  PROVE  ThreadTypes'
<1>1. seen' \in [Threads -> [{"a", "b"} -> SUBSET Buffers]]
  BY WatchType DEF Finished, ThreadTypes
<1>2. pc' \in [Threads -> Places]
  BY DEF Finished, Goto, ThreadTypes, Places
<1>3. DOMAIN instruction' = Threads /\ \A u \in Threads : instruction'[u] \in Instructions[u] \cup {NONE}
  BY DEF Finished, ThreadTypes
<1>4. frame' \in [Threads -> Frames]
  BY FirstFrame DEF Finished, ThreadTypes
<1>5. left' \in [Threads -> 0 .. TIMEOUT]
  BY HandlersAssumption DEF Finished, ThreadTypes
<1>6. outcome' \in [Threads -> {"NONE", "ok", "error", "TRUE", "FALSE"}] /\ runs' = runs
  BY DEF Finished, ThreadTypes
<1> QED BY <1>1, <1>2, <1>3, <1>4, <1>5, <1>6 DEF ThreadTypes

-----------------------------------------------------------------------------
(* Steps that end an instruction, and steps that nobody else notices.      *)

LEMMA FinishedStep ==
  ASSUME Inv, NEW t \in Threads, NEW how \in {"ok", "error", "TRUE", "FALSE"}, Finished(t, how),
         Parametric(memory', peer'), PacketTypes'
  PROVE  Inv'
<1>1. ThreadTypes /\ changes \in 0 .. MaxChanges /\ undefined \in BOOLEAN
  BY Types DEF Inv
<1>2. TypeOK'
  <2>1. ThreadTypes' /\ changes' = changes /\ undefined' = undefined
    BY <1>1, FinishedTypes DEF Finished
  <2> QED BY <1>1, <2>1, TypesNext
<1>3. ThreadInv(t)'
  <2>1. pc'[t] = "idle" /\ instruction'[t] = NONE /\ frame'[t] = NewFrame
    <3>1. t \in DOMAIN pc /\ t \in DOMAIN frame
      BY <1>1 DEF ThreadTypes
    <3>2. t \in DOMAIN instruction
      BY <1>1 DEF ThreadTypes
    <3> QED BY <3>1, <3>2 DEF Finished, Goto
  <2> QED BY <2>1, AtRest
<1>4. ASSUME NEW u \in Threads, u # t PROVE ThreadInv(u)'
  <2>1. Same(u)
    BY <1>1, <1>4 DEF Finished, Goto, Same, ThreadTypes
  <2>2. ThreadInv(u) /\ u # NONE
    BY HandlersAssumption DEF Inv
  <2>3. Follows(u)
    BY <1>4, <2>1, <2>2, WatchFollows DEF Finished, ThreadInv
  <2> QED BY <2>1, <2>2, <2>3, Bystander
<1> QED BY <1>2, <1>3, <1>4 DEF Inv

Quiet(t) ==
    /\ UNCHANGED <<memory, peer, seen, runs, outcome, instruction, left, changes>>
    /\ \A u \in Threads \ {t} : pc'[u] = pc[u] /\ frame'[u] = frame[u]

LEMMA QuietStep ==
  ASSUME Inv, NEW t \in Threads, Quiet(t), pc' \in [Threads -> Places], frame' \in [Threads -> Frames],
         PacketTypes', undefined' \in BOOLEAN, ThreadInv(t)'
  PROVE  Inv'
<1>1. TypeOK'
  <2>1. Parametric(memory, peer) /\ ThreadTypes /\ changes \in 0 .. MaxChanges
    BY Types DEF Inv
  <2>2. Parametric(memory', peer')
    BY <2>1 DEF Quiet
  <2>3. ThreadTypes'
    BY <2>1 DEF ThreadTypes, Quiet
  <2> QED BY <2>1, <2>2, <2>3, TypesNext DEF Quiet
<1>2. ASSUME NEW u \in Threads, u # t PROVE ThreadInv(u)'
  <2>1. Same(u)
    BY <1>2 DEF Quiet, Same
  <2>2. ThreadInv(u)
    BY DEF Inv
  <2>3. Follows(u)
    BY <2>2, NothingToFollow DEF Quiet, ThreadInv
  <2> QED BY <2>1, <2>2, <2>3, Bystander
<1> QED BY <1>1, <1>2 DEF Inv

LEMMA EndsStep ==
  ASSUME Inv, NEW t \in Threads, NEW how \in {"ok", "error", "TRUE", "FALSE"}, Ends(t, how), pc[t] # "push"
  PROVE  Inv'
<1>1. Parametric(memory, peer) /\ PacketTypes /\ ThreadTypes
  BY Types DEF Inv
<1>2. UNCHANGED <<memory, peer, requests, acked>> /\ Finished(t, how)
  BY DEF Ends, shared, network
<1>3. Parametric(memory', peer')
  BY <1>1, <1>2
<1>4. PacketTypes'
  <2>1. \A u \in Threads : pc[u] = "push" => pc'[u] = "push"
    BY <1>1, <1>2 DEF Finished, Goto, ThreadTypes
  <2> QED BY <1>1, <1>2, <2>1 DEF PacketTypes
<1> QED BY <1>2, <1>3, <1>4, FinishedStep

-----------------------------------------------------------------------------
(* The steps.                                                              *)

LEMMA SetIs ==
  ASSUME NEW t \in Threads, frame \in [Threads -> Frames], NEW v,
         NEW field \in {"step", "reply", "a", "b", "result", "flag"}, Set(t, field, v)
  PROVE  /\ \A u \in Threads \ {t} : frame'[u] = frame[u]
         /\ frame'[t][field] = v
         /\ \A f \in {"step", "reply", "a", "b", "result", "flag"} \ {field} : frame'[t][f] = frame[t][f]
         /\ field = "step" /\ v \in 1 .. 5 => frame' \in [Threads -> Frames]
         /\ field \in {"reply", "result"} /\ v \in Buffers => frame' \in [Threads -> Frames]
         /\ field = "flag" /\ v \in {"TRUE", "FALSE", "ERR_TYPE", "ERR", "NONE"} => frame' \in [Threads -> Frames]
<1>1. PICK f \in Frames : f = frame[t]
  OBVIOUS
<1>2. frame' = [frame EXCEPT ![t] = [f EXCEPT ![field] = v]]
  BY <1>1 DEF Set
<1>3. PICK g : g = [f EXCEPT ![field] = v]
  OBVIOUS
<1>4. frame' = [frame EXCEPT ![t] = g]
  BY <1>2, <1>3
<1>5. DOMAIN f = {"step", "reply", "a", "b", "result", "flag"}
  BY DEF Frames
<1>6. g[field] = v /\ \A h \in DOMAIN f \ {field} : g[h] = f[h]
  BY <1>3, <1>5
<1>7. /\ field = "step" /\ v \in 1 .. 5 => g \in Frames
      /\ field \in {"reply", "result"} /\ v \in Buffers => g \in Frames
      /\ field = "flag" /\ v \in {"TRUE", "FALSE", "ERR_TYPE", "ERR", "NONE"} => g \in Frames
  BY <1>3 DEF Frames
<1> QED BY <1>1, <1>4, <1>5, <1>6, <1>7

LEMMA RightKept ==
  ASSUME NEW t \in Threads, instruction'[t] = instruction[t], seen' = seen, NEW r, Right(t, r)
  PROVE  Right(t, r)'
BY DEF Right, OperandType, Witnessed

LEMMA OriginKept ==
  ASSUME NEW t \in Threads, Watched(t), pc[t] # "idle", UNCHANGED <<memory, peer, seen>>,
         instruction'[t] = instruction[t], NEW which \in Needs(instruction[t]),
         Fetched(t, which)' => Fetched(t, which) /\ frame'[t][which] = frame[t][which]
  PROVE  Origin(t, which)'
<1>1. Origin(t, which)
  BY DEF Watched
<1>2. PICK p : p = OperandOf(instruction[t], which) /\ p = OperandOf(instruction'[t], which)
  OBVIOUS
<1>3. Home(p)' = Home(p)
  BY DEF Home
<1>4. Witnessed(t, which)' = Witnessed(t, which)
  BY DEF Witnessed
<1> QED BY <1>1, <1>2, <1>3, <1>4 DEF Origin, Home

\* An instruction or a poll begins.
LEMMA BeginsAnew ==
  ASSUME NEW t \in Threads, instruction'[t] \in Instructions[t], frame'[t] = NewFrame, outcome'[t] = "NONE",
         pc'[t] \in {"check", "fetch"}, pc'[t] = "check" => instruction'[t].type = "block", Watch(NONE, t)
  PROVE  ThreadInv(t)'
<1>1. frame'[t].step = 1
  BY DEF NewFrame
<1>2. 1 \in DOMAIN Fetches(instruction'[t]) /\ \A which \in Needs(instruction'[t]) : ~(1 > Turn(instruction'[t], which))
  BY FetchesAre
<1>3. Placed(t)'
  BY <1>1, <1>2 DEF Placed, Fetching, Storing
<1>4. ASSUME NEW which \in Needs(instruction'[t]) PROVE Origin(t, which)'
  <2>1. ~ Fetched(t, which)'
    BY <1>1, <1>2 DEF Fetched
  <2>2. PICK p : p = OperandOf(instruction'[t], which)
    OBVIOUS
  <2>3. p \in P => NewHome(p) \in seen'[t][which]
    BY <2>2, WatchShows
  <2> QED BY <2>1, <2>2, <2>3 DEF Origin, Home, NewHome
<1>5. Watched(t)'
  BY <1>4 DEF Watched, Arriving
<1>6. instruction'[t].type \in {"unop", "binop"} => Use(t)' # "result"
  <2>1. instruction'[t].type \in {"unop", "binop"} => Len(Fetches(instruction'[t])) # 1
    BY FetchesAre
  <2> QED BY <1>1, <1>2, <2>1, FetchesAre DEF Use
<1>7. Calculated(t)'
  BY <1>6 DEF Calculated, Storing
<1>8. Met(t)'
  BY DEF Met
<1> QED BY <1>3, <1>5, <1>7, <1>8 DEF ThreadInv

LEMMA StartStep ==
  ASSUME Inv, NEW t \in Threads, Start(t)
  PROVE  Inv'
<1>1. Parametric(memory, peer) /\ ThreadTypes /\ PacketTypes /\ changes \in 0 .. MaxChanges /\ undefined \in BOOLEAN
  BY Types DEF Inv
<1>2. pc[t] = "idle" /\ frame[t] = NewFrame
  BY DEF Inv, ThreadInv, Placed, Start, At
<1>3. UNCHANGED <<memory, peer, requests, acked, frame, changes, undefined>> /\ runs[t] < MaxInstructions
      /\ runs' = [runs EXCEPT ![t] = @ + 1] /\ outcome' = [outcome EXCEPT ![t] = "NONE"]
  BY DEF Start, shared, network
<1>4. PICK i \in Instructions[t] :
        /\ instruction' = [instruction EXCEPT ![t] = i]
        /\ pc' = [pc EXCEPT ![t] = IF i.type = "block" THEN "check" ELSE "fetch"]
        /\ left' = [left EXCEPT ![t] = IF i.type = "block" THEN TIMEOUT ELSE 0]
        /\ Watch(NONE, t)
  BY DEF Start, Goto
<1>5. TypeOK'
  <2>1. seen' \in [Threads -> [{"a", "b"} -> SUBSET Buffers]]
    BY <1>1, <1>3, <1>4, WatchType DEF ThreadTypes
  <2>2. pc' \in [Threads -> Places] /\ frame' \in [Threads -> Frames]
    BY <1>1, <1>3, <1>4 DEF ThreadTypes, Places
  <2>3. DOMAIN instruction' = Threads /\ \A u \in Threads : instruction'[u] \in Instructions[u] \cup {NONE}
    BY <1>1, <1>4 DEF ThreadTypes
  <2>4. left' \in [Threads -> 0 .. TIMEOUT]
    BY <1>1, <1>4, HandlersAssumption DEF ThreadTypes
  <2>5. runs' \in [Threads -> 0 .. MaxInstructions]
    BY <1>1, <1>3, HandlersAssumption DEF ThreadTypes
  <2>6. outcome' \in [Threads -> {"NONE", "ok", "error", "TRUE", "FALSE"}]
    BY <1>1, <1>3 DEF ThreadTypes
  <2>7. ThreadTypes'
    BY <2>1, <2>2, <2>3, <2>4, <2>5, <2>6 DEF ThreadTypes
  <2>8. PacketTypes'
    <3>1. \A u \in Threads : pc[u] = "push" => pc'[u] = "push"
      BY <1>1, <1>2, <1>4 DEF ThreadTypes
    <3> QED BY <1>1, <1>3, <3>1 DEF PacketTypes
  <2> QED BY <1>1, <1>3, <2>7, <2>8, TypesNext
<1>6. ThreadInv(t)'
  <2>1. /\ instruction'[t] = i /\ frame'[t] = NewFrame /\ outcome'[t] = "NONE"
        /\ pc'[t] = IF i.type = "block" THEN "check" ELSE "fetch"
    BY <1>1, <1>2, <1>3, <1>4 DEF ThreadTypes
  <2> QED BY <1>4, <2>1, BeginsAnew
<1>7. ASSUME NEW u \in Threads, u # t PROVE ThreadInv(u)'
  <2>1. Same(u)
    BY <1>1, <1>3, <1>4, <1>7 DEF Same, ThreadTypes
  <2>2. ThreadInv(u) /\ u # NONE
    BY HandlersAssumption DEF Inv
  <2>3. Follows(u)
    BY <1>4, <1>7, <2>1, <2>2, WatchFollows DEF ThreadInv
  <2> QED BY <2>1, <2>2, <2>3, Bystander
<1> QED BY <1>5, <1>6, <1>7 DEF Inv

LEMMA PollStep ==
  ASSUME Inv, NEW t \in Threads, Poll(t)
  PROVE  Inv'
<1>1. Parametric(memory, peer) /\ ThreadTypes /\ PacketTypes /\ changes \in 0 .. MaxChanges /\ undefined \in BOOLEAN
  BY Types DEF Inv
<1>2. pc[t] = "check" /\ instruction[t] \in Instructions[t] /\ outcome[t] = "NONE"
  BY DEF Inv, ThreadInv, Placed, Poll, At
<1>3. UNCHANGED <<memory, peer, requests, acked, instruction, left, runs, changes, undefined, outcome>>
      /\ frame' = [frame EXCEPT ![t] = NewFrame] /\ pc' = [pc EXCEPT ![t] = "fetch"] /\ Watch(NONE, t)
  BY DEF Poll, shared, network, rest, Goto
<1>4. TypeOK'
  <2>1. seen' \in [Threads -> [{"a", "b"} -> SUBSET Buffers]]
    BY <1>1, <1>3, WatchType DEF ThreadTypes
  <2>2. pc' \in [Threads -> Places] /\ frame' \in [Threads -> Frames]
    BY <1>1, <1>3, FirstFrame DEF ThreadTypes, Places
  <2>3. ThreadTypes'
    BY <1>1, <1>3, <2>1, <2>2 DEF ThreadTypes
  <2>4. PacketTypes'
    <3>1. \A u \in Threads : pc[u] = "push" => pc'[u] = "push"
      BY <1>1, <1>2, <1>3 DEF ThreadTypes
    <3> QED BY <1>1, <1>3, <3>1 DEF PacketTypes
  <2> QED BY <1>1, <1>3, <2>3, <2>4, TypesNext
<1>5. ThreadInv(t)'
  <2>1. /\ instruction'[t] \in Instructions[t] /\ frame'[t] = NewFrame /\ outcome'[t] = "NONE" /\ pc'[t] = "fetch"
    BY <1>1, <1>2, <1>3 DEF ThreadTypes
  <2> QED BY <1>3, <2>1, BeginsAnew
<1>6. ASSUME NEW u \in Threads, u # t PROVE ThreadInv(u)'
  <2>1. Same(u)
    BY <1>1, <1>3, <1>6 DEF Same, ThreadTypes
  <2>2. ThreadInv(u) /\ u # NONE
    BY HandlersAssumption DEF Inv
  <2>3. Follows(u)
    BY <1>3, <1>6, <2>1, <2>2, WatchFollows DEF ThreadInv
  <2> QED BY <2>1, <2>2, <2>3, Bystander
<1> QED BY <1>4, <1>5, <1>6 DEF Inv

LEMMA PullServedStep ==
  ASSUME Inv, NEW t \in Threads, PullServed(t)
  PROVE  Inv'
<1>1. Parametric(memory, peer) /\ ThreadTypes /\ PacketTypes /\ undefined \in BOOLEAN /\ ThreadInv(t)
  BY Types DEF Inv
<1>2. /\ pc[t] = "fetch" /\ Wanted(t) \in P /\ ~Local(Wanted(t)) /\ peer[Wanted(t)] \in Values(Wanted(t))
      /\ Set(t, "reply", peer[Wanted(t)]) /\ pc' = [pc EXCEPT ![t] = "pulled"]
      /\ UNCHANGED <<memory, peer, seen, runs, outcome, instruction, left, changes, requests, acked, undefined>>
  BY <1>1 DEF PullServed, At, Goto, shared, network, rest, Parametric
<1>3. /\ \A u \in Threads \ {t} : frame'[u] = frame[u]
      /\ frame'[t].reply = peer[Wanted(t)]
      /\ \A f \in {"step", "a", "b", "result", "flag"} : frame'[t][f] = frame[t][f]
      /\ frame' \in [Threads -> Frames]
  BY <1>1, <1>2, SetIs, ValuesAre DEF ThreadTypes
<1>4. pc' \in [Threads -> Places] /\ pc'[t] = "pulled" /\ \A u \in Threads \ {t} : pc'[u] = pc[u]
  BY <1>1, <1>2 DEF ThreadTypes, Places
<1>5. Quiet(t) /\ PacketTypes' /\ undefined' \in BOOLEAN
  BY <1>1, <1>2, <1>3, <1>4 DEF Quiet, PacketTypes
<1>6. ThreadInv(t)'
  <2>1. /\ instruction[t] \in Instructions[t] /\ instruction'[t] = instruction[t] /\ outcome'[t] = outcome[t]
        /\ frame'[t].step = frame[t].step /\ frame[t].step \in DOMAIN Fetches(instruction[t])
    BY <1>1, <1>2, <1>3 DEF ThreadInv, Placed, Fetching
  <2>2. Use(t)' = Use(t) /\ Wanted(t)' = Wanted(t)
    BY <2>1 DEF Use, Wanted
  <2>3. Placed(t)'
    BY <1>1, <1>2, <1>4, <2>1, <2>2 DEF ThreadInv, Placed, Fetching, Storing
  <2>4. \A which \in Needs(instruction'[t]) : Origin(t, which)'
    <3> SUFFICES ASSUME NEW which \in Needs(instruction[t]) PROVE Origin(t, which)'
      BY <2>1
    <3>1. which \in {"a", "b"}
      BY <2>1, InstructionIs
    <3>2. Fetched(t, which)' => Fetched(t, which) /\ frame'[t][which] = frame[t][which]
      BY <1>3, <2>1, <3>1 DEF Fetched
    <3> QED BY <1>1, <1>2, <2>1, <3>2, OriginKept DEF ThreadInv
  <2>5. Arriving(t)'
    <3>1. Use(t) \in {"a", "b"} => peer[Wanted(t)] \in seen[t][Use(t)]
      <4> SUFFICES ASSUME Use(t) \in {"a", "b"} PROVE peer[Wanted(t)] \in seen[t][Use(t)]
        OBVIOUS
      <4>1. Wanted(t) = OperandOf(instruction[t], Use(t)) /\ Use(t) \in Needs(instruction[t])
        BY <2>1, WantedIs
      <4>2. Origin(t, Use(t))
        BY <1>1, <1>2, <4>1 DEF ThreadInv, Watched
      <4> QED BY <1>2, <4>1, <4>2 DEF Origin, Home
    <3> QED BY <1>2, <1>3, <1>4, <2>2, <3>1 DEF Arriving
  <2>6. Calculated(t)'
    <3>1. instruction[t].type \in {"unop", "binop"} /\ Use(t) = "result" => Right(t, frame[t].result)
      BY <1>1, <1>2 DEF ThreadInv, Calculated, Fetching
    <3>2. instruction[t].type \in {"unop", "binop"} /\ Use(t) = "result" => Right(t, frame[t].result)'
      <4> SUFFICES ASSUME instruction[t].type \in {"unop", "binop"}, Use(t) = "result"
                   PROVE Right(t, frame[t].result)'
        OBVIOUS
      <4>1. PICK r : r = frame[t].result /\ r = frame'[t].result
        BY <1>3
      <4>2. Right(t, r)'
        BY <1>2, <2>1, <3>1, <4>1, RightKept
      <4> QED BY <4>1, <4>2
    <3> QED BY <1>4, <2>1, <2>2, <3>2 DEF Calculated, Storing
  <2>7. Met(t)'
    BY <1>4 DEF Met
  <2> QED BY <2>3, <2>4, <2>5, <2>6, <2>7 DEF ThreadInv, Watched
<1> QED BY <1>3, <1>4, <1>5, <1>6, QuietStep

LEMMA PullAppliedStep ==
  ASSUME Inv, NEW t \in Threads, PullApplied(t)
  PROVE  Inv'
<1>1. Parametric(memory, peer) /\ ThreadTypes /\ PacketTypes /\ changes \in 0 .. MaxChanges /\ undefined \in BOOLEAN
      /\ ThreadInv(t)
  BY Types DEF Inv
<1>2. /\ pc[t] = "pulled" /\ Wanted(t) \in P /\ ~Local(Wanted(t)) /\ frame[t].reply \in Values(Wanted(t))
      /\ memory' = [memory EXCEPT ![Wanted(t)] = frame[t].reply]
      /\ Set(t, "reply", 0) /\ pc' = [pc EXCEPT ![t] = "read"] /\ Watch(t, NONE)
      /\ UNCHANGED <<peer, runs, outcome, instruction, left, changes, requests, acked, undefined>>
  BY <1>1 DEF PullApplied, At, Goto, network, rest, ThreadInv, Placed, Watched, Arriving
<1>3. /\ \A u \in Threads \ {t} : frame'[u] = frame[u]
      /\ \A f \in {"step", "a", "b", "result", "flag"} : frame'[t][f] = frame[t][f]
      /\ frame' \in [Threads -> Frames]
  BY <1>1, <1>2, SetIs, Zeros DEF ThreadTypes
<1>4. pc' \in [Threads -> Places] /\ pc'[t] = "read" /\ \A u \in Threads \ {t} : pc'[u] = pc[u]
  BY <1>1, <1>2 DEF ThreadTypes, Places
<1>5. Parametric(memory', peer') /\ memory'[Wanted(t)] = frame[t].reply
  BY <1>1, <1>2 DEF Parametric
<1>6. TypeOK'
  <2>1. seen' \in [Threads -> [{"a", "b"} -> SUBSET Buffers]]
    BY <1>1, <1>2, <1>5, WatchType DEF ThreadTypes
  <2>2. ThreadTypes'
    BY <1>1, <1>2, <1>3, <1>4, <2>1 DEF ThreadTypes
  <2>3. PacketTypes'
    BY <1>1, <1>2, <1>4 DEF PacketTypes
  <2> QED BY <1>1, <1>2, <1>5, <2>2, <2>3, TypesNext
<1>7. ThreadInv(t)'
  <2>1. /\ instruction[t] \in Instructions[t] /\ instruction'[t] = instruction[t] /\ outcome'[t] = outcome[t]
        /\ frame'[t].step = frame[t].step /\ frame[t].step \in DOMAIN Fetches(instruction[t])
    BY <1>1, <1>2, <1>3 DEF ThreadInv, Placed, Fetching
  <2>2. Use(t)' = Use(t) /\ Wanted(t)' = Wanted(t)
    BY <2>1 DEF Use, Wanted
  <2>3. Placed(t)'
    BY <1>1, <1>2, <1>4, <2>1, <2>2 DEF ThreadInv, Placed, Fetching, Storing
  <2>4. ASSUME NEW which \in Needs(instruction[t]), OperandOf(instruction[t], which) \in P
        PROVE  /\ NewHome(OperandOf(instruction[t], which)) \in seen'[t][which]
               /\ seen[t][which] \subseteq seen'[t][which]
    <3>1. t # NONE /\ pc'[t] # "idle"
      BY <1>4, HandlersAssumption
    <3> QED BY <1>2, <2>1, <2>4, <3>1, WatchShows
  <2>5. ASSUME NEW which \in Needs(instruction[t]), Fetched(t, which)
        PROVE  OperandOf(instruction[t], which) \in P /\ Witnessed(t, which) \subseteq Witnessed(t, which)'
    <3>1. OperandOf(instruction[t], which) \in P
      BY <1>1, <1>2, <2>5 DEF ThreadInv, Watched, Origin
    <3>2. seen[t][which] \subseteq seen'[t][which]
      BY <2>4, <3>1
    <3> QED BY <2>1, <3>1, <3>2 DEF Witnessed
  <2>6. \A which \in Needs(instruction'[t]) : Origin(t, which)'
    <3> SUFFICES ASSUME NEW which \in Needs(instruction[t]) PROVE Origin(t, which)'
      BY <2>1
    <3>1. which \in {"a", "b"} /\ Origin(t, which)
      BY <1>1, <1>2, <2>1, InstructionIs DEF ThreadInv, Watched
    <3>2. PICK p : p = OperandOf(instruction[t], which) /\ p = OperandOf(instruction'[t], which)
      BY <2>1
    <3>3. p \in P => Home(p)' \in seen'[t][which]
      BY <2>4, <3>2 DEF Home, NewHome
    <3>4. Fetched(t, which)' => Fetched(t, which) /\ frame'[t][which] = frame[t][which]
      BY <1>3, <2>1, <3>1 DEF Fetched
    <3>5. Fetched(t, which) => p \in P /\ IsOperand(Type(p), frame[t][which]) /\ frame[t][which] \in Witnessed(t, which)'
      BY <2>5, <3>1, <3>2 DEF Origin
    <3> QED BY <3>2, <3>3, <3>4, <3>5 DEF Origin, Home
  <2>7. Arriving(t)'
    <3>1. Use(t) \in {"a", "b"} => frame[t].reply \in seen'[t][Use(t)]
      <4> SUFFICES ASSUME Use(t) \in {"a", "b"} PROVE frame[t].reply \in seen'[t][Use(t)]
        OBVIOUS
      <4>1. Wanted(t) = OperandOf(instruction[t], Use(t)) /\ Use(t) \in Needs(instruction[t])
        BY <2>1, WantedIs
      <4>2. frame[t].reply \in seen[t][Use(t)]
        BY <1>1, <1>2 DEF ThreadInv, Watched, Arriving, Fetching
      <4> QED BY <1>2, <2>4, <4>1, <4>2
    <3> QED BY <1>4, <1>5, <2>2, <3>1 DEF Arriving
  <2>8. Calculated(t)'
    <3>1. ASSUME instruction[t].type \in {"unop", "binop"}, Use(t) = "result"
          PROVE  Right(t, frame[t].result)'
      <4>1. PICK r : r = frame[t].result /\ r = frame'[t].result
        BY <1>3
      <4>2. Right(t, r)
        BY <1>1, <1>2, <3>1, <4>1 DEF ThreadInv, Calculated, Fetching
      <4>3. \A which \in Needs(instruction[t]) : Fetched(t, which)
        BY <1>1, <1>2, <2>1, <3>1, AllFetched DEF ThreadInv
      <4>4. Right(t, r)'
        BY <2>1, <2>5, <3>1, <4>2, <4>3, RightGrows
      <4> QED BY <4>1, <4>4
    <3> QED BY <1>4, <2>1, <2>2, <3>1 DEF Calculated, Storing
  <2>9. Met(t)'
    BY <1>4 DEF Met
  <2> QED BY <2>3, <2>6, <2>7, <2>8, <2>9 DEF ThreadInv, Watched
<1>8. ASSUME NEW u \in Threads, u # t PROVE ThreadInv(u)'
  <2>1. Same(u)
    BY <1>2, <1>3, <1>4, <1>8 DEF Same
  <2>2. ThreadInv(u) /\ u # NONE
    BY HandlersAssumption DEF Inv
  <2>3. Follows(u)
    BY <1>2, <1>8, <2>1, <2>2, WatchFollows DEF ThreadInv
  <2> QED BY <2>1, <2>2, <2>3, Bystander
<1> QED BY <1>6, <1>7, <1>8 DEF Inv

LEMMA LookingIs ==
  ASSUME Inv, NEW t \in Threads, Fetching(t), Use(t) = "look"
  PROVE  /\ instruction[t] \in Instructions[t] /\ frame[t].step \in {1, 2}
         /\ Compares(instruction[t]) /\ Len(Fetches(instruction[t])) = 4
<1>1. instruction[t] \in Instructions[t] /\ frame[t].step \in DOMAIN Fetches(instruction[t])
  BY DEF Inv, ThreadInv, Placed, Fetching
<1> QED BY <1>1, FetchesAre DEF Use

\* A comparison goes on after a look at a parameter, or after the fetch of the
\* first one has failed.
LEMMA LookedStep ==
  ASSUME Inv, NEW t \in Threads, Fetching(t), Use(t) = "look", Goto(t, "fetch"),
         frame' \in [Threads -> Frames], \A u \in Threads \ {t} : frame'[u] = frame[u],
         frame'[t].step = frame[t].step + 1, UNCHANGED <<shared, network, rest, outcome, seen>>
  PROVE  Inv'
<1>1. Parametric(memory, peer) /\ ThreadTypes /\ PacketTypes /\ undefined \in BOOLEAN /\ ThreadInv(t)
  BY Types DEF Inv
<1>2. /\ pc[t] \in {"fetch", "pulled", "read"} /\ pc' = [pc EXCEPT ![t] = "fetch"]
      /\ UNCHANGED <<memory, peer, seen, runs, outcome, instruction, left, changes, requests, acked, undefined>>
  BY DEF Fetching, Goto, shared, network, rest
<1>3. /\ instruction[t] \in Instructions[t] /\ frame[t].step \in {1, 2}
      /\ Compares(instruction[t]) /\ Len(Fetches(instruction[t])) = 4
  BY LookingIs
<1>4. /\ \A u \in Threads \ {t} : frame'[u] = frame[u]
      /\ frame'[t].step = frame[t].step + 1 /\ frame' \in [Threads -> Frames]
  OBVIOUS
<1>5. pc' \in [Threads -> Places] /\ pc'[t] = "fetch" /\ \A u \in Threads \ {t} : pc'[u] = pc[u]
  BY <1>1, <1>2 DEF ThreadTypes, Places
<1>6. Quiet(t) /\ PacketTypes' /\ undefined' \in BOOLEAN
  BY <1>1, <1>2, <1>4, <1>5 DEF Quiet, PacketTypes
<1>7. ThreadInv(t)'
  <2>1. instruction'[t] = instruction[t] /\ outcome'[t] = outcome[t]
    BY <1>2
  <2>2. frame'[t].step \in DOMAIN Fetches(instruction[t])
    BY <1>3, <1>4, FetchesAre
  <2>3. Placed(t)'
    BY <1>1, <1>2, <1>3, <1>5, <2>1, <2>2 DEF ThreadInv, Placed, Fetching, Storing
  <2>4. \A which \in Needs(instruction'[t]) : Origin(t, which)'
    <3> SUFFICES ASSUME NEW which \in Needs(instruction[t]) PROVE Origin(t, which)'
      BY <2>1
    <3>1. Turn(instruction[t], which) \in {3, 4}
      BY <1>3 DEF Turn
    <3>2. ~ Fetched(t, which)'
      BY <1>3, <1>4, <2>1, <3>1 DEF Fetched
    <3>3. pc[t] # "idle" /\ Watched(t)
      BY <1>1, <1>2 DEF ThreadInv
    <3> QED BY <1>2, <2>1, <3>2, <3>3, OriginKept
  <2>5. Arriving(t)' /\ Met(t)'
    BY <1>5 DEF Arriving, Met
  <2>6. Calculated(t)'
    BY <1>3, <1>5, <2>1 DEF Calculated, Storing, Compares
  <2> QED BY <2>3, <2>4, <2>5, <2>6 DEF ThreadInv, Watched
<1> QED BY <1>4, <1>5, <1>6, <1>7, QuietStep

LEMMA LookStep ==
  ASSUME Inv, NEW t \in Threads, Look(t)
  PROVE  Inv'
<1>1. /\ Fetching(t) /\ Use(t) = "look" /\ Goto(t, "fetch") /\ Set(t, "step", frame[t].step + 1)
      /\ UNCHANGED <<shared, network, rest, outcome, seen>>
  BY DEF Look, AtHand, At, Fetching
<1>2. frame[t].step + 1 \in 1 .. 5
  BY <1>1, LookingIs
<1>3. frame \in [Threads -> Frames]
  BY Types DEF Inv, ThreadTypes
<1>4. /\ \A u \in Threads \ {t} : frame'[u] = frame[u]
      /\ frame'[t].step = frame[t].step + 1 /\ frame' \in [Threads -> Frames]
  BY <1>1, <1>2, <1>3, SetIs
<1> QED BY <1>1, <1>4, LookedStep

\* A fetch that fails ends the handler or, at the first look, goes on.
LEMMA NullStep ==
  ASSUME Inv, NEW t \in Threads, Fetching(t), Null(t)
  PROVE  Inv'
<1>1. CASE Fails(t)
  BY <1>1, EndsStep DEF Fails, Fetching
<1>2. CASE Use(t) = "look" /\ frame[t].step = 1 /\ LooksOn(t)
  <2>1. frame \in [Threads -> Frames]
    BY Types DEF Inv, ThreadTypes
  <2>2. PICK f : f = [NewFrame EXCEPT !.step = 2, !.flag = "ERR"]
    OBVIOUS
  <2>3. f \in Frames /\ f.step = 2
    <3>1. f = [step |-> 2, reply |-> 0, a |-> 0, b |-> 0, result |-> 0, flag |-> "ERR"]
      BY <2>2 DEF NewFrame
    <3> QED BY <3>1, Zeros DEF Frames
  <2>4. frame' = [frame EXCEPT ![t] = f]
    BY <1>2, <2>2 DEF LooksOn
  <2>5. /\ frame' \in [Threads -> Frames] /\ \A u \in Threads \ {t} : frame'[u] = frame[u]
        /\ frame'[t].step = frame[t].step + 1
    BY <1>2, <2>1, <2>3, <2>4
  <2> QED BY <1>2, <2>5, LookedStep DEF LooksOn
<1> QED BY <1>1, <1>2 DEF Null

\* A parameter that is read is at hand and is what was seen.
LEMMA AtHandIs ==
  ASSUME Inv, NEW t \in Threads, AtHand(t)
  PROVE  /\ pc[t] \in {"fetch", "read"} /\ ~undefined /\ Wanted(t) \in P
         /\ instruction[t] \in Instructions[t] /\ frame[t].step \in DOMAIN Fetches(instruction[t])
         /\ memory[Wanted(t)] \in Values(Wanted(t))
         /\ Use(t) \in {"a", "b"} => memory[Wanted(t)] \in seen[t][Use(t)]
<1>1. Parametric(memory, peer) /\ ThreadInv(t)
  BY Types DEF Inv
<1>2. pc[t] \in {"fetch", "read"} /\ ~undefined /\ Wanted(t) \in P /\ (pc[t] = "fetch" => Local(Wanted(t)))
  BY <1>1 DEF AtHand, At, ThreadInv, Placed
<1>3. instruction[t] \in Instructions[t] /\ frame[t].step \in DOMAIN Fetches(instruction[t])
  BY <1>1, <1>2 DEF ThreadInv, Placed, Fetching
<1>4. ASSUME Use(t) \in {"a", "b"} PROVE memory[Wanted(t)] \in seen[t][Use(t)]
  <2>1. CASE pc[t] = "read"
    BY <1>1, <1>4, <2>1 DEF ThreadInv, Watched, Arriving, Fetching
  <2>2. CASE pc[t] = "fetch"
    <3>1. Wanted(t) = OperandOf(instruction[t], Use(t)) /\ Use(t) \in Needs(instruction[t])
      BY <1>3, <1>4, WantedIs
    <3>2. Origin(t, Use(t))
      BY <1>1, <2>2, <3>1 DEF ThreadInv, Watched
    <3> QED BY <1>2, <2>2, <3>1, <3>2 DEF Origin, Home
  <2> QED BY <1>2, <2>1, <2>2
<1> QED BY <1>1, <1>2, <1>3, <1>4 DEF Parametric

LEMMA ParseStep ==
  ASSUME Inv, NEW t \in Threads, Parse(t)
  PROVE  Inv'
<1>1. Parametric(memory, peer) /\ ThreadTypes /\ PacketTypes /\ undefined \in BOOLEAN /\ ThreadInv(t)
  BY Types DEF Inv
<1>2. PICK which, v, p, i :
        /\ which = Use(t) /\ which \in {"a", "b"} /\ p = Wanted(t) /\ i = instruction[t]
        /\ v = Parsed(Type(p), memory[p]) /\ Kind(Type(p)) # "NONE"
        /\ pc' = [pc EXCEPT ![t] = IF which = "b" \/ i.type = "unop" THEN "compute" ELSE "fetch"]
        /\ UNCHANGED <<memory, peer, seen, runs, outcome, instruction, left, changes, requests, acked, undefined>>
  BY DEF Parse, Goto, shared, network, rest
<1>20. frame' = [frame EXCEPT ![t][which] = v, ![t].step = @ + 1]
  BY <1>2 DEF Parse
<1>3. /\ pc[t] \in {"fetch", "read"} /\ p \in P /\ i \in Instructions[t]
      /\ frame[t].step \in DOMAIN Fetches(i) /\ memory[p] \in Values(p) /\ memory[p] \in seen[t][which]
  BY <1>2, AtHandIs DEF Parse
<1>4. which \in Needs(i) /\ frame[t].step = Turn(i, which) /\ p = OperandOf(i, which)
  BY <1>2, <1>3, WantedIs
<1>5. v \in Numbers /\ IsOperand(Type(p), v)
  <2>1. Type(p) \in DOMAIN Bits /\ memory[p] \in Raw(Type(p))
    BY <1>3, ValuesAre DEF Values
  <2>2. Kind(Type(p)) \in {"UINT", "INT", "FLOAT"}
    BY <1>2 DEF Kind
  <2> QED BY <1>2, <2>1, <2>2, ParsedIs DEF IsOperand
<1>6. frame[t].step \in 1 .. 4 /\ frame[t].step + 1 \in 1 .. 5
  BY <1>3, FetchesAre
<1>7. /\ \A u \in Threads \ {t} : frame'[u] = frame[u]
      /\ frame'[t].step = frame[t].step + 1 /\ frame'[t][which] = v
      /\ \A f \in {"a", "b", "result"} \ {which} : frame'[t][f] = frame[t][f]
      /\ frame' \in [Threads -> Frames]
  <2>1. PICK f \in Frames : f = frame[t]
    BY <1>1 DEF ThreadTypes
  <2>2. PICK g : g = [f EXCEPT ![which] = v, !.step = f.step + 1]
    OBVIOUS
  <2>3. frame' = [frame EXCEPT ![t] = g]
    BY <1>1, <1>20, <2>1, <2>2 DEF ThreadTypes
  <2>4. DOMAIN f = {"step", "reply", "a", "b", "result", "flag"}
    BY DEF Frames
  <2>5. g.step = f.step + 1 /\ g[which] = v /\ \A h \in {"a", "b", "result"} \ {which} : g[h] = f[h]
    BY <1>2, <2>2, <2>4
  <2>6. g \in Frames
    BY <1>2, <1>5, <1>6, <2>1, <2>2, FrameChanges
  <2> QED BY <1>1, <2>1, <2>3, <2>5, <2>6 DEF ThreadTypes
<1>8. /\ pc' \in [Threads -> Places] /\ \A u \in Threads \ {t} : pc'[u] = pc[u]
      /\ pc'[t] = IF which = "b" \/ i.type = "unop" THEN "compute" ELSE "fetch"
  BY <1>1, <1>2 DEF ThreadTypes, Places
<1>9. Quiet(t) /\ PacketTypes' /\ undefined' \in BOOLEAN
  BY <1>1, <1>2, <1>3, <1>7, <1>8 DEF Quiet, PacketTypes
<1>10. ThreadInv(t)'
  <2>1. instruction'[t] = i /\ instruction[t] = i /\ outcome'[t] = outcome[t] /\ outcome[t] = "NONE"
    BY <1>1, <1>2, <1>3 DEF ThreadInv, Placed
  <2>2. ASSUME NEW w \in Needs(i), frame'[t].step > Turn(i, w)
        PROVE  w = which \/ (Fetched(t, w) /\ frame'[t][w] = frame[t][w])
    <3>1. w \in {"a", "b"} /\ Turn(i, w) \in {1, 2, 3, 4}
      BY <1>3, InstructionIs, FetchesAre
    <3>2. CASE which = "a" /\ w = "b"
      BY <1>4, <1>7, <2>2, <3>2 DEF Turn
    <3>3. CASE which = "b" /\ w = "a"
      <4>1. Turn(i, "b") > Turn(i, "a")
        BY DEF Turn
      <4>2. frame[t].step > Turn(i, w)
        BY <1>4, <3>3, <4>1
      <4>3. frame'[t][w] = frame[t][w]
        BY <1>7, <3>3
      <4>4. Fetched(t, w)
        BY <2>1, <4>2 DEF Fetched
      <4> QED BY <4>3, <4>4
    <3> QED BY <1>2, <3>1, <3>2, <3>3
  <2>3. \A w \in Needs(instruction'[t]) : Origin(t, w)'
    <3> SUFFICES ASSUME NEW w \in Needs(i) PROVE Origin(t, w)'
      BY <2>1
    <3>1. CASE w = which
      <4>1. v \in Witnessed(t, which)'
        BY <1>2, <1>3, <1>4, <2>1 DEF Witnessed
      <4>2. Origin(t, which)
        BY <1>1, <1>3, <1>4, <2>1 DEF ThreadInv, Watched
      <4>3. Home(p) \in seen'[t][which]
        BY <1>2, <1>3, <1>4, <2>1, <4>2 DEF Origin
      <4>4. Home(p)' = Home(p)
        BY <1>2 DEF Home
      <4> QED BY <1>2, <1>3, <1>4, <1>5, <1>7, <2>1, <3>1, <4>1, <4>3, <4>4 DEF Origin, Home
    <3>2. CASE w # which
      <4>1. Fetched(t, w)' => Fetched(t, w) /\ frame'[t][w] = frame[t][w]
        BY <2>1, <2>2, <3>2 DEF Fetched
      <4>2. pc[t] # "idle" /\ Watched(t)
        BY <1>1, <1>3 DEF ThreadInv
      <4> QED BY <1>2, <2>1, <4>1, <4>2, OriginKept
    <3> QED BY <3>1, <3>2
  <2>4. CASE pc'[t] = "compute"
    <3>1. which = "b" \/ i.type = "unop"
      BY <1>8, <2>4
    <3>2. \A w \in Needs(i) : frame'[t].step > Turn(i, w)
      <4>1. i.type = "unop" => Needs(i) = {"a"}
        BY DEF Needs
      <4>2. Turn(i, "a") < Turn(i, "b") /\ Turn(i, "a") \in Int /\ Turn(i, "b") \in Int
        BY DEF Turn
      <4>3. \A w \in Needs(i) : w = which \/ (w = "a" /\ which = "b")
        BY <1>2, <1>3, <1>4, <3>1, <4>1, InstructionIs
      <4> QED BY <1>4, <1>6, <1>7, <4>2, <4>3
    <3>3. i.type # "set"
      BY <1>4 DEF Needs
    <3>4. ~Compares(i) => frame'[t].step = Len(Fetches(i))
      <4>1. CASE i.type = "unop"
        <5>1. which = "a" /\ Len(Fetches(i)) = 2 /\ ~Compares(i)
          BY <1>3, <1>4, <4>1, FetchesAre DEF Needs, Compares
        <5> QED BY <1>4, <1>7, <5>1 DEF Turn
      <4>2. CASE i.type = "binop"
        <5>1. which = "b" /\ Len(Fetches(i)) = 3 /\ ~Compares(i)
          BY <1>3, <3>1, <4>2, FetchesAre DEF Compares
        <5> QED BY <1>4, <1>7, <5>1 DEF Turn
      <4> QED BY <1>3, <3>3, <4>1, <4>2, InstructionIs DEF Compares
    <3>5. Placed(t)'
      BY <1>3, <2>1, <2>4, <3>2, <3>3, <3>4 DEF Placed, Fetching, Storing, Fetched
    <3>6. Arriving(t)' /\ Calculated(t)' /\ Met(t)'
      BY <2>4 DEF Arriving, Calculated, Met, Fetching, Storing
    <3> QED BY <2>3, <3>5, <3>6 DEF ThreadInv, Watched
  <2>5. CASE pc'[t] = "fetch"
    <3>1. which = "a" /\ i.type \in {"binop", "ifelse", "block"}
      <4>1. i.type # "set"
        BY <1>4 DEF Needs
      <4> QED BY <1>2, <1>3, <1>8, <2>5, <4>1, InstructionIs
    <3>2. frame'[t].step \in DOMAIN Fetches(i) /\ (i.type = "binop" => frame'[t].step # Len(Fetches(i)))
      <4>1. i.type = "binop" => frame'[t].step = 2 /\ Len(Fetches(i)) = 3
        BY <1>3, <1>4, <1>7, <3>1, FetchesAre DEF Turn, Compares
      <4>2. i.type \in {"ifelse", "block"} => frame'[t].step = 4 /\ Len(Fetches(i)) = 4
        BY <1>3, <1>4, <1>7, <3>1, FetchesAre DEF Turn, Compares
      <4> QED BY <1>3, <3>1, <4>1, <4>2, FetchesAre
    <3>3. Placed(t)'
      BY <1>3, <2>1, <2>5, <3>2 DEF Placed, Fetching, Storing
    <3>4. Arriving(t)' /\ Met(t)'
      BY <2>5 DEF Arriving, Met
    <3>5. i.type \in {"unop", "binop"} => Use(t)' # "result"
      BY <1>3, <2>1, <3>1, <3>2, FetchesAre DEF Use
    <3>6. Calculated(t)'
      BY <2>1, <2>5, <3>5 DEF Calculated, Storing
    <3> QED BY <2>3, <3>3, <3>4, <3>6 DEF ThreadInv, Watched
  <2> QED BY <1>8, <2>4, <2>5
<1> QED BY <1>7, <1>8, <1>9, <1>10, QuietStep

\* Computing: the operands are numbers that were seen.
LEMMA OperandsAre ==
  ASSUME Inv, NEW t \in Threads, pc[t] = "compute", NEW which \in Needs(instruction[t])
  PROVE  /\ OperandOf(instruction[t], which) \in P /\ OperandType(t, which) \in DOMAIN Bits
         /\ Kind(OperandType(t, which)) \in {"UINT", "INT", "FLOAT"}
         /\ frame[t][which] \in Witnessed(t, which) /\ frame[t][which] \in Numbers
         /\ Kind(OperandType(t, which)) \in {"UINT", "INT"} =>
                frame[t][which] \in Operands(Kind(OperandType(t, which)))
<1>1. Parametric(memory, peer) /\ ThreadTypes /\ ThreadInv(t) /\ instruction[t] \in Instructions[t]
  BY Types DEF Inv, ThreadInv, Placed
<1>2. Fetched(t, which)
  BY <1>1 DEF ThreadInv, Placed
<1>3. PICK p : p = OperandOf(instruction[t], which)
  OBVIOUS
<1>4. p \in P /\ IsOperand(Type(p), frame[t][which]) /\ frame[t][which] \in Witnessed(t, which)
  BY <1>1, <1>2, <1>3 DEF ThreadInv, Watched, Origin
<1>5. OperandType(t, which) = Type(p) /\ Type(p) \in DOMAIN Bits
  BY <1>3, <1>4, ValuesAre DEF OperandType
<1>6. Kind(Type(p)) \in {"UINT", "INT", "FLOAT"}
  BY <1>4 DEF Kind, IsOperand
<1>7. which \in {"a", "b"} /\ frame[t] \in Frames
  BY <1>1, InstructionIs DEF ThreadTypes
<1>8. frame[t][which] \in Numbers
  BY <1>7 DEF Frames
<1> QED BY <1>3, <1>4, <1>5, <1>6, <1>8 DEF IsOperand

\* Nothing changes but that behaviour is undefined.
LEMMA UndefinedStep ==
  ASSUME Inv, UndefinedBehaviour
  PROVE  Inv'
<1>1. Parametric(memory, peer) /\ ThreadTypes /\ PacketTypes /\ changes \in 0 .. MaxChanges
  BY Types DEF Inv
<1>2. /\ UNCHANGED <<memory, peer, pc, frame, outcome, requests, acked, instruction, left, runs, changes, seen>>
      /\ undefined' = TRUE
  BY DEF UndefinedBehaviour, shared, progress, network
<1>3. TypeOK'
  <2>1. ThreadTypes' /\ PacketTypes'
    BY <1>1, <1>2 DEF ThreadTypes, PacketTypes
  <2> QED BY <1>1, <1>2, <2>1, TypesNext
<1>4. ASSUME NEW u \in Threads PROVE ThreadInv(u)'
  <2>1. Same(u)
    BY <1>2 DEF Same
  <2>2. ThreadInv(u)
    BY DEF Inv
  <2>3. Follows(u)
    BY <1>2, <2>2, NothingToFollow DEF ThreadInv
  <2> QED BY <2>1, <2>2, <2>3, Bystander
<1> QED BY <1>3, <1>4 DEF Inv

LEMMA ComputedStep ==
  ASSUME Inv, NEW t \in Threads, pc[t] = "compute", instruction[t].type \in {"unop", "binop"},
         NEW value, Computed(t, value),
         LET kind == Kind(OperandType(t, "a"))
         IN  kind # "FLOAT" /\ ~Overflows(kind, value) => Right(t, Written(OperandType(t, "a"), Wrapped(kind, value)))
  PROVE  Inv'
<1>1. Parametric(memory, peer) /\ ThreadTypes /\ PacketTypes /\ undefined \in BOOLEAN /\ ThreadInv(t)
      /\ instruction[t] \in Instructions[t] /\ ~Compares(instruction[t])
      /\ frame[t].step = Len(Fetches(instruction[t]))
  BY Types DEF Inv, ThreadInv, Placed, Compares
<1>2. CASE UndefinedBehaviour
  BY <1>2, UndefinedStep
<1>3. CASE ~UndefinedBehaviour
  <2>1. PICK buffer :
          /\ Right(t, buffer) /\ buffer \in Raw(OperandType(t, "a")) /\ Set(t, "result", buffer)
          /\ pc' = [pc EXCEPT ![t] = "fetch"]
          /\ UNCHANGED <<memory, peer, seen, runs, outcome, instruction, left, changes, requests, acked, undefined>>
    <3>1. PICK type, kind : type = OperandType(t, "a") /\ kind = Kind(type)
      OBVIOUS
    <3>2. /\ ~(kind # "FLOAT" /\ Overflows(kind, value))
          /\ pc' = [pc EXCEPT ![t] = "fetch"]
          /\ UNCHANGED <<memory, peer, seen, runs, outcome, instruction, left, changes, requests, acked, undefined>>
          /\ \E buffer \in IF kind = "FLOAT" THEN Raw(type) ELSE {Written(type, Wrapped(kind, value))} :
                Set(t, "result", buffer)
      BY <1>3, <3>1 DEF Computed, Goto, shared, network, rest
    <3>3. PICK buffer \in IF kind = "FLOAT" THEN Raw(type) ELSE {Written(type, Wrapped(kind, value))} :
                Set(t, "result", buffer)
      BY <3>2
    <3>4. CASE kind = "FLOAT"
      <4>1. Right(t, buffer) /\ buffer \in Raw(type)
        BY <3>1, <3>3, <3>4 DEF Right
      <4> QED BY <3>1, <3>2, <3>3, <4>1
    <3>5. CASE kind # "FLOAT"
      <4>1. Right(t, buffer)
        BY <3>1, <3>2, <3>3, <3>5
      <4>2. buffer \in Raw(type)
        BY <3>1, <4>1 DEF Right
      <4> QED BY <3>1, <3>2, <3>3, <4>1, <4>2
    <3> QED BY <3>4, <3>5
  <2>2. buffer \in Buffers
    <3>1. "a" \in Needs(instruction[t])
      BY DEF Needs
    <3> QED BY <2>1, <3>1, OperandsAre, RawIs
  <2>3. /\ \A u \in Threads \ {t} : frame'[u] = frame[u]
        /\ frame'[t].result = buffer
        /\ \A f \in {"step", "a", "b"} : frame'[t][f] = frame[t][f]
        /\ frame' \in [Threads -> Frames]
    BY <1>1, <2>1, <2>2, SetIs DEF ThreadTypes
  <2>4. pc' \in [Threads -> Places] /\ pc'[t] = "fetch" /\ \A u \in Threads \ {t} : pc'[u] = pc[u]
    BY <1>1, <2>1 DEF ThreadTypes, Places
  <2>5. Quiet(t) /\ PacketTypes' /\ undefined' \in BOOLEAN
    BY <1>1, <2>1, <2>3, <2>4 DEF Quiet, PacketTypes
  <2>6. ThreadInv(t)'
    <3>1. instruction'[t] = instruction[t] /\ outcome'[t] = outcome[t] /\ outcome[t] = "NONE"
          /\ frame'[t].step = frame[t].step
      BY <1>1, <2>1, <2>3 DEF ThreadInv, Placed
    <3>2. frame[t].step \in DOMAIN Fetches(instruction[t])
      BY <1>1, FetchesAre
    <3>3. Placed(t)'
      BY <1>1, <2>4, <3>1, <3>2 DEF Placed, Fetching, Storing
    <3>4. \A which \in Needs(instruction'[t]) : Origin(t, which)'
      <4> SUFFICES ASSUME NEW which \in Needs(instruction[t]) PROVE Origin(t, which)'
        BY <3>1
      <4>1. Fetched(t, which)' => Fetched(t, which) /\ frame'[t][which] = frame[t][which]
        BY <1>1, <2>3, <3>1, InstructionIs DEF Fetched
      <4>2. pc[t] # "idle" /\ Watched(t)
        BY <1>1 DEF ThreadInv
      <4> QED BY <2>1, <3>1, <4>1, <4>2, OriginKept
    <3>5. Arriving(t)' /\ Met(t)'
      BY <2>4 DEF Arriving, Met
    <3>6. Calculated(t)'
      <4>1. Right(t, buffer)'
        BY <2>1, <3>1, RightKept
      <4>2. Right(t, frame[t].result)'
        BY <2>3, <4>1 DEF Right, OperandType, Witnessed
      <4> QED BY <2>4, <4>2 DEF Calculated, Storing
    <3> QED BY <3>3, <3>4, <3>5, <3>6 DEF ThreadInv, Watched
  <2> QED BY <2>3, <2>4, <2>5, <2>6, QuietStep
<1> QED BY <1>2, <1>3

LEMMA UnopStep ==
  ASSUME Inv, NEW t \in Threads, Unop(t)
  PROVE  Inv'
<1>1. pc[t] = "compute" /\ instruction[t].type = "unop"
  BY DEF Unop, Computes, At
<1>2. PICK type, op, x : type = OperandType(t, "a") /\ op = instruction[t].op /\ x = frame[t].a
  OBVIOUS
<1>3. CASE ~UnopSupported(op, type)
  BY <1>1, <1>2, <1>3, EndsStep DEF Unop, Fails
<1>4. CASE UnopSupported(op, type)
  <2>1. Computed(t, UnopValue(op, x))
    BY <1>2, <1>4 DEF Unop
  <2>2. "a" \in Needs(instruction[t])
    BY <1>1 DEF Needs
  <2>3. ASSUME Kind(type) # "FLOAT", ~Overflows(Kind(type), UnopValue(op, x))
        PROVE  Right(t, Written(type, Wrapped(Kind(type), UnopValue(op, x))))
    <3>1. /\ type \in DOMAIN Bits /\ Kind(type) \in {"UINT", "INT"} /\ x \in Operands(Kind(type))
          /\ x \in Witnessed(t, "a")
      BY <1>1, <1>2, <2>2, <2>3, OperandsAre
    <3>2. PICK z : z = UnopValue(op, x)
      OBVIOUS
    <3>3. z \in Int /\ z \in Products /\ Means(op, IF op = "-" THEN 0 ELSE x, x, z)
      BY <1>4, <2>3, <3>1, <3>2, UnopMeans
    <3>4. /\ Written(type, Wrapped(Kind(type), z)) \in Raw(type)
          /\ (Written(type, Wrapped(Kind(type), z)) - z) % 2 ^ Bits[type] = 0
      BY <3>1, <3>3, KeptBits
    <3>5. (IF op = "-" THEN 0 ELSE x) \in (IF op = "-" THEN {0} ELSE Witnessed(t, "a"))
      BY <3>1
    <3> QED BY <1>1, <1>2, <3>1, <3>2, <3>3, <3>4, <3>5 DEF Right
  <2> QED BY <1>1, <1>2, <2>1, <2>3, ComputedStep
<1> QED BY <1>3, <1>4

LEMMA BinopStep ==
  ASSUME Inv, NEW t \in Threads, Binop(t)
  PROVE  Inv'
<1>1. pc[t] = "compute" /\ instruction[t].type = "binop"
  BY DEF Binop, Computes, At
<1>2. PICK type, other, op, x, y :
        /\ type = OperandType(t, "a") /\ other = OperandType(t, "b") /\ op = instruction[t].op
        /\ x = frame[t].a /\ y = frame[t].b
  OBVIOUS
<1>3. CASE Fails(t)
  BY <1>1, <1>3, EndsStep DEF Fails
<1>4. CASE UndefinedBehaviour
  BY <1>4, UndefinedStep
<1>5. CASE BinopSupported(op, type, other) /\ Kind(type) = "FLOAT" /\ Computed(t, 0)
  BY <1>1, <1>2, <1>5, ComputedStep
<1>6. CASE /\ BinopSupported(op, type, other) /\ Kind(type) # "FLOAT" /\ ~(Divides(op) /\ y = 0)
           /\ ~BinopUndefined(op, Kind(type), x, y) /\ Computed(t, BinopValue(op, Kind(type), x, y))
  <2>1. "a" \in Needs(instruction[t]) /\ "b" \in Needs(instruction[t])
    BY <1>1 DEF Needs
  <2>2. /\ type \in DOMAIN Bits /\ Kind(type) \in {"UINT", "INT"} /\ x \in Operands(Kind(type))
        /\ x \in Witnessed(t, "a")
    BY <1>1, <1>2, <1>6, <2>1, OperandsAre
  <2>3. y \in Operands(Kind(type)) /\ y \in Witnessed(t, "b")
    <3>1. Kind(other) = Kind(type)
      BY <1>6 DEF BinopSupported
    <3> QED BY <1>1, <1>2, <2>1, <2>2, <3>1, OperandsAre
  <2>4. instruction[t] \in Instructions[t]
    BY <1>1 DEF Inv, ThreadInv, Placed
  <2>5. op \in {"+", "-", "*", "/", "%", "<<", ">>", "&", "|", "^"}
    BY <1>1, <1>2, <2>4, InstructionIs
  <2>6. ASSUME ~Overflows(Kind(type), BinopValue(op, Kind(type), x, y))
        PROVE  Right(t, Written(type, Wrapped(Kind(type), BinopValue(op, Kind(type), x, y))))
    <3>1. PICK v, k, r : v = BinopValue(op, k, x, y) /\ k = Kind(type) /\ r = Written(type, Wrapped(k, v))
      OBVIOUS
    <3>2. v \in Int /\ v \in Products /\ Means(op, x, y, v)
      BY <1>6, <2>2, <2>3, <2>5, <2>6, <3>1, BinopMeans
    <3>3. r \in Raw(type) /\ (r - v) % 2 ^ Bits[type] = 0
      BY <2>2, <3>1, <3>2, KeptBits
    <3>4. \E z \in Products : Means(op, x, y, z) /\ (r - z) % 2 ^ Bits[type] = 0
      BY <3>2, <3>3
    <3> QED BY <1>1, <1>2, <2>2, <2>3, <3>1, <3>3, <3>4 DEF Right
  <2> QED BY <1>1, <1>2, <1>6, <2>6, ComputedStep
<1> QED BY <1>2, <1>3, <1>4, <1>5, <1>6 DEF Binop

LEMMA SetParamStep ==
  ASSUME Inv, NEW t \in Threads, SetParam(t)
  PROVE  Inv'
<1>1. Parametric(memory, peer) /\ ThreadTypes /\ PacketTypes /\ undefined \in BOOLEAN /\ ThreadInv(t)
  BY Types DEF Inv
<1>2. PICK p, i, v, r :
        /\ p = Wanted(t) /\ i = instruction[t] /\ r = frame[t].result /\ Use(t) = "result"
        /\ v = Taken(Type(p), IF i.type = "set" THEN i.value ELSE r)
        /\ Set(t, "result", v) /\ pc' = [pc EXCEPT ![t] = "store"]
        /\ UNCHANGED <<memory, peer, seen, runs, outcome, instruction, left, changes, requests, acked, undefined>>
  BY DEF SetParam, Goto, shared, network, rest
<1>3. /\ pc[t] \in {"fetch", "read"} /\ p \in P /\ i \in Instructions[t]
      /\ frame[t].step \in DOMAIN Fetches(i)
  BY <1>2, AtHandIs DEF SetParam
<1>4. ~Compares(i) /\ frame[t].step = Len(Fetches(i))
  BY <1>2, <1>3, FetchesAre DEF Use
<1>5. v \in Values(p) /\ v \in Buffers
  <2>1. r \in Int
    <3>1. frame[t] \in Frames
      BY <1>1 DEF ThreadTypes
    <3>2. frame[t].result \in Buffers
      BY <3>1 DEF Frames
    <3>3. frame[t].result \in Int
      BY <3>2, BuffersAre
    <3> QED BY <1>2, <3>3
  <2>2. i.type = "set" => i.value \in Int
    BY <1>3, InstructionIs
  <2>3. Type(p) \in DOMAIN Bits
    BY <1>3, ValuesAre
  <2>4. v \in Raw(Type(p))
    BY <1>2, <2>1, <2>2, <2>3, CutOff
  <2> QED BY <1>3, <2>4, ValuesAre DEF Values
<1>6. /\ \A u \in Threads \ {t} : frame'[u] = frame[u]
      /\ frame'[t].result = v /\ \A f \in {"step", "a", "b"} : frame'[t][f] = frame[t][f]
      /\ frame' \in [Threads -> Frames]
  BY <1>1, <1>2, <1>5, SetIs DEF ThreadTypes
<1>7. pc' \in [Threads -> Places] /\ pc'[t] = "store" /\ \A u \in Threads \ {t} : pc'[u] = pc[u]
  BY <1>1, <1>2 DEF ThreadTypes, Places
<1>8. Quiet(t) /\ PacketTypes' /\ undefined' \in BOOLEAN
  BY <1>1, <1>2, <1>3, <1>6, <1>7 DEF Quiet, PacketTypes
<1>9. ThreadInv(t)'
  <2>1. instruction'[t] = instruction[t] /\ outcome'[t] = outcome[t] /\ outcome[t] = "NONE"
        /\ frame'[t].step = frame[t].step
    BY <1>1, <1>2, <1>3, <1>6 DEF ThreadInv, Placed
  <2>2. Use(t)' = Use(t) /\ Wanted(t)' = Wanted(t)
    BY <2>1 DEF Use, Wanted
  <2>3. Placed(t)'
    BY <1>2, <1>3, <1>4, <1>7, <2>1, <2>2 DEF Placed, Fetching, Storing
  <2>4. \A which \in Needs(instruction'[t]) : Origin(t, which)'
    <3> SUFFICES ASSUME NEW which \in Needs(instruction[t]) PROVE Origin(t, which)'
      BY <2>1
    <3>1. which \in {"a", "b"}
      BY <1>2, <1>3, InstructionIs
    <3>2. Fetched(t, which)' => Fetched(t, which) /\ frame'[t][which] = frame[t][which]
      BY <1>6, <2>1, <3>1 DEF Fetched
    <3>3. pc[t] # "idle" /\ Watched(t)
      BY <1>1, <1>3 DEF ThreadInv
    <3> QED BY <1>2, <2>1, <3>2, <3>3, OriginKept
  <2>5. Arriving(t)' /\ Met(t)'
    BY <1>7 DEF Arriving, Met, Fetching
  <2>6. i.type \in {"unop", "binop"} => \E q : Right(t, q)' /\ v = Taken(Type(p), q)
    <3> SUFFICES ASSUME i.type \in {"unop", "binop"} PROVE Right(t, r)' /\ v = Taken(Type(p), r)
      OBVIOUS
    <3>1. Right(t, r)
      BY <1>1, <1>2, <1>3 DEF ThreadInv, Calculated, Fetching
    <3> QED BY <1>2, <2>1, <3>1, RightKept
  <2>7. Calculated(t)'
    BY <1>2, <1>5, <1>6, <1>7, <2>1, <2>2, <2>6 DEF Calculated, Fetching
  <2> QED BY <2>3, <2>4, <2>5, <2>7 DEF ThreadInv, Watched
<1> QED BY <1>6, <1>7, <1>8, <1>9, QuietStep

\* Where the destination of an instruction is.
LEMMA DestinationIs ==
  ASSUME Inv, NEW t \in Threads, Storing(t)
  PROVE  Wanted(t) \in P /\ frame[t].result \in Values(Wanted(t))
BY DEF Inv, ThreadInv, Placed, Calculated, Storing

LEMMA PushStep ==
  ASSUME Inv, NEW t \in Threads, Push(t)
  PROVE  Inv'
<1>1. Parametric(memory, peer) /\ ThreadTypes /\ PacketTypes /\ undefined \in BOOLEAN /\ ThreadInv(t)
  BY Types DEF Inv
<1>2. /\ pc[t] = "store" /\ ~Local(Wanted(t)) /\ Wanted(t) \in P /\ frame[t].result \in Values(Wanted(t))
      /\ requests' = requests \cup {<<t, runs[t], Wanted(t), frame[t].result>>}
      /\ pc' = [pc EXCEPT ![t] = "push"]
      /\ UNCHANGED <<memory, peer, seen, runs, outcome, instruction, left, changes, frame, acked, undefined>>
  BY DestinationIs DEF Push, At, Goto, shared, rest, Storing
<1>3. pc' \in [Threads -> Places] /\ pc'[t] = "push" /\ \A u \in Threads \ {t} : pc'[u] = pc[u]
  BY <1>1, <1>2 DEF ThreadTypes, Places
<1>4. PacketTypes'
  <2>1. \A r \in requests' : r[1] \in Threads /\ r[3] \in DOMAIN peer' /\ r[4] \in Values(r[3])
    <3>1. Wanted(t) \in DOMAIN peer
      BY <1>1, <1>2 DEF Parametric
    <3> QED BY <1>1, <1>2, <3>1 DEF PacketTypes
  <2>2. acked' \subseteq {u \in Threads : pc'[u] = "push"}
    BY <1>1, <1>2, <1>3 DEF PacketTypes
  <2> QED BY <2>1, <2>2 DEF PacketTypes
<1>5. ThreadInv(t)'
  <2>1. instruction'[t] = instruction[t] /\ frame'[t] = frame[t] /\ outcome'[t] = outcome[t]
    BY <1>2
  <2>2. Use(t)' = Use(t) /\ Wanted(t)' = Wanted(t)
    BY <2>1 DEF Use, Wanted
  <2>3. Placed(t)'
    BY <1>1, <1>2, <1>3, <2>1, <2>2 DEF ThreadInv, Placed, Fetching, Storing
  <2>4. \A which \in Needs(instruction'[t]) : Origin(t, which)'
    <3> SUFFICES ASSUME NEW which \in Needs(instruction[t]) PROVE Origin(t, which)'
      BY <2>1
    <3>1. Fetched(t, which)' => Fetched(t, which) /\ frame'[t][which] = frame[t][which]
      BY <2>1 DEF Fetched
    <3>2. pc[t] # "idle" /\ Watched(t)
      BY <1>1, <1>2 DEF ThreadInv
    <3> QED BY <1>2, <2>1, <3>1, <3>2, OriginKept
  <2>5. Arriving(t)' /\ Met(t)'
    BY <1>3 DEF Arriving, Met, Fetching
  <2>6. ASSUME instruction[t].type \in {"unop", "binop"}
        PROVE  \E r : Right(t, r)' /\ frame[t].result = Taken(Type(Wanted(t)), r)
    <3>1. PICK r : Right(t, r) /\ frame[t].result = Taken(Type(Wanted(t)), r)
      BY <1>1, <1>2, <2>6 DEF ThreadInv, Calculated, Storing
    <3>2. Right(t, r)'
      BY <1>2, <2>1, <3>1, RightKept
    <3> QED BY <3>1, <3>2
  <2>7. Calculated(t)'
    BY <1>2, <1>3, <2>1, <2>2, <2>6 DEF Calculated, Fetching
  <2> QED BY <2>3, <2>4, <2>5, <2>7 DEF ThreadInv, Watched
<1>6. Quiet(t) /\ undefined' \in BOOLEAN /\ frame' \in [Threads -> Frames]
  BY <1>1, <1>2, <1>3 DEF Quiet, ThreadTypes
<1> QED BY <1>3, <1>4, <1>5, <1>6, QuietStep

LEMMA ExpiresStep ==
  ASSUME Inv, NEW t \in Threads, Expires(t) \/ Wake(t)
  PROVE  Inv'
<1>1. Parametric(memory, peer) /\ ThreadTypes /\ PacketTypes /\ undefined \in BOOLEAN /\ ThreadInv(t)
  BY Types DEF Inv
<1>2. PICK place :
        /\ pc[t] \in {"check", "sleep"} /\ place \in {"check", "end"} /\ (place = "end" => left[t] = 0)
        /\ pc' = [pc EXCEPT ![t] = place]
        /\ UNCHANGED <<memory, peer, seen, runs, outcome, instruction, left, changes, frame, requests, acked, undefined>>
  BY DEF Expires, Wake, At, Goto, shared, network, rest
<1>3. pc' \in [Threads -> Places] /\ pc'[t] = place /\ \A u \in Threads \ {t} : pc'[u] = pc[u]
  BY <1>1, <1>2 DEF ThreadTypes, Places
<1>4. Quiet(t) /\ PacketTypes' /\ undefined' \in BOOLEAN /\ frame' \in [Threads -> Frames]
  BY <1>1, <1>2, <1>3 DEF Quiet, PacketTypes, ThreadTypes
<1>5. ThreadInv(t)'
  <2>1. instruction'[t] = instruction[t] /\ frame'[t] = frame[t] /\ outcome'[t] = outcome[t] /\ left'[t] = left[t]
    BY <1>2
  <2>2. Placed(t)'
    BY <1>1, <1>2, <1>3, <2>1 DEF ThreadInv, Placed, Fetching, Storing
  <2>3. \A which \in Needs(instruction'[t]) : Origin(t, which)'
    <3> SUFFICES ASSUME NEW which \in Needs(instruction[t]) PROVE Origin(t, which)'
      BY <2>1
    <3>1. Fetched(t, which)' => Fetched(t, which) /\ frame'[t][which] = frame[t][which]
      BY <2>1 DEF Fetched
    <3>2. pc[t] # "idle" /\ Watched(t)
      BY <1>1, <1>2 DEF ThreadInv
    <3> QED BY <1>2, <2>1, <3>1, <3>2, OriginKept
  <2>4. Arriving(t)' /\ Calculated(t)' /\ Met(t)'
    BY <1>2, <1>3, <2>1 DEF Arriving, Calculated, Met, Fetching, Storing
  <2> QED BY <2>2, <2>3, <2>4 DEF ThreadInv, Watched
<1> QED BY <1>3, <1>4, <1>5, QuietStep

LEMMA FlagsAre ==
  ASSUME NEW t, NEW flag \in Flags(t)
  PROVE  flag \in {"TRUE", "FALSE", "ERR_TYPE"}
BY DEF Flags, Comparisons

LEMMA DecideStep ==
  ASSUME Inv, NEW t \in Threads, Decide(t)
  PROVE  Inv'
<1>1. Parametric(memory, peer) /\ ThreadTypes /\ PacketTypes /\ undefined \in BOOLEAN /\ ThreadInv(t)
  BY Types DEF Inv
<1>2. PICK flag \in Flags(t) :
        /\ pc[t] = "compute" /\ instruction[t].type = "block"
        /\ Set(t, "flag", flag) /\ pc' = [pc EXCEPT ![t] = IF flag = "TRUE" THEN "end" ELSE "sleep"]
        /\ UNCHANGED <<memory, peer, seen, runs, outcome, instruction, left, changes, requests, acked, undefined>>
  BY DEF Decide, Computes, At, Goto, shared, network, rest
<1>3. /\ \A u \in Threads \ {t} : frame'[u] = frame[u]
      /\ \A f \in {"step", "a", "b"} : frame'[t][f] = frame[t][f]
      /\ frame' \in [Threads -> Frames]
  BY <1>1, <1>2, SetIs, FlagsAre DEF ThreadTypes
<1>4. /\ pc' \in [Threads -> Places] /\ pc'[t] = IF flag = "TRUE" THEN "end" ELSE "sleep"
      /\ \A u \in Threads \ {t} : pc'[u] = pc[u]
  BY <1>1, <1>2 DEF ThreadTypes, Places
<1>5. Quiet(t) /\ PacketTypes' /\ undefined' \in BOOLEAN
  BY <1>1, <1>2, <1>3, <1>4 DEF Quiet, PacketTypes
<1>6. ThreadInv(t)'
  <2>1. instruction'[t] = instruction[t] /\ outcome'[t] = outcome[t] /\ instruction[t] \in Instructions[t]
        /\ outcome[t] = "NONE"
    BY <1>1, <1>2 DEF ThreadInv, Placed
  <2>2. Placed(t)'
    BY <1>2, <1>4, <2>1 DEF Placed, Fetching, Storing
  <2>3. \A which \in Needs(instruction'[t]) : Origin(t, which)'
    <3> SUFFICES ASSUME NEW which \in Needs(instruction[t]) PROVE Origin(t, which)'
      BY <2>1
    <3>1. which \in {"a", "b"}
      BY <2>1, InstructionIs
    <3>2. Fetched(t, which)' => Fetched(t, which) /\ frame'[t][which] = frame[t][which]
      BY <1>3, <2>1, <3>1 DEF Fetched
    <3>3. pc[t] # "idle" /\ Watched(t)
      BY <1>1, <1>2 DEF ThreadInv
    <3> QED BY <1>2, <2>1, <3>2, <3>3, OriginKept
  <2>4. Arriving(t)' /\ Calculated(t)'
    BY <1>4 DEF Arriving, Calculated, Fetching, Storing
  <2>5. Met(t)'
    <3> SUFFICES ASSUME flag = "TRUE" PROVE Met(t)'
      BY <1>4 DEF Met
    <3>1. Flags(t)' = Flags(t)
      BY <1>3, <2>1 DEF Flags, OperandType
    <3>2. \A which \in {"a", "b"} : Fetched(t, which)
      <4>1. Needs(instruction[t]) = {"a", "b"}
        BY <1>2 DEF Needs
      <4> QED BY <1>1, <1>2, <4>1 DEF ThreadInv, Placed
    <3>3. \A which \in {"a", "b"} : Fetched(t, which)'
      BY <1>3, <2>1, <3>2 DEF Fetched
    <3> QED BY <1>2, <3>1, <3>3 DEF Met
  <2> QED BY <2>2, <2>3, <2>4, <2>5 DEF ThreadInv, Watched
<1> QED BY <1>3, <1>4, <1>5, <1>6, QuietStep

\* param_set, or the answer to a push: the instruction is done.
LEMMA StoreStep ==
  ASSUME Inv, NEW t \in Threads, Store(t) \/ PushAnswered(t)
  PROVE  Inv'
<1>1. Parametric(memory, peer) /\ ThreadTypes /\ PacketTypes
  BY Types DEF Inv
<1>2. /\ Wanted(t) \in P /\ frame[t].result \in Values(Wanted(t))
      /\ memory' = [memory EXCEPT ![Wanted(t)] = frame[t].result]
      /\ UNCHANGED <<peer, requests>> /\ Finished(t, "ok")
      /\ acked' = acked \ {t}
  <2>1. Storing(t)
    BY DEF Store, PushAnswered, At, Storing
  <2>2. CASE Store(t)
    <3>1. t \notin acked
      BY <1>1, <2>2 DEF PacketTypes, Store, At
    <3> QED BY <2>1, <2>2, <3>1, DestinationIs DEF Store, network
  <2>3. CASE PushAnswered(t)
    BY <2>1, <2>3, DestinationIs DEF PushAnswered
  <2> QED BY <2>2, <2>3
<1>3. Parametric(memory', peer')
  BY <1>1, <1>2 DEF Parametric
<1>4. PacketTypes'
  <2>1. \A u \in Threads \ {t} : pc'[u] = pc[u]
    BY <1>1, <1>2 DEF Finished, Goto, ThreadTypes
  <2> QED BY <1>1, <1>2, <2>1 DEF PacketTypes
<1> QED BY <1>2, <1>3, <1>4, FinishedStep

LEMMA PushTimesOutStep ==
  ASSUME Inv, NEW t \in Threads, PushTimesOut(t)
  PROVE  Inv'
<1>1. Parametric(memory, peer) /\ ThreadTypes /\ PacketTypes
  BY Types DEF Inv
<1>2. UNCHANGED <<memory, peer, requests>> /\ Finished(t, "error") /\ acked' = acked \ {t}
  BY DEF PushTimesOut, shared
<1>3. Parametric(memory', peer')
  BY <1>1, <1>2
<1>4. PacketTypes'
  <2>1. \A u \in Threads \ {t} : pc'[u] = pc[u]
    BY <1>1, <1>2 DEF Finished, Goto, ThreadTypes
  <2> QED BY <1>1, <1>2, <2>1 DEF PacketTypes
<1> QED BY <1>2, <1>3, <1>4, FinishedStep

\* Handlers that return without having stored anything, and fetches that fail.
LEMMA ReturnStep ==
  ASSUME Inv, NEW t \in Threads,
         FetchFails(t) \/ PullFails(t) \/ ParseFails(t) \/ SetParamFails(t) \/ IfElse(t) \/ End(t)
  PROVE  Inv'
<1>1. CASE FetchFails(t) \/ PullFails(t)
  BY <1>1, NullStep DEF FetchFails, PullFails, Fetching, At
<1>2. CASE ParseFails(t) \/ SetParamFails(t)
  BY <1>2, EndsStep DEF ParseFails, SetParamFails, Fails, AtHand, At
<1>3. CASE IfElse(t)
  <2>1. PICK flag \in Flags(t) : Ends(t, IF flag = "ERR_TYPE" THEN "error" ELSE flag) /\ pc[t] = "compute"
    BY <1>3 DEF IfElse, Computes, At
  <2>2. (IF flag = "ERR_TYPE" THEN "error" ELSE flag) \in {"ok", "error", "TRUE", "FALSE"}
    BY FlagsAre
  <2> QED BY <2>1, <2>2, EndsStep
<1>4. CASE End(t)
  <2>1. Ends(t, IF left[t] = 0 THEN "error" ELSE "ok") /\ pc[t] = "end"
    BY <1>4 DEF End, At
  <2> QED BY <2>1, EndsStep
<1> QED BY <1>1, <1>2, <1>3, <1>4

\* What happens around the threads.
LEMMA AroundStep ==
  ASSUME Inv, UNCHANGED <<pc, instruction, frame, outcome, runs>>, Parametric(memory', peer'), PacketTypes',
         changes' \in 0 .. MaxChanges, undefined' \in BOOLEAN, left' \in [Threads -> 0 .. TIMEOUT],
         \A t \in Threads : left[t] = 0 => left'[t] = 0,
         Watch(NONE, NONE) \/ UNCHANGED <<memory, peer, seen>>
  PROVE  Inv'
<1>1. Parametric(memory, peer) /\ ThreadTypes
  BY Types DEF Inv
<1>2. TypeOK'
  <2>1. seen' \in [Threads -> [{"a", "b"} -> SUBSET Buffers]]
    BY <1>1, WatchType DEF ThreadTypes
  <2>2. ThreadTypes'
    BY <1>1, <2>1 DEF ThreadTypes
  <2> QED BY <2>2, TypesNext
<1>3. ASSUME NEW u \in Threads PROVE ThreadInv(u)'
  <2>1. Same(u)
    BY DEF Same
  <2>2. ThreadInv(u) /\ u # NONE
    BY HandlersAssumption DEF Inv
  <2>3. Follows(u)
    BY <2>1, <2>2, WatchFollows, NothingToFollow DEF ThreadInv
  <2> QED BY <2>1, <2>2, <2>3, Bystander
<1> QED BY <1>2, <1>3 DEF Inv

LEMMA PushServedStep ==
  ASSUME Inv, NEW r \in requests, PushServed(r)
  PROVE  Inv'
<1>1. Parametric(memory, peer) /\ ThreadTypes /\ PacketTypes /\ changes \in 0 .. MaxChanges /\ undefined \in BOOLEAN
  BY Types DEF Inv
<1>2. /\ peer' = [peer EXCEPT ![r[3]] = r[4]] /\ requests' = requests \ {r}
      /\ acked' = IF pc[r[1]] = "push" /\ runs[r[1]] = r[2] THEN acked \cup {r[1]} ELSE acked
      /\ UNCHANGED <<memory, pc, frame, outcome, instruction, left, runs, changes, undefined>>
      /\ Watch(NONE, NONE)
  BY DEF PushServed, progress, rest
<1>3. r[1] \in Threads /\ r[3] \in DOMAIN peer /\ r[4] \in Values(r[3])
  BY <1>1 DEF PacketTypes
<1>4. Parametric(memory', peer')
  BY <1>1, <1>2, <1>3 DEF Parametric
<1>5. PacketTypes'
  <2>1. DOMAIN peer' = DOMAIN peer
    BY <1>2
  <2>2. acked' \subseteq {t \in Threads : pc'[t] = "push"}
    BY <1>1, <1>2, <1>3 DEF PacketTypes
  <2> QED BY <1>1, <1>2, <2>1, <2>2 DEF PacketTypes
<1>6. left' \in [Threads -> 0 .. TIMEOUT] /\ \A t \in Threads : left[t] = 0 => left'[t] = 0
  BY <1>1, <1>2 DEF ThreadTypes
<1> QED BY <1>1, <1>2, <1>4, <1>5, <1>6, AroundStep

LEMMA LoseRequestStep ==
  ASSUME Inv, NEW r \in requests, LoseRequest(r)
  PROVE  Inv'
<1>1. Parametric(memory, peer) /\ ThreadTypes /\ PacketTypes /\ changes \in 0 .. MaxChanges /\ undefined \in BOOLEAN
  BY Types DEF Inv
<1>2. /\ requests' = requests \ {r}
      /\ UNCHANGED <<memory, peer, pc, frame, outcome, acked, instruction, left, runs, changes, undefined, seen>>
  BY DEF LoseRequest, shared, progress, rest
<1>3. PacketTypes' /\ Parametric(memory', peer')
  BY <1>1, <1>2 DEF PacketTypes, Parametric
<1>4. left' \in [Threads -> 0 .. TIMEOUT] /\ \A t \in Threads : left[t] = 0 => left'[t] = 0
  BY <1>1, <1>2 DEF ThreadTypes
<1> QED BY <1>1, <1>2, <1>3, <1>4, AroundStep

LEMMA TickStep ==
  ASSUME Inv, NEW t \in Threads, Tick(t)
  PROVE  Inv'
<1>1. Parametric(memory, peer) /\ ThreadTypes /\ PacketTypes /\ changes \in 0 .. MaxChanges /\ undefined \in BOOLEAN
  BY Types DEF Inv
<1>2. /\ left[t] > 0 /\ left' = [left EXCEPT ![t] = left[t] - 1]
      /\ UNCHANGED <<memory, peer, pc, frame, outcome, requests, acked, instruction, runs, changes, undefined, seen>>
  BY DEF Tick, shared, progress, network
<1>3. PacketTypes' /\ Parametric(memory', peer')
  BY <1>1, <1>2 DEF PacketTypes, Parametric
<1>4. left' \in [Threads -> 0 .. TIMEOUT] /\ \A u \in Threads : left[u] = 0 => left'[u] = 0
  <2>1. left[t] - 1 \in 0 .. TIMEOUT
    BY <1>1, <1>2, HandlersAssumption DEF ThreadTypes
  <2> QED BY <1>1, <1>2, <2>1 DEF ThreadTypes
<1> QED BY <1>1, <1>2, <1>3, <1>4, AroundStep

LEMMA ChangeStep ==
  ASSUME Inv, NEW p \in P, Change(p)
  PROVE  Inv'
<1>1. Parametric(memory, peer) /\ ThreadTypes /\ PacketTypes /\ changes \in 0 .. MaxChanges /\ undefined \in BOOLEAN
  BY Types DEF Inv
<1>2. PICK v \in Values(p) :
        /\ IF Local(p) THEN memory' = [memory EXCEPT ![p] = v] /\ peer' = peer
           ELSE peer' = [peer EXCEPT ![p] = v] /\ memory' = memory
        /\ changes < MaxChanges /\ changes' = changes + 1
        /\ UNCHANGED <<pc, frame, outcome, requests, acked, instruction, left, runs, undefined>>
        /\ Watch(NONE, NONE)
  BY DEF Change, progress, network
<1>3. Parametric(memory', peer') /\ DOMAIN peer' = DOMAIN peer
  BY <1>1, <1>2 DEF Parametric
<1>4. PacketTypes'
  BY <1>1, <1>2, <1>3 DEF PacketTypes
<1>5. changes' \in 0 .. MaxChanges
  BY <1>1, <1>2, HandlersAssumption
<1>6. left' \in [Threads -> 0 .. TIMEOUT] /\ \A t \in Threads : left[t] = 0 => left'[t] = 0
  BY <1>1, <1>2 DEF ThreadTypes
<1> QED BY <1>1, <1>2, <1>3, <1>4, <1>5, <1>6, AroundStep

-----------------------------------------------------------------------------
(* The invariant holds.                                                    *)

LEMMA InvInit == Init => Inv
<1> SUFFICES ASSUME Init PROVE Inv
  OBVIOUS
<1>1. \A p \in P : Initial \subseteq Values(p)
  BY HandlersAssumption DEF P, Values, Type
<1>2. Parametric(memory, peer)
  BY <1>1 DEF Init, Parametric
<1>3. ThreadTypes
  <2>1. pc \in [Threads -> Places] /\ outcome \in [Threads -> {"NONE", "ok", "error", "TRUE", "FALSE"}]
    BY DEF Init, Places
  <2>2. DOMAIN instruction = Threads /\ \A t \in Threads : instruction[t] \in Instructions[t] \cup {NONE}
    BY DEF Init
  <2>3. frame \in [Threads -> Frames]
    BY FirstFrame DEF Init
  <2>4. left \in [Threads -> 0 .. TIMEOUT] /\ runs \in [Threads -> 0 .. MaxInstructions]
    BY HandlersAssumption DEF Init
  <2>5. seen \in [Threads -> [{"a", "b"} -> SUBSET Buffers]]
    <3>1. [a |-> {}, b |-> {}] \in [{"a", "b"} -> SUBSET Buffers]
      OBVIOUS
    <3> QED BY <3>1 DEF Init
  <2> QED BY <2>1, <2>2, <2>3, <2>4, <2>5 DEF ThreadTypes
<1>4. PacketTypes /\ changes \in 0 .. MaxChanges /\ undefined \in BOOLEAN
  <2>1. requests = {} /\ acked = {} /\ changes = 0 /\ undefined = FALSE
    BY DEF Init
  <2>2. PacketTypes
    BY <2>1 DEF PacketTypes
  <2>3. changes \in 0 .. MaxChanges
    BY <2>1, HandlersAssumption
  <2> QED BY <2>1, <2>2, <2>3
<1>5. ASSUME NEW t \in Threads PROVE ThreadInv(t)
  <2>1. pc[t] = "idle" /\ instruction[t] = NONE /\ frame[t] = NewFrame
    BY DEF Init
  <2> QED BY <2>1 DEF ThreadInv, Placed, Watched, Calculated, Met, Fetching, Storing
<1> QED BY <1>2, <1>3, <1>4, <1>5, Types DEF Inv

LEMMA InvStep ==
  ASSUME Inv, [Next]_vars
  PROVE  Inv'
<1>1. CASE UNCHANGED vars
  <2>1. UNCHANGED <<memory, peer, pc, frame, outcome, requests, acked, instruction, left, runs, changes, undefined, seen>>
    BY <1>1 DEF vars, shared, progress, network, rest
  <2>2. Parametric(memory, peer) /\ ThreadTypes /\ PacketTypes /\ changes \in 0 .. MaxChanges /\ undefined \in BOOLEAN
    BY Types DEF Inv
  <2>3. Parametric(memory', peer') /\ PacketTypes' /\ left' \in [Threads -> 0 .. TIMEOUT]
    BY <2>1, <2>2 DEF Parametric, PacketTypes, ThreadTypes
  <2> QED BY <2>1, <2>2, <2>3, AroundStep
<1>2. ASSUME NEW t \in Threads, Start(t) \/ Tick(t) PROVE Inv'
  BY <1>2, StartStep, TickStep
<1>3. ASSUME NEW t \in Threads, Step(t) PROVE Inv'
  BY <1>3, ReturnStep, PullServedStep, PullAppliedStep, LookStep, ParseStep, UnopStep, BinopStep,
     SetParamStep, StoreStep, PushStep, PushTimesOutStep, PollStep, ExpiresStep, DecideStep DEF Step
<1>4. ASSUME NEW r \in requests, PushServed(r) \/ LoseRequest(r) PROVE Inv'
  BY <1>4, PushServedStep, LoseRequestStep
<1>5. ASSUME NEW p \in P, Change(p) PROVE Inv'
  BY <1>5, ChangeStep
<1> QED BY <1>1, <1>2, <1>3, <1>4, <1>5 DEF Next

\* The invariant that the properties follow from.
THEOREM Invariant == Spec => []Inv
BY InvInit, InvStep, PTL DEF Spec

\* Types: every operand is a number of 64 bits, every result fits its parameter.
THEOREM TypesStay == Spec => []TypeOK
<1>1. Inv => TypeOK
  BY DEF Inv
<1> QED BY <1>1, Invariant, PTL

-----------------------------------------------------------------------------
(* What blocks and results promise.                                        *)

\* A step that ends an instruction well is a store, an answer or the end of a block.
LEMMA EndsWell ==
  ASSUME Inv, [Next]_vars, NEW t \in Threads, outcome[t] = "NONE", outcome'[t] = "ok"
  PROVE  Store(t) \/ PushAnswered(t) \/ (End(t) /\ left[t] # 0)
<1>1. outcome \in [Threads -> {"NONE", "ok", "error", "TRUE", "FALSE"}]
  BY DEF Inv, TypeOK
<1>2. ASSUME outcome' = outcome PROVE FALSE
  BY <1>2
<1>3. ASSUME NEW u \in Threads, NEW how, outcome' = [outcome EXCEPT ![u] = how]
      PROVE  u = t /\ how = "ok"
  BY <1>1, <1>3
<1>4. ASSUME NEW u \in Threads, NEW how, Finished(u, how) PROVE u = t /\ how = "ok"
  BY <1>3, <1>4 DEF Finished
<1>5. ~ UNCHANGED vars
  BY <1>2 DEF vars, progress
<1>6. ASSUME NEW u \in Threads, Start(u) PROVE FALSE
  BY <1>3, <1>6 DEF Start
<1>7. ASSUME NEW u \in Threads, Tick(u) PROVE FALSE
  BY <1>2, <1>7 DEF Tick, progress
<1>8. ASSUME NEW r \in requests, PushServed(r) \/ LoseRequest(r) PROVE FALSE
  BY <1>2, <1>8 DEF PushServed, LoseRequest, progress
<1>9. ASSUME NEW p \in P, Change(p) PROVE FALSE
  BY <1>2, <1>9 DEF Change, progress
<1>10. ASSUME NEW u \in Threads, Step(u) PROVE Store(t) \/ PushAnswered(t) \/ (End(t) /\ left[t] # 0)
  <2>1. ASSUME Fails(u) PROVE FALSE
    BY <1>4, <2>1 DEF Fails, Ends
  <2>2. ~ (FetchFails(u) \/ PullFails(u) \/ ParseFails(u) \/ SetParamFails(u))
    BY <1>2, <2>1 DEF FetchFails, PullFails, Null, LooksOn, ParseFails, SetParamFails
  <2>3. ~ (PullServed(u) \/ PullApplied(u) \/ Look(u) \/ Parse(u))
    BY <1>2 DEF PullServed, PullApplied, Look, Parse
  <2>4. ~ (SetParam(u) \/ Push(u) \/ Poll(u) \/ Expires(u) \/ Decide(u) \/ Wake(u))
    BY <1>2 DEF SetParam, Push, Poll, Expires, Decide, Wake
  <2>5. ASSUME NEW value, Computed(u, value) PROVE FALSE
    BY <1>2, <2>5 DEF Computed, UndefinedBehaviour, progress
  <2>6. ~ Unop(u)
    BY <2>1, <2>5 DEF Unop
  <2>7. ~ Binop(u)
    BY <1>2, <2>1, <2>5 DEF Binop, UndefinedBehaviour, progress
  <2>8. ~ PushTimesOut(u)
    BY <1>4 DEF PushTimesOut
  <2>9. ~ IfElse(u)
    <3> SUFFICES ASSUME IfElse(u) PROVE FALSE
      OBVIOUS
    <3>1. PICK flag \in Flags(u) : Finished(u, IF flag = "ERR_TYPE" THEN "error" ELSE flag)
      BY DEF IfElse, Ends
    <3>2. (IF flag = "ERR_TYPE" THEN "error" ELSE flag) # "ok"
      BY FlagsAre
    <3> QED BY <1>4, <3>1, <3>2
  <2>10. CASE Store(u) \/ PushAnswered(u)
    <3>1. u = t
      BY <1>4, <2>10 DEF Store, PushAnswered
    <3> QED BY <2>10, <3>1
  <2>11. CASE End(u)
    <3>1. Finished(u, IF left[u] = 0 THEN "error" ELSE "ok")
      BY <2>11 DEF End, Ends
    <3>2. u = t /\ left[u] # 0
      BY <1>4, <3>1
    <3> QED BY <2>11, <3>2
  <2> QED BY <1>10, <2>2, <2>3, <2>4, <2>6, <2>7, <2>8, <2>9, <2>10, <2>11 DEF Step
<1> QED BY <1>5, <1>6, <1>7, <1>8, <1>9, <1>10 DEF Next

\* A block only goes on when its condition was met by values that were current
\* during its last poll, for every comparison and every number of threads: an
\* end in time has a true flag, which was computed from operands that the
\* history holds.
THEOREM BlocksWait == Spec => BlockWaits
<1> DEFINE Waits ==
      \A t \in Threads :
        instruction[t] # NONE /\ instruction[t].type = "block" /\ outcome'[t] = "ok" =>
            \E x \in Witnessed(t, "a"), y \in Witnessed(t, "b") :
                "TRUE" \in Comparisons(instruction[t].op, OperandType(t, "a"), x,
                                       OperandType(t, "b"), y)
<1>1. ASSUME Inv, [Next]_vars PROVE Waits
  <2> SUFFICES ASSUME NEW t \in Threads,
                      instruction[t] # NONE, instruction[t].type = "block", outcome'[t] = "ok"
               PROVE  \E x \in Witnessed(t, "a"), y \in Witnessed(t, "b") :
                        "TRUE" \in Comparisons(instruction[t].op, OperandType(t, "a"), x,
                                               OperandType(t, "b"), y)
    OBVIOUS
  <2>1. Placed(t) /\ Watched(t) /\ Met(t)
    BY <1>1 DEF Inv, ThreadInv
  <2>2. pc[t] # "idle" /\ outcome[t] = "NONE"
    BY <2>1 DEF Placed
  <2>3. ~ Storing(t)
    BY <2>1 DEF Placed, Compares
  <2>4. pc[t] = "end" /\ left[t] # 0
    BY <1>1, <2>2, <2>3, EndsWell DEF Store, PushAnswered, End, At, Storing
  <2>5. "TRUE" \in Flags(t) /\ Fetched(t, "a") /\ Fetched(t, "b")
    BY <2>1, <2>4 DEF Met
  <2>6. Needs(instruction[t]) = {"a", "b"}
    BY DEF Needs
  <2>7. frame[t].a \in Witnessed(t, "a") /\ frame[t].b \in Witnessed(t, "b")
    BY <2>1, <2>2, <2>5, <2>6 DEF Watched, Origin
  <2> QED BY <2>5, <2>7 DEF Flags
<1>2. Spec => [][Waits]_vars
  <2> HIDE DEF Waits
  <2> QED BY <1>1, Invariant, PTL DEF Spec
<1> QED BY <1>2 DEF BlockWaits

\* What a destination takes of a result that is right.
LEMMA TakenIsRight ==
  ASSUME NEW source \in DOMAIN Bits, NEW type \in DOMAIN Bits, NEW r \in Raw(source),
         NEW common, common = 2 ^ (IF Bits[source] < Bits[type] THEN Bits[source] ELSE Bits[type])
  PROVE  /\ Taken(type, r) < 2 ^ Bits[source]
         /\ \A z \in Int : (r - z) % 2 ^ Bits[source] = 0 => (Taken(type, r) - z) % common = 0
<1>1. /\ Bits[source] \in Nat /\ Bits[type] \in Nat
      /\ Bits[source] <= 2 * OperandBits /\ Bits[type] <= 2 * OperandBits
  BY OperandsAssumption
<1>2. PICK m \in Nat \ {0}, d \in Nat \ {0} : m = 2 ^ Bits[source] /\ d = 2 ^ Bits[type]
  BY Powers
<1>3. r \in Nat /\ r \in Int /\ r < m
  BY <1>2 DEF Raw
<1>4. PICK q \in Int, s \in Nat : s = r % d /\ r = d * q + s /\ s < d
  BY <1>2, <1>3, DivisionWithRest
<1>5. Taken(type, r) = s
  BY <1>2, <1>4 DEF Taken
<1>6. s <= r
  <2>1. q >= 0
    <3>1. \A n \in Int : n < 0 => d * n <= -d
      BY <1>2
    <3> QED BY <1>2, <1>3, <1>4, <3>1
  <2>2. \A n \in Nat : d * n \in Nat
    BY <1>2
  <2>3. d * q \in Nat
    BY <2>1, <2>2
  <2> QED BY <1>3, <1>4, <2>3
<1>7. \E c \in Nat \ {0}, j \in Nat, k \in Nat : common = c /\ m = j * c /\ d = k * c
  <2>1. CASE Bits[source] < Bits[type]
    <3>0. Bits[source] <= Bits[type]
      BY <1>1, <2>1
    <3>1. \E k \in Nat \ {0} : d = k * m
      BY <1>1, <1>2, <3>0, PowerDivides
    <3>2. common = m /\ m = 1 * m
      BY <1>2, <2>1
    <3> QED BY <1>2, <3>1, <3>2
  <2>2. CASE ~ (Bits[source] < Bits[type])
    <3>1. Bits[type] <= Bits[source]
      BY <1>1, <2>2
    <3>2. \E j \in Nat \ {0} : m = j * d
      BY <1>1, <1>2, <3>1, PowerDivides
    <3>3. common = d /\ d = 1 * d
      BY <1>2, <2>2
    <3> QED BY <1>2, <3>2, <3>3
  <2> QED BY <2>1, <2>2
<1>8. PICK c \in Nat \ {0}, j \in Nat, k \in Nat : common = c /\ m = j * c /\ d = k * c
  BY <1>7
<1>9. ASSUME NEW z \in Int, (r - z) % m = 0 PROVE (s - z) % c = 0
  <2>0. r - z \in Int
    BY <1>3
  <2>1. PICK n \in Int : r - z = m * n
    BY <1>9, <2>0, IsMultiple
  <2>2. s - z = m * n - d * q
    BY <1>2, <1>3, <1>4, <2>1
  <2>3. m * n = c * (j * n) /\ d * q = c * (k * q)
    BY <1>8, <1>4, <2>1
  <2>4. j * n \in Int /\ k * q \in Int
    BY <1>8, <1>4, <2>1
  <2>5. s - z = c * (j * n - k * q)
    BY <1>8, <2>2, <2>3, <2>4
  <2>6. j * n - k * q \in Int
    BY <2>4
  <2> QED BY <1>8, <2>5, <2>6, Multiple
<1>10. s < m
  BY <1>2, <1>3, <1>4, <1>6
<1> QED BY <1>2, <1>5, <1>8, <1>9, <1>10

\* What an instruction stores or sends are the bits of a result for operands
\* that were all current while it ran, for every width of operands and
\* parameters and every operation; that of a unop other than rmt is stored here.
THEOREM StoresResults == Spec => StoredIsResult
<1> DEFINE Stores ==
      \A t \in Threads :
        pc[t] = "store" /\ pc'[t] # "store" /\ instruction[t].type \in {"unop", "binop"} =>
            LET i == instruction[t]
                source == OperandType(t, "a")
                width == Bits[source]
                stored == frame[t].result
                common == 2 ^ (IF width < Bits[Type(Wanted(t))] THEN width ELSE Bits[Type(Wanted(t))])
            IN  /\ i.type = "unop" /\ i.op # "rmt" => Local(Wanted(t))
                /\ stored < 2 ^ width
                /\ Kind(source) # "FLOAT" =>
                    \E x \in IF i.type = "unop" /\ i.op = "-" THEN {0} ELSE Witnessed(t, "a"),
                       y \in IF i.type = "binop" THEN Witnessed(t, "b")
                             ELSE Witnessed(t, "a"), z \in Products :
                        Means(i.op, x, y, z) /\ (stored - z) % common = 0
<1>1. ASSUME Inv PROVE Stores
  <2> SUFFICES ASSUME NEW t \in Threads, pc[t] = "store", instruction[t].type \in {"unop", "binop"},
                      NEW i, i = instruction[t], NEW source, source = OperandType(t, "a"),
                      NEW type, type = Type(Wanted(t)), NEW stored, stored = frame[t].result,
                      NEW common, common = 2 ^ (IF Bits[source] < Bits[type] THEN Bits[source] ELSE Bits[type])
               PROVE  /\ i.type = "unop" /\ i.op # "rmt" => Local(Wanted(t))
                      /\ stored < 2 ^ Bits[source]
                      /\ Kind(source) # "FLOAT" =>
                          \E x \in IF i.type = "unop" /\ i.op = "-" THEN {0} ELSE Witnessed(t, "a"),
                             y \in IF i.type = "binop" THEN Witnessed(t, "b")
                                   ELSE Witnessed(t, "a"), z \in Products :
                              Means(i.op, x, y, z) /\ (stored - z) % common = 0
    OBVIOUS
  <2>1. Placed(t) /\ Watched(t) /\ Calculated(t)
    BY <1>1 DEF Inv, ThreadInv
  <2>2. Storing(t)
    BY DEF Storing
  <2>3. frame[t].step \in DOMAIN Fetches(instruction[t]) /\ instruction[t] \in Instructions[t]
    BY <2>1, <2>2, FetchesAre DEF Placed
  <2>4. type \in DOMAIN Bits
    BY <1>1, <2>2, DestinationIs, ValuesAre
  <2>5. Fetched(t, "a")
    BY <2>1, <2>2, <2>3, AllFetched DEF Needs
  <2>6. source \in DOMAIN Bits
    <3>1. OperandOf(instruction[t], "a") \in P
      BY <2>1, <2>5 DEF Watched, Origin, Needs
    <3> QED BY <3>1, ValuesAre DEF OperandType
  <2>7. PICK r : Right(t, r) /\ stored = Taken(type, r)
    BY <2>1, <2>2 DEF Calculated
  <2>8. r \in Raw(source)
    BY <2>7 DEF Right
  <2>9. /\ stored < 2 ^ Bits[source]
        /\ \A z \in Int : (r - z) % 2 ^ Bits[source] = 0 => (stored - z) % common = 0
    BY <2>4, <2>6, <2>7, <2>8, TakenIsRight
  <2>10. \A z \in Products : z \in Int
    BY ProductsAre
  <2>11. ASSUME Kind(source) # "FLOAT"
         PROVE  \E x \in IF i.type = "unop" /\ i.op = "-" THEN {0} ELSE Witnessed(t, "a"),
                   y \in IF i.type = "binop" THEN Witnessed(t, "b")
                         ELSE Witnessed(t, "a"), z \in Products :
                    Means(i.op, x, y, z) /\ (stored - z) % common = 0
    <3>1. PICK x \in IF i.type = "unop" /\ i.op = "-" THEN {0} ELSE Witnessed(t, "a"),
               y \in IF i.type = "binop" THEN Witnessed(t, "b") ELSE Witnessed(t, "a"),
               z \in Products :
                  Means(i.op, x, y, z) /\ (r - z) % 2 ^ Bits[source] = 0
      BY <2>7, <2>11 DEF Right
    <3>2. (stored - z) % common = 0
      BY <2>9, <2>10, <3>1
    <3> QED BY <3>1, <3>2
  <2>12. ASSUME i.type = "unop", i.op # "rmt"
         PROVE  Local(Wanted(t))
    <3>1. /\ ~Compares(i) /\ ResultNode(i) = 0
          /\ Fetches(i)[frame[t].step][2] = "result"
      BY <2>1, <2>2, <2>3, <2>12, FetchesAre DEF Placed, ResultNode, Compares
    <3>2. Wanted(t) = Entry(Fetches(i)[frame[t].step][1], 0)
      BY <3>1 DEF Wanted, Use
    <3> QED BY <3>2 DEF Entry, Local
  <2> QED BY <2>9, <2>11, <2>12
<1>2. Spec => [][Stores]_vars
  <2> HIDE DEF Stores
  <2> QED BY <1>1, Invariant, PTL DEF Spec
<1> QED BY <1>2 DEF StoredIsResult
=============================================================================

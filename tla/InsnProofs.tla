----------------------------- MODULE InsnProofs -----------------------------
(***************************************************************************)
(* Proofs about module InsnSemantics, for every width of a word that is a  *)
(* power of two, every set of instructions, every values of the registers  *)
(* and every memory.                                                       *)
(***************************************************************************)
EXTENDS InsnSemantics, Induction

-----------------------------------------------------------------------------
(***************************************************************************)
(* Powers of two and division.                                             *)
(***************************************************************************)
LEMMA TwoSteps ==
    Two[0] = 1 /\ \A n \in Nat : Two[n] \in Nat \ {0} /\ Two[n + 1] = 2 * Two[n]
<1> DEFINE Eq(f) == f = [n \in Nat |-> IF n = 0 THEN 1 ELSE 2 * f[n - 1]]
           G == [p \in Nat \X Nat |-> 2 * p[2]]
<1>1. \E f \in [Nat -> Nat] : Steps(G, 1, f)
  <2>1. G \in [Nat \X Nat -> Nat]
    OBVIOUS
  <2> HIDE DEF G
  <2> QED BY <2>1, StepsExist
<1>2. \E f : Eq(f)
  <2>1. PICK f \in [Nat -> Nat] : Steps(G, 1, f)
    BY <1>1
  <2>2. ASSUME NEW n \in Nat PROVE f[n] = IF n = 0 THEN 1 ELSE 2 * f[n - 1]
    <3>1. CASE n # 0
      <4>1. n - 1 \in Nat /\ (n - 1) + 1 = n
        BY <3>1
      <4>2. f[n] = G[<<n, f[n - 1]>>]
        BY <2>1, <4>1 DEF Steps
      <4> QED BY <3>1, <4>1, <4>2
    <3> QED BY <2>1, <3>1 DEF Steps
  <2> QED BY <2>2
<1>3. Two = CHOOSE f : Eq(f)
  BY DEF Two
<1>4. Eq(Two)
  <2> HIDE DEF Eq
  <2> QED BY <1>2, <1>3
<1>5. Two[0] = 1 /\ \A n \in Nat : Two[n + 1] = 2 * Two[n]
  <2> HIDE DEF Two
  <2>1. ASSUME NEW n \in Nat PROVE Two[n + 1] = 2 * Two[n]
    <3>1. n + 1 \in Nat /\ n + 1 # 0 /\ (n + 1) - 1 = n
      OBVIOUS
    <3> QED BY <1>4, <3>1
  <2> QED BY <1>4, <2>1
<1> DEFINE S == {n \in Nat : Two[n] \in Nat \ {0}}
<1>6. Nat \subseteq S
  <2>1. 0 \in S /\ \A n \in Nat : n \in S => n + 1 \in S
    BY <1>5
  <2> HIDE DEF S
  <2> QED BY <2>1, SetInduction
<1> QED BY <1>5, <1>6

LEMMA TwoSum ==
    ASSUME NEW a \in Nat, NEW b \in Nat
    PROVE  Two[a + b] = Two[a] * Two[b] /\ Two[a] <= Two[a + b]
<1> DEFINE S == {n \in Nat : Two[a + n] = Two[a] * Two[n]}
<1>1. 0 \in S
  BY TwoSteps
<1>2. ASSUME NEW n \in Nat, n \in S PROVE n + 1 \in S
  <2>1. a + n \in Nat /\ a + (n + 1) = (a + n) + 1
    OBVIOUS
  <2>2. Two[a + (n + 1)] = 2 * Two[a + n] /\ Two[n + 1] = 2 * Two[n]
    BY <2>1, TwoSteps
  <2>3. Two[a + n] = Two[a] * Two[n] /\ Two[a] \in Nat /\ Two[n] \in Nat
    BY <1>2, TwoSteps
  <2> QED BY <2>2, <2>3
<1>3. b \in S
  <2> HIDE DEF S
  <2> QED BY <1>1, <1>2, SetInduction
<1>4. Two[a] \in Nat /\ Two[b] \in Nat \ {0}
  BY TwoSteps
<1> QED BY <1>3, <1>4

LEMMA Division ==
    ASSUME NEW a \in Int, NEW d \in Nat \ {0}
    PROVE  /\ a \div d \in Int /\ a % d \in 0..(d - 1)
           /\ a = d * (a \div d) + (a % d)
OBVIOUS

LEMMA Quotients ==
    ASSUME NEW q \in Int, NEW d \in Nat \ {0}, NEW r \in 0..(d - 1)
    PROVE  (d * q + r) \div d = q /\ (d * q + r) % d = r
OBVIOUS

\* What a shift to the right and a mask make of a number that is cut to a
\* multiple of its width.
LEMMA Truncation ==
    ASSUME NEW x \in Int, NEW d \in Nat \ {0}, NEW e \in Nat \ {0}
    PROVE  /\ (x % (d * e)) \div d = (x \div d) % e
           /\ (x % (d * e)) % d = x % d
           /\ (x \div d) \div e = x \div (d * e)
<1> DEFINE q == (x \div d) \div e
           s == (x \div d) % e
           r == x % d
<1>1. x \div d \in Int /\ r \in 0..(d - 1) /\ x = d * (x \div d) + r
  BY Division
<1>2. q \in Int /\ s \in 0..(e - 1) /\ x \div d = e * q + s
  BY <1>1, Division
<1> HIDE DEF q, s, r
<1>3. d * e \in Nat \ {0}
  OBVIOUS
<1>4. d * s + r \in 0..(d * e - 1)
  <2>1. d * s + r \in Nat
    BY <1>1, <1>2
  <2>2. d * s <= d * (e - 1)
    BY <1>2
  <2>3. d * (e - 1) = d * e - d
    OBVIOUS
  <2>4. d * s \in Int /\ d * e \in Int
    BY <1>2
  <2> QED BY <1>1, <2>1, <2>2, <2>3, <2>4
<1>5. x = (d * e) * q + (d * s + r)
  <2>1. d * (e * q + s) = (d * e) * q + d * s
    BY <1>2
  <2>2. d * s \in Int /\ (d * e) * q \in Int
    BY <1>2
  <2> QED BY <1>1, <1>2, <2>1, <2>2
<1>6. x \div (d * e) = q /\ x % (d * e) = d * s + r
  <2> DEFINE D == d * e
             R == d * s + r
  <2>1. D \in Nat \ {0} /\ R \in 0..(D - 1) /\ x = D * q + R
    BY <1>3, <1>4, <1>5
  <2> HIDE DEF D, R
  <2>2. x \div D = q /\ x % D = R
    BY <1>2, <2>1, Quotients
  <2> QED BY <2>2 DEF D, R
<1>7. (d * s + r) \div d = s /\ (d * s + r) % d = r
  BY <1>1, <1>2, Quotients
<1> QED BY <1>6, <1>7 DEF q, s, r

\* Truncating a quotient of two words: what mulhu does.
LEMMA QuotientBelow ==
    ASSUME NEW d \in Nat \ {0}, NEW e \in Nat \ {0}, NEW x \in 0..(d * e - 1)
    PROVE  x \div d \in 0..(e - 1)
<1>1. x \div d \in Int /\ x % d \in 0..(d - 1) /\ x = d * (x \div d) + (x % d)
  BY Division
<1> DEFINE q == x \div d
<1> HIDE DEF q
<1>2. d * q \in Int /\ d * e \in Int /\ q \in Int
  BY <1>1 DEF q
<1>3. d * q > -d /\ d * q < d * e
  BY <1>1, <1>2 DEF q
<1>4. q > -1
  <2> SUFFICES ASSUME q <= -1 PROVE FALSE
    BY <1>2
  <2>1. d * q <= d * (-1) /\ d * (-1) = -d
    BY <1>2
  <2> QED BY <1>2, <1>3, <2>1
<1>5. q < e
  <2> SUFFICES ASSUME q >= e PROVE FALSE
    BY <1>2
  <2>1. d * q >= d * e
    BY <1>2
  <2> QED BY <1>2, <1>3, <2>1
<1> QED BY <1>2, <1>4, <1>5 DEF q

LEMMA TwoGrows ==
    ASSUME NEW a \in Nat, NEW b \in Nat, a <= b
    PROVE  Two[b] = Two[a] * Two[b - a] /\ Two[a] <= Two[b]
<1>1. b - a \in Nat /\ a + (b - a) = b
  OBVIOUS
<1> QED BY <1>1, TwoSum

LEMMA BelowTwo ==
    ASSUME NEW n \in Nat
    PROVE  n < Two[n]
<1> DEFINE S == {k \in Nat : k < Two[k]}
<1>1. 0 \in S /\ \A k \in Nat : k \in S => k + 1 \in S
  BY TwoSteps
<1> HIDE DEF S
<1>2. n \in S
  BY <1>1, SetInduction
<1> QED BY <1>2 DEF S

\* The widths of a word, of half of it and of a byte.
LEMMA Widths ==
    /\ W \in Nat /\ W >= 4 /\ \E k \in Nat : W = Two[k] /\ k <= W
    /\ W \div 4 \in Nat \ {0} /\ W = 4 * (W \div 4) /\ W \div 2 = 2 * (W \div 4)
    /\ Two[W] \in Nat \ {0} /\ Two[W] = 2 * Two[W - 1] /\ Two[W - 1] \in Nat \ {0}
    /\ Two[W \div 4] \in Nat \ {0} /\ Two[W \div 4] * Two[W \div 4] = Two[W \div 2]
    /\ Two[W \div 2] \in Nat \ {0} /\ Two[W \div 2] * Two[W \div 2] = Two[W]
    /\ Two[W \div 4] <= Two[W] /\ Two[W \div 2] <= Two[W]
<1>1. PICK k \in 2..5 : W = Two[k]
  BY WordAssumption
<1>2. W = 4 * Two[k - 2] /\ Two[k - 2] \in Nat \ {0}
  <2>1. k - 2 \in Nat /\ (k - 2) + 1 = k - 1 /\ k - 1 \in Nat /\ (k - 1) + 1 = k
    OBVIOUS
  <2>2. Two[k - 1] = 2 * Two[k - 2] /\ Two[k] = 2 * Two[k - 1] /\ Two[k - 2] \in Nat \ {0}
    BY <2>1, TwoSteps
  <2> QED BY <1>1, <2>2
<1>3. W \in Nat /\ W >= 4 /\ W \div 4 = Two[k - 2] /\ W \div 2 = 2 * Two[k - 2]
  BY <1>2
<1>4. k \in Nat /\ k <= W
  BY <1>1, <1>3, BelowTwo
<1> DEFINE B == W \div 4
<1>5. B \in Nat \ {0} /\ W = 4 * B /\ W \div 2 = 2 * B
  BY <1>2, <1>3
<1> HIDE DEF B
<1>6. B + B = 2 * B /\ 2 * B + 2 * B = W /\ 2 * B \in Nat /\ W - 1 \in Nat /\ (W - 1) + 1 = W
  BY <1>3, <1>5
<1>7. Two[2 * B] = Two[B] * Two[B] /\ Two[W] = Two[2 * B] * Two[2 * B]
  BY <1>5, <1>6, TwoSum
<1>8. Two[W] = 2 * Two[W - 1] /\ Two[W - 1] \in Nat \ {0} /\ Two[W] \in Nat \ {0}
      /\ Two[B] \in Nat \ {0} /\ Two[2 * B] \in Nat \ {0}
  BY <1>3, <1>5, <1>6, TwoSteps
<1>9. Two[B] <= Two[W] /\ Two[2 * B] <= Two[W]
  <2>1. B <= W /\ 2 * B <= W /\ 2 * B \in Nat
    BY <1>5
  <2> QED BY <1>3, <1>5, <2>1, TwoGrows
<1> QED BY <1>1, <1>3, <1>4, <1>5, <1>7, <1>8, <1>9 DEF B

-----------------------------------------------------------------------------
(***************************************************************************)
(* Bits.                                                                   *)
(***************************************************************************)
IsLow(bit, low) ==
    /\ low[0] = 0
    /\ \A k \in Nat : low[k + 1] = low[k] + bit[k] * Two[k] /\ low[k] \in 0..(Two[k] - 1)

LEMMA LowBits ==
    ASSUME NEW bit \in [Nat -> 0..1]
    PROVE  \E low \in [Nat -> Nat] : FromBits(bit) = low[W] /\ IsLow(bit, low)
<1> DEFINE Eq(f) == f = [k \in Nat |-> IF k = 0 THEN 0 ELSE f[k - 1] + bit[k - 1] * Two[k - 1]]
           low == CHOOSE f : Eq(f)
           G == [p \in Nat \X Nat |-> IF p[1] = 0 THEN 0 ELSE p[2] + bit[p[1] - 1] * Two[p[1] - 1]]
<1>1. G \in [Nat \X Nat -> Nat]
  <2> SUFFICES ASSUME NEW p \in Nat \X Nat, p[1] # 0
               PROVE  p[2] + bit[p[1] - 1] * Two[p[1] - 1] \in Nat
    OBVIOUS
  <2>1. p[1] - 1 \in Nat
    OBVIOUS
  <2>2. bit[p[1] - 1] \in 0..1 /\ Two[p[1] - 1] \in Nat
    BY <2>1, TwoSteps
  <2> QED BY <2>2
<1>2. PICK f \in [Nat -> Nat] : Steps(G, 0, f)
  <2> HIDE DEF G
  <2> QED BY <1>1, StepsExist
<1>3. Eq(f)
  <2>1. ASSUME NEW k \in Nat, k # 0 PROVE f[k] = f[k - 1] + bit[k - 1] * Two[k - 1]
    <3>1. k - 1 \in Nat /\ (k - 1) + 1 = k
      BY <2>1
    <3>2. f[k] = G[<<k, f[k - 1]>>]
      BY <1>2, <3>1 DEF Steps
    <3>3. <<k, f[k - 1]>> \in Nat \X Nat
      BY <3>1
    <3> QED BY <2>1, <3>2, <3>3
  <2> QED BY <1>2, <2>1 DEF Steps
<1>4. Eq(low)
  <2> HIDE DEF Eq
  <2> QED BY <1>3
<1>5. FromBits(bit) = low[W]
  BY DEF FromBits
<1> HIDE DEF low
<1>6. low[0] = 0 /\ \A k \in Nat : low[k + 1] = low[k] + bit[k] * Two[k]
  <2>1. ASSUME NEW k \in Nat PROVE low[k + 1] = low[k] + bit[k] * Two[k]
    <3>1. k + 1 \in Nat /\ k + 1 # 0 /\ (k + 1) - 1 = k
      OBVIOUS
    <3> QED BY <1>4, <3>1
  <2> QED BY <1>4, <2>1
<1> DEFINE S == {k \in Nat : low[k] \in 0..(Two[k] - 1)}
<1>7. Nat \subseteq S
  <2>1. 0 \in S
    BY <1>6, TwoSteps
  <2>2. ASSUME NEW k \in Nat, k \in S PROVE k + 1 \in S
    <3>1. Two[k] \in Nat /\ Two[k + 1] = 2 * Two[k] /\ low[k] \in 0..(Two[k] - 1)
      BY <2>2, TwoSteps
    <3>2. bit[k] * Two[k] = 0 \/ bit[k] * Two[k] = Two[k]
      <4>1. bit[k] = 0 \/ bit[k] = 1
        OBVIOUS
      <4> QED BY <3>1, <4>1
    <3> QED BY <1>6, <3>1, <3>2
  <2> HIDE DEF S
  <2> QED BY <2>1, <2>2, SetInduction
<1>8. low \in [Nat -> Nat]
  <2>1. low = [k \in Nat |-> low[k]]
    BY <1>4
  <2>2. \A k \in Nat : low[k] \in Nat
    BY <1>7, TwoSteps
  <2> QED BY <2>1, <2>2
<1> QED BY <1>5, <1>6, <1>7, <1>8 DEF IsLow

\* What is put together from bits is a word.
LEMMA BitWord ==
    ASSUME NEW bit \in [Nat -> 0..1]
    PROVE  FromBits(bit) \in Word
<1>1. PICK low \in [Nat -> Nat] : FromBits(bit) = low[W] /\ IsLow(bit, low)
  BY LowBits
<1> QED BY <1>1, Widths DEF IsLow, Word

LEMMA BitType ==
    ASSUME NEW x \in Int, NEW k \in Nat
    PROVE  /\ Bit(x, k) \in 0..1
           /\ x % Two[k + 1] = (x % Two[k]) + Bit(x, k) * Two[k]
<1>1. Two[k] \in Nat \ {0} /\ Two[k + 1] = Two[k] * 2
  BY TwoSteps
<1> DEFINE d == Two[k]
<1> HIDE DEF d
<1>2. d \in Nat \ {0} /\ x \div d \in Int
  BY <1>1 DEF d
<1>3. (x \div d) % 2 \in 0..1
  BY <1>2
<1>4. (x % (d * 2)) \div d = (x \div d) % 2 /\ (x % (d * 2)) % d = x % d
  <2>1. 2 \in Nat \ {0}
    OBVIOUS
  <2> QED BY ONLY <1>2, <2>1, Truncation, Zenon
<1>5. x % (d * 2) = d * ((x % (d * 2)) \div d) + ((x % (d * 2)) % d)
  <2>1. x % (d * 2) \in Int
    BY <1>2
  <2> QED BY <1>2, <2>1, Division
<1>6. x % d \in Int
  BY <1>2
<1>7. x % (d * 2) = (x % d) + ((x \div d) % 2) * d
  <2>1. x % (d * 2) = d * ((x \div d) % 2) + (x % d)
    BY <1>4, <1>5
  <2> DEFINE t == (x \div d) % 2
             u == x % d
  <2>2. t \in Int /\ u \in Int
    BY <1>3, <1>6
  <2> HIDE DEF t, u
  <2>3. d * t + u = u + t * d
    BY <1>2, <2>2
  <2> QED BY <2>1, <2>3 DEF t, u
<1> QED BY <1>1, <1>3, <1>7 DEF Bit, d

LEMMA BitwiseWords ==
    ASSUME NEW a \in Int, NEW b \in Int
    PROVE  And(a, b) \in Word /\ Or(a, b) \in Word /\ Xor(a, b) \in Word
<1>1. ASSUME NEW k \in Nat
      PROVE  /\ Bit(a, k) * Bit(b, k) \in 0..1
             /\ Bit(a, k) + Bit(b, k) - Bit(a, k) * Bit(b, k) \in 0..1
             /\ (Bit(a, k) + Bit(b, k)) % 2 \in 0..1
  <2>1. (Bit(a, k) = 0 \/ Bit(a, k) = 1) /\ (Bit(b, k) = 0 \/ Bit(b, k) = 1)
    BY BitType
  <2> QED BY <2>1
<1>2. /\ [k \in Nat |-> Bit(a, k) * Bit(b, k)] \in [Nat -> 0..1]
      /\ [k \in Nat |-> Bit(a, k) + Bit(b, k) - Bit(a, k) * Bit(b, k)] \in [Nat -> 0..1]
      /\ [k \in Nat |-> (Bit(a, k) + Bit(b, k)) % 2] \in [Nat -> 0..1]
  BY <1>1
<1> QED BY <1>2, BitWord DEF And, Or, Xor

LEMMA OddQuotient ==
    ASSUME NEW d \in Nat \ {0}, NEW c \in Nat \ {0}
    PROVE  ((d * (2 * c) - 1) \div d) % 2 = 1
<1> DEFINE q == 2 * c - 1
<1>1. q \in Int /\ q % 2 = 1 /\ d * (2 * c) = d * q + d
  OBVIOUS
<1> HIDE DEF q
<1>2. d - 1 \in 0..(d - 1) /\ d * q \in Int
  BY <1>1
<1>3. d * (2 * c) - 1 = d * q + (d - 1)
  BY <1>1, <1>2
<1>4. (d * q + (d - 1)) \div d = q
  BY <1>1, <1>2, Quotients
<1> QED BY <1>1, <1>3, <1>4

\* The bits of a power of two less one.
LEMMA BitsOfMask ==
    ASSUME NEW k \in Nat, NEW n \in Nat
    PROVE  /\ n < k => Bit(Two[k] - 1, n) = 1
           /\ n >= k => Bit(Two[k] - 1, n) = 0
<1>1. Two[n] \in Nat \ {0} /\ Two[k] \in Nat \ {0}
  BY TwoSteps
<1>2. ASSUME n < k
      PROVE  \E c \in Nat \ {0} : Two[k] = Two[n] * (2 * c)
  <2>1. n + 1 \in Nat /\ n + 1 <= k /\ k - (n + 1) \in Nat
    BY <1>2
  <2>2. Two[k] = Two[n + 1] * Two[k - (n + 1)] /\ Two[n + 1] = 2 * Two[n]
        /\ Two[k - (n + 1)] \in Nat \ {0}
    BY <2>1, TwoGrows, TwoSteps
  <2>3. (2 * Two[n]) * Two[k - (n + 1)] = Two[n] * (2 * Two[k - (n + 1)])
    BY <1>1, <2>2
  <2> QED BY <2>2, <2>3
<1>4. ASSUME n < k PROVE Bit(Two[k] - 1, n) = 1
  BY <1>1, <1>2, <1>4, OddQuotient DEF Bit
<1>5. ASSUME n >= k PROVE Bit(Two[k] - 1, n) = 0
  <2>1. Two[k] <= Two[n]
    BY <1>5, TwoGrows
  <2>2. Two[k] - 1 \in 0..(Two[n] - 1) /\ Two[n] * 0 + (Two[k] - 1) = Two[k] - 1
    BY <1>1, <2>1
  <2>3. (Two[k] - 1) \div Two[n] = 0
    BY <1>1, <2>2, Quotients
  <2> QED BY <2>3 DEF Bit
<1> QED BY <1>4, <1>5

\* No shift is by the width of a word or more, which C++ and LLVM give no meaning:
\* masking the amount, as both engines do, is taking its remainder.
THEOREM ShiftsDefined ==
    ASSUME NEW b \in Int
    PROVE  ShiftAmount(b) = b % W /\ ShiftAmount(b) \in 0..(W - 1)
<1>1. PICK k \in Nat : W = Two[k] /\ k <= W
  BY Widths
<1> DEFINE bit == [n \in Nat |-> Bit(b, n) * Bit(W - 1, n)]
<1>2. ASSUME NEW n \in Nat
      PROVE  bit[n] = IF n < k THEN Bit(b, n) ELSE 0
  <2>1. Bit(b, n) \in 0..1
    BY BitType
  <2>2. Bit(W - 1, n) = IF n < k THEN 1 ELSE 0
    BY <1>1, BitsOfMask
  <2> QED BY <2>1, <2>2
<1>3. bit \in [Nat -> 0..1]
  <2>1. \A n \in Nat : bit[n] \in 0..1
    BY <1>2, BitType
  <2> QED BY <2>1
<1>4. And(b, W - 1) = FromBits(bit)
  BY DEF And
<1> HIDE DEF bit
<1>5. PICK low \in [Nat -> Nat] : FromBits(bit) = low[W] /\ IsLow(bit, low)
  BY <1>3, LowBits
<1> DEFINE S == {n \in Nat : low[n] = IF n <= k THEN b % Two[n] ELSE b % W}
<1>6. Nat \subseteq S
  <2>1. 0 \in S
    BY <1>5, TwoSteps DEF IsLow
  <2>2. ASSUME NEW n \in Nat, n \in S PROVE n + 1 \in S
    <3>1. low[n + 1] = low[n] + bit[n] * Two[n]
      BY <1>5 DEF IsLow
    <3>2. Two[n] \in Nat
      BY TwoSteps
    <3>3. CASE n < k
      <4>1. low[n] = b % Two[n] /\ bit[n] = Bit(b, n)
        BY <1>2, <2>2, <3>3
      <4>2. b % Two[n + 1] = (b % Two[n]) + Bit(b, n) * Two[n]
        BY BitType
      <4> QED BY <3>1, <3>3, <4>1, <4>2
    <3>4. CASE n >= k
      <4>1. low[n] = b % W /\ bit[n] = 0
        BY <1>1, <1>2, <2>2, <3>4
      <4> QED BY <3>1, <3>2, <3>4, <4>1
    <3> QED BY <3>3, <3>4
  <2> HIDE DEF S
  <2> QED BY <2>1, <2>2, SetInduction
<1>7. low[W] = b % W
  <2>1. W \in Nat /\ W \in S /\ (W <= k => W = k)
    BY <1>1, <1>6, Widths
  <2> QED BY <1>1, <2>1
<1>8. b % W \in 0..(W - 1)
  BY Widths
<1> QED BY <1>4, <1>5, <1>7, <1>8 DEF ShiftAmount

-----------------------------------------------------------------------------
(***************************************************************************)
(* Words.                                                                  *)
(***************************************************************************)
LEMMA Wrapped ==
    ASSUME NEW x \in Int
    PROVE  Wrap(x) \in Word
BY Widths, Division DEF Wrap, Word

LEMMA SmallerQuotient ==
    ASSUME NEW a \in Nat, NEW d \in Nat \ {0}
    PROVE  a \div d \in 0..a
<1> DEFINE q == a \div d
           r == a % d
<1>1. q \in Int /\ r \in 0..(d - 1) /\ a = d * q + r
  BY Division
<1> HIDE DEF q, r
<1>2. q >= 0
  <2> SUFFICES ASSUME q <= -1 PROVE FALSE
    BY <1>1
  <2>1. d * q <= d * (-1) /\ d * (-1) = -d /\ d * q \in Int
    BY <1>1
  <2> QED BY <1>1, <2>1
<1>3. d * q >= q
  BY <1>1, <1>2
<1>4. d * q \in Int
  BY <1>1
<1> QED BY <1>1, <1>2, <1>3, <1>4 DEF q

LEMMA WordParts ==
    ASSUME NEW a \in Word, NEW b \in Word
    PROVE  /\ a \in Nat /\ 0 \in Word /\ 1 \in Word
           /\ Signed(a) \in Int /\ (a # 0 => Signed(a) # 0)
           /\ \A d \in Nat \ {0} : a \div d \in Word
           /\ b # 0 => a % b \in Word
           /\ a * b \in 0..(Two[W] * Two[W] - 1)
<1>1. Two[W] = 2 * Two[W - 1] /\ Two[W - 1] \in Nat \ {0} /\ a \in Nat /\ b \in Nat
  BY Widths DEF Word
<1>2. a \in Nat /\ 0 \in Word /\ 1 \in Word
  BY <1>1 DEF Word
<1>3. Signed(a) \in Int /\ (a # 0 => Signed(a) # 0)
  BY <1>1 DEF Word, Signed
<1>4. ASSUME NEW d \in Nat \ {0} PROVE a \div d \in Word
  <2> DEFINE q == a \div d
  <2>1. q \in 0..a
    BY <1>1, SmallerQuotient
  <2> HIDE DEF q
  <2>2. q \in Word
    BY <1>1, <2>1 DEF Word
  <2> QED BY <2>2 DEF q
<1>5. b # 0 => a % b \in Word
  <2> SUFFICES ASSUME b # 0 PROVE a % b \in Word
    OBVIOUS
  <2>1. a % b \in 0..(b - 1)
    BY <1>1, Division
  <2> QED BY <1>1, <2>1 DEF Word
<1>6. a * b \in 0..(Two[W] * Two[W] - 1)
  <2> DEFINE M == Two[W]
  <2>1. M \in Nat /\ a <= M - 1 /\ b <= M - 1 /\ M - 1 \in Nat
    BY <1>1 DEF Word
  <2> HIDE DEF M
  <2>2. a * b \in Nat /\ a * b <= (M - 1) * b /\ (M - 1) * b <= (M - 1) * (M - 1)
    BY <1>1, <2>1
  <2>3. (M - 1) * (M - 1) = M * M - M - M + 1 /\ M * M \in Nat /\ (M - 1) * b \in Nat
    BY <1>1, <2>1
  <2>4. M >= 2
    BY <1>1 DEF M
  <2>5. a * b <= M * M - 1
    BY <2>1, <2>2, <2>3, <2>4
  <2>6. a * b \in 0..(M * M - 1)
    BY <2>1, <2>2, <2>3, <2>5
  <2> QED BY <2>6 DEF M
<1> QED BY <1>2, <1>3, <1>4, <1>5, <1>6

LEMMA FlagWord ==
    ASSUME NEW p
    PROVE  Flag(p) \in Word
BY Widths DEF Flag, Word

LEMMA Shifts ==
    ASSUME NEW a \in Word, NEW n \in Nat
    PROVE  ShiftLeft(a, n) \in Word /\ ShiftRight(a, n) \in Word /\ a \div Two[n] \in Word
<1>1. Two[n] \in Nat \ {0} /\ a \in Nat /\ Signed(a) \in Int
  BY TwoSteps, WordParts
<1>2. a * Two[n] \in Int /\ Signed(a) \div Two[n] \in Int
  BY <1>1
<1>3. a \div Two[n] \in Word
  BY <1>1, WordParts
<1> QED BY <1>2, <1>3, Wrapped DEF ShiftLeft, ShiftRight

LEMMA SignedDivision ==
    ASSUME NEW a \in Word, NEW b \in Word, b # 0
    PROVE  Quotient(a, b) \in Word /\ Remainder(a, b) \in Word
<1> DEFINE x == Magnitude(Signed(a))
           y == Magnitude(Signed(b))
<1>1. x \in Nat /\ y \in Nat \ {0} /\ a \in Nat /\ b \in Nat
  BY WordParts DEF Magnitude
<1> HIDE DEF x, y
<1>2. x \div y \in Int
  BY <1>1, Division
<1>3. Quotient(a, b) \in Word
  <2>1. Wrap(x \div y) \in Word /\ Wrap(-(x \div y)) \in Word
    BY <1>2, Wrapped
  <2> QED BY <2>1 DEF Quotient, x, y
<1>4. a - Quotient(a, b) * b \in Int
  BY <1>1, <1>3 DEF Word
<1> QED BY <1>3, <1>4, Wrapped DEF Remainder

LEMMA Products ==
    ASSUME NEW a \in Word, NEW b \in Word
    PROVE  /\ Wrap(a + b) \in Word /\ Wrap(a * b) \in Word /\ Wrap(a - b) \in Word
           /\ Wrap((Signed(a) * Signed(b)) \div Two[W]) \in Word
           /\ (a * b) \div Two[W] \in Word /\ Wrap((a * b) \div Two[W]) = (a * b) \div Two[W]
           /\ MulHigh(a, b) = Wrap((Signed(a) * Signed(b)) \div Two[W])
<1> DEFINE x == Signed(a) * Signed(b)
           y == a * b
<1>1. a \in Nat /\ b \in Nat /\ Two[W] \in Nat \ {0} /\ x \in Int /\ y \in 0..(Two[W] * Two[W] - 1)
  <2>1. Signed(a) \in Int /\ Signed(b) \in Int
    BY WordParts
  <2>2. x \in Int
    BY <2>1
  <2> QED BY <2>2, Widths, WordParts
<1>2. Two[2 * W] = Two[W] * Two[W]
  <2>1. W \in Nat /\ 2 * W = W + W
    BY Widths
  <2> QED BY <2>1, TwoSum
<1>3. a + b \in Int /\ y \in Int /\ a - b \in Int /\ x \div Two[W] \in Int
  BY <1>1, Division
<1>4. y \div Two[W] \in 0..(Two[W] - 1)
  <2> HIDE DEF y
  <2> QED BY <1>1, QuotientBelow
<1>5. Wrap(y \div Two[W]) = y \div Two[W]
  <2> DEFINE M == Two[W]
             q == y \div Two[W]
  <2>1. M \in Nat \ {0} /\ q \in 0..(M - 1)
    BY <1>1, <1>4
  <2> HIDE DEF M, q
  <2>2. q % M = q
    BY <2>1
  <2> QED BY <2>2 DEF Wrap, M, q
<1>6. (x % (Two[W] * Two[W])) \div Two[W] = (x \div Two[W]) % Two[W]
  <2> HIDE DEF x
  <2> QED BY <1>1, Truncation
<1> QED BY <1>2, <1>3, <1>4, <1>5, <1>6, Wrapped DEF MulHigh, Wrap, Word

LEMMA Extended ==
    ASSUME NEW x \in Word, NEW bits \in Nat \ {0}
    PROVE  SExt(x, bits) \in Word
<1>1. x \in Int /\ Two[bits] \in Nat
  BY TwoSteps DEF Word
<1> QED BY <1>1, Wrapped DEF SExt

-----------------------------------------------------------------------------
(***************************************************************************)
(* Memory.                                                                 *)
(***************************************************************************)
LEMMA Digits ==
    ASSUME NEW d \in Nat \ {0}, NEW x \in 0..(d - 1), NEW y \in 0..(d - 1)
    PROVE  x + y * d \in 0..(d * d - 1)
<1>1. y * d \in Nat /\ y * d <= (d - 1) * d
  OBVIOUS
<1>2. (d - 1) * d = d * d - d /\ d * d \in Nat
  OBVIOUS
<1>3. x + y * d \in Nat /\ x + y * d <= d * d - 1
  BY <1>1, <1>2
<1> QED BY <1>2, <1>3

LEMMA Loaded ==
    ASSUME NEW m \in [Cells -> Byte], NEW ea \in Word
    PROVE  m[ea] \in Word /\ Half(m, ea) \in Word /\ Full(m, ea) \in Word
<1> DEFINE B == Two[W \div 4]
           H == Two[W \div 2]
<1>1. B \in Nat \ {0} /\ B * B = H /\ H \in Nat \ {0} /\ H * H = Two[W]
      /\ B <= Two[W] /\ H <= Two[W] /\ Two[W] \in Nat
  BY Widths
<1>2. ASSUME NEW a \in Cells PROVE m[a] \in 0..(B - 1)
  BY DEF Byte
<1>3. ASSUME NEW a \in Nat, a + 1 \in Cells PROVE Half(m, a) \in 0..(H - 1)
  <2>1. a \in Cells
    <3> DEFINE M == Two[W]
    <3>1. M \in Nat /\ Cells = 0..(M + 2)
      BY <1>1 DEF Cells
    <3> HIDE DEF M
    <3> QED BY <1>3, <3>1
  <2>2. m[a] \in 0..(B - 1) /\ m[a + 1] \in 0..(B - 1)
    BY <1>2, <1>3, <2>1
  <2>3. m[a] + m[a + 1] * B \in 0..(B * B - 1)
    <3> HIDE DEF B
    <3> QED BY <1>1, <2>2, Digits
  <2> QED BY <1>1, <2>3 DEF Half
<1>4. ea \in Nat /\ ea + 1 \in Cells /\ ea + 2 \in Nat /\ (ea + 2) + 1 \in Cells /\ ea \in Cells
  <2> DEFINE M == Two[W]
  <2>1. M \in Nat /\ Word = 0..(M - 1) /\ Cells = 0..(M + 2)
    BY <1>1 DEF Word, Cells
  <2> HIDE DEF M
  <2> QED BY <2>1
<1>5. m[ea] \in Word
  BY <1>1, <1>2, <1>4 DEF Word
<1>6. Half(m, ea) \in 0..(H - 1) /\ Half(m, ea + 2) \in 0..(H - 1)
  BY <1>3, <1>4
<1>7. Half(m, ea) \in Word
  BY <1>1, <1>6 DEF Word
<1>8. Full(m, ea) \in Word
  <2>1. Half(m, ea) + Half(m, ea + 2) * H \in 0..(H * H - 1)
    <3> HIDE DEF H
    <3> QED BY <1>1, <1>6, Digits
  <2> QED BY <1>1, <2>1 DEF Full, Word
<1> QED BY <1>5, <1>7, <1>8

LEMMA Stored ==
    ASSUME NEW m \in [Cells -> Byte], NEW ea \in Word, NEW n \in Nat, NEW v \in Int
    PROVE  /\ PutBytes(m, ea, n, v) \in [Cells -> Byte]
           /\ PutBytes(m, ea, n, v % Two[(W \div 4) * n]) = PutBytes(m, ea, n, v)
<1> DEFINE Q == W \div 4
           digit(x, k) == (x \div Two[Q * k]) % Two[Q]
<1>1. Q \in Nat /\ Two[Q] \in Nat \ {0} /\ ea \in Nat
  BY Widths DEF Word
<1> HIDE DEF Q
<1>2. ASSUME NEW k \in 0..(n - 1), NEW x \in Int
      PROVE  digit(x, k) \in 0..(Two[Q] - 1) /\ digit(x % Two[Q * n], k) = digit(x, k)
  <2>1. Q * k \in Nat /\ n - (k + 1) \in Nat /\ Q * (n - (k + 1)) \in Nat
    BY <1>1
  <2>2. Q * n = Q * k + (Q + Q * (n - (k + 1)))
    BY <1>1
  <2> DEFINE d == Two[Q * k]
             f == Two[Q * (n - (k + 1))]
             e == Two[Q]
  <2>3. d \in Nat \ {0} /\ e \in Nat \ {0} /\ f \in Nat \ {0}
    BY <1>1, <2>1, TwoSteps
  <2>4. Two[Q * n] = d * (e * f)
    <3> DEFINE r == Q * (n - (k + 1))
               t == Q * k
    <3>1. r \in Nat /\ t \in Nat /\ Q * n = t + (Q + r) /\ Q + r \in Nat
      BY <1>1, <2>1, <2>2
    <3> HIDE DEF r, t
    <3>2. Two[t + (Q + r)] = Two[t] * (Two[Q] * Two[r])
      BY <1>1, <3>1, TwoSum
    <3> QED BY <3>1, <3>2 DEF r, t
  <2> HIDE DEF d, e, f
  <2>5. e * f \in Nat \ {0} /\ x \div d \in Int
    BY <1>2, <2>3
  <2>6. (x % (d * (e * f))) \div d = (x \div d) % (e * f)
    <3> DEFINE g == e * f
    <3>1. g \in Nat \ {0}
      BY <2>5
    <3> HIDE DEF g
    <3>2. (x % (d * g)) \div d = (x \div d) % g
      BY <1>2, <2>3, <3>1, Truncation
    <3> QED BY <3>2 DEF g
  <2>7. ((x \div d) % (e * f)) % e = (x \div d) % e
    <3> DEFINE y == x \div d
    <3>1. y \in Int
      BY <2>5
    <3> HIDE DEF y
    <3>2. (y % (e * f)) % e = y % e
      BY <2>3, <3>1, Truncation
    <3> QED BY <3>2 DEF y
  <2>8. digit(x, k) = (x \div d) % e /\ digit(x % Two[Q * n], k) = ((x % (d * (e * f))) \div d) % e
    BY <2>4 DEF d, e
  <2>9. (x \div d) % e \in 0..(e - 1)
    BY <2>3, <2>5
  <2> QED BY <2>6, <2>7, <2>8, <2>9 DEF e
<1>3. ASSUME NEW x \in Int
      PROVE  PutBytes(m, ea, n, x)
             = [c \in Cells |-> IF c \in ea..(ea + n - 1) THEN digit(x, c - ea) ELSE m[c]]
  BY DEF PutBytes, Q
<1>4. ASSUME NEW c \in Cells, c \in ea..(ea + n - 1) PROVE c - ea \in 0..(n - 1)
  BY <1>1, <1>4
<1> HIDE DEF digit
<1>5. PutBytes(m, ea, n, v) \in [Cells -> Byte]
  <2>1. ASSUME NEW c \in Cells, c \in ea..(ea + n - 1) PROVE digit(v, c - ea) \in Byte
    BY <1>2, <1>4, <2>1 DEF Byte, Q
  <2> QED BY <1>3, <2>1
<1>6. v % Two[Q * n] \in Int
  <2>1. Q * n \in Nat
    BY <1>1
  <2>2. Two[Q * n] \in Nat \ {0}
    BY <2>1, TwoSteps
  <2> QED BY <2>2
<1>7. PutBytes(m, ea, n, v % Two[Q * n]) = PutBytes(m, ea, n, v)
  <2>1. ASSUME NEW c \in Cells, c \in ea..(ea + n - 1)
        PROVE  digit(v % Two[Q * n], c - ea) = digit(v, c - ea)
    BY <1>2, <1>4, <2>1
  <2> QED BY <1>3, <1>6, <2>1
<1> QED BY <1>5, <1>7 DEF Q

-----------------------------------------------------------------------------
(***************************************************************************)
(* Operations.                                                             *)
(***************************************************************************)
LEMMA Operations ==
    ASSUME NEW a \in Word, NEW b \in Word, NEW sel, NEW special
    PROVE  /\ InterpOp(sel, special, a, b) \in Word \cup NoOutcome
           /\ CompiledOp(sel, special, a, b) \in Word \cup NoOutcome
           /\ InterpOp(sel, special, a, b) \notin NoOutcome
              => CompiledOp(sel, special, a, b) = InterpOp(sel, special, a, b)
<1> DEFINE d == Divider(b)
<1>1. Stopped \in NoOutcome /\ Undefined \in NoOutcome
  BY DEF NoOutcome
<1>2. ShiftAmount(b) \in Nat
  BY ShiftsDefined DEF Word
<1>3. d \in Word /\ d # 0 /\ (b # 0 => d = b)
  BY WordParts DEF Divider
<1>4. /\ Wrap(a + b) \in Word /\ Wrap(a * b) \in Word /\ Wrap(a - b) \in Word
      /\ Wrap((Signed(a) * Signed(b)) \div Two[W]) \in Word
      /\ (a * b) \div Two[W] \in Word /\ Wrap((a * b) \div Two[W]) = (a * b) \div Two[W]
      /\ MulHigh(a, b) = Wrap((Signed(a) * Signed(b)) \div Two[W])
  BY Products
<1>5. /\ ShiftLeft(a, ShiftAmount(b)) \in Word /\ ShiftRight(a, ShiftAmount(b)) \in Word
      /\ a \div Two[ShiftAmount(b)] \in Word
  BY <1>2, Shifts
<1>6. And(a, b) \in Word /\ Or(a, b) \in Word /\ Xor(a, b) \in Word
  BY BitwiseWords DEF Word
<1>7. Flag(Signed(a) < Signed(b)) \in Word /\ Flag(a < b) \in Word
  BY FlagWord
<1>8. /\ b # 0 => Quotient(a, b) \in Word /\ Remainder(a, b) \in Word
                  /\ a \div b \in Word /\ a % b \in Word
      /\ Quotient(a, d) \in Word /\ Remainder(a, d) \in Word
      /\ a \div d \in Word /\ a % d \in Word
  <2>1. \A e \in Word : e # 0 => Quotient(a, e) \in Word /\ Remainder(a, e) \in Word
    BY SignedDivision
  <2>2. \A e \in Word : e # 0 => e \in Nat \ {0}
    BY DEF Word
  <2>3. \A e \in Word : e # 0 => a \div e \in Word /\ a % e \in Word
    BY <2>2, WordParts
  <2> QED BY <1>3, <2>1, <2>3
<1> HIDE DEF d
<1>9. InterpOp(sel, special, a, b) \in Word \cup NoOutcome
  BY <1>1, <1>4, <1>5, <1>6, <1>7, <1>8, Zenon DEF InterpOp
<1>10. CompiledOp(sel, special, a, b) \in Word \cup NoOutcome
  BY <1>1, <1>4, <1>5, <1>6, <1>7, <1>8, Zenon DEF CompiledOp, d
<1>11. ASSUME InterpOp(sel, special, a, b) \notin NoOutcome
       PROVE  CompiledOp(sel, special, a, b) = InterpOp(sel, special, a, b)
  BY <1>1, <1>3, <1>4, <1>11 DEF InterpOp, CompiledOp, d
<1> QED BY <1>9, <1>10, <1>11

LEMMA ImmOperations ==
    ASSUME NEW a \in Word, NEW imm \in Word, NEW n \in Nat, NEW sel, NEW special
    PROVE  /\ InterpImm(sel, special, a, imm, n) \in Word \cup NoOutcome
           /\ CompiledImm(sel, special, a, imm, n) = InterpImm(sel, special, a, imm, n)
<1>1. Stopped \in NoOutcome
  BY DEF NoOutcome
<1>2. Wrap(a + imm) \in Word
  BY Products
<1>3. ShiftLeft(a, n) \in Word /\ ShiftRight(a, n) \in Word /\ a \div Two[n] \in Word
  BY Shifts
<1>4. And(a, imm) \in Word /\ Or(a, imm) \in Word /\ Xor(a, imm) \in Word
  BY BitwiseWords DEF Word
<1>5. Flag(Signed(a) < Signed(imm)) \in Word /\ Flag(a < imm) \in Word
  BY FlagWord
<1>6. InterpImm(sel, special, a, imm, n) \in Word \cup NoOutcome
  BY <1>1, <1>2, <1>3, <1>4, <1>5, Zenon DEF InterpImm
<1> QED BY <1>6 DEF InterpImm, CompiledImm

LEMMA Loads ==
    ASSUME NEW m \in [Cells -> Byte], NEW ea \in Word, NEW sel
    PROVE  /\ InterpLoad(sel, m, ea) \in Word \cup NoOutcome
           /\ sel \in {0, 1, 2, 4, 5} => CompiledLoad(sel, m, ea) = InterpLoad(sel, m, ea)
<1>1. Stopped \in NoOutcome
  BY DEF NoOutcome
<1>2. m[ea] \in Word /\ Half(m, ea) \in Word /\ Full(m, ea) \in Word
  BY Loaded
<1>3. SExt(m[ea], W \div 4) \in Word /\ SExt(Half(m, ea), W \div 2) \in Word
  <2>1. W \div 4 \in Nat \ {0} /\ W \div 2 \in Nat \ {0}
    BY Widths
  <2> QED BY <1>2, <2>1, Extended
<1>4. InterpLoad(sel, m, ea) \in Word \cup NoOutcome
  BY <1>1, <1>2, <1>3, Zenon DEF InterpLoad
<1> QED BY <1>4 DEF InterpLoad, CompiledLoad

LEMMA Stores ==
    ASSUME NEW m \in [Cells -> Byte], NEW ea \in Word, NEW v \in Word, NEW sel \in 0..2
    PROVE  /\ InterpStore(sel, m, ea, v) \in [Cells -> Byte]
           /\ CompiledStore(sel, m, ea, v) = InterpStore(sel, m, ea, v)
<1>1. Two[sel] \in Nat /\ v \in Int
  BY TwoSteps DEF Word
<1> QED BY <1>1, Stored DEF InterpStore, CompiledStore

LEMMA Branches ==
    ASSUME NEW a \in Word, NEW b \in Word, NEW sel \in Conditions
    PROVE  CompiledTaken(sel, a, b) <=> InterpTaken(sel, a, b)
BY DEF InterpTaken, CompiledTaken, Conditions

-----------------------------------------------------------------------------
(***************************************************************************)
(* Instructions.                                                           *)
(***************************************************************************)
\* The states that the two engines work on.
Machine == [pc : Word, gpr : [Regs -> Word], mem : [Cells -> Byte]]

Outcome(s) ==
    /\ s.pc \in Word \cup NoOutcome
    /\ s.gpr \in [Regs -> Word] /\ s.gpr[0] = 0
    /\ s.mem \in [Cells -> Byte]

\* What an instruction is given: words.
LEMMA Operands ==
    ASSUME NEW s \in Machine, NEW i \in Insns
    PROVE  /\ s.gpr[i.rs1] \in Word /\ s.gpr[i.rs2] \in Word
           /\ SExt(i.imm, ImmBits) \in Word /\ i.imm % W \in Nat
           /\ Wrap(i.imm * Two[ImmBits]) \in Word /\ Wrap(s.pc + i.imm * Two[ImmBits]) \in Word
           /\ Wrap(s.pc + 4) \in Word
           /\ \A x \in Word, y \in Word : Wrap(x + y) = Wrap(y + x) /\ Wrap(x + y) \in Word
           /\ \A x \in Word : And(x, Two[W] - 2) \in Word
<1>1. /\ i.rs1 \in Regs /\ i.rs2 \in Regs /\ i.imm \in 0..(Two[ImmBits] - 1)
      /\ s.gpr \in [Regs -> Word] /\ s.pc \in Word
  BY InsnsAssumption DEF Machine
<1>2. s.gpr[i.rs1] \in Word /\ s.gpr[i.rs2] \in Word
  BY <1>1
<1>3. ImmBits \in Nat \ {0} /\ ImmBits <= W /\ W \in Nat \ {0}
  BY WordAssumption, Widths
<1>4. Two[ImmBits] \in Nat \ {0} /\ Two[ImmBits] <= Two[W] /\ Two[W] \in Nat
  BY <1>3, TwoGrows, TwoSteps
<1>5. i.imm \in Word /\ i.imm \in Nat
  BY <1>1, <1>4 DEF Word
<1>6. SExt(i.imm, ImmBits) \in Word
  BY <1>3, <1>5, Extended
<1>7. i.imm % W \in Nat
  BY <1>3, <1>5
<1>8. i.imm * Two[ImmBits] \in Int /\ s.pc \in Int
  BY <1>1, <1>4, <1>5 DEF Word
<1>9. /\ Wrap(i.imm * Two[ImmBits]) \in Word /\ Wrap(s.pc + i.imm * Two[ImmBits]) \in Word
      /\ Wrap(s.pc + 4) \in Word
  BY <1>8, Wrapped
<1>10. ASSUME NEW x \in Word, NEW y \in Word
       PROVE  Wrap(x + y) = Wrap(y + x) /\ Wrap(x + y) \in Word
  <2>1. x + y = y + x /\ x + y \in Int
    BY DEF Word
  <2> QED BY <2>1, Wrapped
<1>11. ASSUME NEW x \in Word PROVE And(x, Two[W] - 2) \in Word
  <2>1. x \in Int /\ Two[W] - 2 \in Int
    BY <1>4 DEF Word
  <2> QED BY <2>1, BitwiseWords
<1> QED BY <1>2, <1>6, <1>7, <1>9, <1>10, <1>11

LEMMA Writes ==
    ASSUME NEW s \in Machine, s.gpr[0] = 0, NEW i \in Insns, NEW v \in Word \cup NoOutcome
    PROVE  /\ Outcome(Computed(s, i, v))
           /\ i.rd # 0 => Outcome(Assigned(s, i, v)) /\ Assigned(s, i, v) = Computed(s, i, v)
           /\ v \in Word => /\ Set(s.gpr, i.rd, v) \in [Regs -> Word]
                            /\ Set(s.gpr, i.rd, v)[0] = 0
                            /\ i.rd # 0 => [s.gpr EXCEPT ![i.rd] = v] = Set(s.gpr, i.rd, v)
<1>1. /\ s.pc \in Word /\ s.gpr \in [Regs -> Word] /\ s.mem \in [Cells -> Byte] /\ i.rd \in Regs
      /\ 0 \in Regs
  BY InsnsAssumption, ValuesAssumption DEF Machine, Regs
<1>2. v \in Word => /\ Set(s.gpr, i.rd, v) \in [Regs -> Word]
                    /\ Set(s.gpr, i.rd, v)[0] = 0
                    /\ i.rd # 0 => [s.gpr EXCEPT ![i.rd] = v] = Set(s.gpr, i.rd, v)
  BY <1>1 DEF Set
<1>3. Wrap(s.pc + 4) \in Word
  BY Operands
<1>4. CASE v \in NoOutcome
  BY <1>1, <1>2, <1>4 DEF Computed, Assigned, Outcome, Machine
<1>5. CASE v \notin NoOutcome
  <2>1. Computed(s, i, v) = [s EXCEPT !.gpr = Set(s.gpr, i.rd, v), !.pc = Wrap(s.pc + 4)]
    BY <1>5 DEF Computed
  <2>2. Assigned(s, i, v) = [s EXCEPT !.gpr = [s.gpr EXCEPT ![i.rd] = v], !.pc = Wrap(s.pc + 4)]
    BY <1>5 DEF Assigned
  <2>3. Outcome([s EXCEPT !.gpr = Set(s.gpr, i.rd, v), !.pc = Wrap(s.pc + 4)])
    BY <1>1, <1>2, <1>3, <1>5 DEF Outcome, Machine
  <2> QED BY <1>2, <1>5, <2>1, <2>2, <2>3
<1> QED BY <1>2, <1>4, <1>5

LEMMA Outcomes ==
    ASSUME NEW s \in Machine, s.gpr[0] = 0, NEW i \in Insns
    PROVE  /\ Outcome(Interp(s, i))
           /\ HasCode(i) => Outcome(Compiled(s, i))
           /\ (HasCode(i) /\ (i.op = "jalr" => i.rd = 0) /\ Interp(s, i).pc \notin NoOutcome)
              => Compiled(s, i) = Interp(s, i)
<1> DEFINE a == s.gpr[i.rs1]
           b == s.gpr[i.rs2]
           imm == SExt(i.imm, ImmBits)
           ea == Wrap(imm + a)
           linked == [s.gpr EXCEPT ![i.rd] = Wrap(s.pc + 4)]
           Goal == /\ Outcome(Interp(s, i))
                   /\ HasCode(i) => Outcome(Compiled(s, i))
                   /\ (HasCode(i) /\ (i.op = "jalr" => i.rd = 0)
                       /\ Interp(s, i).pc \notin NoOutcome)
                      => Compiled(s, i) = Interp(s, i)
<1>1. /\ a \in Word /\ b \in Word /\ imm \in Word /\ i.imm % W \in Nat
      /\ Wrap(i.imm * Two[ImmBits]) \in Word /\ Wrap(s.pc + i.imm * Two[ImmBits]) \in Word
      /\ Wrap(s.pc + 4) \in Word /\ Wrap(s.pc + imm) \in Word /\ Wrap(a + imm) = ea /\ ea \in Word
      /\ And(ea, Two[W] - 2) \in Word
  <2>1. s.pc \in Word
    BY DEF Machine
  <2>2. a \in Word /\ imm \in Word
    BY Operands
  <2>3. Wrap(a + imm) = ea /\ ea \in Word /\ Wrap(s.pc + imm) \in Word
    BY <2>1, <2>2, Operands
  <2> HIDE DEF ea
  <2> QED BY <2>2, <2>3, Operands
<1>2. /\ s.pc \in Word /\ s.gpr \in [Regs -> Word] /\ s.mem \in [Cells -> Byte] /\ i.rd \in Regs
      /\ s = [pc |-> s.pc, gpr |-> s.gpr, mem |-> s.mem] /\ i.op \in Ops /\ i.rs1 \in Regs
      /\ 0 \in Word /\ Stopped \in NoOutcome
  BY InsnsAssumption, WordParts, <1>1 DEF Machine, NoOutcome
<1> HIDE DEF a, b, imm, ea
<1>3. CASE i.op = "load"
  <2> DEFINE v == InterpLoad(i.sel, s.mem, ea)
             u == IF i.rd = 0 THEN 0 ELSE v
  <2>1. u \in Word \cup NoOutcome /\ v \in Word \cup NoOutcome
    BY <1>1, <1>2, Loads
  <2>2. Interp(s, i) = Computed(s, i, u)
    BY <1>3 DEF Interp, ea, a, imm
  <2>3. Compiled(s, i) = Assigned(s, i, CompiledLoad(i.sel, s.mem, ea))
    BY <1>1, <1>3 DEF Compiled, a, imm
  <2>4. HasCode(i) => i.rd # 0 /\ CompiledLoad(i.sel, s.mem, ea) = v
    BY <1>1, <1>2, <1>3, Loads DEF HasCode
  <2> HIDE DEF v
  <2>5. Outcome(Computed(s, i, u))
    BY <2>1, Writes
  <2>6. i.rd # 0 => Outcome(Assigned(s, i, v)) /\ Assigned(s, i, v) = Computed(s, i, v)
    BY <2>1, Writes
  <2> QED BY <2>2, <2>3, <2>4, <2>5, <2>6
<1>4. CASE i.op = "imm"
  <2> DEFINE v == InterpImm(i.sel, i.special, a, imm, i.imm % W)
             u == IF i.rd = 0 THEN 0 ELSE v
  <2>1. u \in Word \cup NoOutcome /\ v \in Word \cup NoOutcome
        /\ CompiledImm(i.sel, i.special, a, imm, i.imm % W) = v
    BY <1>1, <1>2, ImmOperations
  <2>2. Interp(s, i) = Computed(s, i, u)
    BY <1>4 DEF Interp, a, imm
  <2>3. Compiled(s, i) = Assigned(s, i, v)
    BY <1>4, <2>1 DEF Compiled, a, imm
  <2>4. HasCode(i) => i.rd # 0
    BY <1>4 DEF HasCode
  <2> HIDE DEF v
  <2>5. Outcome(Computed(s, i, u))
    BY <2>1, Writes
  <2>6. i.rd # 0 => Outcome(Assigned(s, i, v)) /\ Assigned(s, i, v) = Computed(s, i, v)
    BY <2>1, Writes
  <2> QED BY <2>2, <2>3, <2>4, <2>5, <2>6
<1>5. CASE i.op = "reg"
  <2> DEFINE v == InterpOp(i.sel, i.special, a, b)
             w == CompiledOp(i.sel, i.special, a, b)
             u == IF i.rd = 0 THEN 0 ELSE v
  <2>1. u \in Word \cup NoOutcome /\ v \in Word \cup NoOutcome /\ w \in Word \cup NoOutcome
        /\ (v \notin NoOutcome => w = v)
    BY <1>1, <1>2, Operations
  <2>2. Interp(s, i) = Computed(s, i, u)
    BY <1>5 DEF Interp, a, b
  <2>3. Compiled(s, i) = Assigned(s, i, w)
    BY <1>5 DEF Compiled, a, b
  <2>4. HasCode(i) => i.rd # 0
    BY <1>5 DEF HasCode
  <2> HIDE DEF v, w
  <2>5. Outcome(Computed(s, i, u))
    BY <2>1, Writes
  <2>6. i.rd # 0 => Outcome(Assigned(s, i, w)) /\ Assigned(s, i, w) = Computed(s, i, w)
    BY <2>1, Writes
  <2>7. v \in NoOutcome => Computed(s, i, v).pc = v
    BY <1>2 DEF Computed
  <2> QED BY <2>1, <2>2, <2>3, <2>4, <2>5, <2>6, <2>7
<1>6. CASE i.op = "lui"
  <2> DEFINE v == Wrap(i.imm * Two[ImmBits])
  <2>1. Interp(s, i) = Computed(s, i, v) /\ Compiled(s, i) = Assigned(s, i, v)
    BY <1>6 DEF Interp, Compiled
  <2>2. HasCode(i) => i.rd # 0
    BY <1>6 DEF HasCode
  <2>3. v \in Word \cup NoOutcome
    BY <1>1
  <2> HIDE DEF v
  <2>4. Outcome(Computed(s, i, v))
    BY <2>3, Writes
  <2>5. i.rd # 0 => Outcome(Assigned(s, i, v)) /\ Assigned(s, i, v) = Computed(s, i, v)
    BY <2>3, Writes
  <2> QED BY <2>1, <2>2, <2>4, <2>5
<1>7. CASE i.op = "auipc"
  <2> DEFINE v == Wrap(s.pc + i.imm * Two[ImmBits])
  <2>1. Interp(s, i) = Computed(s, i, v) /\ Compiled(s, i) = Assigned(s, i, v)
    BY <1>7 DEF Interp, Compiled
  <2>2. HasCode(i) => i.rd # 0
    BY <1>7 DEF HasCode
  <2>3. v \in Word \cup NoOutcome
    BY <1>1
  <2> HIDE DEF v
  <2>4. Outcome(Computed(s, i, v))
    BY <2>3, Writes
  <2>5. i.rd # 0 => Outcome(Assigned(s, i, v)) /\ Assigned(s, i, v) = Computed(s, i, v)
    BY <2>3, Writes
  <2> QED BY <2>1, <2>2, <2>4, <2>5
<1>8. CASE i.op = "store"
  <2> DEFINE m == InterpStore(i.sel, s.mem, ea, b)
  <2>1. CASE i.sel \in 0..2
    <3>1. m \in [Cells -> Byte] /\ CompiledStore(i.sel, s.mem, ea, b) = m
      <4> DEFINE sel == i.sel
                 mem == s.mem
      <4>1. sel \in 0..2 /\ mem \in [Cells -> Byte]
        BY <1>2, <2>1
      <4> HIDE DEF sel, mem
      <4>2. /\ InterpStore(sel, mem, ea, b) \in [Cells -> Byte]
            /\ CompiledStore(sel, mem, ea, b) = InterpStore(sel, mem, ea, b)
        BY <1>1, <4>1, Stores
      <4> QED BY <4>2 DEF sel, mem
    <3>2. Interp(s, i) = [s EXCEPT !.mem = m, !.pc = Wrap(s.pc + 4)]
      BY <1>8, <2>1 DEF Interp, a, b, imm, ea
    <3>3. Compiled(s, i) = [s EXCEPT !.mem = m, !.pc = Wrap(s.pc + 4)]
      BY <1>1, <1>8, <3>1 DEF Compiled, a, b, imm
    <3> HIDE DEF m
    <3>4. Outcome([s EXCEPT !.mem = m, !.pc = Wrap(s.pc + 4)])
      BY <1>1, <1>2, <3>1 DEF Outcome
    <3> QED BY <3>2, <3>3, <3>4
  <2>2. CASE i.sel \notin 0..2
    <3>1. Interp(s, i) = [s EXCEPT !.pc = Stopped] /\ ~HasCode(i)
      BY <1>8, <2>2 DEF Interp, HasCode
    <3> QED BY <1>2, <3>1 DEF Outcome
  <2> QED BY <2>1, <2>2
<1>9. CASE i.op = "branch"
  <2>1. CASE i.sel \in Conditions
    <3>1. Interp(s, i) = [s EXCEPT !.pc = Wrap(s.pc + IF InterpTaken(i.sel, a, b) THEN imm ELSE 4)]
      BY <1>9, <2>1 DEF Interp, InterpBranch, a, b, imm
    <3>2. Compiled(s, i)
          = [s EXCEPT !.pc = IF CompiledTaken(i.sel, a, b) THEN Wrap(s.pc + imm) ELSE Wrap(s.pc + 4)]
      BY <1>9 DEF Compiled, a, b, imm
    <3>3. CompiledTaken(i.sel, a, b) <=> InterpTaken(i.sel, a, b)
      BY <1>1, <2>1, Branches
    <3>4. Outcome([s EXCEPT !.pc = Wrap(s.pc + imm)]) /\ Outcome([s EXCEPT !.pc = Wrap(s.pc + 4)])
      BY <1>1, <1>2 DEF Outcome
    <3>5. CASE InterpTaken(i.sel, a, b)
      BY <3>1, <3>2, <3>3, <3>4, <3>5
    <3>6. CASE ~InterpTaken(i.sel, a, b)
      BY <3>1, <3>2, <3>3, <3>4, <3>6
    <3> QED BY <3>5, <3>6
  <2>2. CASE i.sel \notin Conditions
    <3>1. Interp(s, i) = [s EXCEPT !.pc = Stopped] /\ ~HasCode(i)
      BY <1>9, <2>2 DEF Interp, InterpBranch, HasCode
    <3> QED BY <1>2, <3>1 DEF Outcome
  <2> QED BY <2>1, <2>2
<1>10. CASE i.op = "jal"
  <2> DEFINE g == Set(s.gpr, i.rd, Wrap(s.pc + 4))
  <2>1. Interp(s, i) = [s EXCEPT !.gpr = g, !.pc = Wrap(s.pc + imm)]
    BY <1>10 DEF Interp, InterpJump, imm
  <2>2. g \in [Regs -> Word] /\ g[0] = 0 /\ (i.rd # 0 => linked = g)
    BY <1>1, Writes
  <2>3. i.rd = 0 => g = s.gpr
    BY DEF Set
  <2>4. i.rd = 0 => Compiled(s, i) = [s EXCEPT !.pc = Wrap(s.pc + imm)]
    BY <1>10 DEF Compiled, imm
  <2>5. i.rd # 0 => Compiled(s, i) = [s EXCEPT !.gpr = linked, !.pc = Wrap(s.pc + imm)]
    BY <1>10 DEF Compiled, imm
  <2> HIDE DEF g, linked
  <2>6. Outcome([s EXCEPT !.gpr = g, !.pc = Wrap(s.pc + imm)])
    BY <1>1, <1>2, <2>2 DEF Outcome
  <2>7. i.rd = 0 => [s EXCEPT !.pc = Wrap(s.pc + imm)] = [s EXCEPT !.gpr = g, !.pc = Wrap(s.pc + imm)]
    BY <1>2, <2>3
  <2> QED BY <2>1, <2>2, <2>4, <2>5, <2>6, <2>7
<1>11. CASE i.op = "jalr"
  <2> DEFINE g == Set(s.gpr, i.rd, Wrap(s.pc + 4))
  <2>1. Interp(s, i) = [s EXCEPT !.gpr = g, !.pc = And(ea, Two[W] - 2)]
    BY <1>11 DEF Interp, InterpJump, imm, ea, a
  <2>2. g \in [Regs -> Word] /\ g[0] = 0 /\ (i.rd # 0 => linked = g)
    BY <1>1, Writes
  <2>3. i.rd = 0 => g = s.gpr
    BY DEF Set
  <2>4. i.rd = 0 => Compiled(s, i) = [s EXCEPT !.pc = And(ea, Two[W] - 2)]
    BY <1>1, <1>11 DEF Compiled, imm, a
  <2>5. i.rd # 0 => Compiled(s, i) = [s EXCEPT !.gpr = linked, !.pc = linked[i.rs1]]
    BY <1>11 DEF Compiled
  <2> HIDE DEF g, linked
  <2>6. Outcome([s EXCEPT !.gpr = g, !.pc = And(ea, Two[W] - 2)])
    BY <1>1, <1>2, <2>2 DEF Outcome
  <2>7. i.rd = 0 => [s EXCEPT !.pc = And(ea, Two[W] - 2)] = [s EXCEPT !.gpr = g, !.pc = And(ea, Two[W] - 2)]
    BY <1>2, <2>3
  <2>8. g[i.rs1] \in Word
    BY <1>2, <2>2
  <2>9. Outcome([s EXCEPT !.gpr = g, !.pc = g[i.rs1]])
    BY <1>2, <2>2, <2>8 DEF Outcome
  <2> QED BY <1>11, <2>1, <2>2, <2>4, <2>5, <2>6, <2>7, <2>9
<1> QED BY <1>2, <1>3, <1>4, <1>5, <1>6, <1>7, <1>8, <1>9, <1>10, <1>11 DEF Ops

-----------------------------------------------------------------------------
(***************************************************************************)
(* The invariant: each engine has run the instruction on the state before  *)
(* it, or has not run yet.                                                 *)
(***************************************************************************)
IndInv ==
    /\ stage \in {"start", "interpreted", "compared"}
    /\ insn \in Insns
    /\ before \in Machine /\ before.gpr[0] = 0
    /\ after = IF stage = "start" THEN before ELSE Interp(before, insn)
    /\ code = IF stage = "compared" THEN Compiled(before, insn) ELSE before
    /\ stage = "compared" => HasCode(insn)

LEMMA Invariance == Spec => []IndInv
<1>1. Init => IndInv
  <2> SUFFICES ASSUME Init PROVE IndInv
    OBVIOUS
  <2>1. PICK g \in [Regs -> Values \cup {0}] :
            g[0] = 0 /\ before = [pc |-> 4, gpr |-> g, mem |-> Memory]
    BY DEF Init, States
  <2>2. 4 \in Word
    <3>1. W \in Nat /\ W >= 4
      BY Widths
    <3>2. W < Two[W] /\ Two[W] \in Nat
      BY <3>1, BelowTwo, Widths
    <3> QED BY <3>1, <3>2 DEF Word
  <2>3. Values \cup {0} \subseteq Word
    BY ValuesAssumption, <2>2, Widths DEF Word
  <2>4. g \in [Regs -> Word]
    BY <2>3
  <2>5. before \in Machine /\ before.gpr[0] = 0
    BY <2>1, <2>2, <2>4, MemoryAssumption DEF Machine
  <2> QED BY <2>5 DEF Init, IndInv
<1>2. IndInv /\ [Next]_vars => IndInv'
  <2> SUFFICES ASSUME IndInv, [Next]_vars PROVE IndInv'
    OBVIOUS
  <2>1. CASE Interpret
    BY <2>1 DEF Interpret, IndInv
  <2>2. CASE RunCompiled
    BY <2>2 DEF RunCompiled, IndInv
  <2>3. CASE UNCHANGED vars
    BY <2>3 DEF vars, IndInv
  <2> QED BY <2>1, <2>2, <2>3 DEF Next
<1> QED BY <1>1, <1>2, PTL DEF Spec

\* Every word, register and byte stays in its range whatever is executed, and
\* x0 stays 0, in the interpreter and in compiled code.
THEOREM TypesKept == Spec => []TypeOK
<1>1. IndInv => TypeOK
  <2> SUFFICES ASSUME IndInv PROVE TypeOK
    OBVIOUS
  <2>1. Outcome(before)
    BY DEF IndInv, Outcome, Machine
  <2>2. Outcome(Interp(before, insn)) /\ (HasCode(insn) => Outcome(Compiled(before, insn)))
    BY Outcomes DEF IndInv
  <2>3. Outcome(after) /\ Outcome(code)
    BY <2>1, <2>2 DEF IndInv
  <2> QED BY <2>1, <2>3 DEF IndInv, TypeOK, Outcome
<1> QED BY <1>1, Invariance, PTL

\* A call through a register: compiled code then takes the link for the target.
LinkedJump(i) == i.op = "jalr" /\ i.rd # 0

\* The interpreter and compiled code leave the same registers, the same memory
\* and the same next pc, for words of any width, unless the instruction is a
\* call through a register.
THEOREM EnginesAgree ==
    ASSUME \A i \in Insns : ~LinkedJump(i)
    PROVE  Spec => []Agrees
<1>1. IndInv => Agrees
  <2> SUFFICES ASSUME IndInv, stage = "compared", after.pc \notin NoOutcome
               PROVE  code = after
    BY DEF Agrees
  <2>1. insn \in Insns /\ HasCode(insn) /\ before \in Machine /\ before.gpr[0] = 0
        /\ after = Interp(before, insn) /\ code = Compiled(before, insn)
    BY DEF IndInv
  <2>2. insn.op = "jalr" => insn.rd = 0
    BY <2>1 DEF LinkedJump
  <2> QED BY <2>1, <2>2, Outcomes
<1> QED BY <1>1, Invariance, PTL
=============================================================================

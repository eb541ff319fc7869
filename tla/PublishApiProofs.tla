--------------------------- MODULE PublishApiProofs ----------------------------
(***************************************************************************)
(* What the codec of the wire protocol does with messages and bytes of any *)
(* length, for integers of any width.                                      *)
(*                                                                         *)
(* The model's recursive functions come first: that a function with such a *)
(* definition exists follows from the decreasing number of bytes that are  *)
(* left, and what it yields by induction on them.  Two facts rest on this: *)
(* bytes of any kind are decoded to a message or refused, and every        *)
(* request and answer of this version is decoded to itself, the unknown    *)
(* fields of a later version included.  For the second, what is read of    *)
(* bytes must not depend on where they stand, and the size that is counted *)
(* must be that of what is written.                                        *)
(***************************************************************************)
EXTENDS PublishApi, WellFoundedInduction, TLAPS

--------------------------------------------------------------------------------
(* Induction and recursion *)

\* A set of numbers that is not empty has a least element.
LEMMA Least ==
  ASSUME NEW T \in SUBSET Nat, T # {}
  PROVE  \E n \in T : \A m \in T : n <= m
<1> DEFINE R == {p \in Nat \X Nat : p[1] < p[2]}
<1>1. IsWellFoundedOn(R, Nat)
  <2>1. R = OpToRel(<, Nat)
    BY DEF OpToRel
  <2> QED BY <2>1, NatLessThanWellFounded
<1>2. PICK n \in T : \A m \in T : <<m, n>> \notin R
  <2> HIDE DEF R
  <2> QED BY <1>1, WFMin
<1>3. \A m, k \in Nat : <<m, k>> \in R <=> m < k
  OBVIOUS
<1>4. n \in Nat /\ \A m \in T : m \in Nat /\ ~(m < n)
  <2> HIDE DEF R
  <2> QED BY <1>2, <1>3
<1>5. \A m \in T : n <= m
  BY <1>4
<1> QED BY <1>5

\* Induction over a rank.
LEMMA RankInduction ==
  ASSUME NEW S, NEW rank \in [S -> Nat], NEW T,
         \A s \in S : (\A t \in S : rank[t] < rank[s] => t \in T) => s \in T
  PROVE  S \subseteq T
<1> SUFFICES ASSUME S \ T # {} PROVE FALSE
  OBVIOUS
<1> DEFINE Ranks == {rank[s] : s \in S \ T}
<1>1. PICK n \in Ranks : \A m \in Ranks : n <= m
  <2>1. Ranks \in SUBSET Nat /\ Ranks # {}
    OBVIOUS
  <2> HIDE DEF Ranks
  <2> QED BY <2>1, Least
<1>2. PICK s \in S \ T : n = rank[s]
  BY <1>1
<1>3. \A t \in S : rank[t] < rank[s] => t \in T
  <2> SUFFICES ASSUME NEW t \in S, rank[t] < rank[s], t \notin T PROVE FALSE
    OBVIOUS
  <2>1. rank[t] \in Ranks
    OBVIOUS
  <2> HIDE DEF Ranks
  <2> QED BY <1>1, <1>2, <2>1
<1> QED BY <1>2, <1>3

\* A recursion that ends, as each step lowers the rank, and the functions that solve it.
Grounded(S, R, rank, Stop, step, end, out) ==
  /\ rank \in [S -> Nat] /\ step \in [S \ Stop -> S]
  /\ end \in [S -> R] /\ out \in [S \X R -> R]
  /\ \A s \in S \ Stop : rank[step[s]] < rank[s]

Solves(f, S, Stop, step, end, out) ==
  \A s \in S : f[s] = IF s \in Stop THEN end[s] ELSE out[<<s, f[step[s]]>>]

\* A function that is defined by recursion along a rank exists.
LEMMA Recursion ==
  ASSUME NEW S, NEW R, NEW rank, NEW Stop, NEW step, NEW end, NEW out,
         Grounded(S, R, rank, Stop, step, end, out)
  PROVE  \E f \in [S -> R] : Solves(f, S, Stop, step, end, out)
<1> USE DEF Grounded
<1> DEFINE Below(n) == {s \in S : rank[s] < n}
           Agree(g, s) == g[s] = IF s \in Stop THEN end[s] ELSE out[<<s, g[step[s]]>>]
           Approximates(g, n) == g \in [Below(n) -> R] /\ \A s \in Below(n) : Agree(g, s)
           Reached == {n \in Nat : \E g : Approximates(g, n)}
<1>1. ASSUME NEW n \in Nat, NEW g, Approximates(g, n)
      PROVE  n + 1 \in Reached
  <2> DEFINE h == [s \in Below(n + 1) |->
                     IF s \in Below(n) THEN g[s]
                     ELSE IF s \in Stop THEN end[s] ELSE out[<<s, g[step[s]]>>]]
  <2>1. ASSUME NEW s \in Below(n + 1), s \notin Stop
        PROVE  step[s] \in Below(n) /\ h[step[s]] = g[step[s]] /\ g[step[s]] \in R
    BY <1>1, <2>1
  <2>2. h \in [Below(n + 1) -> R]
    BY <1>1, <2>1
  <2>3. \A s \in Below(n + 1) : Agree(h, s)
    BY <1>1, <2>1
  <2>4. Approximates(h, n + 1) /\ n + 1 \in Nat
    <3> HIDE DEF h, Below
    <3> QED BY <2>2, <2>3
  <2> HIDE DEF Approximates, h
  <2> QED BY <2>4
<1>2. \A n \in Nat : \E g : Approximates(g, n)
  <2> DEFINE id == [n \in Nat |-> n]
  <2>1. \E g : Approximates(g, 0)
    <3>1. Approximates([s \in {} |-> CHOOSE r : r \in R], 0)
      BY DEF Below
    <3> QED BY <3>1
  <2> HIDE DEF Approximates
  <2>2. ASSUME NEW n \in Nat, \A m \in Nat : id[m] < id[n] => m \in Reached
        PROVE  n \in Reached
    <3>1. CASE n = 0
      BY <2>1, <3>1
    <3>2. CASE n # 0
      <4>1. n - 1 \in Nat /\ id[n - 1] < id[n] /\ (n - 1) + 1 = n
        BY <3>2
      <4>2. PICK g : Approximates(g, n - 1)
        BY <2>2, <4>1
      <4> QED BY <1>1, <4>1, <4>2
    <3> QED BY <3>1, <3>2
  <2>3. Nat \subseteq Reached
    <3>1. id \in [Nat -> Nat]
      OBVIOUS
    <3> HIDE DEF Reached, id
    <3> QED BY <2>2, <3>1, RankInduction
  <2> QED BY <2>3
<1>3. ASSUME NEW n \in Nat, NEW m \in Nat, n <= m, NEW g, NEW h,
             Approximates(g, n), Approximates(h, m)
      PROVE  \A s \in Below(n) : g[s] = h[s]
  <2> DEFINE T == {s \in S : s \in Below(n) => g[s] = h[s]}
  <2>1. ASSUME NEW s \in S, \A t \in S : rank[t] < rank[s] => t \in T
        PROVE  s \in T
    <3> SUFFICES ASSUME s \in Below(n) PROVE g[s] = h[s]
      OBVIOUS
    <3>1. s \in Below(m) /\ Agree(g, s) /\ Agree(h, s)
      BY <1>3
    <3>2. s \notin Stop => step[s] \in Below(n) /\ g[step[s]] = h[step[s]]
      BY <2>1
    <3> QED BY <3>1, <3>2
  <2>2. S \subseteq T
    <3> HIDE DEF T
    <3> QED BY <2>1, RankInduction
  <2> QED BY <2>2
<1> DEFINE best == [n \in Nat |-> CHOOSE g : Approximates(g, n)]
           f == [s \in S |-> best[rank[s] + 1][s]]
<1>4. \A n \in Nat : Approximates(best[n], n)
  <2> HIDE DEF Approximates
  <2> QED BY <1>2
<1>5. ASSUME NEW s \in S PROVE f[s] \in R /\ Agree(f, s)
  <2>1. \A t \in S : rank[t] + 1 \in Nat /\ t \in Below(rank[t] + 1)
                  /\ f[t] = best[rank[t] + 1][t]
    OBVIOUS
  <2>2. Agree(best[rank[s] + 1], s) /\ f[s] \in R
    <3> HIDE DEF best, f
    <3> QED BY <1>4, <2>1
  <2>3. ASSUME s \notin Stop PROVE f[step[s]] = best[rank[s] + 1][step[s]]
    <3>1. step[s] \in S /\ rank[step[s]] + 1 <= rank[s] + 1
      BY <2>3
    <3> HIDE DEF f, best, Approximates, Below
    <3> QED BY <1>3, <1>4, <2>1, <3>1
  <2> HIDE DEF f, best
  <2> QED BY <2>1, <2>2, <2>3
<1>6. f \in [S -> R]
  BY <1>5
<1> HIDE DEF f
<1> QED BY <1>5, <1>6 DEF Solves

\* Induction over the natural numbers.
LEMMA Induction ==
  ASSUME NEW T, 0 \in T, \A n \in Nat : n \in T => n + 1 \in T
  PROVE  Nat \subseteq T
<1> DEFINE rank == [n \in Nat |-> n]
<1>1. ASSUME NEW n \in Nat, \A m \in Nat : rank[m] < rank[n] => m \in T
      PROVE  n \in T
  <2>1. CASE n = 0
    BY <2>1
  <2>2. CASE n # 0
    <3>1. n - 1 \in Nat /\ rank[n - 1] < rank[n] /\ (n - 1) + 1 = n
      BY <2>2
    <3> QED BY <1>1, <3>1
  <2> QED BY <2>1, <2>2
<1>2. rank \in [Nat -> Nat]
  OBVIOUS
<1> HIDE DEF rank
<1> QED BY <1>1, <1>2, RankInduction

\* The same for a recursion over the natural numbers.
Continues(f, start, out) ==
  f[0] = start /\ \A n \in Nat : n # 0 => f[n] = out[<<n, f[n - 1]>>]

\* A function on the natural numbers that is defined by recursion exists.
LEMMA PrimitiveRecursion ==
  ASSUME NEW R, NEW start \in R, NEW out \in [Nat \X R -> R]
  PROVE  \E f \in [Nat -> R] : Continues(f, start, out)
<1> DEFINE Stop == {0}
           rank == [n \in Nat |-> n]
           step == [n \in Nat \ Stop |-> n - 1]
           end == [n \in Nat |-> start]
<1>1. PICK f \in [Nat -> R] : Solves(f, Nat, Stop, step, end, out)
  <2>1. Grounded(Nat, R, rank, Stop, step, end, out)
    BY DEF Grounded
  <2> HIDE DEF Stop, rank, step, end
  <2> QED BY <2>1, Recursion
<1> QED BY <1>1 DEF Solves, Continues

--------------------------------------------------------------------------------
(* Powers of two *)

\* The functions that PublishApi defines by recursion do not refer to anything but
\* themselves: what is shown of them holds of any function of that form.
LEMMA Pow2Unfolds ==
  /\ Pow2 \in [Nat -> Nat \ {0}]
  /\ Pow2[0] = 1
  /\ \A n \in Nat : Pow2[n + 1] = 2 * Pow2[n]
<1> DEFINE R == Nat \ {0}
           out == [p \in Nat \X R |-> 2 * p[2]]
<1>1. PICK f \in [Nat -> R] : Continues(f, 1, out)
  <2>1. 1 \in R /\ out \in [Nat \X R -> R]
    OBVIOUS
  <2> HIDE DEF R, out
  <2> QED BY <2>1, PrimitiveRecursion
<1>2. \A n \in Nat : f[n] = IF n = 0 THEN 1 ELSE 2 * f[n - 1]
  <2>1. \A n \in Nat : n # 0 => f[n - 1] \in R
    OBVIOUS
  <2>2. \A n \in Nat, r \in R : out[<<n, r>>] = 2 * r
    OBVIOUS
  <2> HIDE DEF out, R
  <2> QED BY <1>1, <2>1, <2>2 DEF Continues
<1>3. f = [n \in Nat |-> IF n = 0 THEN 1 ELSE 2 * f[n - 1]]
  BY <1>2
<1>4. Pow2 = [n \in Nat |-> IF n = 0 THEN 1 ELSE 2 * Pow2[n - 1]]
  BY <1>3 DEF Pow2
<1>5. Pow2[0] = 1 /\ \A n \in Nat : Pow2[n + 1] = 2 * Pow2[n]
  BY <1>4
<1> DEFINE T == {n \in Nat : Pow2[n] \in Nat \ {0}}
<1>6. 0 \in T /\ \A n \in Nat : n \in T => n + 1 \in T
  BY <1>5
<1>7. Nat \subseteq T
  <2> HIDE DEF T
  <2> QED BY <1>6, Induction
<1> QED BY <1>4, <1>5, <1>7

\* The powers of two grow with the exponent.
LEMMA PowersGrow ==
  ASSUME NEW m \in Nat, NEW n \in Nat, m <= n
  PROVE  Pow2[m] <= Pow2[n]
<1> DEFINE T == {d \in Nat : Pow2[m] <= Pow2[m + d]}
<1>1. 0 \in T
  BY Pow2Unfolds
<1>2. ASSUME NEW d \in Nat, d \in T PROVE d + 1 \in T
  <2>1. m + d \in Nat /\ m + (d + 1) = (m + d) + 1
    OBVIOUS
  <2>2. Pow2[m + (d + 1)] = 2 * Pow2[m + d] /\ Pow2[m + d] \in Nat /\ Pow2[m] \in Nat
    BY <2>1, Pow2Unfolds
  <2> QED BY <1>2, <2>2
<1>3. Nat \subseteq T
  <2> HIDE DEF T
  <2> QED BY <1>1, <1>2, Induction
<1>4. n - m \in T /\ m + (n - m) = n
  BY <1>3
<1> QED BY <1>4

\* The powers of two that the proofs calculate with.
LEMMA SmallPowers ==
  Pow2[4] = 16 /\ Pow2[5] = 32 /\ Pow2[7] = 128 /\ Pow2[8] = 256
<1>1. Pow2[1] = 2
  <2>1. Pow2[0 + 1] = 2 * Pow2[0]
    BY Pow2Unfolds
  <2> QED BY <2>1, Pow2Unfolds
<1>2. Pow2[2] = 4 /\ Pow2[3] = 8 /\ Pow2[4] = 16
  <2>1. Pow2[1 + 1] = 2 * Pow2[1] /\ Pow2[2 + 1] = 2 * Pow2[2] /\ Pow2[3 + 1] = 2 * Pow2[3]
    BY Pow2Unfolds
  <2> QED BY <1>1, <2>1
<1>3. Pow2[5] = 32 /\ Pow2[6] = 64 /\ Pow2[7] = 128 /\ Pow2[8] = 256
  <2>1. Pow2[4 + 1] = 2 * Pow2[4] /\ Pow2[5 + 1] = 2 * Pow2[5] /\ Pow2[6 + 1] = 2 * Pow2[6]
        /\ Pow2[7 + 1] = 2 * Pow2[7]
    BY Pow2Unfolds
  <2> QED BY <1>2, <2>1
<1> QED BY <1>2, <1>3

\* Seven more bits are a factor of 128.
LEMMA SevenBits ==
  ASSUME NEW n \in Nat
  PROVE  Pow2[7 * (n + 1)] = 128 * Pow2[7 * n]
<1> DEFINE k == 7 * n
<1>1. k \in Nat /\ 7 * (n + 1) = k + 7
  OBVIOUS
<1> HIDE DEF k
<1>2. Pow2[k + 1] = 2 * Pow2[k] /\ Pow2[(k + 1) + 1] = 2 * Pow2[k + 1]
      /\ Pow2[(k + 2) + 1] = 2 * Pow2[k + 2] /\ Pow2[(k + 3) + 1] = 2 * Pow2[k + 3]
  BY <1>1, Pow2Unfolds
<1>3. Pow2[(k + 4) + 1] = 2 * Pow2[k + 4] /\ Pow2[(k + 5) + 1] = 2 * Pow2[k + 5]
      /\ Pow2[(k + 6) + 1] = 2 * Pow2[k + 6]
  BY <1>1, Pow2Unfolds
<1>4. (k + 1) + 1 = k + 2 /\ (k + 2) + 1 = k + 3 /\ (k + 3) + 1 = k + 4 /\ (k + 4) + 1 = k + 5
      /\ (k + 5) + 1 = k + 6 /\ (k + 6) + 1 = k + 7
  BY <1>1
<1>5. Pow2[k] \in Nat
  BY <1>1, Pow2Unfolds
<1>6. Pow2[k + 7] = 128 * Pow2[k]
  BY <1>2, <1>3, <1>4, <1>5
<1> QED BY <1>1, <1>6 DEF k

\* Quotient and remainder are the only ones.
LEMMA Quotient ==
  ASSUME NEW d \in Nat \ {0}, NEW q \in Int, NEW r \in 0..(d - 1)
  PROVE  (q * d + r) \div d = q /\ (q * d + r) % d = r
  OBVIOUS

\* A number is made of its quotient and its remainder.
LEMMA Divides ==
  ASSUME NEW x \in Nat, NEW d \in Nat \ {0}
  PROVE  x \div d \in Nat /\ x % d \in 0..(d - 1) /\ x = (x \div d) * d + (x % d)
  OBVIOUS

--------------------------------------------------------------------------------
(* Varints *)

\* What is left of a number once the first k groups of seven bits are written.
Shifted(x, k) == x \div Pow2[7 * k]

\* Seven bits at a time, a number is taken apart, and comes to an end.
LEMMA Shifting ==
  ASSUME NEW x \in Nat
  PROVE  /\ Shifted(x, 0) = x
         /\ \A k \in Nat : (/\ Shifted(x, k) \in Nat
                            /\ Shifted(x, k) = 128 * Shifted(x, k + 1) + (Shifted(x, k) % 128)
                            /\ (x < Pow2[7 * (k + 1)] => Shifted(x, k) < 128))
<1>1. Shifted(x, 0) = x
  BY Pow2Unfolds DEF Shifted
<1>2. ASSUME NEW k \in Nat
      PROVE  /\ Shifted(x, k) \in Nat
             /\ Shifted(x, k) = 128 * Shifted(x, k + 1) + (Shifted(x, k) % 128)
             /\ x < Pow2[7 * (k + 1)] => Shifted(x, k) < 128
  <2> DEFINE d == Pow2[7 * k]
             q == x \div d
             r == x % d
             a == q \div 128
             b == q % 128
  <2>1. d \in Nat \ {0} /\ Pow2[7 * (k + 1)] = 128 * d
    BY SevenBits, Pow2Unfolds
  <2>2. q \in Nat /\ r \in 0..(d - 1) /\ x = q * d + r
    <3> HIDE DEF d
    <3> QED BY <2>1, Divides
  <2>3. a \in Nat /\ b \in 0..127 /\ q = a * 128 + b
    <3> HIDE DEF q
    <3> QED BY <2>2
  <2>4. x = a * (128 * d) + (b * d + r)
    <3> HIDE DEF d, q, r, a, b
    <3>1. q * d = a * (128 * d) + b * d
      BY <2>1, <2>3
    <3> QED BY <2>1, <2>2, <2>3, <3>1
  <2>5. b * d + r \in 0..(128 * d - 1)
    <3> HIDE DEF d, q, r, a, b
    <3>1. b * d \in Nat /\ b * d <= 127 * d
      BY <2>1, <2>3
    <3> QED BY <2>1, <2>2, <3>1
  <2>6. x \div (128 * d) = a
    <3> HIDE DEF d, q, r, a, b
    <3>1. 128 * d \in Nat \ {0}
      BY <2>1
    <3>2. \A e \in Nat \ {0} : \A t \in 0..(e - 1) : (a * e + t) \div e = a
      BY <2>3, Quotient
    <3> QED BY <2>4, <2>5, <3>1, <3>2
  <2>7. Shifted(x, k) = q /\ Shifted(x, k + 1) = a
    <3> HIDE DEF a
    <3> QED BY <2>1, <2>6 DEF Shifted
  <2>8. x < 128 * d => q < 128
    <3> HIDE DEF d, q, r, a, b
    <3>1. q >= 128 => q * d >= 128 * d
      BY <2>1, <2>2
    <3> QED BY <2>1, <2>2, <3>1
  <2>9. q = 128 * a + (q % 128)
    <3> HIDE DEF q, a
    <3> QED BY <2>2, <2>3 DEF b
  <2> HIDE DEF d, q, r, a, b
  <2> QED BY <2>1, <2>2, <2>7, <2>8, <2>9
<1> QED BY <1>1, <1>2

\* A varint has bytes enough for the width of a word.
LEMMA VarintBytesFit ==
  VarintBytes \in Nat /\ VarintBytes >= 2 /\ IntBits <= 7 * VarintBytes
BY WidthsAssumption DEF VarintBytes

\* The numbers an integer can hold.
Words == 0..(Pow2[IntBits] - 1)

\* SizeOfVarint finds the bytes a word needs.
LEMMA SizeFits ==
  ASSUME NEW x \in Words
  PROVE  SizeOfVarint(x) \in 1..VarintBytes /\ x < Pow2[7 * SizeOfVarint(x)]
<1> DEFINE Sizes == {n \in 1..VarintBytes : x < Pow2[7 * n]}
<1>1. VarintBytes \in Sizes
  <2>1. Pow2[IntBits] <= Pow2[7 * VarintBytes]
    BY VarintBytesFit, WidthsAssumption, PowersGrow
  <2> QED BY <2>1, VarintBytesFit, WidthsAssumption, Pow2Unfolds DEF Words
<1>2. PICK n \in Sizes : \A m \in Sizes : n <= m
  <2>1. Sizes \in SUBSET Nat /\ Sizes # {}
    BY <1>1
  <2> HIDE DEF Sizes
  <2> QED BY <2>1, Least
<1>3. SizeOfVarint(x) \in Sizes
  <2> HIDE DEF Sizes
  <2>1. Min(Sizes) \in Sizes
    BY <1>2 DEF Min
  <2> QED BY <2>1 DEF SizeOfVarint, Sizes
<1> QED BY <1>3

--------------------------------------------------------------------------------
(* What a step of the decoder yields *)

\* Induction from the end of an interval to its beginning.
LEMMA Downwards ==
  ASSUME NEW a \in Nat, NEW b \in Nat, NEW T,
         \A k \in a..b : (k < b => k + 1 \in T) => k \in T
  PROVE  a..b \subseteq T
<1> DEFINE rank == [k \in a..b |-> b - k]
           S == a..b
<1>1. ASSUME NEW k \in S, \A j \in S : rank[j] < rank[k] => j \in T
      PROVE  k \in T
  <2>1. k < b => k + 1 \in S /\ rank[k + 1] < rank[k]
    OBVIOUS
  <2> HIDE DEF rank
  <2> QED BY <1>1, <2>1
<1>2. rank \in [S -> Nat]
  OBVIOUS
<1> HIDE DEF rank, S
<1>3. S \subseteq T
  BY <1>1, <1>2, RankInduction
<1> QED BY <1>3 DEF S

\* What a step of the decoder may yield, which is never a panic.
Refusals == {"overflow", "unexpectedEOF", "invalidLength", "endOfGroup", "wireType", "tag"}

Outcomes(Values) == {Read(v, n) : v \in Values, n \in Nat} \cup {Failure(e) : e \in Refusals}

\* A value that was read is an outcome.
LEMMA ReadIsOutcome ==
  ASSUME NEW Values, NEW v \in Values, NEW n \in Nat
  PROVE  Read(v, n) \in Outcomes(Values)
BY DEF Outcomes

\* A refusal is an outcome.
LEMMA FailureIsOutcome ==
  ASSUME NEW Values, NEW e \in Refusals
  PROVE  Failure(e) \in Outcomes(Values)
BY DEF Outcomes

\* An outcome is a value and where to go on, or a refusal, and not both.
LEMMA OutcomeIs ==
  ASSUME NEW Values, NEW o \in Outcomes(Values)
  PROVE  \/ o.err = "nil" /\ o.value \in Values /\ o.next \in Nat /\ o = Read(o.value, o.next)
         \/ o.err # "nil" /\ o.err \in Refusals /\ o = Failure(o.err) /\ o.value = 0 /\ o.next = 0
BY DEF Outcomes, Read, Failure, Refusals

\* What the elements of a sequence of bytes are.
LEMMA BytesAre ==
  ASSUME NEW bytes \in Bytes
  PROVE  /\ Len(bytes) \in Nat
         /\ \A k \in 1..Len(bytes) : bytes[k] \in 0..255 /\ bytes[k] \in Nat /\ bytes[k] < 256
<1> DEFINE Byte == 0..255
<1>1. bytes \in Seq(Byte)
  BY DEF Bytes
<1>0. \A x \in Byte : x \in Nat /\ x < 256
  OBVIOUS
<1> HIDE DEF Byte
<1>2. Len(bytes) \in Nat /\ \A k \in 1..Len(bytes) : bytes[k] \in Byte
  BY <1>1
<1> QED BY <1>0, <1>2 DEF Byte

VarintStep(bytes, i, from, k) ==
  IF k = i + VarintBytes THEN Failure("overflow")
  ELSE IF k > Len(bytes) THEN Failure("unexpectedEOF")
  ELSE IF bytes[k] < 128 THEN Read(bytes[k], k + 1)
  ELSE Then(from[k + 1], LAMBDA x, next : Read(bytes[k] - 128 + 128 * x, next))

VarintFrom(bytes, i) ==
  CHOOSE from : from = [k \in i..(i + VarintBytes) |-> VarintStep(bytes, i, from, k)]

\* ReadVarint in terms of the loop, under a name.
LEMMA ReadVarintIs ==
  ASSUME NEW bytes, NEW i
  PROVE  ReadVarint(bytes, i) =
           Then(VarintFrom(bytes, i)[i], LAMBDA x, next : Read(Unsigned(x, IntBits), next))
BY DEF ReadVarint, VarintFrom, VarintStep

\* The loop that reads a varint is what its definition says at every byte of it.
LEMMA VarintUnfolds ==
  ASSUME NEW bytes \in Bytes, NEW i \in Nat \ {0}, NEW k \in i..(i + VarintBytes)
  PROVE  VarintFrom(bytes, i)[k] = VarintStep(bytes, i, VarintFrom(bytes, i), k)
<1> DEFINE S == i..(i + VarintBytes)
           R == Outcomes(Nat)
           Stop == {j \in S : j = i + VarintBytes \/ j > Len(bytes) \/ bytes[j] < 128}
           rank == [j \in S |-> i + VarintBytes - j]
           step == [j \in S \ Stop |-> j + 1]
           end == [j \in S |-> IF j = i + VarintBytes THEN Failure("overflow")
                               ELSE IF j > Len(bytes) THEN Failure("unexpectedEOF")
                               ELSE Read(bytes[j], j + 1)]
           out == [p \in S \X R |->
                     IF p[2].err = "nil" /\ p[1] \notin Stop
                     THEN Read(bytes[p[1]] - 128 + 128 * p[2].value, p[2].next) ELSE p[2]]
<1>0. \A j \in S : /\ j \in Nat /\ j + 1 \in Nat
                  /\ (j # i + VarintBytes => j + 1 \in S)
                  /\ (j <= Len(bytes) => bytes[j] \in Nat)
  <2>2. \A j \in S : j \in Nat /\ j # 0
    OBVIOUS
  <2>3. \A j \in S : j <= Len(bytes) => j \in 1..Len(bytes)
    <3> HIDE DEF S
    <3> QED BY <2>2, BytesAre
  <2>4. \A j \in S : j <= Len(bytes) => bytes[j] \in Nat
    <3> HIDE DEF S
    <3> QED BY <2>3, BytesAre
  <2> QED BY <2>4, VarintBytesFit
<1>1. Grounded(S, R, rank, Stop, step, end, out)
  <2>1. rank \in [S -> Nat] /\ step \in [S \ Stop -> S]
        /\ \A s \in S \ Stop : rank[step[s]] < rank[s]
    BY VarintBytesFit
  <2>2. end \in [S -> R]
    <3>1. Failure("overflow") \in R /\ Failure("unexpectedEOF") \in R
      BY FailureIsOutcome DEF Refusals
    <3>5. \A v \in Nat, n \in Nat : Read(v, n) \in R
      BY ReadIsOutcome
    <3>2. \A j \in S : j <= Len(bytes) => bytes[j] \in Nat
      <4> HIDE DEF S
      <4> QED BY <1>0
    <3>3. \A j \in S : ~(j > Len(bytes)) => j <= Len(bytes)
      BY <1>0, BytesAre
    <3>4. \A j \in S : end[j] \in R
      <4> HIDE DEF R, S
      <4> QED BY <1>0, <3>1, <3>2, <3>3, <3>5
    <3> QED BY <3>4
  <2>3. out \in [S \X R -> R]
    <3>1. ASSUME NEW j \in S, NEW r \in R, j \notin Stop
          PROVE  Read(bytes[j] - 128 + 128 * r.value, r.next) \in R
      <4>1. bytes[j] \in Nat /\ ~(bytes[j] < 128)
        BY <1>0, <3>1, BytesAre
      <4>2. r.value \in Nat /\ r.next \in Nat
        BY OutcomeIs
      <4>3. bytes[j] - 128 + 128 * r.value \in Nat
        BY <4>1, <4>2
      <4> QED BY <4>2, <4>3, ReadIsOutcome
    <3> HIDE DEF R, Stop, S
    <3> QED BY <3>1
  <2> HIDE DEF S, R, Stop, rank, step, end, out
  <2> QED BY <2>1, <2>2, <2>3 DEF Grounded
<1>2. PICK f \in [S -> R] : Solves(f, S, Stop, step, end, out)
  <2> HIDE DEF S, R, Stop, rank, step, end, out
  <2> QED BY <1>1, Recursion
<1>3. ASSUME NEW j \in S
      PROVE  f[j] = VarintStep(bytes, i, f, j)
  <2>1. CASE j \in Stop
    <3>1. f[j] = end[j]
      BY <1>2, <2>1 DEF Solves
    <3> QED BY <2>1, <3>1 DEF VarintStep
  <2>2. CASE j \notin Stop
    <3>1. j + 1 \in S /\ step[j] = j + 1
      BY <2>2, VarintBytesFit
    <3>2. f[j] = out[<<j, f[j + 1]>>] /\ f[j + 1] \in R
      <4> HIDE DEF out, Stop, end
      <4> QED BY <1>2, <2>2, <3>1 DEF Solves
    <3>3. f[j] = IF f[j + 1].err = "nil"
                 THEN Read(bytes[j] - 128 + 128 * f[j + 1].value, f[j + 1].next)
                 ELSE f[j + 1]
      <4> HIDE DEF R, Stop
      <4> QED BY <2>2, <3>2
    <3> QED BY <2>2, <3>3 DEF VarintStep, Then
  <2> QED BY <2>1, <2>2
<1>4. f = [j \in i..(i + VarintBytes) |-> VarintStep(bytes, i, f, j)]
  BY <1>3
<1>5. VarintFrom(bytes, i) =
        [j \in i..(i + VarintBytes) |-> VarintStep(bytes, i, VarintFrom(bytes, i), j)]
  BY <1>4 DEF VarintFrom
<1> QED BY <1>5

\* An outcome of a step that began at i, of bytes that end before end.
Steps(Values, i, end) ==
  {o \in Outcomes(Values) : o.err = "nil" => o.next \in (i + 1)..end}

\* The numbers of both widths fall into two halves, by their sign.
LEMMA PowerSplits ==
  /\ Pow2[IntBits] \in Nat \ {0} /\ Pow2[IntBits - 1] \in Nat \ {0}
  /\ Pow2[IntBits] = 2 * Pow2[IntBits - 1]
  /\ Pow2[SmallBits] = 2 * Pow2[SmallBits - 1] /\ Pow2[SmallBits - 1] \in Nat \ {0}
  /\ 16 <= Pow2[SmallBits - 1] /\ 128 <= Pow2[IntBits - 1]
<1>1. IntBits - 1 \in Nat /\ SmallBits - 1 \in Nat /\ IntBits \in Nat
      /\ 4 <= SmallBits - 1 /\ 7 <= IntBits - 1
      /\ (IntBits - 1) + 1 = IntBits /\ (SmallBits - 1) + 1 = SmallBits
  BY WidthsAssumption
<1>2. Pow2[4] <= Pow2[SmallBits - 1] /\ Pow2[7] <= Pow2[IntBits - 1]
  <2>1. 4 \in Nat /\ 7 \in Nat
    OBVIOUS
  <2> QED BY <1>1, <2>1, PowersGrow
<1> QED BY <1>1, <1>2, Pow2Unfolds, SmallPowers

\* Unsigned yields a word, and leaves a word as it is.
LEMMA UnsignedIs ==
  ASSUME NEW x \in Nat
  PROVE  Unsigned(x, IntBits) \in Words /\ (x \in Words => Unsigned(x, IntBits) = x)
<1> DEFINE d == Pow2[IntBits]
<1>1. d \in Nat \ {0}
  BY PowerSplits
<1>2. x % d \in 0..(d - 1) /\ (x < d => x % d = x)
  <2> HIDE DEF d
  <2> QED BY <1>1
<1> QED BY <1>1, <1>2 DEF Unsigned, Words

\* From every byte on, the loop yields a number and ends behind it, or refuses.
LEMMA VarintFromTyped ==
  ASSUME NEW bytes \in Bytes, NEW i \in Nat \ {0}
  PROVE  \A k \in i..(i + VarintBytes) :
           VarintFrom(bytes, i)[k] \in Steps(Nat, k, Len(bytes) + 1)
<1> DEFINE from == VarintFrom(bytes, i)
           end == i + VarintBytes
           T == {k \in i..end : from[k] \in Steps(Nat, k, Len(bytes) + 1)}
<1>1. ASSUME NEW k \in i..end, k < end => k + 1 \in T
      PROVE  k \in T
  <2> DEFINE next == from[k + 1]
  <2>0. k \in Nat \ {0} /\ k + 1 \in Nat /\ Len(bytes) \in Nat /\ (k # end => k < end)
    BY VarintBytesFit, BytesAre
  <2>1. from[k] = VarintStep(bytes, i, from, k)
    BY VarintUnfolds
  <2>2. CASE k = end
    <3>1. from[k] = Failure("overflow")
      BY <2>1, <2>2 DEF VarintStep
    <3> QED BY <3>1, FailureIsOutcome DEF Steps, Refusals, Failure
  <2>3. CASE k # end /\ k > Len(bytes)
    <3>1. from[k] = Failure("unexpectedEOF")
      BY <2>1, <2>3 DEF VarintStep
    <3> QED BY <3>1, FailureIsOutcome DEF Steps, Refusals, Failure
  <2>4. CASE k # end /\ ~(k > Len(bytes)) /\ bytes[k] < 128
    <3>1. from[k] = Read(bytes[k], k + 1)
      BY <2>1, <2>4 DEF VarintStep
    <3>2. bytes[k] \in Nat /\ k + 1 \in (k + 1)..(Len(bytes) + 1)
      BY <2>0, <2>4, BytesAre
    <3>3. Read(bytes[k], k + 1) \in Outcomes(Nat)
      BY <2>0, <3>2, ReadIsOutcome
    <3> QED BY <3>1, <3>2, <3>3 DEF Steps, Read
  <2>5. CASE k # end /\ ~(k > Len(bytes)) /\ ~(bytes[k] < 128)
    <3>1. from[k] = IF next.err = "nil"
                    THEN Read(bytes[k] - 128 + 128 * next.value, next.next) ELSE next
      BY <2>1, <2>5 DEF VarintStep, Then
    <3>2. next \in Outcomes(Nat) /\ (next.err = "nil" => next.next \in (k + 1 + 1)..(Len(bytes) + 1))
      BY <1>1, <2>0, <2>5 DEF Steps
    <3>3. bytes[k] \in Nat /\ ~(bytes[k] < 128)
      BY <2>0, <2>5, BytesAre
    <3> HIDE DEF next
    <3>4. next.value \in Nat /\ next.next \in Nat
      BY <3>2, OutcomeIs
    <3>5. bytes[k] - 128 + 128 * next.value \in Nat
      BY <3>3, <3>4
    <3>6. Read(bytes[k] - 128 + 128 * next.value, next.next) \in Outcomes(Nat)
      BY <3>4, <3>5, ReadIsOutcome
    <3>7. from[k] \in Outcomes(Nat)
      BY <3>1, <3>2, <3>6
    <3>8. from[k].err = "nil" => from[k].next \in (k + 1)..(Len(bytes) + 1)
      <4>1. \A n \in (k + 1 + 1)..(Len(bytes) + 1) : n \in (k + 1)..(Len(bytes) + 1)
        BY <2>0
      <4> QED BY <3>1, <3>2, <4>1 DEF Read
    <3> QED BY <3>7, <3>8 DEF Steps
  <2> QED BY <2>2, <2>3, <2>4, <2>5
<1>2. i \in Nat /\ end \in Nat
  BY VarintBytesFit
<1>3. i..end \subseteq T
  <2> HIDE DEF T, end
  <2> QED BY <1>1, <1>2, Downwards
<1> QED BY <1>3

\* A varint is a word that ends within the bytes, or is refused.
LEMMA ReadVarintTyped ==
  ASSUME NEW bytes \in Bytes, NEW i \in Nat \ {0}
  PROVE  ReadVarint(bytes, i) \in Steps(Words, i, Len(bytes) + 1)
<1> DEFINE o == VarintFrom(bytes, i)[i]
<1>1. o \in Steps(Nat, i, Len(bytes) + 1)
  BY VarintFromTyped, VarintBytesFit
<1>2. ReadVarint(bytes, i) = IF o.err = "nil" THEN Read(Unsigned(o.value, IntBits), o.next) ELSE o
  BY ReadVarintIs DEF Then
<1> HIDE DEF o
<1>2a. o \in Outcomes(Nat) /\ (o.err = "nil" => o.next \in (i + 1)..(Len(bytes) + 1))
  BY <1>1 DEF Steps
<1>4. CASE o.err = "nil"
  <2>1. Read(Unsigned(o.value, IntBits), o.next) \in Outcomes(Words)
    BY <1>2a, <1>4, OutcomeIs, UnsignedIs, ReadIsOutcome
  <2> QED BY <1>2, <1>2a, <1>4, <2>1 DEF Steps, Read
<1>5. CASE o.err # "nil"
  <2>1. o \in Outcomes(Words)
    BY <1>2a, <1>5, OutcomeIs, FailureIsOutcome
  <2> QED BY <1>2, <1>5, <2>1 DEF Steps
<1> QED BY <1>4, <1>5

\* part stands in bytes from i on.
Stands(part, bytes, i) ==
  /\ i - 1 + Len(part) <= Len(bytes)
  /\ \A k \in 1..Len(part) : bytes[i - 1 + k] = part[k]

\* Shifting, for all numbers at once.
LEMMA ShiftingHolds ==
  \A x \in Nat, k \in Nat :
    /\ Shifted(x, k) \in Nat
    /\ Shifted(x, k) = 128 * Shifted(x, k + 1) + (Shifted(x, k) % 128)
    /\ x < Pow2[7 * (k + 1)] => Shifted(x, k) < 128
<1> SUFFICES ASSUME NEW x \in Nat, NEW k \in Nat
             PROVE  /\ Shifted(x, k) \in Nat
                    /\ Shifted(x, k) = 128 * Shifted(x, k + 1) + (Shifted(x, k) % 128)
                    /\ x < Pow2[7 * (k + 1)] => Shifted(x, k) < 128
  OBVIOUS
<1> QED BY Shifting, Zenon

\* What EncodeVarint writes, byte by byte.
LEMMA EncodedVarint ==
  ASSUME NEW x \in Words
  PROVE  /\ EncodeVarint(x) \in Bytes
         /\ Len(EncodeVarint(x)) = SizeOfVarint(x)
         /\ \A k \in 1..SizeOfVarint(x) :
              EncodeVarint(x)[k] = (Shifted(x, k - 1) % 128)
                                     + (IF k < SizeOfVarint(x) THEN 128 ELSE 0)
<1> DEFINE n == SizeOfVarint(x)
           At(k) == ((x \div Pow2[7 * (k - 1)]) % 128) + (IF k < n THEN 128 ELSE 0)
           Byte == 0..255
<1>1. n \in Nat
  BY SizeFits, VarintBytesFit
<1>2. ASSUME NEW k \in 1..n PROVE At(k) \in Byte
  <2>0. k - 1 \in Nat /\ x \in Nat
    <3>1. Pow2[IntBits] \in Nat
      BY PowerSplits
    <3> QED BY <1>1, <3>1 DEF Words
  <2>1. Shifted(x, k - 1) \in Nat
    BY <2>0, ShiftingHolds, Zenon
  <2>2. At(k) = (Shifted(x, k - 1) % 128) + (IF k < n THEN 128 ELSE 0)
    BY DEF Shifted
  <2>3. Shifted(x, k - 1) % 128 \in 0..127
    BY <2>1
  <2> HIDE DEF At, n
  <2> QED BY <2>2, <2>3
<1>3. EncodeVarint(x) = [k \in 1..n |-> At(k)]
  BY DEF EncodeVarint
<1> HIDE DEF n, Byte
<1>4. [k \in 1..n |-> At(k)] \in Seq(Byte) /\ Len([k \in 1..n |-> At(k)]) = n
  <2> HIDE DEF At
  <2> QED BY <1>1, <1>2
<1> QED BY <1>3, <1>4 DEF Byte, Bytes, Shifted, n

\* A varint that stands in the bytes is read as the number that was written.
LEMMA VarintIsRead ==
  ASSUME NEW x \in Words, NEW bytes \in Bytes, NEW i \in Nat \ {0},
         Stands(EncodeVarint(x), bytes, i)
  PROVE  ReadVarint(bytes, i) = Read(x, i + SizeOfVarint(x))
<1> DEFINE n == SizeOfVarint(x)
           from == VarintFrom(bytes, i)
           last == i + n - 1
           T == {k \in i..last : from[k] = Read(Shifted(x, k - i), i + n)}
<1>1. n \in Nat \ {0} /\ n <= VarintBytes /\ VarintBytes \in Nat /\ x < Pow2[7 * n] /\ x \in Nat
  BY SizeFits, VarintBytesFit DEF Words
<1>2. /\ i - 1 + n <= Len(bytes) /\ Len(bytes) \in Nat
      /\ \A k \in 1..n : bytes[i - 1 + k] = (Shifted(x, k - 1) % 128) + (IF k < n THEN 128 ELSE 0)
  BY EncodedVarint, BytesAre DEF Stands
<1>3. ASSUME NEW k \in i..last, k < last => k + 1 \in T
      PROVE  k \in T
  <2> DEFINE s == Shifted(x, k - i)
             r == s % 128
             q == Shifted(x, k - i + 1)
  <2>1. k \in Nat /\ k - i \in Nat /\ k <= Len(bytes) /\ k < i + VarintBytes
        /\ k - i + 1 \in 1..n /\ i - 1 + (k - i + 1) = k /\ (k - i + 1) - 1 = k - i
        /\ k \in i..(i + VarintBytes) /\ (k - i + 1 < n <=> k < last)
    <3> HIDE DEF n
    <3> QED BY <1>1, <1>2
  <2>2. s \in Nat /\ q \in Nat /\ s = 128 * q + r /\ (x < Pow2[7 * (k - i + 1)] => s < 128)
    <3>1. \A j \in Nat : /\ Shifted(x, j) \in Nat
                         /\ Shifted(x, j) = 128 * Shifted(x, j + 1) + (Shifted(x, j) % 128)
                         /\ x < Pow2[7 * (j + 1)] => Shifted(x, j) < 128
      BY <1>1, ShiftingHolds, Zenon
    <3>2. k - i \in Nat /\ k - i + 1 \in Nat
      BY <2>1
    <3> QED BY <3>1, <3>2
  <2>3. r \in Nat /\ r < 128
    <3> HIDE DEF s
    <3> QED BY <2>2
  <2>4. bytes[k] = r + (IF k < last THEN 128 ELSE 0)
    <3> HIDE DEF n, last
    <3> QED BY <1>2, <2>1
  <2>5. from[k] = VarintStep(bytes, i, from, k)
    BY <2>1, VarintUnfolds
  <2>6. CASE k = last
    <3>1. k - i + 1 = n
      <4> HIDE DEF n
      <4> QED BY <1>1, <2>1, <2>6
    <3>2. s < 128
      <4> HIDE DEF n, s
      <4> QED BY <1>1, <2>2, <3>1
    <3>3. s = r
      <4> HIDE DEF s
      <4> QED BY <2>2, <3>2
    <3>4. bytes[k] = s /\ k + 1 = i + n
      <4> HIDE DEF s, r, n
      <4> QED BY <1>1, <2>1, <2>3, <2>4, <2>6, <3>1, <3>3
    <3>5. from[k] = Read(s, i + n)
      <4> HIDE DEF s, n, last
      <4> QED BY <2>1, <2>5, <3>2, <3>4 DEF VarintStep
    <3> QED BY <3>5
  <2>7. CASE k # last
    <3>1. k < last
      <4> HIDE DEF n
      <4> QED BY <1>1, <2>1, <2>7
    <3>2. from[k + 1] = Read(q, i + n)
      <4>1. k + 1 - i = k - i + 1
        BY <2>1
      <4> QED BY <1>3, <3>1, <4>1
    <3>3. bytes[k] = r + 128 /\ ~(bytes[k] < 128) /\ bytes[k] - 128 + 128 * q = s
      <4> HIDE DEF s, r, q, n, last
      <4> QED BY <2>2, <2>3, <2>4, <3>1
    <3>4. from[k] = Read(s, i + n)
      <4> HIDE DEF s, q, r, n, last
      <4>1. from[k] = Then(from[k + 1], LAMBDA y, next : Read(bytes[k] - 128 + 128 * y, next))
        <5>1. k # i + VarintBytes /\ ~(k > Len(bytes))
          BY <1>1, <1>2, <2>1
        <5> QED BY <2>5, <3>3, <5>1 DEF VarintStep
      <4> HIDE DEF from
      <4> QED BY <3>2, <3>3, <4>1 DEF Then, Read
    <3> QED BY <3>4
  <2> QED BY <2>6, <2>7
<1>4. i \in T
  <2>1. i \in Nat /\ last \in Nat /\ i \in i..last
    <3> HIDE DEF n
    <3> QED BY <1>1
  <2>2. i..last \subseteq T
    <3> HIDE DEF T, last
    <3> QED BY <1>3, <2>1, Downwards
  <2> QED BY <2>1, <2>2
<1>5. from[i] = Read(x, i + n)
  <2>1. i - i = 0
    OBVIOUS
  <2> QED BY <1>1, <1>4, <2>1, Shifting
<1> QED BY <1>5, ReadVarintIs, UnsignedIs, <1>1 DEF Then, Read

--------------------------------------------------------------------------------
(* What is read does not depend on where it stands *)

\* bytes end with part, of which p bytes are in front.
EndsWith(part, bytes, p) ==
  /\ Len(bytes) = p + Len(part)
  /\ \A k \in 1..Len(part) : bytes[p + k] = part[k]

\* A remainder is below the divisor, and is the number if that already is.
LEMMA Remainder ==
  ASSUME NEW x \in Int, NEW d \in Nat \ {0}
  PROVE  x % d \in 0..(d - 1) /\ (x \in 0..(d - 1) => x % d = x)
  OBVIOUS

\* Signed yields a number of its width, and leaves small ones as they are.
LEMMA SignedIs ==
  ASSUME NEW bits \in {SmallBits, IntBits}, NEW x \in Int
  PROVE  /\ Signed(x, bits) \in -Pow2[bits - 1]..(Pow2[bits - 1] - 1)
         /\ Signed(x, bits) \in Int
         /\ x \in 0..(Pow2[bits - 1] - 1) => Signed(x, bits) = x
<1> DEFINE d == Pow2[bits]
           h == Pow2[bits - 1]
           u == x % d
<1>1. d \in Nat \ {0} /\ h \in Nat \ {0} /\ d = 2 * h
  BY PowerSplits, Pow2Unfolds, WidthsAssumption
<1>2. u \in 0..(d - 1) /\ (x \in 0..(d - 1) => u = x)
  <2> HIDE DEF d
  <2> QED BY <1>1, Remainder
<1>3. Signed(x, bits) = IF u < h THEN u ELSE u - d
  BY DEF Signed, Unsigned
<1>4. (IF u < h THEN u ELSE u - d) \in -h..(h - 1)
      /\ (IF u < h THEN u ELSE u - d) \in Int
      /\ (x \in 0..(h - 1) => (IF u < h THEN u ELSE u - d) = x)
  <2> HIDE DEF d, h, u
  <2> QED BY <1>1, <1>2
<1> QED BY <1>3, <1>4

\* The fields of an outcome.
LEMMA StepIs ==
  /\ \A e : Failure(e).err = e /\ Failure(e).value = 0 /\ Failure(e).next = 0
  /\ \A v, n : Read(v, n).err = "nil" /\ Read(v, n).value = v /\ Read(v, n).next = n
BY DEF Failure, Read

\* The four things the loop may meet at a byte.
LEMMA VarintCases ==
  ASSUME NEW bytes, NEW i, NEW from, NEW k
  PROVE  /\ k = i + VarintBytes => VarintStep(bytes, i, from, k) = Failure("overflow")
         /\ k # i + VarintBytes /\ k > Len(bytes) =>
              VarintStep(bytes, i, from, k) = Failure("unexpectedEOF")
         /\ k # i + VarintBytes /\ ~(k > Len(bytes)) /\ bytes[k] < 128 =>
              VarintStep(bytes, i, from, k) = Read(bytes[k], k + 1)
         /\ k # i + VarintBytes /\ ~(k > Len(bytes)) /\ ~(bytes[k] < 128) =>
              VarintStep(bytes, i, from, k) =
                IF from[k + 1].err = "nil"
                THEN Read(bytes[k] - 128 + 128 * from[k + 1].value, from[k + 1].next)
                ELSE from[k + 1]
BY DEF VarintStep, Then

\* A varint is read the same wherever its bytes stand.
LEMMA VarintMoves ==
  ASSUME NEW part \in Bytes, NEW bytes \in Bytes, NEW p \in Nat, EndsWith(part, bytes, p),
         NEW i \in Nat \ {0}, ReadVarint(part, i).err = "nil"
  PROVE  ReadVarint(bytes, p + i) =
           Read(ReadVarint(part, i).value, p + ReadVarint(part, i).next)
<1> DEFINE here == VarintFrom(part, i)
           there == VarintFrom(bytes, p + i)
           end == i + VarintBytes
           T == {k \in i..end :
                   here[k].err = "nil" => there[p + k] = Read(here[k].value, p + here[k].next)}
<1>0. i \in Nat /\ VarintBytes \in Nat /\ p + i \in Nat \ {0} /\ Len(part) \in Nat
      /\ Len(bytes) \in Nat /\ Len(bytes) = p + Len(part)
  BY VarintBytesFit, BytesAre DEF EndsWith
<1>1. ASSUME NEW k \in i..end, k < end => k + 1 \in T, here[k].err = "nil"
      PROVE  there[p + k] = Read(here[k].value, p + here[k].next)
  <2>1. k \in Nat \ {0} /\ p + k \in (p + i)..(p + i + VarintBytes) /\ p + k + 1 = p + (k + 1)
    BY <1>0
  <2> DEFINE next == here[k + 1]
             beyond == there[p + k + 1]
  <2>2. here[k] = VarintStep(part, i, here, k)
        /\ there[p + k] = VarintStep(bytes, p + i, there, p + k)
    BY <1>0, <2>1, VarintUnfolds
  <2>3. k # end /\ ~(k > Len(part))
    <3> HIDE DEF here
    <3>1. "overflow" # "nil" /\ "unexpectedEOF" # "nil"
      OBVIOUS
    <3> QED BY <1>1, <2>2, <3>1, StepIs, VarintCases
  <2>5. bytes[p + k] = part[k] /\ part[k] \in Nat /\ ~(p + k > Len(bytes))
        /\ p + k # p + i + VarintBytes /\ k < end
    <3>1. k \in 1..Len(part)
      BY <1>0, <2>1, <2>3
    <3> QED BY <1>0, <2>1, <2>3, <3>1, BytesAre DEF EndsWith
  <2>6. CASE part[k] < 128
    <3> HIDE DEF here, there
    <3>1. here[k] = Read(part[k], k + 1)
      BY <2>2, <2>3, <2>6, VarintCases
    <3>2. there[p + k] = Read(part[k], p + k + 1)
      BY <2>2, <2>5, <2>6, VarintCases
    <3> QED BY <2>1, <3>1, <3>2, StepIs
  <2>7. CASE ~(part[k] < 128)
    <3> HIDE DEF here, there
    <3>1. here[k] = IF next.err = "nil"
                    THEN Read(part[k] - 128 + 128 * next.value, next.next) ELSE next
      BY <2>2, <2>3, <2>7, VarintCases
    <3>2. next.err = "nil"
      BY <1>1, <3>1
    <3>3. beyond = Read(next.value, p + next.next)
      BY <1>1, <2>1, <2>5, <3>2
    <3>4. there[p + k] = IF beyond.err = "nil"
                         THEN Read(bytes[p + k] - 128 + 128 * beyond.value, beyond.next)
                         ELSE beyond
      BY <2>2, <2>5, <2>7, VarintCases
    <3> HIDE DEF next, beyond
    <3>5. there[p + k] = Read(part[k] - 128 + 128 * next.value, p + next.next)
      BY <2>5, <3>3, <3>4, StepIs
    <3>6. here[k] = Read(part[k] - 128 + 128 * next.value, next.next)
      BY <3>1, <3>2
    <3> QED BY <3>5, <3>6, StepIs
  <2> QED BY <2>6, <2>7
<1>2. i \in T
  <2>1. i \in Nat /\ end \in Nat /\ i \in i..end
    BY <1>0
  <2>2. \A k \in i..end : (k < end => k + 1 \in T) => k \in T
    BY <1>1
  <2>3. i..end \subseteq T
    <3> HIDE DEF T, end
    <3> QED BY <2>1, <2>2, Downwards
  <2> QED BY <2>1, <2>3
<1>3. here[i].err = "nil"
  <2> HIDE DEF here
  <2> QED BY ReadVarintIs DEF Then, Read, here
<1>4. there[p + i] = Read(here[i].value, p + here[i].next)
  BY <1>2, <1>3
<1>5. ReadVarint(part, i) = Read(Unsigned(here[i].value, IntBits), here[i].next)
  BY <1>3, ReadVarintIs DEF Then
<1>6. ReadVarint(bytes, p + i) = Read(Unsigned(here[i].value, IntBits), p + here[i].next)
  <2>1. ReadVarint(bytes, p + i)
          = Then(there[p + i], LAMBDA x, next : Read(Unsigned(x, IntBits), next))
    BY ReadVarintIs
  <2> HIDE DEF here, there
  <2> QED BY <1>4, <2>1 DEF Then, Read
<1> HIDE DEF here
<1> QED BY <1>5, <1>6 DEF Read

--------------------------------------------------------------------------------
(* Skipping a field *)

\* Where Skip goes on from.
SkipsTo(next, depth) ==
  IF Signed(next - 1, IntBits) < 0 THEN Failure("invalidLength") ELSE Read(depth, next)

\* The wire types, by the number that was read before (tag) and the one that may follow.
SkipsAs(o, tag, arg, depth) ==
  LET w == tag.value % 8
      len == Signed(arg.value, IntBits)
  IN  /\ (w = 0 => o = IF arg.err = "nil" THEN SkipsTo(arg.next, depth) ELSE arg)
      /\ (w = 1 => o = SkipsTo(tag.next + 8, depth))
      /\ (w = 2 => o = IF arg.err # "nil" THEN arg
                       ELSE IF len < 0 THEN Failure("invalidLength")
                       ELSE SkipsTo(arg.next + len, depth))
      /\ (w = 3 => o = SkipsTo(tag.next, depth + 1))
      /\ (w = 4 => o = IF depth = 0 THEN Failure("endOfGroup")
                       ELSE SkipsTo(tag.next, depth - 1))
      /\ (w = 5 => o = SkipsTo(tag.next + 4, depth))
      /\ (w \notin 0..5 => o = Failure("wireType"))

\* What Skip does at a field: no tag, no bytes, or one of the wire types.
LEMMA SkipCases ==
  ASSUME NEW bytes, NEW i, NEW depth, NEW tag, NEW arg, NEW o,
         tag = ReadVarint(bytes, i), arg = ReadVarint(bytes, tag.next),
         o = SkipOne(bytes, i, depth)
  PROVE  /\ (i > Len(bytes) => o = Failure("unexpectedEOF"))
         /\ (~(i > Len(bytes)) /\ tag.err # "nil" => o = tag)
         /\ (~(i > Len(bytes)) /\ tag.err = "nil" => SkipsAs(o, tag, arg, depth))
<1>1. i > Len(bytes) => o = Failure("unexpectedEOF")
  BY DEF SkipOne
<1>2. ~(i > Len(bytes)) /\ tag.err # "nil" => o = tag
  BY DEF SkipOne, Then
<1>3. ASSUME ~(i > Len(bytes)), tag.err = "nil"
      PROVE  SkipsAs(o, tag, arg, depth)
  <2> DEFINE w == tag.value % 8
             len == Signed(arg.value, IntBits)
             Block == IF len < 0 THEN Failure("invalidLength") ELSE SkipsTo(arg.next + len, depth)
  <2>1. o = CASE w = 0 -> IF arg.err = "nil" THEN SkipsTo(arg.next, depth) ELSE arg
              [] w = 1 -> SkipsTo(tag.next + 8, depth)
              [] w = 2 -> IF arg.err = "nil" THEN Block ELSE arg
              [] w = 3 -> SkipsTo(tag.next, depth + 1)
              [] w = 4 -> IF depth = 0 THEN Failure("endOfGroup") ELSE SkipsTo(tag.next, depth - 1)
              [] w = 5 -> SkipsTo(tag.next + 4, depth)
              [] OTHER -> Failure("wireType")
    BY <1>3 DEF SkipOne, Then, SkipsTo
  <2>2. w \notin 0..5 => w # 0 /\ w # 1 /\ w # 2 /\ w # 3 /\ w # 4 /\ w # 5
    <3> HIDE DEF w
    <3> QED OBVIOUS
  <2> HIDE DEF w, len, Block
  <2>3. w = 2 => o = IF arg.err = "nil" THEN Block ELSE arg
    BY <2>1
  <2>4. w = 2 => o = IF arg.err # "nil" THEN arg
                     ELSE IF len < 0 THEN Failure("invalidLength")
                     ELSE SkipsTo(arg.next + len, depth)
    BY <2>3 DEF Block
  <2>5. (w = 0 => o = IF arg.err = "nil" THEN SkipsTo(arg.next, depth) ELSE arg)
        /\ (w = 1 => o = SkipsTo(tag.next + 8, depth))
    BY <2>1
  <2>6. (w = 3 => o = SkipsTo(tag.next, depth + 1))
        /\ (w = 4 => o = IF depth = 0 THEN Failure("endOfGroup") ELSE SkipsTo(tag.next, depth - 1))
        /\ (w = 5 => o = SkipsTo(tag.next + 4, depth))
    BY <2>1
  <2>7. w \notin 0..5 => o = Failure("wireType")
    BY <2>1, <2>2
  <2> QED BY <2>4, <2>5, <2>6, <2>7 DEF SkipsAs, w, len
<1> QED BY <1>1, <1>2, <1>3

\* The outcome of ReadVarint, in the form the steps after it use.
LEMMA VarintOutcome ==
  ASSUME NEW bytes \in Bytes, NEW i \in Nat \ {0}, NEW o, o = ReadVarint(bytes, i)
  PROVE  \/ /\ o.err = "nil" /\ o.value \in Words /\ o.value \in Nat
            /\ o.next \in Nat /\ o.next > i /\ o.next <= Len(bytes) + 1
            /\ o = Read(o.value, o.next)
         \/ o.err # "nil" /\ o.err \in Refusals /\ o = Failure(o.err)
<1>1. o \in Outcomes(Words) /\ (o.err = "nil" => o.next \in (i + 1)..(Len(bytes) + 1))
  BY ReadVarintTyped DEF Steps
<1>2. Words \subseteq Nat
  BY PowerSplits DEF Words
<1>3. Len(bytes) \in Nat
  BY BytesAre
<1>4. CASE o.err = "nil"
  <2>1. o.value \in Words /\ o.next \in Nat /\ o = Read(o.value, o.next)
    BY <1>1, <1>4, OutcomeIs
  <2>2. o.next \in (i + 1)..(Len(bytes) + 1)
    BY <1>1, <1>4
  <2>3. o.next > i /\ o.next <= Len(bytes) + 1
    <3> DEFINE n == o.next
               e == Len(bytes)
    <3>1. n \in Nat /\ e \in Nat /\ n \in (i + 1)..(e + 1)
      BY <1>3, <2>1, <2>2
    <3> HIDE DEF n, e
    <3>2. n > i /\ n <= e + 1
      BY <3>1
    <3> QED BY <3>2 DEF n, e
  <2> QED BY <1>2, <1>4, <2>1, <2>3
<1>5. CASE o.err # "nil"
  BY <1>1, <1>5, OutcomeIs
<1> QED BY <1>4, <1>5

\* To go on behind a field is an outcome that moves forward.
LEMMA SkipsToTyped ==
  ASSUME NEW i \in Nat, NEW next \in Nat, next > i, NEW depth \in Nat
  PROVE  /\ SkipsTo(next, depth) \in Outcomes(Nat)
         /\ SkipsTo(next, depth).err = "nil" => SkipsTo(next, depth).next > i
BY ReadIsOutcome, FailureIsOutcome, StepIs DEF SkipsTo, Refusals

\* Skip's reading of one field is refused or moves forward.
LEMMA SkipOneTyped ==
  ASSUME NEW bytes \in Bytes, NEW i \in Nat \ {0}, NEW depth \in Nat
  PROVE  /\ SkipOne(bytes, i, depth) \in Outcomes(Nat)
         /\ SkipOne(bytes, i, depth).err = "nil" =>
              i <= Len(bytes) /\ SkipOne(bytes, i, depth).next > i
<1> DEFINE tag == ReadVarint(bytes, i)
           arg == ReadVarint(bytes, tag.next)
           o == SkipOne(bytes, i, depth)
           Fine(x) == x \in Outcomes(Nat) /\ (x.err = "nil" => x.next > i)
<1>0. Len(bytes) \in Nat /\ (i <= Len(bytes) \/ i > Len(bytes))
  BY BytesAre
<1>1. ASSUME NEW e \in Refusals PROVE Fine(Failure(e)) /\ Failure(e).err # "nil"
  BY FailureIsOutcome, StepIs DEF Refusals
<1>2. CASE i > Len(bytes)
  <2>1. o = Failure("unexpectedEOF")
    BY <1>2, SkipCases
  <2> QED BY <1>1, <2>1 DEF Refusals
<1>3. CASE ~(i > Len(bytes)) /\ tag.err # "nil"
  <2>1. tag \in Outcomes(Words)
    BY ReadVarintTyped DEF Steps
  <2>2. o = tag
    BY <1>3, SkipCases
  <2>3. tag.err \in Refusals /\ tag = Failure(tag.err)
    BY <1>3, <2>1, OutcomeIs
  <2> HIDE DEF tag
  <2> QED BY <1>1, <1>3, <2>2, <2>3
<1>4. CASE ~(i > Len(bytes)) /\ tag.err = "nil"
  <2>1. tag.value \in Nat /\ tag.next \in Nat /\ tag.next > i /\ tag.next # 0
    BY <1>4, VarintOutcome
  <2>2. \/ arg.err = "nil" /\ arg.value \in Nat /\ arg.next \in Nat /\ arg.next > i
        \/ arg.err # "nil" /\ arg.err \in Refusals /\ arg = Failure(arg.err)
    <3> HIDE DEF tag
    <3>1. \/ arg.err = "nil" /\ arg.value \in Nat /\ arg.next \in Nat /\ arg.next > tag.next
          \/ arg.err # "nil" /\ arg.err \in Refusals /\ arg = Failure(arg.err)
      BY <2>1, VarintOutcome
    <3> HIDE DEF arg
    <3> QED BY <2>1, <3>1
  <2> DEFINE w == tag.value % 8
  <2>3. w \in 0..7
    <3> HIDE DEF tag
    <3> QED BY <2>1
  <2> HIDE DEF tag, arg, Fine
  <2>4. ASSUME NEW n \in Nat, n > i, NEW d \in Nat PROVE Fine(SkipsTo(n, d))
    BY <2>4, SkipsToTyped DEF Fine
  <2>5. w = 0 => Fine(o)
    <3>1. w = 0 => o = IF arg.err = "nil" THEN SkipsTo(arg.next, depth) ELSE arg
      BY <1>4, SkipCases DEF tag, arg, SkipsAs, w
    <3> HIDE DEF o
    <3> QED BY <1>1, <2>2, <2>4, <3>1
  <2>6. w = 1 => Fine(o)
    <3>1. w = 1 => o = SkipsTo(tag.next + 8, depth)
      BY <1>4, SkipCases DEF tag, arg, SkipsAs, w
    <3>2. tag.next + 8 \in Nat /\ tag.next + 8 > i
      BY <2>1
    <3> HIDE DEF o
    <3> QED BY <2>4, <3>1, <3>2
  <2>7. w = 2 => Fine(o)
    <3> DEFINE len == Signed(arg.value, IntBits)
    <3>1. w = 2 => o = IF arg.err # "nil" THEN arg
                       ELSE IF len < 0 THEN Failure("invalidLength")
                       ELSE SkipsTo(arg.next + len, depth)
      BY <1>4, SkipCases DEF tag, arg, SkipsAs, w
    <3>2. arg.err = "nil" => len \in Int
      BY <2>2, SignedIs
    <3> HIDE DEF o, len
    <3>3. arg.err = "nil" /\ ~(len < 0) => arg.next + len \in Nat /\ arg.next + len > i
      BY <2>2, <3>2
    <3>4. "invalidLength" \in Refusals
      BY DEF Refusals
    <3> QED BY <1>1, <2>2, <2>4, <3>1, <3>3, <3>4
  <2>8. w = 3 => Fine(o)
    <3>1. w = 3 => o = SkipsTo(tag.next, depth + 1)
      BY <1>4, SkipCases DEF tag, arg, SkipsAs, w
    <3>2. depth + 1 \in Nat
      OBVIOUS
    <3> HIDE DEF o
    <3> QED BY <2>1, <2>4, <3>1, <3>2
  <2>9. w = 4 => Fine(o)
    <3>1. w = 4 => o = IF depth = 0 THEN Failure("endOfGroup") ELSE SkipsTo(tag.next, depth - 1)
      BY <1>4, SkipCases DEF tag, arg, SkipsAs, w
    <3>2. depth # 0 => depth - 1 \in Nat
      OBVIOUS
    <3>3. "endOfGroup" \in Refusals
      BY DEF Refusals
    <3> HIDE DEF o
    <3> QED BY <1>1, <2>1, <2>4, <3>1, <3>2, <3>3
  <2>10. w = 5 => Fine(o)
    <3>1. w = 5 => o = SkipsTo(tag.next + 4, depth)
      BY <1>4, SkipCases DEF tag, arg, SkipsAs, w
    <3>2. tag.next + 4 \in Nat /\ tag.next + 4 > i
      BY <2>1
    <3> HIDE DEF o
    <3> QED BY <2>4, <3>1, <3>2
  <2>11. w \notin 0..5 => Fine(o)
    <3>1. w \notin 0..5 => o = Failure("wireType")
      BY <1>4, SkipCases DEF tag, arg, SkipsAs, w
    <3>3. "wireType" \in Refusals
      BY DEF Refusals
    <3> HIDE DEF o
    <3> QED BY <1>1, <3>1, <3>3
  <2>12. Fine(o)
    <3> HIDE DEF o, w
    <3>1. w \in 0..5 => w = 0 \/ w = 1 \/ w = 2 \/ w = 3 \/ w = 4 \/ w = 5
      BY <2>3
    <3> QED BY <2>5, <2>6, <2>7, <2>8, <2>9, <2>10, <2>11, <3>1
  <2> QED BY <1>0, <1>4, <2>12 DEF Fine
<1> QED BY <1>2, <1>3, <1>4

\* To go on behind a field does not depend on where the bytes stand.
LEMMA SkipsToMoves ==
  ASSUME NEW next \in Nat, next > 0, NEW depth \in Nat, NEW p \in Nat, NEW end \in Nat,
         p + end < Pow2[IntBits - 1],
         SkipsTo(next, depth).err = "nil", SkipsTo(next, depth).next <= end + 1
  PROVE  /\ SkipsTo(next, depth) = Read(depth, next) /\ next <= end + 1
         /\ SkipsTo(p + next, depth) = Read(depth, p + next)
<1>1. SkipsTo(next, depth) = Read(depth, next)
  <2>1. "invalidLength" # "nil"
    OBVIOUS
  <2> QED BY <2>1, StepIs DEF SkipsTo
<1>2. next <= end + 1
  BY <1>1, StepIs
<1>3. p + next - 1 \in 0..(Pow2[IntBits - 1] - 1)
  BY <1>2, PowerSplits
<1>4. Signed(p + next - 1, IntBits) = p + next - 1
  BY <1>3, SignedIs
<1>5. ~(Signed(p + next - 1, IntBits) < 0)
  BY <1>3, <1>4
<1> QED BY <1>1, <1>2, <1>5 DEF SkipsTo

\* A field is skipped the same wherever its bytes stand.
LEMMA SkipOneMoves ==
  ASSUME NEW part \in Bytes, NEW bytes \in Bytes, NEW p \in Nat, EndsWith(part, bytes, p),
         Fits(bytes), NEW i \in Nat \ {0}, NEW depth \in Nat,
         SkipOne(part, i, depth).err = "nil", SkipOne(part, i, depth).next <= Len(part) + 1
  PROVE  SkipOne(bytes, p + i, depth) =
           Read(SkipOne(part, i, depth).value, p + SkipOne(part, i, depth).next)
<1> DEFINE end == Len(part)
           tag == ReadVarint(part, i)
           arg == ReadVarint(part, tag.next)
           o == SkipOne(part, i, depth)
           tag2 == ReadVarint(bytes, p + i)
           arg2 == ReadVarint(bytes, tag2.next)
           o2 == SkipOne(bytes, p + i, depth)
           w == tag.value % 8
           Moved == o2 = Read(o.value, p + o.next)
<1>1. /\ end \in Nat /\ p + end < Pow2[IntBits - 1] /\ i <= end
      /\ ~(i > end) /\ ~(p + i > Len(bytes)) /\ p + i \in Nat \ {0}
  BY SkipOneTyped, BytesAre DEF EndsWith, Fits
<1>2. tag.err = "nil"
  BY <1>1, SkipCases
<1>3. tag.value \in Nat /\ tag.next \in Nat \ {0}
  BY <1>2, VarintOutcome
<1>4. tag2 = Read(tag.value, p + tag.next)
  BY <1>2, VarintMoves
<1>5. tag2.err = "nil" /\ tag2.value = tag.value /\ tag2.next = p + tag.next
  BY <1>4, StepIs
<1>6. arg.err = "nil" =>
        arg2 = Read(arg.value, p + arg.next) /\ arg.value \in Nat /\ arg.next \in Nat \ {0}
  <2> SUFFICES ASSUME arg.err = "nil"
               PROVE  arg2 = Read(arg.value, p + arg.next)
                      /\ arg.value \in Nat /\ arg.next \in Nat \ {0}
    OBVIOUS
  <2> HIDE DEF tag, tag2
  <2> QED BY <1>3, <1>5, VarintOutcome, VarintMoves
<1>7. SkipsAs(o, tag, arg, depth) /\ SkipsAs(o2, tag2, arg2, depth)
  BY <1>1, <1>2, <1>5, SkipCases
<1> HIDE DEF tag, arg, tag2, arg2
<1>8. w \in 0..7
  BY <1>3
<1>9. ASSUME NEW n \in Nat \ {0}, NEW d \in Nat, o = SkipsTo(n, d), o2 = SkipsTo(p + n, d)
      PROVE  Moved
  <2>1. SkipsTo(n, d).err = "nil" /\ SkipsTo(n, d).next <= end + 1 /\ n > 0
    BY <1>9
  <2>2. SkipsTo(n, d) = Read(d, n) /\ SkipsTo(p + n, d) = Read(d, p + n)
    <3> HIDE DEF end
    <3> QED BY <1>1, <2>1, SkipsToMoves
  <2> HIDE DEF o, o2
  <2> QED BY <1>9, <2>2, StepIs
<1>10. o.err = "nil"
  OBVIOUS
<1> HIDE DEF o, o2, Moved, end, w
<1>11. w = 0 => Moved
  <2>1. w = 0 => (o = IF arg.err = "nil" THEN SkipsTo(arg.next, depth) ELSE arg)
               /\ (o2 = IF arg2.err = "nil" THEN SkipsTo(arg2.next, depth) ELSE arg2)
    BY <1>5, <1>7 DEF SkipsAs, w
  <2>2. w = 0 => arg.err = "nil"
    BY <1>10, <2>1
  <2>3. w = 0 => o = SkipsTo(arg.next, depth) /\ o2 = SkipsTo(p + arg.next, depth)
    BY <1>6, <2>1, <2>2, StepIs
  <2> QED BY <1>6, <1>9, <2>2, <2>3
<1>12. w = 1 => Moved
  <2>1. w = 1 => o = SkipsTo(tag.next + 8, depth) /\ o2 = SkipsTo(p + tag.next + 8, depth)
    BY <1>5, <1>7 DEF SkipsAs, w
  <2>2. p + tag.next + 8 = p + (tag.next + 8) /\ tag.next + 8 \in Nat \ {0}
    BY <1>3
  <2> QED BY <1>9, <2>1, <2>2
<1>13. w = 2 => Moved
  <2> DEFINE len == Signed(arg.value, IntBits)
  <2>1. w = 2 => (o = IF arg.err # "nil" THEN arg
                      ELSE IF len < 0 THEN Failure("invalidLength")
                      ELSE SkipsTo(arg.next + len, depth))
               /\ (o2 = IF arg2.err # "nil" THEN arg2
                      ELSE IF Signed(arg2.value, IntBits) < 0 THEN Failure("invalidLength")
                      ELSE SkipsTo(arg2.next + Signed(arg2.value, IntBits), depth))
    BY <1>5, <1>7 DEF SkipsAs, w
  <2> HIDE DEF len
  <2>2. w = 2 => arg.err = "nil" /\ ~(len < 0)
    <3>1. "invalidLength" # "nil"
      OBVIOUS
    <3> QED BY <1>10, <2>1, <3>1, StepIs
  <2>3. w = 2 => arg2.err = "nil" /\ arg2.next = p + arg.next /\ Signed(arg2.value, IntBits) = len
    BY <1>6, <2>2, StepIs DEF len
  <2>4. w = 2 => o = SkipsTo(arg.next + len, depth) /\ o2 = SkipsTo(p + arg.next + len, depth)
    BY <2>1, <2>2, <2>3
  <2>5. w = 2 => len \in Int
    <3>1. w = 2 => arg.value \in Int
      BY <1>6, <2>2
    <3>2. \A x \in Int : Signed(x, IntBits) \in Int
      BY SignedIs
    <3> QED BY <3>1, <3>2 DEF len
  <2>6. w = 2 => p + arg.next + len = p + (arg.next + len) /\ arg.next + len \in Nat \ {0}
    BY <1>6, <2>2, <2>5
  <2> QED BY <1>9, <2>4, <2>6
<1>14. w = 3 => Moved
  <2>1. w = 3 => o = SkipsTo(tag.next, depth + 1) /\ o2 = SkipsTo(p + tag.next, depth + 1)
    BY <1>5, <1>7 DEF SkipsAs, w
  <2>2. depth + 1 \in Nat
    OBVIOUS
  <2> QED BY <1>3, <1>9, <2>1, <2>2
<1>15. w = 4 => Moved
  <2>1. w = 4 => (o = IF depth = 0 THEN Failure("endOfGroup") ELSE SkipsTo(tag.next, depth - 1))
               /\ (o2 = IF depth = 0 THEN Failure("endOfGroup")
                        ELSE SkipsTo(p + tag.next, depth - 1))
    BY <1>5, <1>7 DEF SkipsAs, w
  <2>2. w = 4 => depth # 0
    <3>1. "endOfGroup" # "nil"
      OBVIOUS
    <3> QED BY <1>10, <2>1, <3>1, StepIs
  <2>3. depth # 0 => depth - 1 \in Nat
    OBVIOUS
  <2> QED BY <1>3, <1>9, <2>1, <2>2, <2>3
<1>16. w = 5 => Moved
  <2>1. w = 5 => o = SkipsTo(tag.next + 4, depth) /\ o2 = SkipsTo(p + tag.next + 4, depth)
    BY <1>5, <1>7 DEF SkipsAs, w
  <2>2. p + tag.next + 4 = p + (tag.next + 4) /\ tag.next + 4 \in Nat \ {0}
    BY <1>3
  <2> QED BY <1>9, <2>1, <2>2
<1>17. w \in 0..5
  <2>1. w \notin 0..5 => o = Failure("wireType")
    BY <1>7 DEF SkipsAs, w
  <2>2. "wireType" # "nil"
    OBVIOUS
  <2> QED BY <1>10, <2>1, <2>2, StepIs
<1>18. w = 0 \/ w = 1 \/ w = 2 \/ w = 3 \/ w = 4 \/ w = 5
  BY <1>17
<1>19. Moved
  BY <1>11, <1>12, <1>13, <1>14, <1>15, <1>16, <1>18
<1> QED BY <1>19 DEF Moved, o, o2

Depths == (Nat \ {0}) \X Nat

SkipStep(bytes, from, s) ==
  Then(SkipOne(bytes, s[1], s[2]),
       LAMBDA depth, next : IF depth = 0 THEN Read(0, next) ELSE from[<<next, depth>>])

SkipFrom(bytes) == CHOOSE from : from = [s \in Depths |-> SkipStep(bytes, from, s)]

\* Skip in terms of its loop, under a name.
LEMMA SkipIs ==
  ASSUME NEW bytes, NEW i
  PROVE  Skip(bytes, i) = SkipFrom(bytes)[<<i, 0>>]
BY DEF Skip, SkipFrom, SkipStep, Depths

\* A step of the loop of Skip.
LEMMA SkipStepIs ==
  ASSUME NEW bytes, NEW from, NEW s, NEW one, one = SkipOne(bytes, s[1], s[2])
  PROVE  SkipStep(bytes, from, s) =
           IF one.err # "nil" THEN one
           ELSE IF one.value = 0 THEN Read(0, one.next)
           ELSE from[<<one.next, one.value>>]
BY DEF SkipStep, Then

\* How much is left to read.
LeftOf(bytes) ==
  [s \in Depths |-> IF s[1] > Len(bytes) THEN 0 ELSE Len(bytes) + 1 - s[1]]

\* The bytes that are left get fewer with every step of Skip.
LEMMA LeftIs ==
  ASSUME NEW bytes \in Bytes
  PROVE  /\ LeftOf(bytes) \in [Depths -> Nat]
         /\ \A s, t \in Depths :
              s[1] <= Len(bytes) /\ t[1] > s[1] => LeftOf(bytes)[t] < LeftOf(bytes)[s]
<1>1. Len(bytes) \in Nat
  BY BytesAre
<1>2. \A s \in Depths : s[1] \in Nat \ {0}
  BY DEF Depths
<1>3. \A s \in Depths : (IF s[1] > Len(bytes) THEN 0 ELSE Len(bytes) + 1 - s[1]) \in Nat
  <2> DEFINE e == Len(bytes)
  <2>1. e \in Nat
    BY <1>1
  <2> HIDE DEF e
  <2>2. \A n \in Nat \ {0} : (IF n > e THEN 0 ELSE e + 1 - n) \in Nat
    BY <2>1
  <2>3. \A s \in Depths : (IF s[1] > e THEN 0 ELSE e + 1 - s[1]) \in Nat
    BY <1>2, <2>2
  <2> QED BY <2>3 DEF e
<1>4. ASSUME NEW s \in Depths, NEW t \in Depths, s[1] <= Len(bytes), t[1] > s[1]
      PROVE  LeftOf(bytes)[t] < LeftOf(bytes)[s]
  BY <1>1, <1>2, <1>4 DEF LeftOf
<1> QED BY <1>3, <1>4 DEF LeftOf

\* The loop of Skip is what its definition says: it ends, since the bytes do.
LEMMA SkipUnfolds ==
  ASSUME NEW bytes \in Bytes, NEW s \in Depths
  PROVE  SkipFrom(bytes)[s] = SkipStep(bytes, SkipFrom(bytes), s)
<1> DEFINE R == Outcomes(Nat)
           one(t) == SkipOne(bytes, t[1], t[2])
           Stop == {t \in Depths : one(t).err # "nil" \/ one(t).value = 0}
           rank == LeftOf(bytes)
           step == [t \in Depths \ Stop |-> <<one(t).next, one(t).value>>]
           end == [t \in Depths |-> IF one(t).err # "nil" THEN one(t) ELSE Read(0, one(t).next)]
           out == [p \in Depths \X R |-> p[2]]
<1>1. ASSUME NEW t \in Depths
      PROVE  /\ t[1] \in Nat \ {0} /\ t[2] \in Nat /\ one(t) \in R
             /\ one(t).err = "nil" => /\ t[1] <= Len(bytes) /\ one(t).next > t[1]
                                      /\ one(t).next \in Nat \ {0} /\ one(t).value \in Nat
  <2>1. t[1] \in Nat \ {0} /\ t[2] \in Nat
    BY DEF Depths
  <2>2. one(t) \in R /\ (one(t).err = "nil" => t[1] <= Len(bytes) /\ one(t).next > t[1])
    BY <2>1, SkipOneTyped
  <2> HIDE DEF one, R
  <2>3. one(t).err = "nil" => one(t).next \in Nat /\ one(t).value \in Nat
    BY <2>2, OutcomeIs DEF R
  <2> QED BY <2>1, <2>2, <2>3
<1> HIDE DEF R, one
<1>2. Grounded(Depths, R, rank, Stop, step, end, out)
  <2>1. rank \in [Depths -> Nat]
    BY LeftIs
  <2>2. ASSUME NEW t \in Depths \ Stop
        PROVE  <<one(t).next, one(t).value>> \in Depths /\ rank[<<one(t).next, one(t).value>>] < rank[t]
    <3>1. t \in Depths /\ one(t).err = "nil"
      OBVIOUS
    <3>2. <<one(t).next, one(t).value>> \in Depths
      BY <1>1, <3>1 DEF Depths
    <3> QED BY <1>1, <3>1, <3>2, LeftIs
  <2>3. \A t \in Depths : end[t] \in R
    <3>1. \A n \in Nat : Read(0, n) \in R
      BY ReadIsOutcome DEF R
    <3> QED BY <1>1, <3>1
  <2>4. step \in [Depths \ Stop -> Depths] /\ \A t \in Depths \ Stop : rank[step[t]] < rank[t]
    <3> HIDE DEF Stop, rank
    <3> QED BY <2>2
  <2>5. end \in [Depths -> R] /\ out \in [Depths \X R -> R]
    <3>1. end \in [Depths -> R]
      BY <2>3
    <3>2. out \in [Depths \X R -> R]
      OBVIOUS
    <3> QED BY <3>1, <3>2
  <2> HIDE DEF R, Stop, rank, step, end, out
  <2> QED BY <2>1, <2>4, <2>5 DEF Grounded
<1>3. PICK f \in [Depths -> R] : Solves(f, Depths, Stop, step, end, out)
  <2> HIDE DEF R, Stop, rank, step, end, out
  <2> QED BY <1>2, Recursion
<1>4. ASSUME NEW t \in Depths
      PROVE  f[t] = SkipStep(bytes, f, t)
  <2>0. SkipStep(bytes, f, t) =
           IF one(t).err # "nil" THEN one(t)
           ELSE IF one(t).value = 0 THEN Read(0, one(t).next)
           ELSE f[<<one(t).next, one(t).value>>]
    BY SkipStepIs DEF one
  <2>1. CASE t \in Stop
    <3>1. f[t] = end[t]
      BY <1>3, <2>1 DEF Solves
    <3> QED BY <2>0, <2>1, <3>1
  <2>2. CASE t \notin Stop
    <3>1. step[t] = <<one(t).next, one(t).value>> /\ step[t] \in Depths
      BY <1>1, <2>2 DEF Depths
    <3>2. f[t] = out[<<t, f[step[t]]>>] /\ f[step[t]] \in R
      <4> HIDE DEF out, Stop, end, step
      <4> QED BY <1>3, <2>2, <3>1 DEF Solves
    <3>3. f[t] = f[step[t]]
      <4> HIDE DEF step
      <4> QED BY <3>2
    <3> QED BY <2>0, <2>2, <3>1, <3>3
  <2> QED BY <2>1, <2>2
<1>5. f = [t \in Depths |-> SkipStep(bytes, f, t)]
  BY <1>4
<1>6. SkipFrom(bytes) = [t \in Depths |-> SkipStep(bytes, SkipFrom(bytes), t)]
  BY <1>5 DEF SkipFrom
<1> QED BY <1>6

\* The loop of Skip at one field.
LEMMA SkipFromIs ==
  ASSUME NEW bytes \in Bytes, NEW s \in Depths, NEW one, one = SkipOne(bytes, s[1], s[2])
  PROVE  SkipFrom(bytes)[s] =
           IF one.err # "nil" THEN one
           ELSE IF one.value = 0 THEN Read(0, one.next)
           ELSE SkipFrom(bytes)[<<one.next, one.value>>]
<1> DEFINE from == SkipFrom(bytes)
<1>1. from[s] = SkipStep(bytes, from, s)
  BY SkipUnfolds
<1>2. SkipStep(bytes, from, s) = IF one.err # "nil" THEN one
           ELSE IF one.value = 0 THEN Read(0, one.next)
           ELSE from[<<one.next, one.value>>]
  <2> HIDE DEF from
  <2> QED BY SkipStepIs
<1> HIDE DEF from
<1>3. from[s] = IF one.err # "nil" THEN one
           ELSE IF one.value = 0 THEN Read(0, one.next)
           ELSE from[<<one.next, one.value>>]
  BY <1>1, <1>2
<1> QED BY <1>3 DEF from

\* From every field and depth on, Skip is refused or moves forward.
LEMMA SkipFromTyped ==
  ASSUME NEW bytes \in Bytes
  PROVE  \A s \in Depths :
           /\ SkipFrom(bytes)[s] \in Outcomes(Nat)
           /\ SkipFrom(bytes)[s].err = "nil" =>
                SkipFrom(bytes)[s].next > s[1] /\ SkipFrom(bytes)[s].value = 0
<1> DEFINE from == SkipFrom(bytes)
           rank == LeftOf(bytes)
           Fine(s) == /\ from[s] \in Outcomes(Nat)
                      /\ from[s].err = "nil" => from[s].next > s[1] /\ from[s].value = 0
           T == {s \in Depths : Fine(s)}
<1>1. ASSUME NEW s \in Depths, \A t \in Depths : rank[t] < rank[s] => t \in T
      PROVE  s \in T
  <2> DEFINE one == SkipOne(bytes, s[1], s[2])
             rest == <<one.next, one.value>>
  <2>1. s[1] \in Nat \ {0} /\ s[2] \in Nat
    BY DEF Depths
  <2>2. one \in Outcomes(Nat) /\ (one.err = "nil" => s[1] <= Len(bytes) /\ one.next > s[1])
    BY <2>1, SkipOneTyped
  <2>3. from[s] = IF one.err # "nil" THEN one
                  ELSE IF one.value = 0 THEN Read(0, one.next) ELSE from[rest]
    BY SkipFromIs
  <2> HIDE DEF from, one, rank
  <2>4. CASE one.err # "nil"
    BY <2>2, <2>3, <2>4
  <2>5. CASE one.err = "nil"
    <3>1. one.next \in Nat \ {0} /\ one.value \in Nat
      BY <2>1, <2>2, <2>5, OutcomeIs
    <3>2. CASE one.value = 0
      <4>1. from[s] = Read(0, one.next) /\ Read(0, one.next) \in Outcomes(Nat)
        BY <2>3, <2>5, <3>1, <3>2, ReadIsOutcome
      <4> QED BY <2>2, <2>5, <4>1, StepIs
    <3>3. CASE one.value # 0
      <4>1. rest \in Depths /\ rest[1] = one.next
        BY <3>1 DEF Depths
      <4>2. rank[rest] < rank[s]
        <5> HIDE DEF rest
        <5> QED BY <2>2, <2>5, <4>1, LeftIs DEF rank
      <4>3. Fine(rest) /\ from[s] = from[rest]
        BY <1>1, <2>3, <2>5, <3>3, <4>1, <4>2
      <4>4. from[rest].err = "nil" => from[rest].next \in Nat /\ from[rest].next > one.next
        <5> HIDE DEF rest
        <5> QED BY <4>1, <4>3, OutcomeIs
      <4>5. from[rest].err = "nil" => from[rest].next > s[1]
        <5> HIDE DEF rest
        <5> QED BY <2>1, <2>2, <2>5, <3>1, <4>4
      <4> HIDE DEF rest
      <4> QED BY <4>3, <4>5
    <3> QED BY <3>2, <3>3
  <2> QED BY <2>4, <2>5
<1>2. rank \in [Depths -> Nat]
  BY LeftIs
<1>3. Depths \subseteq T
  <2> HIDE DEF T, rank
  <2> QED BY <1>1, <1>2, RankInduction
<1> QED BY <1>3

\* Skip is refused or moves forward.
LEMMA SkipTyped ==
  ASSUME NEW bytes \in Bytes, NEW i \in Nat \ {0}, NEW o, o = Skip(bytes, i)
  PROVE  \/ o.err = "nil" /\ o.next \in Nat /\ o.next > i /\ o.value = 0
         \/ o.err # "nil" /\ o.err \in Refusals /\ o = Failure(o.err)
<1> DEFINE s == <<i, 0>>
<1>1. s \in Depths /\ s[1] = i /\ o = SkipFrom(bytes)[s]
  BY SkipIs DEF Depths
<1> HIDE DEF s
<1>2. o \in Outcomes(Nat) /\ (o.err = "nil" => o.next > i /\ o.value = 0)
  BY <1>1, SkipFromTyped
<1> QED BY <1>2, OutcomeIs

\* Fields are skipped the same wherever their bytes stand.
LEMMA SkipMoves ==
  ASSUME NEW part \in Bytes, NEW bytes \in Bytes, NEW p \in Nat, EndsWith(part, bytes, p),
         Fits(bytes), NEW i \in Nat \ {0},
         Skip(part, i).err = "nil", Skip(part, i).next <= Len(part) + 1
  PROVE  Skip(bytes, p + i) = Read(0, p + Skip(part, i).next)
<1> DEFINE here == SkipFrom(part)
           there == SkipFrom(bytes)
           rank == LeftOf(part)
           Moves(s) == here[s].err = "nil" /\ here[s].next <= Len(part) + 1 =>
                         there[<<p + s[1], s[2]>>] = Read(0, p + here[s].next)
           T == {s \in Depths : Moves(s)}
<1>1. ASSUME NEW s \in Depths, \A t \in Depths : rank[t] < rank[s] => t \in T,
             here[s].err = "nil", here[s].next <= Len(part) + 1
      PROVE  there[<<p + s[1], s[2]>>] = Read(0, p + here[s].next)
  <2> DEFINE one == SkipOne(part, s[1], s[2])
             rest == <<one.next, one.value>>
             s2 == <<p + s[1], s[2]>>
             one2 == SkipOne(bytes, s2[1], s2[2])
  <2>0. Len(part) \in Nat
    BY BytesAre
  <2>1. s[1] \in Nat \ {0} /\ s[2] \in Nat /\ s2 \in Depths /\ s2[1] = p + s[1] /\ s2[2] = s[2]
    BY DEF Depths
  <2>2. one \in Outcomes(Nat) /\ (one.err = "nil" => s[1] <= Len(part) /\ one.next > s[1])
    BY <2>1, SkipOneTyped
  <2>3. here[s] = IF one.err # "nil" THEN one
                  ELSE IF one.value = 0 THEN Read(0, one.next) ELSE here[rest]
    BY SkipFromIs
  <2>4. there[s2] = IF one2.err # "nil" THEN one2
                    ELSE IF one2.value = 0 THEN Read(0, one2.next)
                    ELSE there[<<one2.next, one2.value>>]
    BY <2>1, SkipFromIs
  <2>5. one.next <= Len(part) + 1 => (one.err = "nil" => one2 = Read(one.value, p + one.next))
    BY <2>1, SkipOneMoves
  <2> HIDE DEF here, there, one, one2, rank, s2
  <2>6. one.err = "nil" /\ one.next \in Nat \ {0} /\ one.value \in Nat
    <3>1. one.err = "nil"
      BY <1>1, <2>3
    <3> QED BY <2>1, <2>2, <3>1, OutcomeIs
  <2>7. CASE one.value = 0
    <3>1. here[s] = Read(0, one.next)
      BY <2>3, <2>6, <2>7
    <3>2. one2 = Read(0, p + one.next)
      BY <1>1, <2>5, <2>6, <2>7, <3>1, StepIs
    <3>3. there[s2] = Read(0, p + one.next)
      BY <2>4, <3>2, StepIs
    <3> QED BY <3>1, <3>3, StepIs DEF s2
  <2>8. CASE one.value # 0
    <3>1. rest \in Depths /\ rest[1] = one.next /\ rest[2] = one.value
      BY <2>6 DEF Depths
    <3>2. here[s] = here[rest]
      BY <2>3, <2>6, <2>8
    <3> HIDE DEF rest
    <3>3. rank[rest] < rank[s]
      BY <2>2, <2>6, <3>1, LeftIs DEF rank
    <3>4. Moves(rest)
      BY <1>1, <3>1, <3>3
    <3>5. there[<<p + one.next, one.value>>] = Read(0, p + here[s].next)
      BY <1>1, <3>1, <3>2, <3>4
    <3>6. here[rest].next \in Nat /\ here[rest].next > one.next
      <4>1. here[rest] \in Outcomes(Nat) /\ here[rest].next > rest[1]
        BY <1>1, <3>1, <3>2, SkipFromTyped DEF here
      <4> QED BY <1>1, <3>1, <3>2, <4>1, OutcomeIs
    <3>7. one.next <= Len(part) + 1
      BY <1>1, <2>0, <2>6, <3>2, <3>6
    <3>8. one2 = Read(one.value, p + one.next)
      BY <2>5, <2>6, <3>7
    <3>9. there[s2] = there[<<p + one.next, one.value>>]
      <4>1. one2.err = "nil" /\ one2.value = one.value /\ one2.next = p + one.next
        BY <3>8, StepIs
      <4> QED BY <2>4, <2>8, <4>1
    <3> QED BY <3>5, <3>9 DEF s2
  <2> QED BY <2>7, <2>8
<1>2. rank \in [Depths -> Nat]
  BY LeftIs
<1>3. \A s \in Depths : (\A t \in Depths : rank[t] < rank[s] => t \in T) => s \in T
  <2> HIDE DEF here, there, rank
  <2> QED BY <1>1
<1>4. Depths \subseteq T
  <2> HIDE DEF T, rank
  <2> QED BY <1>2, <1>3, RankInduction
<1> DEFINE s0 == <<i, 0>>
<1>5. s0 \in Depths /\ s0[1] = i /\ s0[2] = 0
  BY DEF Depths
<1>6. Moves(s0)
  <2> HIDE DEF s0
  <2> QED BY <1>4, <1>5
<1>7. Skip(part, i) = here[s0] /\ Skip(bytes, p + i) = there[<<p + i, 0>>]
  BY SkipIs
<1> HIDE DEF here, there
<1> QED BY <1>6, <1>7

\* A word with the highest bit set is a negative number.
LEMMA SignedNegative ==
  ASSUME NEW x \in Pow2[IntBits - 1]..(Pow2[IntBits] - 1)
  PROVE  Signed(x, IntBits) < 0
<1> DEFINE d == Pow2[IntBits]
           h == Pow2[IntBits - 1]
<1>1. d \in Nat \ {0} /\ h \in Nat \ {0} /\ d = 2 * h
  BY PowerSplits
<1>2. Signed(x, IntBits) = IF x % d < h THEN x % d ELSE (x % d) - d
  BY DEF Signed, Unsigned
<1>3. x \in h..(d - 1)
  OBVIOUS
<1> HIDE DEF d, h
<1>4. x % d = x
  BY <1>1, <1>3
<1>5. ~(x < h) /\ x - d < 0
  BY <1>1, <1>3
<1> QED BY <1>2, <1>4, <1>5

\* Skip does not go behind the largest int.
LEMMA SkipsToBounded ==
  ASSUME NEW next \in Nat, next > 0, next <= 2 * Pow2[IntBits - 1], NEW depth,
         SkipsTo(next, depth).err = "nil"
  PROVE  SkipsTo(next, depth).next <= Pow2[IntBits - 1]
<1> DEFINE h == Pow2[IntBits - 1]
<1>1. h \in Nat \ {0} /\ Pow2[IntBits] = 2 * h
  BY PowerSplits
<1>2. ~(Signed(next - 1, IntBits) < 0)
  <2>1. "invalidLength" # "nil"
    OBVIOUS
  <2> QED BY <2>1, StepIs DEF SkipsTo
<1>3. next - 1 \notin h..(2 * h - 1)
  BY <1>1, <1>2, SignedNegative
<1> HIDE DEF h
<1>4. next <= h
  <2>1. next <= 2 * h
    BY DEF h
  <2> QED BY <1>1, <1>3, <2>1
<1> QED BY <1>2, <1>4, StepIs DEF SkipsTo, h

\* Nor does its reading of one field, even of a length near the largest int.
LEMMA SkipOneBounded ==
  ASSUME NEW bytes \in Bytes, Fits(bytes), NEW i \in Nat \ {0}, NEW depth \in Nat,
         SkipOne(bytes, i, depth).err = "nil"
  PROVE  SkipOne(bytes, i, depth).next <= Pow2[IntBits - 1]
<1> DEFINE h == Pow2[IntBits - 1]
           tag == ReadVarint(bytes, i)
           arg == ReadVarint(bytes, tag.next)
           o == SkipOne(bytes, i, depth)
           w == tag.value % 8
           len == Signed(arg.value, IntBits)
<1>1. h \in Nat /\ 128 <= h /\ Len(bytes) \in Nat /\ Len(bytes) + 1 <= h /\ ~(i > Len(bytes))
  BY SkipOneTyped, BytesAre, PowerSplits DEF Fits
<1>2. tag.err = "nil"
  BY <1>1, SkipCases
<1>3. tag.value \in Nat /\ tag.next \in Nat \ {0} /\ tag.next <= h
  BY <1>1, <1>2, VarintOutcome
<1>4. arg.err = "nil" => arg.value \in Nat /\ arg.next \in Nat \ {0} /\ arg.next <= h
  <2> HIDE DEF tag, h
  <2> QED BY <1>1, <1>3, VarintOutcome
<1>5. SkipsAs(o, tag, arg, depth)
  BY <1>1, <1>2, SkipCases
<1>6. arg.err = "nil" => len \in Int /\ len < h
  <2>1. \A x \in Int : Signed(x, IntBits) \in -h..(h - 1)
    BY SignedIs
  <2>2. \A x \in -h..(h - 1) : x \in Int /\ x < h
    <3> HIDE DEF h
    <3> QED BY <1>1
  <2>3. arg.err = "nil" => arg.value \in Int
    BY <1>4
  <2> HIDE DEF arg, h
  <2> QED BY <2>1, <2>2, <2>3
<1>7. ASSUME NEW n \in Nat, NEW d, n > 0, n <= 2 * h, o = SkipsTo(n, d) PROVE o.next <= h
  BY <1>7, SkipsToBounded
<1>8. o.err = "nil" /\ \A e \in Refusals : o # Failure(e)
  BY StepIs DEF Refusals
<1> HIDE DEF o, h, tag, arg, w, len
<1>9. w = 0 => o.next <= h
  <2>1. w = 0 => o = IF arg.err = "nil" THEN SkipsTo(arg.next, depth) ELSE arg
    BY <1>5 DEF SkipsAs, w
  <2>2. w = 0 => arg.err = "nil" /\ o = SkipsTo(arg.next, depth)
    BY <1>8, <2>1
  <2>3. arg.err = "nil" => arg.next > 0 /\ arg.next <= 2 * h
    BY <1>1, <1>4
  <2> QED BY <1>4, <1>7, <2>2, <2>3
<1>10. w = 1 => o.next <= h
  <2>1. w = 1 => o = SkipsTo(tag.next + 8, depth)
    BY <1>5 DEF SkipsAs, w
  <2>2. tag.next + 8 \in Nat /\ tag.next + 8 > 0 /\ tag.next + 8 <= 2 * h
    BY <1>1, <1>3
  <2> QED BY <1>7, <2>1, <2>2
<1>11. w = 2 => o.next <= h
  <2>1. w = 2 => o = IF arg.err # "nil" THEN arg
                     ELSE IF len < 0 THEN Failure("invalidLength")
                     ELSE SkipsTo(arg.next + len, depth)
    BY <1>5 DEF SkipsAs, w, len
  <2>2. w = 2 => arg.err = "nil" /\ ~(len < 0) /\ o = SkipsTo(arg.next + len, depth)
    BY <1>8, <2>1 DEF Refusals
  <2>3. arg.err = "nil" /\ ~(len < 0) =>
          arg.next + len \in Nat /\ arg.next + len > 0 /\ arg.next + len <= 2 * h
    BY <1>1, <1>4, <1>6
  <2> QED BY <1>7, <2>2, <2>3
<1>12. w = 3 => o.next <= h
  <2>1. w = 3 => o = SkipsTo(tag.next, depth + 1)
    BY <1>5 DEF SkipsAs, w
  <2>2. tag.next \in Nat /\ tag.next > 0 /\ tag.next <= 2 * h
    BY <1>1, <1>3
  <2> QED BY <1>7, <2>1, <2>2
<1>13. w = 4 => o.next <= h
  <2>1. w = 4 => o = IF depth = 0 THEN Failure("endOfGroup") ELSE SkipsTo(tag.next, depth - 1)
    BY <1>5 DEF SkipsAs, w
  <2>2. w = 4 => o = SkipsTo(tag.next, depth - 1)
    BY <1>8, <2>1 DEF Refusals
  <2>3. tag.next \in Nat /\ tag.next > 0 /\ tag.next <= 2 * h
    BY <1>1, <1>3
  <2> QED BY <1>7, <2>2, <2>3
<1>14. w = 5 => o.next <= h
  <2>1. w = 5 => o = SkipsTo(tag.next + 4, depth)
    BY <1>5 DEF SkipsAs, w
  <2>2. tag.next + 4 \in Nat /\ tag.next + 4 > 0 /\ tag.next + 4 <= 2 * h
    BY <1>1, <1>3
  <2> QED BY <1>7, <2>1, <2>2
<1>15. w \in 0..5
  <2>1. w \notin 0..5 => o = Failure("wireType")
    BY <1>5 DEF SkipsAs, w
  <2> QED BY <1>8, <2>1 DEF Refusals
<1>16. w = 0 \/ w = 1 \/ w = 2 \/ w = 3 \/ w = 4 \/ w = 5
  BY <1>15
<1> QED BY <1>9, <1>10, <1>11, <1>12, <1>13, <1>14, <1>16 DEF o, h

\* Nor does Skip as a whole, so that the caller's sums do not overflow.
LEMMA SkipBounded ==
  ASSUME NEW bytes \in Bytes, Fits(bytes), NEW i \in Nat \ {0}, Skip(bytes, i).err = "nil"
  PROVE  Skip(bytes, i).next <= Pow2[IntBits - 1]
<1> DEFINE from == SkipFrom(bytes)
           rank == LeftOf(bytes)
           h == Pow2[IntBits - 1]
           T == {s \in Depths : from[s].err = "nil" => from[s].next <= h}
<1>1. ASSUME NEW s \in Depths, \A t \in Depths : rank[t] < rank[s] => t \in T,
             from[s].err = "nil"
      PROVE  from[s].next <= h
  <2> DEFINE one == SkipOne(bytes, s[1], s[2])
             rest == <<one.next, one.value>>
  <2>1. s[1] \in Nat \ {0} /\ s[2] \in Nat
    BY DEF Depths
  <2>2. one \in Outcomes(Nat) /\ (one.err = "nil" => s[1] <= Len(bytes) /\ one.next > s[1])
    BY <2>1, SkipOneTyped
  <2>3. from[s] = IF one.err # "nil" THEN one
                  ELSE IF one.value = 0 THEN Read(0, one.next) ELSE from[rest]
    BY SkipFromIs
  <2>4. one.err = "nil" => one.next <= h
    BY <2>1, SkipOneBounded
  <2> HIDE DEF from, one, rank, h
  <2>5. one.err = "nil"
    BY <1>1, <2>3
  <2>6. one.next \in Nat \ {0} /\ one.value \in Nat
    BY <2>1, <2>2, <2>5, OutcomeIs
  <2>7. CASE one.value = 0
    BY <2>3, <2>4, <2>5, <2>7, StepIs
  <2>8. CASE one.value # 0
    <3>1. rest \in Depths /\ rest[1] = one.next
      BY <2>6 DEF Depths
    <3> HIDE DEF rest
    <3>2. rank[rest] < rank[s]
      BY <2>2, <2>5, <3>1, LeftIs DEF rank
    <3> QED BY <1>1, <2>3, <2>5, <2>8, <3>1, <3>2
  <2> QED BY <2>7, <2>8
<1>2. rank \in [Depths -> Nat]
  BY LeftIs
<1>3. \A s \in Depths : (\A t \in Depths : rank[t] < rank[s] => t \in T) => s \in T
  <2> HIDE DEF from, rank, h
  <2> QED BY <1>1
<1>4. Depths \subseteq T
  <2> HIDE DEF T, rank
  <2> QED BY <1>2, <1>3, RankInduction
<1>5. <<i, 0>> \in Depths
  BY DEF Depths
<1> QED BY <1>4, <1>5, SkipIs

--------------------------------------------------------------------------------
(* The bytes of a field *)

\* What a step that began at i yields: one of Values and a place behind i, at most end,
\* or an error; and no panic.
Yields(o, Values, i, end) ==
  \/ o.err = "nil" /\ o.value \in Values /\ o.next \in Nat /\ i < o.next /\ o.next <= end
     /\ o = Read(o.value, o.next)
  \/ o.err # "nil" /\ o.err \in Refusals /\ o = Failure(o.err)

\* A refusal is a step of the decoder.
LEMMA FailureYields ==
  ASSUME NEW e \in Refusals, NEW Values, NEW i, NEW end
  PROVE  Yields(Failure(e), Values, i, end)
BY StepIs DEF Yields, Refusals

\* A value and a place further on are a step of the decoder.
LEMMA ReadYields ==
  ASSUME NEW Values, NEW v \in Values, NEW n \in Nat, NEW i, NEW end, i < n, n <= end
  PROVE  Yields(Read(v, n), Values, i, end)
BY StepIs DEF Yields

\* Signed leaves small numbers as they are, for all of them at once.
LEMMA SignedSame ==
  \A x \in 0..(Pow2[IntBits - 1] - 1) : Signed(x, IntBits) = x
<1> SUFFICES ASSUME NEW x \in 0..(Pow2[IntBits - 1] - 1) PROVE Signed(x, IntBits) = x
  OBVIOUS
<1>1. x \in Int
  BY PowerSplits
<1> QED BY <1>1, SignedIs

\* The bytes of a part, one by one.
LEMMA PartIs ==
  ASSUME NEW bytes \in Bytes, NEW a \in Nat \ {0}, NEW b \in Nat, a <= b + 1, b <= Len(bytes)
  PROVE  /\ SubSeq(bytes, a, b) \in Bytes /\ Len(SubSeq(bytes, a, b)) = b + 1 - a
         /\ \A k \in 1..(b + 1 - a) : SubSeq(bytes, a, b)[k] = bytes[a - 1 + k]
<1> DEFINE Byte == 0..255
<1>1. bytes \in Seq(Byte)
  BY DEF Bytes
<1> HIDE DEF Byte
<1>2. SubSeq(bytes, a, b) \in Seq(Byte) /\ Len(SubSeq(bytes, a, b)) = b + 1 - a
      /\ \A k \in 1..(b + 1 - a) : SubSeq(bytes, a, b)[k] = bytes[a - 1 + k]
  BY <1>1
<1> QED BY <1>2 DEF Bytes, Byte

\* Bounded yields the bytes of the field if they are all there, and refuses otherwise:
\* it never slices outside of the buffer.
LEMMA BoundedIs ==
  ASSUME NEW bytes \in Bytes, Fits(bytes), NEW i \in Nat \ {0}, i <= Len(bytes) + 1,
         NEW len \in Int, i - 1 + len < 2 * Pow2[IntBits - 1]
  PROVE  IF len >= 0 /\ i - 1 + len <= Len(bytes)
         THEN /\ Bounded(bytes, i, len) = Read(SubSeq(bytes, i, i - 1 + len), i + len)
              /\ SubSeq(bytes, i, i - 1 + len) \in Bytes
              /\ i + len \in Nat /\ i + len <= Len(bytes) + 1
         ELSE \E e \in Refusals : Bounded(bytes, i, len) = Failure(e)
<1> DEFINE h == Pow2[IntBits - 1]
           end == Len(bytes)
           post == PostIndex(i, len)
<1>1. h \in Nat /\ Pow2[IntBits] = 2 * h /\ end \in Nat /\ end < h
  BY BytesAre, PowerSplits DEF Fits
<1>2. CASE len >= 0 /\ i - 1 + len <= end
  <2>1. i - 1 + len \in 0..(h - 1)
    <3> HIDE DEF h, end
    <3> QED BY <1>1, <1>2
  <2>2. post = i - 1 + len
    BY <2>1, SignedSame DEF PostIndex
  <2>3. ~(len < 0) /\ ~(i - 1 + len < 0) /\ ~(i - 1 + len > end) /\ i > 0
    BY <1>1, <1>2
  <2>4. Bounded(bytes, i, len) = Read(SubSeq(bytes, i, i - 1 + len), i + len)
    <3> HIDE DEF post
    <3> QED BY <1>2, <2>2, <2>3 DEF Bounded, Slice, post
  <2>5. i - 1 + len \in Nat /\ i <= i - 1 + len + 1 /\ i + len \in Nat /\ i + len <= end + 1
    BY <1>1, <1>2
  <2>6. SubSeq(bytes, i, i - 1 + len) \in Bytes
    BY <1>2, <2>5, PartIs
  <2> QED BY <1>2, <2>4, <2>5, <2>6
<1>3. CASE ~(len >= 0 /\ i - 1 + len <= end)
  <2>1. CASE len < 0
    BY <1>3, <2>1 DEF Bounded, Refusals
  <2>2. CASE ~(len < 0)
    <3>1. i - 1 + len > end /\ i - 1 + len \in Nat
      BY <1>1, <1>3, <2>2
    <3>2. CASE i - 1 + len < h
      <4>1. i - 1 + len \in 0..(h - 1)
        <5> HIDE DEF h, end
        <5> QED BY <1>1, <3>1, <3>2
      <4>2. post = i - 1 + len
        BY <4>1, SignedSame DEF PostIndex
      <4>3. Bounded(bytes, i, len) = Failure("unexpectedEOF")
        <5>1. ~(i - 1 + len < 0)
          BY <3>1
        <5> QED BY <2>2, <3>1, <4>2, <5>1 DEF Bounded
      <4> QED BY <1>3, <4>3 DEF Refusals
    <3>3. CASE ~(i - 1 + len < h)
      <4>1. i - 1 + len \in h..(Pow2[IntBits] - 1)
        <5> HIDE DEF h, end
        <5> QED BY <1>1, <3>1, <3>3 DEF h
      <4>2. post < 0
        BY <4>1, SignedNegative DEF PostIndex
      <4>3. Bounded(bytes, i, len) = Failure("invalidLength")
        BY <4>2 DEF Bounded
      <4> QED BY <1>3, <4>3 DEF Refusals
    <3> QED BY <3>2, <3>3
  <2> QED BY <1>1, <2>1, <2>2
<1> QED BY <1>2, <1>3

\* LengthDelimited, step by step.
LEMMA BlockIs ==
  ASSUME NEW bytes, NEW i, NEW len, len = ReadVarint(bytes, i)
  PROVE  LengthDelimited(bytes, i) =
           IF len.err = "nil" THEN Bounded(bytes, len.next, Signed(len.value, IntBits)) ELSE len
BY DEF LengthDelimited, Then

\* A length and its bytes are a step of the decoder, whatever the length.
LEMMA BlockTyped ==
  ASSUME NEW bytes \in Bytes, Fits(bytes), NEW i \in Nat \ {0}
  PROVE  Yields(LengthDelimited(bytes, i), Bytes, i, Len(bytes) + 1)
<1> DEFINE len == ReadVarint(bytes, i)
           n == Signed(len.value, IntBits)
           o == LengthDelimited(bytes, i)
           h == Pow2[IntBits - 1]
<1>1. o = IF len.err = "nil" THEN Bounded(bytes, len.next, n) ELSE len
  BY BlockIs
<1>2. \/ len.err = "nil" /\ len.value \in Nat /\ len.next \in Nat /\ len.next > i
         /\ len.next <= Len(bytes) + 1
      \/ len.err # "nil" /\ len.err \in Refusals /\ len = Failure(len.err)
  BY VarintOutcome
<1>3. h \in Nat /\ Len(bytes) \in Nat /\ Len(bytes) < h
  BY BytesAre, PowerSplits DEF Fits
<1>4. CASE len.err = "nil"
  <2> DEFINE j == len.next
  <2>1. j \in Nat \ {0} /\ j > i /\ j <= Len(bytes) + 1
    BY <1>2, <1>4
  <2>2. n \in Int /\ n < h
    <3>1. \A x \in Int : Signed(x, IntBits) \in -h..(h - 1)
      BY SignedIs
    <3>2. \A x \in -h..(h - 1) : x \in Int /\ x < h
      <4> HIDE DEF h
      <4> QED BY <1>3
    <3>3. len.value \in Int
      BY <1>2, <1>4
    <3> HIDE DEF len, h
    <3> QED BY <3>1, <3>2, <3>3
  <2>3. j - 1 + n < 2 * h
    <3> HIDE DEF h, j, n
    <3> QED BY <1>3, <2>1, <2>2
  <2> HIDE DEF n, j, len
  <2>4. \/ /\ n >= 0
           /\ Bounded(bytes, j, n) = Read(SubSeq(bytes, j, j - 1 + n), j + n)
           /\ SubSeq(bytes, j, j - 1 + n) \in Bytes
           /\ j + n \in Nat /\ j + n <= Len(bytes) + 1
        \/ \E e \in Refusals : Bounded(bytes, j, n) = Failure(e)
    BY <2>1, <2>2, <2>3, BoundedIs
  <2>5. n >= 0 => i < j + n
    BY <2>1, <2>2
  <2>6. o = Bounded(bytes, j, n)
    BY <1>1, <1>4 DEF j
  <2> HIDE DEF o
  <2>7. CASE \E e \in Refusals : Bounded(bytes, j, n) = Failure(e)
    BY <2>6, <2>7, FailureYields DEF o
  <2>8. CASE ~\E e \in Refusals : Bounded(bytes, j, n) = Failure(e)
    BY <2>4, <2>5, <2>6, <2>8, ReadYields DEF o
  <2> QED BY <2>7, <2>8
<1>5. CASE len.err # "nil"
  BY <1>1, <1>2, <1>5 DEF Yields
<1> QED BY <1>4, <1>5

\* The bytes of a field fit where those of the message did.
LEMMA BlockFits ==
  ASSUME NEW bytes \in Bytes, Fits(bytes), NEW i \in Nat \ {0}, NEW block,
         block = LengthDelimited(bytes, i), block.err = "nil"
  PROVE  block.value \in Bytes /\ Fits(block.value)
<1> DEFINE len == ReadVarint(bytes, i)
           n == Signed(len.value, IntBits)
           j == len.next
           h == Pow2[IntBits - 1]
<1>0. h \in Nat /\ Len(bytes) \in Nat /\ Len(bytes) < h
  BY BytesAre, PowerSplits DEF Fits
<1>1. block = IF len.err = "nil" THEN Bounded(bytes, j, n) ELSE len
  BY BlockIs
<1>2. len.err = "nil" /\ block = Bounded(bytes, j, n)
  BY <1>1
<1>3. j \in Nat \ {0} /\ j > i /\ j <= Len(bytes) + 1 /\ len.value \in Int
  BY <1>2, VarintOutcome
<1>4. n \in Int /\ n < h
  <2>1. \A x \in Int : Signed(x, IntBits) \in -h..(h - 1)
    BY SignedIs
  <2>2. \A x \in -h..(h - 1) : x \in Int /\ x < h
    <3> HIDE DEF h
    <3> QED BY <1>0
  <2> HIDE DEF len, h
  <2> QED BY <1>3, <2>1, <2>2
<1>5. j - 1 + n < 2 * h
  <2> HIDE DEF h, j, n
  <2> QED BY <1>0, <1>3, <1>4
<1> HIDE DEF n, j, len
<1>6. IF n >= 0 /\ j - 1 + n <= Len(bytes)
      THEN /\ Bounded(bytes, j, n) = Read(SubSeq(bytes, j, j - 1 + n), j + n)
           /\ SubSeq(bytes, j, j - 1 + n) \in Bytes
      ELSE \E e \in Refusals : Bounded(bytes, j, n) = Failure(e)
  BY <1>3, <1>4, <1>5, BoundedIs
<1>7. n >= 0 /\ j - 1 + n <= Len(bytes)
  BY <1>2, <1>6, StepIs DEF Refusals
<1>8. block.value = SubSeq(bytes, j, j - 1 + n) /\ block.value \in Bytes
  <2>1. /\ Bounded(bytes, j, n) = Read(SubSeq(bytes, j, j - 1 + n), j + n)
        /\ SubSeq(bytes, j, j - 1 + n) \in Bytes
    BY <1>6, <1>7
  <2> DEFINE x == SubSeq(bytes, j, j - 1 + n)
  <2>2. block = Read(x, j + n) /\ x \in Bytes
    BY <1>2, <2>1
  <2> HIDE DEF x
  <2>3. block.value = x
    BY <2>2, StepIs
  <2> QED BY <2>2, <2>3 DEF x
<1>9. j - 1 + n \in Nat /\ j <= j - 1 + n + 1 /\ (j - 1 + n) + 1 - j = n /\ n <= Len(bytes)
  BY <1>0, <1>3, <1>4, <1>7
<1>10. Len(block.value) = n
  BY <1>3, <1>7, <1>8, <1>9, PartIs
<1> QED BY <1>0, <1>4, <1>8, <1>10 DEF Fits, h

--------------------------------------------------------------------------------
(* Fields *)

ValuesOf(kind) ==
  IF kind = "string" THEN Bytes
  ELSE IF kind = "int64" THEN Int64
  ELSE IF kind = "enum" THEN Enum
  ELSE Seq(PublishMessage)

PlainKinds == {"string", "int64", "enum"}

Sets(m, name, v) == [m EXCEPT ![name] = v]
Gains(m, x) == [m EXCEPT !.unknownFields = m.unknownFields \o x]

\* A message stays one when a field is set.
Keeps(Message, fields) ==
  /\ \A m \in Message : /\ m.unknownFields \in Bytes
                        /\ \A x \in Bytes : Sets(m, "unknownFields", x) \in Message
  /\ \A n \in DOMAIN fields : \A m \in Message :
       /\ m[fields[n].name] \in ValuesOf(fields[n].kind)
       /\ \A v \in ValuesOf(fields[n].kind) : Sets(m, fields[n].name, v) \in Message

\* The bytes of two parts, one after the other.
LEMMA JoinIs ==
  ASSUME NEW a \in Bytes, NEW b \in Bytes
  PROVE  /\ a \o b \in Bytes /\ Len(a \o b) = Len(a) + Len(b)
         /\ Len(a) \in Nat /\ Len(b) \in Nat
         /\ \A k \in 1..Len(a) : (a \o b)[k] = a[k]
         /\ \A k \in 1..Len(b) : (a \o b)[Len(a) + k] = b[k]
<1> DEFINE Byte == 0..255
<1>1. a \in Seq(Byte) /\ b \in Seq(Byte)
  BY DEF Bytes
<1> HIDE DEF Byte
<1>2. a \o b \in Seq(Byte) /\ Len(a \o b) = Len(a) + Len(b) /\ Len(a) \in Nat /\ Len(b) \in Nat
  BY <1>1
<1>3. \A k \in 1..Len(a) : (a \o b)[k] = a[k]
  BY <1>1
<1>4. \A k \in 1..Len(b) : (a \o b)[Len(a) + k] = b[k]
  BY <1>1
<1> QED BY <1>2, <1>3, <1>4 DEF Bytes, Byte

\* Bytes that are the same one by one are the same.
LEMMA SameBytes ==
  ASSUME NEW a \in Bytes, NEW b \in Bytes, Len(a) = Len(b), \A k \in 1..Len(b) : a[k] = b[k]
  PROVE  a = b
<1> DEFINE Byte == 0..255
<1>1. a \in Seq(Byte) /\ b \in Seq(Byte)
  BY DEF Bytes
<1> HIDE DEF Byte
<1>2. a = [k \in 1..Len(a) |-> a[k]] /\ b = [k \in 1..Len(b) |-> b[k]]
  BY <1>1
<1> QED BY <1>2

\* UnknownField, step by step.
LEMMA UnknownIs ==
  ASSUME NEW m, NEW bytes, NEW i, NEW skip, NEW block,
         skip = Skip(bytes, i), block = Bounded(bytes, i, skip.next - i)
  PROVE  UnknownField(m, bytes, i) =
           IF skip.err # "nil" THEN skip
           ELSE IF block.err # "nil" THEN block
           ELSE Read(Gains(m, block.value), block.next)
BY DEF UnknownField, Then, Gains

\* The bytes of a skipped field, if they are all there.
LEMMA UnknownBlock ==
  ASSUME NEW bytes \in Bytes, Fits(bytes), NEW i \in Nat \ {0}, i <= Len(bytes) + 1,
         NEW skip, skip = Skip(bytes, i), skip.err = "nil"
  PROVE  IF skip.next <= Len(bytes) + 1
         THEN /\ Bounded(bytes, i, skip.next - i) = Read(SubSeq(bytes, i, skip.next - 1), skip.next)
              /\ SubSeq(bytes, i, skip.next - 1) \in Bytes
              /\ skip.next \in Nat /\ i < skip.next
         ELSE \E e \in Refusals : Bounded(bytes, i, skip.next - i) = Failure(e)
<1> DEFINE h == Pow2[IntBits - 1]
           len == skip.next - i
<1>1. skip.next \in Nat /\ skip.next > i /\ skip.next <= h
  BY SkipTyped, SkipBounded
<1>2. h \in Nat /\ Len(bytes) \in Nat
  BY BytesAre, PowerSplits
<1>3. len \in Int /\ i - 1 + len < 2 * h /\ len >= 0 /\ i - 1 + len = skip.next - 1
      /\ i + len = skip.next
  <2> HIDE DEF h
  <2> QED BY <1>1, <1>2
<1>4. skip.next - 1 <= Len(bytes) <=> skip.next <= Len(bytes) + 1
  BY <1>1, <1>2
<1> HIDE DEF len
<1>5. IF len >= 0 /\ i - 1 + len <= Len(bytes)
         THEN /\ Bounded(bytes, i, len) = Read(SubSeq(bytes, i, i - 1 + len), i + len)
              /\ SubSeq(bytes, i, i - 1 + len) \in Bytes
         ELSE \E e \in Refusals : Bounded(bytes, i, len) = Failure(e)
  BY <1>3, BoundedIs
<1> QED BY <1>1, <1>3, <1>4, <1>5 DEF len

\* An unknown field is a step of the decoder, which keeps the type of the message.
LEMMA UnknownTyped ==
  ASSUME NEW Message, NEW fields, Keeps(Message, fields), NEW m \in Message,
         NEW bytes \in Bytes, Fits(bytes), NEW i \in Nat \ {0}, i <= Len(bytes) + 1
  PROVE  Yields(UnknownField(m, bytes, i), Message, i, Len(bytes) + 1)
<1> DEFINE skip == Skip(bytes, i)
           block == Bounded(bytes, i, skip.next - i)
           o == UnknownField(m, bytes, i)
<1>1. o = IF skip.err # "nil" THEN skip
          ELSE IF block.err # "nil" THEN block
          ELSE Read(Gains(m, block.value), block.next)
  BY UnknownIs
<1>2. \/ skip.err = "nil"
      \/ skip.err # "nil" /\ skip.err \in Refusals /\ skip = Failure(skip.err)
  BY SkipTyped
<1>3. skip.err = "nil" =>
         IF skip.next <= Len(bytes) + 1
         THEN /\ block = Read(SubSeq(bytes, i, skip.next - 1), skip.next)
              /\ SubSeq(bytes, i, skip.next - 1) \in Bytes
              /\ skip.next \in Nat /\ i < skip.next
         ELSE \E e \in Refusals : block = Failure(e)
  BY UnknownBlock
<1>4. \A x \in Bytes : Gains(m, x) \in Message
  BY JoinIs DEF Keeps, Gains, Sets
<1> HIDE DEF skip, block, o
<1>5. CASE skip.err # "nil"
  BY <1>1, <1>2, <1>5, FailureYields DEF o
<1>6. CASE skip.err = "nil" /\ skip.next <= Len(bytes) + 1
  <2> DEFINE x == SubSeq(bytes, i, skip.next - 1)
  <2>1. block = Read(x, skip.next) /\ x \in Bytes /\ skip.next \in Nat /\ i < skip.next
    BY <1>3, <1>6
  <2> HIDE DEF x
  <2>2. o = Read(Gains(m, x), skip.next)
    BY <1>1, <1>6, <2>1, StepIs
  <2> QED BY <1>4, <1>6, <2>1, <2>2, ReadYields DEF o
<1>7. CASE skip.err = "nil" /\ ~(skip.next <= Len(bytes) + 1)
  <2>1. PICK e \in Refusals : block = Failure(e)
    BY <1>3, <1>7
  <2>2. o = block
    BY <1>1, <1>7, <2>1, StepIs DEF Refusals
  <2> QED BY <2>1, <2>2, FailureYields DEF o
<1> QED BY <1>5, <1>6, <1>7

\* PlainField, step by step.
LEMMA PlainIs ==
  ASSUME NEW f, NEW m, NEW wireType, NEW bytes, NEW i, NEW x, NEW block,
         x = ReadVarint(bytes, i), block = LengthDelimited(bytes, i)
  PROVE  PlainField(f, m, wireType, bytes, i) =
           IF f.kind \in {"int64", "enum"}
           THEN IF wireType # 0 THEN Failure("wireType")
                ELSE IF x.err # "nil" THEN x
                ELSE Read(Sets(m, f.name,
                               Signed(x.value, IF f.kind = "enum" THEN SmallBits ELSE IntBits)),
                          x.next)
           ELSE IF wireType # 2 THEN Failure("wireType")
                ELSE IF block.err # "nil" THEN block
                ELSE Read(Sets(m, f.name, block.value), block.next)
BY DEF PlainField, Then, Sets

\* A number or a string is a step of the decoder, which keeps the type of the message.
LEMMA PlainTyped ==
  ASSUME NEW Message, NEW f, f.kind \in PlainKinds, NEW m,
         \A v \in ValuesOf(f.kind) : Sets(m, f.name, v) \in Message,
         NEW wireType, NEW bytes \in Bytes, Fits(bytes), NEW i \in Nat \ {0}
  PROVE  Yields(PlainField(f, m, wireType, bytes, i), Message, i, Len(bytes) + 1)
<1> DEFINE x == ReadVarint(bytes, i)
           block == LengthDelimited(bytes, i)
           bits == IF f.kind = "enum" THEN SmallBits ELSE IntBits
           o == PlainField(f, m, wireType, bytes, i)
<1>1. o =  IF f.kind \in {"int64", "enum"}
           THEN IF wireType # 0 THEN Failure("wireType")
                ELSE IF x.err # "nil" THEN x
                ELSE Read(Sets(m, f.name, Signed(x.value, bits)), x.next)
           ELSE IF wireType # 2 THEN Failure("wireType")
                ELSE IF block.err # "nil" THEN block
                ELSE Read(Sets(m, f.name, block.value), block.next)
  BY PlainIs
<1>2. Yields(x, Nat, i, Len(bytes) + 1)
  BY VarintOutcome DEF Yields
<1>3. Yields(block, Bytes, i, Len(bytes) + 1)
  BY BlockTyped
<1>4. \A e \in Refusals : Yields(Failure(e), Message, i, Len(bytes) + 1)
  BY FailureYields
<1>5. f.kind \in {"int64", "enum"} => \A n \in Nat : Signed(n, bits) \in ValuesOf(f.kind)
  <2>1. \A n \in Nat : Signed(n, IntBits) \in Int64 /\ Signed(n, SmallBits) \in Enum
    BY SignedIs DEF Int64, Enum
  <2> QED BY <2>1 DEF ValuesOf
<1>6. f.kind \notin {"int64", "enum"} => ValuesOf(f.kind) = Bytes
  BY DEF PlainKinds, ValuesOf
<1> HIDE DEF x, block, o, bits
<1>7. "wireType" \in Refusals
  BY DEF Refusals
<1>8. CASE f.kind \in {"int64", "enum"}
  <2>1. CASE x.err # "nil"
    BY <1>1, <1>2, <1>4, <1>7, <1>8, <2>1 DEF Yields, o
  <2>2. CASE x.err = "nil"
    <3>1. x.value \in Nat /\ x.next \in Nat /\ i < x.next /\ x.next <= Len(bytes) + 1
      BY <1>2, <2>2 DEF Yields
    <3>2. Sets(m, f.name, Signed(x.value, bits)) \in Message
      BY <1>5, <1>8, <3>1
    <3>3. Yields(Read(Sets(m, f.name, Signed(x.value, bits)), x.next),
                 Message, i, Len(bytes) + 1)
      BY <3>1, <3>2, ReadYields
    <3> QED BY <1>1, <1>4, <1>7, <1>8, <2>2, <3>3 DEF o
  <2> QED BY <2>1, <2>2
<1>9. CASE f.kind \notin {"int64", "enum"}
  <2>1. CASE block.err # "nil"
    BY <1>1, <1>3, <1>4, <1>7, <1>9, <2>1 DEF Yields, o
  <2>2. CASE block.err = "nil"
    <3>1. block.value \in Bytes /\ block.next \in Nat /\ i < block.next
          /\ block.next <= Len(bytes) + 1
      BY <1>3, <2>2 DEF Yields
    <3>2. Sets(m, f.name, block.value) \in Message
      BY <1>6, <1>9, <3>1
    <3>3. Yields(Read(Sets(m, f.name, block.value), block.next),
                 Message, i, Len(bytes) + 1)
      BY <3>1, <3>2, ReadYields
    <3> QED BY <1>1, <1>4, <1>7, <1>9, <2>2, <3>3 DEF o
  <2> QED BY <2>1, <2>2
<1> QED BY <1>8, <1>9

--------------------------------------------------------------------------------
(* The loop over the fields *)

States(Message, bytes) == Message \X (1..(Len(bytes) + 1))

\* What the loop is at s, where one is what the field at s yields.
LoopIs(from, s, bytes, one) ==
  from[s] = IF s[2] > Len(bytes) THEN Read(s[1], s[2])
            ELSE IF one.err = "nil" THEN from[<<one.value, one.next>>] ELSE one

\* The loop over the fields ends: a function that does what it says exists.
LEMMA LoopExists ==
  ASSUME NEW Message, NEW bytes \in Bytes, NEW one,
         \A s \in States(Message, bytes) :
           ~(s[2] > Len(bytes)) => Yields(one[s], Message, s[2], Len(bytes) + 1)
  PROVE  \E f : /\ f = [s \in States(Message, bytes) |-> f[s]]
                /\ \A s \in States(Message, bytes) : LoopIs(f, s, bytes, one[s])
<1> DEFINE S == States(Message, bytes)
           R == Outcomes(Message)
           Stop == {s \in S : s[2] > Len(bytes) \/ one[s].err # "nil"}
           rank == [s \in S |-> Len(bytes) + 1 - s[2]]
           step == [s \in S \ Stop |-> <<one[s].value, one[s].next>>]
           end == [s \in S |-> IF s[2] > Len(bytes) THEN Read(s[1], s[2]) ELSE one[s]]
           out == [p \in S \X R |-> p[2]]
<1>0. Len(bytes) \in Nat
  BY BytesAre
<1>1. ASSUME NEW s \in S
      PROVE  s[1] \in Message /\ s[2] \in Nat /\ s[2] <= Len(bytes) + 1
             /\ Len(bytes) + 1 - s[2] \in Nat
  BY <1>0 DEF States
<1>2. ASSUME NEW s \in S, s \notin Stop
      PROVE  /\ <<one[s].value, one[s].next>> \in S
             /\ rank[<<one[s].value, one[s].next>>] < rank[s]
  <2>1. one[s].err = "nil" /\ ~(s[2] > Len(bytes))
    BY <1>2
  <2>2. one[s].value \in Message /\ one[s].next \in Nat /\ s[2] < one[s].next
        /\ one[s].next <= Len(bytes) + 1
    <3> HIDE DEF S
    <3> QED BY <2>1 DEF Yields, S
  <2>3. one[s].next \in 1..(Len(bytes) + 1)
    BY <1>0, <1>1, <2>2
  <2>4. <<one[s].value, one[s].next>> \in S
    BY <2>2, <2>3 DEF States
  <2> QED BY <1>0, <1>1, <2>2, <2>4
<1>3. ASSUME NEW s \in S PROVE end[s] \in R
  <2>1. CASE s[2] > Len(bytes)
    BY <1>1, <2>1, ReadIsOutcome
  <2>2. CASE ~(s[2] > Len(bytes))
    <3>1. Yields(one[s], Message, s[2], Len(bytes) + 1)
      BY <2>2
    <3>2. one[s].err # "nil" => one[s] \in R
      BY <3>1, FailureIsOutcome DEF Yields
    <3>3. end[s] = one[s]
      BY <2>2
    <3>4. one[s].err = "nil" => one[s] = Read(one[s].value, one[s].next)
      BY <3>1 DEF Yields, Read
    <3> QED BY <3>1, <3>2, <3>3, <3>4, ReadIsOutcome DEF Yields
  <2> QED BY <2>1, <2>2
<1>4. Grounded(S, R, rank, Stop, step, end, out)
  <2>1. rank \in [S -> Nat]
    BY <1>1
  <2>2. step \in [S \ Stop -> S] /\ \A s \in S \ Stop : rank[step[s]] < rank[s]
    <3> HIDE DEF S, rank, Stop
    <3> QED BY <1>2
  <2>3. end \in [S -> R] /\ out \in [S \X R -> R]
    <3>1. end \in [S -> R]
      BY <1>3
    <3>2. out \in [S \X R -> R]
      <4> HIDE DEF S, R
      <4> QED OBVIOUS
    <3> QED BY <3>1, <3>2
  <2> HIDE DEF S, R, Stop, rank, step, end, out
  <2> QED BY <2>1, <2>2, <2>3 DEF Grounded
<1>5. PICK f \in [S -> R] : Solves(f, S, Stop, step, end, out)
  <2> HIDE DEF S, R, Stop, rank, step, end, out
  <2> QED BY <1>4, Recursion
<1>6. ASSUME NEW s \in S PROVE LoopIs(f, s, bytes, one[s])
  <2>1. CASE s \in Stop
    <3>1. f[s] = end[s]
      BY <1>5, <2>1 DEF Solves
    <3> QED BY <2>1, <3>1 DEF LoopIs
  <2>2. CASE s \notin Stop
    <3>1. step[s] = <<one[s].value, one[s].next>> /\ step[s] \in S
      <4> HIDE DEF S
      <4> QED BY <1>2, <2>2
    <3>2. f[s] = out[<<s, f[step[s]]>>] /\ f[step[s]] \in R
      <4> HIDE DEF out, Stop, end, step
      <4> QED BY <1>5, <2>2, <3>1 DEF Solves
    <3>3. f[s] = f[step[s]]
      <4> HIDE DEF step, S, R
      <4> QED BY <3>2
    <3> QED BY <2>2, <3>1, <3>3 DEF LoopIs
  <2> QED BY <2>1, <2>2
<1>7. f = [s \in S |-> f[s]]
  OBVIOUS
<1> HIDE DEF S
<1> QED BY <1>6, <1>7 DEF S

\* The loops of the messages without and with Publish messages in them.
PlainLoop(Message, fields, bytes) ==
  CHOOSE from : from =
    [s \in States(Message, bytes) |->
       IF s[2] > Len(bytes) THEN Read(s[1], s[2])
       ELSE Then(PlainDecode(fields, s[1], bytes, s[2]),
                 LAMBDA m, i : from[<<m, i>>])]

AnyLoop(Message, fields, bytes) ==
  CHOOSE from : from =
    [s \in States(Message, bytes) |->
       IF s[2] > Len(bytes) THEN Read(s[1], s[2])
       ELSE Then(AnyDecode(fields, s[1], bytes, s[2]),
                 LAMBDA m, i : from[<<m, i>>])]

\* The UnmarshalVT of a Publish in terms of its loop, under a name.
LEMMA PublishIs ==
  ASSUME NEW start, NEW bytes
  PROVE  UnmarshalPublish(start, bytes)
           = PlainLoop(PublishMessage, PublishFields, bytes)[<<start, 1>>]
BY DEF UnmarshalPublish, PlainLoop, States

\* That of any other message.
LEMMA UnmarshalIs ==
  ASSUME NEW Message, NEW fields, NEW bytes
  PROVE  UnmarshalVT(Message, fields, bytes)
           = AnyLoop(Message, fields, bytes)[<<NewMessage(fields), 1>>]
BY DEF UnmarshalVT, AnyLoop, States

\* The loop of a Publish is what its definition says.
LEMMA PlainLoopIs ==
  ASSUME NEW Message, NEW fields, NEW bytes \in Bytes,
         \A s \in States(Message, bytes) : ~(s[2] > Len(bytes)) =>
           Yields(PlainDecode(fields, s[1], bytes, s[2]), Message, s[2], Len(bytes) + 1)
  PROVE  \A s \in States(Message, bytes) :
           LoopIs(PlainLoop(Message, fields, bytes), s, bytes,
                  PlainDecode(fields, s[1], bytes, s[2]))
<1> DEFINE one == [s \in States(Message, bytes) |-> PlainDecode(fields, s[1], bytes, s[2])]
<1>1. \A s \in States(Message, bytes) : one[s] = PlainDecode(fields, s[1], bytes, s[2])
  OBVIOUS
<1>2. PICK f : /\ f = [s \in States(Message, bytes) |-> f[s]]
               /\ \A s \in States(Message, bytes) : LoopIs(f, s, bytes, one[s])
  <2> HIDE DEF one
  <2> QED BY <1>1, LoopExists
<1> HIDE DEF one
<1>3. f = [s \in States(Message, bytes) |->
             IF s[2] > Len(bytes) THEN Read(s[1], s[2])
             ELSE Then(PlainDecode(fields, s[1], bytes, s[2]),
                       LAMBDA m, i : f[<<m, i>>])]
  <2>1. ASSUME NEW s \in States(Message, bytes)
        PROVE  f[s] = IF s[2] > Len(bytes) THEN Read(s[1], s[2])
                      ELSE Then(PlainDecode(fields, s[1], bytes, s[2]),
                                LAMBDA m, i : f[<<m, i>>])
    BY <1>1, <1>2 DEF LoopIs, Then
  <2> QED BY <1>2, <2>1
<1> DEFINE g == PlainLoop(Message, fields, bytes)
<1>4. g = [s \in States(Message, bytes) |->
             IF s[2] > Len(bytes) THEN Read(s[1], s[2])
             ELSE Then(PlainDecode(fields, s[1], bytes, s[2]),
                       LAMBDA m, i : g[<<m, i>>])]
  BY <1>3 DEF PlainLoop
<1> HIDE DEF g
<1>5. \A s \in States(Message, bytes) :
        g[s] = IF s[2] > Len(bytes) THEN Read(s[1], s[2])
               ELSE Then(PlainDecode(fields, s[1], bytes, s[2]),
                         LAMBDA m, i : g[<<m, i>>])
  BY <1>4
<1>6. \A s \in States(Message, bytes) :
        LoopIs(g, s, bytes, PlainDecode(fields, s[1], bytes, s[2]))
  BY <1>5 DEF LoopIs, Then
<1> QED BY <1>6 DEF g

\* The loop of any other message is what its definition says.
LEMMA AnyLoopIs ==
  ASSUME NEW Message, NEW fields, NEW bytes \in Bytes,
         \A s \in States(Message, bytes) : ~(s[2] > Len(bytes)) =>
           Yields(AnyDecode(fields, s[1], bytes, s[2]), Message, s[2], Len(bytes) + 1)
  PROVE  \A s \in States(Message, bytes) :
           LoopIs(AnyLoop(Message, fields, bytes), s, bytes,
                  AnyDecode(fields, s[1], bytes, s[2]))
<1> DEFINE one == [s \in States(Message, bytes) |-> AnyDecode(fields, s[1], bytes, s[2])]
<1>1. \A s \in States(Message, bytes) : one[s] = AnyDecode(fields, s[1], bytes, s[2])
  OBVIOUS
<1>2. PICK f : /\ f = [s \in States(Message, bytes) |-> f[s]]
               /\ \A s \in States(Message, bytes) : LoopIs(f, s, bytes, one[s])
  <2> HIDE DEF one
  <2> QED BY <1>1, LoopExists
<1> HIDE DEF one
<1>3. f = [s \in States(Message, bytes) |->
             IF s[2] > Len(bytes) THEN Read(s[1], s[2])
             ELSE Then(AnyDecode(fields, s[1], bytes, s[2]),
                       LAMBDA m, i : f[<<m, i>>])]
  <2>1. ASSUME NEW s \in States(Message, bytes)
        PROVE  f[s] = IF s[2] > Len(bytes) THEN Read(s[1], s[2])
                      ELSE Then(AnyDecode(fields, s[1], bytes, s[2]),
                                LAMBDA m, i : f[<<m, i>>])
    BY <1>1, <1>2 DEF LoopIs, Then
  <2> QED BY <1>2, <2>1
<1> DEFINE g == AnyLoop(Message, fields, bytes)
<1>4. g = [s \in States(Message, bytes) |->
             IF s[2] > Len(bytes) THEN Read(s[1], s[2])
             ELSE Then(AnyDecode(fields, s[1], bytes, s[2]),
                       LAMBDA m, i : g[<<m, i>>])]
  BY <1>3 DEF AnyLoop
<1> HIDE DEF g
<1>5. \A s \in States(Message, bytes) :
        g[s] = IF s[2] > Len(bytes) THEN Read(s[1], s[2])
               ELSE Then(AnyDecode(fields, s[1], bytes, s[2]),
                         LAMBDA m, i : g[<<m, i>>])
  BY <1>4
<1>6. \A s \in States(Message, bytes) :
        LoopIs(g, s, bytes, AnyDecode(fields, s[1], bytes, s[2]))
  BY <1>5 DEF LoopIs, Then
<1> QED BY <1>6 DEF g

\* How a loop ends: a message, at the end of the bytes, or an error.
Decodes(o, Message, end) ==
  \/ o.err = "nil" /\ o.value \in Message /\ o = Read(o.value, end)
  \/ o.err # "nil" /\ o.err \in Refusals /\ o = Failure(o.err)

\* The loop yields a message and the end of the bytes, or refuses.
LEMMA LoopTyped ==
  ASSUME NEW Message, NEW bytes \in Bytes, NEW one, NEW f,
         \A s \in States(Message, bytes) : LoopIs(f, s, bytes, one[s]),
         \A s \in States(Message, bytes) : ~(s[2] > Len(bytes)) =>
           Yields(one[s], Message, s[2], Len(bytes) + 1)
  PROVE  \A s \in States(Message, bytes) : Decodes(f[s], Message, Len(bytes) + 1)
<1> DEFINE S == States(Message, bytes)
           rank == [s \in S |-> Len(bytes) + 1 - s[2]]
           T == {s \in S : Decodes(f[s], Message, Len(bytes) + 1)}
<1>0. Len(bytes) \in Nat
  BY BytesAre
<1>1. ASSUME NEW s \in S
      PROVE  s[1] \in Message /\ s[2] \in Nat /\ s[2] <= Len(bytes) + 1
             /\ Len(bytes) + 1 - s[2] \in Nat
  BY <1>0 DEF States
<1>2. rank \in [S -> Nat]
  BY <1>1
<1>3. ASSUME NEW s \in S, \A t \in S : rank[t] < rank[s] => t \in T
      PROVE  s \in T
  <2>1. LoopIs(f, s, bytes, one[s])
    OBVIOUS
  <2>2. CASE s[2] > Len(bytes)
    <3>1. f[s] = Read(s[1], s[2]) /\ s[2] = Len(bytes) + 1
      BY <1>0, <1>1, <2>1, <2>2 DEF LoopIs
    <3> QED BY <1>1, <3>1, StepIs DEF Decodes
  <2>3. CASE ~(s[2] > Len(bytes))
    <3>1. Yields(one[s], Message, s[2], Len(bytes) + 1)
      BY <2>3
    <3>2. CASE one[s].err # "nil"
      BY <2>1, <2>3, <3>1, <3>2 DEF LoopIs, Yields, Decodes
    <3>3. CASE one[s].err = "nil"
      <4> DEFINE t == <<one[s].value, one[s].next>>
      <4>1. one[s].value \in Message /\ one[s].next \in Nat /\ s[2] < one[s].next
            /\ one[s].next <= Len(bytes) + 1
        BY <3>1, <3>3 DEF Yields
      <4>2. t \in S /\ t[2] = one[s].next
        BY <1>0, <1>1, <4>1 DEF States
      <4>3. rank[t] < rank[s]
        BY <1>0, <1>1, <4>1, <4>2
      <4>4. f[s] = f[t]
        BY <2>1, <2>3, <3>3 DEF LoopIs
      <4> HIDE DEF t, rank, S
      <4> QED BY <1>3, <4>2, <4>3, <4>4
    <3> QED BY <3>2, <3>3
  <2> QED BY <2>2, <2>3
<1>4. S \subseteq T
  <2> HIDE DEF S, T, rank
  <2> QED BY <1>2, <1>3, RankInduction
<1> QED BY <1>4

\* A field is a step of the decoder if the case for its number is.
LEMMA FieldTyped ==
  ASSUME NEW Message, NEW fields, Keeps(Message, fields), NEW bytes \in Bytes, Fits(bytes),
         NEW m \in Message, NEW i \in Nat \ {0}, i <= Len(bytes) + 1, NEW o, NEW known,
         NEW tag, NEW num, NEW wireType, tag = ReadVarint(bytes, i),
         o = IF tag.err # "nil" THEN tag
              ELSE IF wireType = 4 \/ num <= 0 THEN Failure("tag")
              ELSE IF num \in DOMAIN fields THEN known
              ELSE UnknownField(m, bytes, i),
         num \in DOMAIN fields /\ tag.err = "nil" => Yields(known, Message, tag.next, Len(bytes) + 1)
  PROVE  Yields(o, Message, i, Len(bytes) + 1)
<1>1. Yields(tag, Nat, i, Len(bytes) + 1)
  BY VarintOutcome DEF Yields
<1>2. Yields(UnknownField(m, bytes, i), Message, i, Len(bytes) + 1)
  BY UnknownTyped
<1>3. Yields(Failure("tag"), Message, i, Len(bytes) + 1)
  BY FailureYields DEF Refusals
<1>4. CASE tag.err # "nil"
  BY <1>1, <1>4 DEF Yields
<1>5. CASE tag.err = "nil" /\ num \in DOMAIN fields
  <2>1. Yields(known, Message, tag.next, Len(bytes) + 1)
    BY <1>5
  <2>2. tag.next \in Nat /\ i < tag.next
    BY <1>1, <1>5 DEF Yields
  <2>3. Yields(known, Message, i, Len(bytes) + 1)
    BY <2>1, <2>2 DEF Yields
  <2> QED BY <1>3, <1>5, <2>3
<1>6. CASE tag.err = "nil" /\ num \notin DOMAIN fields
  BY <1>2, <1>3, <1>6
<1> QED BY <1>4, <1>5, <1>6

\* A field of a message of numbers and strings is a step of the decoder.
LEMMA PlainFieldTyped ==
  ASSUME NEW Message, NEW fields, Keeps(Message, fields),
         \A n \in DOMAIN fields : fields[n].kind \in PlainKinds,
         NEW bytes \in Bytes, Fits(bytes),
         NEW m \in Message, NEW i \in Nat \ {0}, i <= Len(bytes) + 1
  PROVE  Yields(PlainDecode(fields, m, bytes, i), Message, i, Len(bytes) + 1)
<1> DEFINE tag == ReadVarint(bytes, i)
           num == Signed(tag.value \div 8, SmallBits)
           wireType == tag.value % 8
           known == PlainField(fields[num], m, wireType, bytes, tag.next)
           o == PlainDecode(fields, m, bytes, i)
<1>1. o = IF tag.err # "nil" THEN tag
              ELSE IF wireType = 4 \/ num <= 0 THEN Failure("tag")
              ELSE IF num \in DOMAIN fields THEN known
              ELSE UnknownField(m, bytes, i)
  BY DEF PlainDecode, DecodeField, FieldNumber, Then
<1>2. ASSUME num \in DOMAIN fields, tag.err = "nil"
      PROVE  Yields(known, Message, tag.next, Len(bytes) + 1)
  <2>1. tag.next \in Nat \ {0}
    BY <1>2, VarintOutcome
  <2>2. fields[num].kind \in PlainKinds
        /\ \A v \in ValuesOf(fields[num].kind) : Sets(m, fields[num].name, v) \in Message
    <3> HIDE DEF num
    <3> QED BY <1>2 DEF Keeps
  <2> HIDE DEF tag, num, wireType
  <2> QED BY <2>1, <2>2, PlainTyped
<1>3. tag = ReadVarint(bytes, i)
  OBVIOUS
<1> HIDE DEF tag, num, wireType, known, o
<1>4. Yields(o, Message, i, Len(bytes) + 1)
  BY <1>1, <1>2, <1>3, FieldTyped
<1> QED BY <1>4 DEF o

--------------------------------------------------------------------------------
(* Messages *)

\* The message new() makes has zero in every field.
LEMMA NewIs ==
  ASSUME NEW fields
  PROVE  /\ DOMAIN NewMessage(fields) = {fields[n].name : n \in DOMAIN fields} \cup {"unknownFields"}
         /\ NewMessage(fields) = [name \in DOMAIN NewMessage(fields) |-> NewMessage(fields)[name]]
         /\ NewMessage(fields).unknownFields = <<>>
         /\ \A n \in DOMAIN fields :
              fields[n].name # "unknownFields"
                /\ (\A k \in DOMAIN fields : fields[k].name = fields[n].name => k = n) =>
              NewMessage(fields)[fields[n].name] = ZeroOf(fields[n].kind)
<1> DEFINE Names == {fields[n].name : n \in DOMAIN fields} \cup {"unknownFields"}
           Of(name) == IF name = "unknownFields" THEN <<>>
                       ELSE ZeroOf((CHOOSE f \in ToSet(fields) : f.name = name).kind)
<1>1. NewMessage(fields) = [name \in Names |-> Of(name)]
  BY DEF NewMessage
<1> HIDE DEF Names
<1>2. ASSUME NEW n \in DOMAIN fields, fields[n].name # "unknownFields",
             \A k \in DOMAIN fields : fields[k].name = fields[n].name => k = n
      PROVE  Of(fields[n].name) = ZeroOf(fields[n].kind)
  <2>1. ToSet(fields) = {fields[k] : k \in DOMAIN fields}
    BY DEF ToSet
  <2>2. fields[n] \in ToSet(fields)
        /\ \A f \in ToSet(fields) : f.name = fields[n].name => f = fields[n]
    BY <1>2, <2>1
  <2>3. (CHOOSE f \in ToSet(fields) : f.name = fields[n].name) = fields[n]
    BY <2>2
  <2> QED BY <1>2, <2>3
<1> HIDE DEF Of
<1>3. DOMAIN NewMessage(fields) = Names
  BY <1>1
<1>4. "unknownFields" \in Names /\ Of("unknownFields") = <<>>
  BY DEF Names, Of
<1>5. \A n \in DOMAIN fields : fields[n].name \in Names
  BY DEF Names
<1>6. \A name \in Names : NewMessage(fields)[name] = Of(name)
  BY <1>1
<1>7. NewMessage(fields) = [name \in DOMAIN NewMessage(fields) |-> NewMessage(fields)[name]]
  BY <1>1, <1>3, <1>6
<1>8. ASSUME NEW n \in DOMAIN fields, fields[n].name # "unknownFields",
             \A k \in DOMAIN fields : fields[k].name = fields[n].name => k = n
      PROVE  NewMessage(fields)[fields[n].name] = ZeroOf(fields[n].kind)
  BY <1>2, <1>5, <1>6, <1>8
<1> QED BY <1>3, <1>4, <1>6, <1>7, <1>8 DEF Names

EmptyPublish ==
  [spaceId |-> <<>>, objectId |-> <<>>, uri |-> <<>>, status |-> 0, version |-> <<>>,
   timestamp |-> 0, size |-> 0, unknownFields |-> <<>>]

\* What new() puts into a field is a value of that field.
LEMMA ZeroFits ==
  <<>> \in Bytes /\ 0 \in Int64 /\ 0 \in Enum /\ <<>> \in Seq(PublishMessage)
<1>1. \A S : <<>> \in Seq(S)
  OBVIOUS
<1> QED BY <1>1, PowerSplits DEF Bytes, Int64, Enum

\* The fields of a Publish, one by one.
LEMMA PublishFieldsAre ==
  /\ DOMAIN PublishFields = 1..7
  /\ PublishFields[1].name = "spaceId" /\ PublishFields[1].kind = "string"
  /\ PublishFields[2].name = "objectId" /\ PublishFields[2].kind = "string"
  /\ PublishFields[3].name = "uri" /\ PublishFields[3].kind = "string"
  /\ PublishFields[4].name = "status" /\ PublishFields[4].kind = "enum"
  /\ PublishFields[5].name = "version" /\ PublishFields[5].kind = "string"
  /\ PublishFields[6].name = "timestamp" /\ PublishFields[6].kind = "int64"
  /\ PublishFields[7].name = "size" /\ PublishFields[7].kind = "int64"
BY DEF PublishFields, StringOf, EnumOf, Int64Of

\* The values of every kind of field, and its zero.
LEMMA KindsAre ==
  /\ ValuesOf("string") = Bytes /\ ValuesOf("int64") = Int64 /\ ValuesOf("enum") = Enum
  /\ ValuesOf("publish") = Seq(PublishMessage) /\ ValuesOf("publishes") = Seq(PublishMessage)
  /\ ZeroOf("string") = <<>> /\ ZeroOf("publish") = <<>> /\ ZeroOf("publishes") = <<>>
  /\ ZeroOf("int64") = 0 /\ ZeroOf("enum") = 0
BY DEF ValuesOf, ZeroOf

\* The numbers of the fields of a Publish.
LEMMA OneToSeven ==
  \A n \in 1..7 : n = 1 \/ n = 2 \/ n = 3 \/ n = 4 \/ n = 5 \/ n = 6 \/ n = 7
OBVIOUS

\* A Publish stays one whichever of its fields is set.
LEMMA PublishKeeps ==
  /\ Keeps(PublishMessage, PublishFields)
  /\ \A n \in DOMAIN PublishFields : PublishFields[n].kind \in PlainKinds
<1>1. ASSUME NEW m \in PublishMessage
      PROVE  /\ m.unknownFields \in Bytes /\ m.spaceId \in Bytes /\ m.objectId \in Bytes
             /\ m.uri \in Bytes /\ m.status \in Enum /\ m.version \in Bytes
             /\ m.timestamp \in Int64 /\ m.size \in Int64
             /\ \A x \in Bytes : /\ Sets(m, "unknownFields", x) \in PublishMessage
                                 /\ Sets(m, "spaceId", x) \in PublishMessage
                                 /\ Sets(m, "objectId", x) \in PublishMessage
                                 /\ Sets(m, "uri", x) \in PublishMessage
                                 /\ Sets(m, "version", x) \in PublishMessage
             /\ \A x \in Enum : Sets(m, "status", x) \in PublishMessage
             /\ \A x \in Int64 : /\ Sets(m, "timestamp", x) \in PublishMessage
                                 /\ Sets(m, "size", x) \in PublishMessage
  BY DEF PublishMessage, Sets
<1>2. ASSUME NEW n \in DOMAIN PublishFields, NEW m \in PublishMessage
      PROVE  /\ m[PublishFields[n].name] \in ValuesOf(PublishFields[n].kind)
             /\ \A v \in ValuesOf(PublishFields[n].kind) :
                  Sets(m, PublishFields[n].name, v) \in PublishMessage
  <2>1. n = 1 \/ n = 2 \/ n = 3 \/ n = 4 \/ n = 5 \/ n = 6 \/ n = 7
    BY PublishFieldsAre, OneToSeven
  <2>2. CASE n = 1
    BY <1>1, <2>2, PublishFieldsAre, KindsAre
  <2>3. CASE n = 2
    BY <1>1, <2>3, PublishFieldsAre, KindsAre
  <2>4. CASE n = 3
    BY <1>1, <2>4, PublishFieldsAre, KindsAre
  <2>5. CASE n = 4
    BY <1>1, <2>5, PublishFieldsAre, KindsAre
  <2>6. CASE n = 5
    BY <1>1, <2>6, PublishFieldsAre, KindsAre
  <2>7. CASE n = 6
    BY <1>1, <2>7, PublishFieldsAre, KindsAre
  <2>8. CASE n = 7
    BY <1>1, <2>8, PublishFieldsAre, KindsAre
  <2> QED BY <2>1, <2>2, <2>3, <2>4, <2>5, <2>6, <2>7, <2>8
<1>3. \A n \in DOMAIN PublishFields : PublishFields[n].kind \in PlainKinds
  BY PublishFieldsAre, OneToSeven, KindsAre DEF PlainKinds
<1> QED BY <1>1, <1>2, <1>3 DEF Keeps

\* A new Publish is a Publish.
LEMMA NewPublish == NewMessage(PublishFields) = EmptyPublish /\ EmptyPublish \in PublishMessage
<1> DEFINE new == NewMessage(PublishFields)
           F == PublishFields
<1>9. /\ DOMAIN new = {F[n].name : n \in DOMAIN F} \cup {"unknownFields"}
      /\ \A n \in DOMAIN F :
           F[n].name # "unknownFields" /\ (\A k \in DOMAIN F : F[k].name = F[n].name => k = n) =>
           new[F[n].name] = ZeroOf(F[n].kind)
  BY NewIs
<1>0. DOMAIN F = 1..7 /\ F[1].name = "spaceId" /\ F[2].name = "objectId" /\ F[3].name = "uri"
      /\ F[4].name = "status" /\ F[5].name = "version" /\ F[6].name = "timestamp"
      /\ F[7].name = "size"
      /\ ZeroOf(F[1].kind) = <<>> /\ ZeroOf(F[2].kind) = <<>> /\ ZeroOf(F[3].kind) = <<>>
      /\ ZeroOf(F[4].kind) = 0 /\ ZeroOf(F[5].kind) = <<>> /\ ZeroOf(F[6].kind) = 0
      /\ ZeroOf(F[7].kind) = 0
  BY PublishFieldsAre, KindsAre
<1>6. new.unknownFields = <<>> /\ new = [name \in DOMAIN new |-> new[name]]
  BY NewIs
<1> HIDE DEF F, new
<1>1. \A n \in 1..7 : \A k \in 1..7 : F[k].name = F[n].name => k = n
  BY <1>0, OneToSeven
<1>2. \A n \in 1..7 : F[n].name # "unknownFields"
  BY <1>0, OneToSeven
<1>3. \A n \in 1..7 : new[F[n].name] = ZeroOf(F[n].kind)
  BY <1>0, <1>1, <1>2, <1>9
<1>4. DOMAIN new = {"spaceId", "objectId", "uri", "status", "version", "timestamp", "size",
                    "unknownFields"}
  <2>1. DOMAIN new = {F[n].name : n \in 1..7} \cup {"unknownFields"}
    BY <1>0, <1>9
  <2>2. {F[n].name : n \in 1..7} = {"spaceId", "objectId", "uri", "status", "version",
                                    "timestamp", "size"}
    BY <1>0, OneToSeven
  <2> QED BY <2>1, <2>2
<1>5. new.spaceId = <<>> /\ new.objectId = <<>> /\ new.uri = <<>> /\ new.status = 0
      /\ new.version = <<>> /\ new.timestamp = 0 /\ new.size = 0
  <2> QED BY <1>0, <1>3
<1>7. EmptyPublish \in PublishMessage
  BY ZeroFits DEF EmptyPublish, PublishMessage
<1>8. new = EmptyPublish
  BY <1>4, <1>5, <1>6 DEF EmptyPublish
<1> QED BY <1>7, <1>8 DEF new

\* Where the loop over the fields can be.
LEMMA StatesAre ==
  ASSUME NEW Message, NEW bytes \in Bytes
  PROVE  /\ \A s \in States(Message, bytes) :
              s[1] \in Message /\ s[2] \in Nat \ {0} /\ s[2] <= Len(bytes) + 1
         /\ \A m \in Message : \A i \in Nat : 0 < i /\ i <= Len(bytes) + 1 =>
              <<m, i>> \in States(Message, bytes)
<1>1. Len(bytes) \in Nat
  BY BytesAre
<1> QED BY <1>1 DEF States

\* The loop of a message of numbers and strings ends well.
LEMMA PlainDecodes ==
  ASSUME NEW Message, NEW fields, Keeps(Message, fields),
         \A n \in DOMAIN fields : fields[n].kind \in PlainKinds,
         NEW bytes \in Bytes, Fits(bytes)
  PROVE  \A s \in States(Message, bytes) :
           /\ LoopIs(PlainLoop(Message, fields, bytes), s, bytes,
                     PlainDecode(fields, s[1], bytes, s[2]))
           /\ Decodes(PlainLoop(Message, fields, bytes)[s], Message, Len(bytes) + 1)
<1> DEFINE one == [s \in States(Message, bytes) |-> PlainDecode(fields, s[1], bytes, s[2])]
           f == PlainLoop(Message, fields, bytes)
<1>1. \A s \in States(Message, bytes) : ~(s[2] > Len(bytes)) =>
        Yields(PlainDecode(fields, s[1], bytes, s[2]), Message, s[2], Len(bytes) + 1)
  BY StatesAre, PlainFieldTyped
<1>2. \A s \in States(Message, bytes) :
        LoopIs(f, s, bytes, PlainDecode(fields, s[1], bytes, s[2]))
  BY <1>1, PlainLoopIs
<1>3. \A s \in States(Message, bytes) : one[s] = PlainDecode(fields, s[1], bytes, s[2])
  OBVIOUS
<1> HIDE DEF one, f
<1>4. \A s \in States(Message, bytes) : Decodes(f[s], Message, Len(bytes) + 1)
  BY <1>1, <1>2, <1>3, LoopTyped
<1> QED BY <1>2, <1>4 DEF f

\* Whatever the bytes are, unmarshalling a Publish yields a Publish or refuses.
LEMMA PublishDecodes ==
  ASSUME NEW m \in PublishMessage, NEW bytes \in Bytes, Fits(bytes)
  PROVE  Decodes(UnmarshalPublish(m, bytes), PublishMessage, Len(bytes) + 1)
<1>1. <<m, 1>> \in States(PublishMessage, bytes)
  BY StatesAre, BytesAre
<1> QED BY <1>1, PublishIs, PlainDecodes, PublishKeeps

ListKinds == {"publish", "publishes"}

\* Numbers and strings are read the same in every message.
LEMMA AnyIsPlain ==
  ASSUME NEW f, f.kind \in PlainKinds, NEW m, NEW wireType, NEW bytes, NEW i
  PROVE  AnyField(f, m, wireType, bytes, i) = PlainField(f, m, wireType, bytes, i)
BY DEF AnyField, PlainKinds

\* The Publish a field is decoded into, and what the message then holds.
Into(f, m) ==
  IF f.kind = "publish" /\ m[f.name] # <<>> THEN m[f.name][1] ELSE EmptyPublish

Holds(f, m, new) == IF f.kind = "publish" THEN <<new>> ELSE Append(m[f.name], new)

\* A field that holds Publish messages, step by step.
LEMMA ListFieldIs ==
  ASSUME NEW f, f.kind \in ListKinds, NEW m, NEW wireType, NEW bytes, NEW i, NEW block, NEW new,
         block = LengthDelimited(bytes, i), new = UnmarshalPublish(Into(f, m), block.value)
  PROVE  AnyField(f, m, wireType, bytes, i) =
           IF wireType # 2 THEN Failure("wireType")
           ELSE IF block.err # "nil" THEN block
           ELSE IF new.err # "nil" THEN new
           ELSE Read(Sets(m, f.name, Holds(f, m, new.value)), block.next)
BY NewPublish DEF AnyField, ListKinds, Then, Into, Holds, Sets

\* A field that holds Publish messages is a step of the decoder.
LEMMA ListFieldTyped ==
  ASSUME NEW Message, NEW f, f.kind \in ListKinds, NEW m, m[f.name] \in Seq(PublishMessage),
         \A v \in Seq(PublishMessage) : Sets(m, f.name, v) \in Message,
         NEW wireType, NEW bytes \in Bytes, Fits(bytes), NEW i \in Nat \ {0}
  PROVE  Yields(AnyField(f, m, wireType, bytes, i), Message, i, Len(bytes) + 1)
<1> DEFINE block == LengthDelimited(bytes, i)
           new == UnmarshalPublish(Into(f, m), block.value)
           o == AnyField(f, m, wireType, bytes, i)
<1>1. o = IF wireType # 2 THEN Failure("wireType")
           ELSE IF block.err # "nil" THEN block
           ELSE IF new.err # "nil" THEN new
           ELSE Read(Sets(m, f.name, Holds(f, m, new.value)), block.next)
  BY ListFieldIs
<1>2. Yields(block, Bytes, i, Len(bytes) + 1)
  BY BlockTyped
<1>3. Into(f, m) \in PublishMessage
  <2>1. ASSUME NEW v \in Seq(PublishMessage), v # <<>> PROVE v[1] \in PublishMessage
    BY <2>1
  <2> QED BY <2>1, NewPublish DEF Into
<1>4. block.err = "nil" => Decodes(new, PublishMessage, Len(block.value) + 1)
  <2> SUFFICES ASSUME block.err = "nil"
               PROVE  Decodes(new, PublishMessage, Len(block.value) + 1)
    OBVIOUS
  <2>1. block.value \in Bytes /\ Fits(block.value)
    BY BlockFits
  <2> HIDE DEF block
  <2> QED BY <1>3, <2>1, PublishDecodes
<1>5. \A p \in PublishMessage : Sets(m, f.name, Holds(f, m, p)) \in Message
  <2>1. \A p \in PublishMessage : Holds(f, m, p) \in Seq(PublishMessage)
    BY DEF Holds
  <2> QED BY <2>1
<1>6. \A e \in Refusals : Yields(Failure(e), Message, i, Len(bytes) + 1)
  BY FailureYields
<1>7. "wireType" \in Refusals
  BY DEF Refusals
<1> HIDE DEF block, new, o
<1>8. CASE wireType # 2
  BY <1>1, <1>6, <1>7, <1>8 DEF o
<1>9. CASE wireType = 2 /\ block.err # "nil"
  BY <1>1, <1>2, <1>6, <1>9 DEF o, Yields
<1>10. CASE wireType = 2 /\ block.err = "nil" /\ new.err # "nil"
  BY <1>1, <1>4, <1>6, <1>10 DEF o, Decodes
<1>11. CASE wireType = 2 /\ block.err = "nil" /\ new.err = "nil"
  <2>1. Sets(m, f.name, Holds(f, m, new.value)) \in Message
    BY <1>4, <1>5, <1>11 DEF Decodes
  <2>2. block.next \in Nat /\ i < block.next /\ block.next <= Len(bytes) + 1
    BY <1>2, <1>11 DEF Yields
  <2>3. Yields(Read(Sets(m, f.name, Holds(f, m, new.value)), block.next), Message, i, Len(bytes) + 1)
    BY <2>1, <2>2, ReadYields
  <2> QED BY <1>1, <1>11, <2>3 DEF o
<1> QED BY <1>8, <1>9, <1>10, <1>11

\* A field of any message is a step of the decoder.
LEMMA AnyFieldTyped ==
  ASSUME NEW Message, NEW fields, Keeps(Message, fields),
         \A n \in DOMAIN fields : fields[n].kind \in PlainKinds \cup ListKinds,
         NEW bytes \in Bytes, Fits(bytes),
         NEW m \in Message, NEW i \in Nat \ {0}, i <= Len(bytes) + 1
  PROVE  Yields(AnyDecode(fields, m, bytes, i), Message, i, Len(bytes) + 1)
<1> DEFINE tag == ReadVarint(bytes, i)
           num == Signed(tag.value \div 8, SmallBits)
           wireType == tag.value % 8
           known == AnyField(fields[num], m, wireType, bytes, tag.next)
           o == AnyDecode(fields, m, bytes, i)
<1>1. o = IF tag.err # "nil" THEN tag
              ELSE IF wireType = 4 \/ num <= 0 THEN Failure("tag")
              ELSE IF num \in DOMAIN fields THEN known
              ELSE UnknownField(m, bytes, i)
  BY DEF AnyDecode, DecodeField, FieldNumber, Then
<1>2. ASSUME num \in DOMAIN fields, tag.err = "nil"
      PROVE  Yields(known, Message, tag.next, Len(bytes) + 1)
  <2>1. tag.next \in Nat \ {0}
    BY <1>2, VarintOutcome
  <2>2. /\ m[fields[num].name] \in ValuesOf(fields[num].kind)
        /\ \A v \in ValuesOf(fields[num].kind) : Sets(m, fields[num].name, v) \in Message
    <3> HIDE DEF num
    <3> QED BY <1>2 DEF Keeps
  <2> HIDE DEF tag, num, wireType
  <2>3. CASE fields[num].kind \in PlainKinds
    BY <2>1, <2>2, <2>3, PlainTyped, AnyIsPlain
  <2>4. CASE fields[num].kind \in ListKinds
    <3>1. ValuesOf(fields[num].kind) = Seq(PublishMessage)
      BY <2>4, KindsAre DEF ListKinds
    <3> QED BY <2>1, <2>2, <2>4, <3>1, ListFieldTyped
  <2> QED BY <1>2, <2>3, <2>4
<1>3. tag = ReadVarint(bytes, i)
  OBVIOUS
<1> HIDE DEF tag, num, wireType, known, o
<1>4. Yields(o, Message, i, Len(bytes) + 1)
  BY <1>1, <1>2, <1>3, FieldTyped
<1> QED BY <1>4 DEF o

\* The messages of the API.
Codec(Message, fields) ==
  /\ Keeps(Message, fields) /\ NewMessage(fields) \in Message
  /\ \A n \in DOMAIN fields : fields[n].kind \in PlainKinds \cup ListKinds

\* The loop of any message ends well.
LEMMA AnyDecodes ==
  ASSUME NEW Message, NEW fields, Codec(Message, fields), NEW bytes \in Bytes, Fits(bytes)
  PROVE  \A s \in States(Message, bytes) :
           /\ LoopIs(AnyLoop(Message, fields, bytes), s, bytes,
                     AnyDecode(fields, s[1], bytes, s[2]))
           /\ Decodes(AnyLoop(Message, fields, bytes)[s], Message, Len(bytes) + 1)
<1> DEFINE one == [s \in States(Message, bytes) |-> AnyDecode(fields, s[1], bytes, s[2])]
           f == AnyLoop(Message, fields, bytes)
<1>1. \A s \in States(Message, bytes) : ~(s[2] > Len(bytes)) =>
        Yields(AnyDecode(fields, s[1], bytes, s[2]), Message, s[2], Len(bytes) + 1)
  BY StatesAre, AnyFieldTyped DEF Codec
<1>2. \A s \in States(Message, bytes) :
        LoopIs(f, s, bytes, AnyDecode(fields, s[1], bytes, s[2]))
  BY <1>1, AnyLoopIs
<1>3. \A s \in States(Message, bytes) : one[s] = AnyDecode(fields, s[1], bytes, s[2])
  OBVIOUS
<1> HIDE DEF one, f
<1>4. \A s \in States(Message, bytes) : Decodes(f[s], Message, Len(bytes) + 1)
  BY <1>1, <1>2, <1>3, LoopTyped
<1> QED BY <1>2, <1>4 DEF f

\* An UnmarshalVT that is given any bytes ends with a message or an error, and never
\* reads outside of them.
LEMMA UnmarshalDecodes ==
  ASSUME NEW Message, NEW fields, Codec(Message, fields), NEW bytes \in Bytes, Fits(bytes)
  PROVE  Decodes(UnmarshalVT(Message, fields, bytes), Message, Len(bytes) + 1)
<1>1. <<NewMessage(fields), 1>> \in States(Message, bytes)
  BY StatesAre, BytesAre DEF Codec
<1> QED BY <1>1, UnmarshalIs, AnyDecodes

--------------------------------------------------------------------------------
(* What is written stands where it is read *)

\* Bytes stand in themselves.
LEMMA StandsWhole ==
  ASSUME NEW bytes \in Bytes
  PROVE  Stands(bytes, bytes, 1)
BY BytesAre DEF Stands

\* Where two parts stand, the first does, and the second behind it.
LEMMA StandsJoin ==
  ASSUME NEW a \in Bytes, NEW b \in Bytes, NEW bytes \in Bytes, NEW i \in Nat \ {0},
         Stands(a \o b, bytes, i)
  PROVE  Stands(a, bytes, i) /\ Stands(b, bytes, i + Len(a))
<1> DEFINE la == Len(a)
           lb == Len(b)
<1>1. la \in Nat /\ lb \in Nat /\ Len(a \o b) = la + lb
  BY JoinIs
<1>2. \A k \in 1..la : (a \o b)[k] = a[k]
  BY JoinIs
<1>3. \A k \in 1..lb : (a \o b)[la + k] = b[k]
  BY JoinIs
<1>4. i - 1 + (la + lb) <= Len(bytes) /\ \A k \in 1..(la + lb) : bytes[i - 1 + k] = (a \o b)[k]
  BY <1>1 DEF Stands
<1>5. Len(bytes) \in Nat
  BY BytesAre
<1> HIDE DEF la, lb
<1>6. i - 1 + la <= Len(bytes) /\ i + la - 1 + lb <= Len(bytes)
  BY <1>1, <1>4, <1>5
<1>7. \A k \in 1..la : bytes[i - 1 + k] = a[k]
  <2>1. \A k \in 1..la : k \in 1..(la + lb)
    BY <1>1
  <2> QED BY <1>2, <1>4, <2>1
<1>8. \A k \in 1..lb : bytes[i + la - 1 + k] = b[k]
  <2>1. \A k \in 1..lb : la + k \in 1..(la + lb) /\ i - 1 + (la + k) = i + la - 1 + k
    BY <1>1
  <2> QED BY <1>3, <1>4, <2>1
<1> QED BY <1>6, <1>7, <1>8 DEF Stands, la, lb

\* A single byte is a sequence of bytes.
LEMMA OneByte ==
  ASSUME NEW b \in 0..255
  PROVE  <<b>> \in Bytes /\ Len(<<b>>) = 1
<1> DEFINE Byte == 0..255
<1>1. b \in Byte
  OBVIOUS
<1> HIDE DEF Byte
<1>2. <<b>> \in Seq(Byte)
  BY <1>1
<1> QED BY <1>2 DEF Bytes, Byte

\* A block: the tag of a field, its length, and its bytes.
Block(tag, s) == <<tag>> \o EncodeVarint(Len(s)) \o s

\* The length of a string can be written as a varint.
LEMMA FitsIsWord ==
  ASSUME NEW s \in Bytes, Fits(s)
  PROVE  Len(s) \in Words /\ Len(s) \in Nat /\ Len(s) \in 0..(Pow2[IntBits - 1] - 1)
<1> DEFINE h == Pow2[IntBits - 1]
           n == Len(s)
<1>1. h \in Nat /\ Pow2[IntBits] = 2 * h /\ n \in Nat /\ n < h
  BY PowerSplits, BytesAre DEF Fits
<1> HIDE DEF h, n
<1>2. n \in 0..(2 * h - 1) /\ n \in 0..(h - 1)
  BY <1>1
<1> QED BY <1>1, <1>2 DEF Words, h, n

\* The bytes of a string field, and how many they are.
LEMMA BlockIsBytes ==
  ASSUME NEW tag \in 0..255, NEW s \in Bytes, Fits(s)
  PROVE  /\ Block(tag, s) \in Bytes
         /\ Len(Block(tag, s)) = 1 + SizeOfVarint(Len(s)) + Len(s)
         /\ SizeOfVarint(Len(s)) \in Nat
<1> DEFINE v == EncodeVarint(Len(s))
<1>1. v \in Bytes /\ Len(v) = SizeOfVarint(Len(s))
  BY FitsIsWord, EncodedVarint
<1>2. <<tag>> \in Bytes /\ Len(<<tag>>) = 1
  BY OneByte
<1> HIDE DEF v
<1>3. <<tag>> \o v \in Bytes /\ Len(<<tag>> \o v) = 1 + Len(v) /\ Len(v) \in Nat
  BY <1>1, <1>2, JoinIs
<1>4. (<<tag>> \o v) \o s \in Bytes /\ Len((<<tag>> \o v) \o s) = 1 + Len(v) + Len(s)
  BY <1>3, JoinIs
<1> QED BY <1>1, <1>3, <1>4 DEF Block, v

\* A tag of one byte is read.
LEMMA TagRead ==
  ASSUME NEW bytes \in Bytes, NEW i \in Nat \ {0}, NEW tag \in 0..127, Stands(<<tag>>, bytes, i)
  PROVE  ReadVarint(bytes, i) = Read(tag, i + 1) /\ i + 1 <= Len(bytes) + 1
<1> DEFINE from == VarintFrom(bytes, i)
<1>1. i \in Nat /\ VarintBytes \in Nat /\ VarintBytes >= 2 /\ Len(bytes) \in Nat
  BY VarintBytesFit, BytesAre
<1>2. i <= Len(bytes) /\ bytes[i] = tag
  <2>1. Len(<<tag>>) = 1 /\ <<tag>>[1] = tag /\ i - 1 + 1 = i
    OBVIOUS
  <2> QED BY <2>1 DEF Stands
<1>3. from[i] = VarintStep(bytes, i, from, i)
  BY <1>1, VarintUnfolds
<1>4. i # i + VarintBytes /\ ~(i > Len(bytes)) /\ bytes[i] < 128
  BY <1>1, <1>2
<1> HIDE DEF from
<1>5. from[i] = Read(tag, i + 1)
  BY <1>2, <1>3, <1>4, VarintCases
<1>6. tag \in Words
  BY PowerSplits DEF Words
<1>7. Unsigned(tag, IntBits) = tag
  BY <1>6, UnsignedIs
<1>8. ReadVarint(bytes, i) = Then(from[i], LAMBDA x, next : Read(Unsigned(x, IntBits), next))
  BY ReadVarintIs DEF from
<1>9. ReadVarint(bytes, i) = Read(tag, i + 1)
  BY <1>5, <1>7, <1>8 DEF Then, Read
<1> QED BY <1>1, <1>2, <1>9

\* A string field is read as the string that was written.
LEMMA BlockRead ==
  ASSUME NEW tag \in 0..127, NEW s \in Bytes, Fits(s), NEW bytes \in Bytes, Fits(bytes),
         NEW i \in Nat \ {0}, Stands(Block(tag, s), bytes, i)
  PROVE  /\ ReadVarint(bytes, i) = Read(tag, i + 1)
         /\ LengthDelimited(bytes, i + 1) = Read(s, i + Len(Block(tag, s)))
         /\ i + Len(Block(tag, s)) <= Len(bytes) + 1
<1> DEFINE v == EncodeVarint(Len(s))
           n == SizeOfVarint(Len(s))
           len == Len(s)
           j == i + 1 + n
<1>0. tag \in 0..255
  OBVIOUS
<1>1. v \in Bytes /\ Len(v) = n /\ n \in Nat /\ len \in Nat /\ len \in Words
      /\ len \in 0..(Pow2[IntBits - 1] - 1)
  BY <1>0, FitsIsWord, EncodedVarint, BlockIsBytes
<1>2. <<tag>> \in Bytes /\ Len(<<tag>>) = 1
  BY <1>0, OneByte
<1>3. <<tag>> \o v \in Bytes /\ Len(<<tag>> \o v) = 1 + n
  <2> HIDE DEF v, n
  <2> QED BY <1>1, <1>2, JoinIs
<1>4. Stands(<<tag>> \o v, bytes, i) /\ Stands(s, bytes, i + (1 + n))
  <2>1. Stands((<<tag>> \o v) \o s, bytes, i)
    BY DEF Block
  <2> HIDE DEF v, n
  <2> QED BY <1>3, <2>1, StandsJoin
<1>5. Stands(<<tag>>, bytes, i) /\ Stands(v, bytes, i + 1)
  <2> HIDE DEF v
  <2> QED BY <1>1, <1>2, <1>4, StandsJoin
<1>6. ReadVarint(bytes, i) = Read(tag, i + 1)
  BY <1>5, TagRead
<1>7. ReadVarint(bytes, i + 1) = Read(len, j)
  <2>1. i + 1 \in Nat \ {0}
    OBVIOUS
  <2> HIDE DEF len
  <2> QED BY <1>1, <1>5, <2>1, VarintIsRead DEF len
<1>8. Signed(len, IntBits) = len
  BY <1>1, SignedSame
<1>9. Stands(s, bytes, j) /\ j \in Nat \ {0} /\ j - 1 + len <= Len(bytes) /\ Len(bytes) \in Nat
  <2>1. i + (1 + n) = j /\ j \in Nat \ {0}
    <3> HIDE DEF n
    <3> QED BY <1>1
  <2>2. Stands(s, bytes, j)
    BY <1>4, <2>1
  <2> QED BY <2>1, <2>2, BytesAre DEF Stands
<1>10. LengthDelimited(bytes, i + 1) = Bounded(bytes, j, len)
  <2> HIDE DEF len, j
  <2> QED BY <1>7, <1>8, BlockIs, StepIs
<1> HIDE DEF v, n, j
<1>11. Bounded(bytes, j, len) = Read(SubSeq(bytes, j, j - 1 + len), j + len)
  <2>1. len \in Int /\ len >= 0 /\ j <= Len(bytes) + 1
    BY <1>1, <1>9
  <2>2. j - 1 + len < 2 * Pow2[IntBits - 1]
    <3>1. Len(bytes) < Pow2[IntBits - 1] /\ Pow2[IntBits - 1] \in Nat
      BY PowerSplits DEF Fits
    <3> QED BY <1>1, <1>9, <3>1
  <2> HIDE DEF len
  <2> QED BY <1>9, <2>1, <2>2, BoundedIs
<1>12. SubSeq(bytes, j, j - 1 + len) = s
  <2> DEFINE t == SubSeq(bytes, j, j - 1 + len)
  <2>1. j - 1 + len \in Nat /\ j <= j - 1 + len + 1 /\ (j - 1 + len) + 1 - j = len
    BY <1>1, <1>9
  <2>2. t \in Bytes /\ Len(t) = len /\ \A k \in 1..len : t[k] = bytes[j - 1 + k]
    <3> DEFINE last == j - 1 + len
    <3>1. last \in Nat /\ j <= last + 1 /\ last <= Len(bytes) /\ last + 1 - j = len
      BY <1>9, <2>1
    <3> HIDE DEF last, len
    <3>2. SubSeq(bytes, j, last) \in Bytes /\ Len(SubSeq(bytes, j, last)) = last + 1 - j
          /\ \A k \in 1..(last + 1 - j) : SubSeq(bytes, j, last)[k] = bytes[j - 1 + k]
      BY <1>9, <3>1, PartIs
    <3> QED BY <3>1, <3>2 DEF last
  <2>3. \A k \in 1..len : t[k] = s[k]
    BY <1>9, <2>2 DEF Stands
  <2>4. Len(t) = Len(s) /\ \A k \in 1..Len(s) : t[k] = s[k]
    BY <2>2, <2>3
  <2> HIDE DEF t, len
  <2>5. t = s
    BY <2>2, <2>4, SameBytes
  <2> QED BY <2>5 DEF t
<1>13. j + len = i + Len(Block(tag, s)) /\ i + Len(Block(tag, s)) <= Len(bytes) + 1
  <2>1. Len(Block(tag, s)) = 1 + n + len
    BY <1>0, BlockIsBytes DEF n
  <2>2. j = i + 1 + n
    BY DEF j
  <2> HIDE DEF len
  <2> QED BY <1>1, <1>9, <2>1, <2>2
<1> QED BY <1>6, <1>10, <1>11, <1>12, <1>13

\* The tags of the fields of a message have one byte, and give number and wire type
\* back.
LEMMA TagIs ==
  ASSUME NEW n \in 1..15
  PROVE  /\ 8 * n + 2 \in 0..127 /\ (8 * n + 2) \div 8 = n /\ (8 * n + 2) % 8 = 2
         /\ 8 * n \in 0..127 /\ (8 * n) \div 8 = n /\ (8 * n) % 8 = 0
         /\ Signed(n, SmallBits) = n /\ ~(n <= 0)
<1>1. n \in 0..(Pow2[SmallBits - 1] - 1) /\ n \in Int
  BY PowerSplits
<1>2. Signed(n, SmallBits) = n
  BY <1>1, SignedIs
<1> QED BY <1>2

\* Field n, a string, stands at i as a block up to end.
StringHere(fields, n, s, bytes, i, tag, end) ==
  /\ n \in 1..15 /\ n \in DOMAIN fields /\ fields[n].kind = "string"
  /\ s \in Bytes /\ Fits(s) /\ bytes \in Bytes /\ Fits(bytes) /\ i \in Nat \ {0}
  /\ tag = 8 * n + 2 /\ Stands(Block(tag, s), bytes, i) /\ end = i + Len(Block(tag, s))

\* A string field sets its field, in either switch.
LEMMA StringDecoded ==
  ASSUME NEW fields, NEW n, NEW s, NEW bytes, NEW i, NEW tag, NEW end,
         StringHere(fields, n, s, bytes, i, tag, end), NEW m
  PROVE  PlainDecode(fields, m, bytes, i) = Read(Sets(m, fields[n].name, s), end)
         /\ AnyDecode(fields, m, bytes, i) = Read(Sets(m, fields[n].name, s), end)
<1> USE DEF StringHere
<1> DEFINE f == fields[n]
           block == LengthDelimited(bytes, i + 1)
           new == Sets(m, fields[n].name, s)
<1>1. tag \in 0..127 /\ tag \div 8 = n /\ tag % 8 = 2 /\ Signed(n, SmallBits) = n /\ ~(n <= 0)
  BY TagIs
<1>2. ReadVarint(bytes, i) = Read(tag, i + 1) /\ block = Read(s, end)
  BY <1>1, BlockRead
<1>3. PlainField(f, m, 2, bytes, i + 1) = Read(new, end)
  <2>1. PlainField(f, m, 2, bytes, i + 1) =
          IF block.err # "nil" THEN block ELSE Read(Sets(m, f.name, block.value), block.next)
    BY PlainIs
  <2>2. new = Sets(m, f.name, s)
    OBVIOUS
  <2> HIDE DEF block, f
  <2> QED BY <1>2, <2>1, <2>2, StepIs
<1>4. AnyField(f, m, 2, bytes, i + 1) = PlainField(f, m, 2, bytes, i + 1)
  BY AnyIsPlain DEF PlainKinds
<1> HIDE DEF block
<1>5. PlainDecode(fields, m, bytes, i) = PlainField(f, m, 2, bytes, i + 1)
  BY <1>1, <1>2, StepIs DEF PlainDecode, AnyDecode, DecodeField, FieldNumber, Then
<1>6. AnyDecode(fields, m, bytes, i) = AnyField(f, m, 2, bytes, i + 1)
  BY <1>1, <1>2, StepIs DEF PlainDecode, AnyDecode, DecodeField, FieldNumber, Then
<1> QED BY <1>3, <1>4, <1>5, <1>6

\* A step of the loop.
LEMMA Goes ==
  ASSUME NEW f, NEW m, NEW i \in Nat, NEW bytes \in Bytes, i <= Len(bytes),
         NEW one, LoopIs(f, <<m, i>>, bytes, one), NEW new, NEW next, one = Read(new, next)
  PROVE  f[<<m, i>>] = f[<<new, next>>]
<1>1. ~(i > Len(bytes))
  BY BytesAre
<1> QED BY <1>1, StepIs DEF LoopIs

\* Where bytes stand, there is room for them.
LEMMA NotEmpty ==
  ASSUME NEW part \in Bytes, NEW bytes \in Bytes, NEW i \in Nat \ {0}, Stands(part, bytes, i)
  PROVE  i + Len(part) <= Len(bytes) + 1 /\ (Len(part) >= 1 => i <= Len(bytes))
<1>1. Len(part) \in Nat /\ Len(bytes) \in Nat /\ i - 1 + Len(part) <= Len(bytes)
  BY BytesAre DEF Stands
<1> QED BY <1>1

\* StringField writes as many bytes as StringSize says, and none for an empty string.
LEMMA StringFieldIs ==
  ASSUME NEW n \in 1..15, NEW s \in Bytes, Fits(s)
  PROVE  StringField(n, s) \in Bytes /\ Len(StringField(n, s)) = StringSize(s)
         /\ (s # <<>> => StringField(n, s) = Block(8 * n + 2, s) /\ Len(StringField(n, s)) >= 1)
<1>1. CASE s = <<>>
  <2>1. StringField(n, s) = <<>> /\ StringSize(s) = 0 /\ Len(<<>>) = 0
    BY <1>1 DEF StringField, StringSize
  <2> QED BY <1>1, <2>1, ZeroFits
<1>2. CASE s # <<>>
  <2>1. StringField(n, s) = Block(8 * n + 2, s)
    BY <1>2 DEF StringField, Block
  <2>2. 8 * n + 2 \in 0..255
    OBVIOUS
  <2>3. Block(8 * n + 2, s) \in Bytes
        /\ Len(Block(8 * n + 2, s)) = 1 + SizeOfVarint(Len(s)) + Len(s)
        /\ SizeOfVarint(Len(s)) \in Nat
    BY <2>2, BlockIsBytes
  <2>4. StringSize(s) = 1 + Len(s) + SizeOfVarint(Len(s)) /\ Len(s) \in Nat
    BY <1>2, BytesAre DEF StringSize
  <2>5. 1 + SizeOfVarint(Len(s)) + Len(s) = StringSize(s) /\ StringSize(s) >= 1
    BY <2>3, <2>4
  <2> QED BY <2>1, <2>3, <2>5
<1> QED BY <1>1, <1>2

\* Field n, a string, is what stands from i to next, if it is not left out.
StringStands(fields, n, s, bytes, i, next) ==
  /\ n \in 1..15 /\ n \in DOMAIN fields /\ fields[n].kind = "string"
  /\ s \in Bytes /\ Fits(s) /\ bytes \in Bytes /\ Fits(bytes) /\ i \in Nat \ {0}
  /\ Stands(StringField(n, s), bytes, i) /\ next = i + StringSize(s)

\* The loop reads a string field that stands where it is.
LEMMA StringStep ==
  ASSUME NEW fields, NEW n, NEW s, NEW bytes, NEW i, NEW next,
         StringStands(fields, n, s, bytes, i, next), NEW m,
         Sets(m, fields[n].name, <<>>) = m, NEW f,
         \/ LoopIs(f, <<m, i>>, bytes, PlainDecode(fields, m, bytes, i))
         \/ LoopIs(f, <<m, i>>, bytes, AnyDecode(fields, m, bytes, i))
  PROVE  f[<<m, i>>] = f[<<Sets(m, fields[n].name, s), next>>]
<1> SUFFICES ASSUME n \in 1..15, n \in DOMAIN fields, fields[n].kind = "string",
                    s \in Bytes, Fits(s), bytes \in Bytes, Fits(bytes), i \in Nat \ {0},
                    Stands(StringField(n, s), bytes, i), next = i + StringSize(s)
             PROVE  f[<<m, i>>] = f[<<Sets(m, fields[n].name, s), next>>]
  BY DEF StringStands
<1>1. CASE s = <<>>
  <2>1. next = i
    BY <1>1 DEF StringSize
  <2> QED BY <1>1, <2>1
<1>2. CASE s # <<>>
  <2>1. StringField(n, s) = Block(8 * n + 2, s) /\ StringField(n, s) \in Bytes
        /\ Len(Block(8 * n + 2, s)) = StringSize(s) /\ Len(StringField(n, s)) >= 1
    BY <1>2, StringFieldIs
  <2>2. i <= Len(bytes) /\ i \in Nat
    BY <2>1, NotEmpty
  <2> DEFINE new == Sets(m, fields[n].name, s)
  <2>3. PlainDecode(fields, m, bytes, i) = Read(new, next)
        /\ AnyDecode(fields, m, bytes, i) = Read(new, next)
    <3> DEFINE tag == 8 * n + 2
    <3>1. Stands(Block(tag, s), bytes, i)
      BY <2>1
    <3>2. new = Sets(m, fields[n].name, s) /\ tag = 8 * n + 2 /\ next = i + Len(Block(tag, s))
      BY <2>1
    <3>3. StringHere(fields, n, s, bytes, i, tag, next)
      <4> HIDE DEF tag
      <4> QED BY <3>1, <3>2 DEF StringHere
    <3> HIDE DEF tag
    <3> QED BY <3>3, StringDecoded
  <2> HIDE DEF new
  <2>4. PICK one : LoopIs(f, <<m, i>>, bytes, one) /\ one = Read(new, next)
    BY <2>3
  <2>5. f[<<m, i>>] = f[<<new, next>>]
    <3>1. ~(i > Len(bytes))
      BY <2>2, BytesAre
    <3> QED BY <2>4, <3>1, StepIs DEF LoopIs
  <2> QED BY <2>5 DEF new
<1> QED BY <1>1, <1>2

--------------------------------------------------------------------------------
(* Fields of a later version *)

\* Unknown fields are appended one after the other.
LEMMA Gaining ==
  ASSUME NEW m, m = [name \in DOMAIN m |-> m[name]], m.unknownFields \in Bytes,
         NEW a \in Bytes, NEW b \in Bytes
  PROVE  Gains(Gains(m, a), b) = Gains(m, a \o b)
<1> DEFINE u == m.unknownFields
           Byte == 0..255
<1>1. u \in Seq(Byte) /\ a \in Seq(Byte) /\ b \in Seq(Byte)
  BY DEF Bytes
<1> HIDE DEF Byte
<1>2. (u \o a) \o b = u \o (a \o b)
  <2> HIDE DEF u
  <2> QED BY <1>1
<1> HIDE DEF u
<1>3. CASE "unknownFields" \in DOMAIN m
  <2>1. Gains(m, a).unknownFields = u \o a
    BY <1>3 DEF Gains, u
  <2>2. Gains(Gains(m, a), b) = [m EXCEPT !.unknownFields = (u \o a) \o b]
    BY <2>1, <1>3 DEF Gains
  <2>3. Gains(m, a \o b) = [m EXCEPT !.unknownFields = u \o (a \o b)]
    BY DEF Gains, u
  <2> QED BY <1>2, <2>2, <2>3
<1>4. CASE "unknownFields" \notin DOMAIN m
  BY <1>4 DEF Gains
<1> QED BY <1>3, <1>4

\* No unknown field changes nothing.
LEMMA GainsNothing ==
  ASSUME NEW m, m = [name \in DOMAIN m |-> m[name]], m.unknownFields \in Bytes
  PROVE  Gains(m, <<>>) = m
<1> DEFINE u == m.unknownFields
           Byte == 0..255
<1>1. u \in Seq(Byte)
  BY DEF Bytes
<1> HIDE DEF Byte
<1>2. u \o <<>> = u
  <2> HIDE DEF u
  <2> QED BY <1>1
<1> QED BY <1>2 DEF Gains

\* What stands behind a part of bytes is the rest of it.
LEMMA RestSplits ==
  ASSUME NEW bytes \in Bytes, NEW i \in Nat \ {0}, NEW j \in Nat, i < j, j <= Len(bytes) + 1
  PROVE  SubSeq(bytes, i, Len(bytes))
           = SubSeq(bytes, i, j - 1) \o SubSeq(bytes, j, Len(bytes))
<1> DEFINE n == Len(bytes)
           a == SubSeq(bytes, i, j - 1)
           b == SubSeq(bytes, j, n)
           c == SubSeq(bytes, i, n)
<1>1. n \in Nat
  BY BytesAre
<1>2. a \in Bytes /\ Len(a) = j - i /\ \A k \in 1..(j - i) : a[k] = bytes[i - 1 + k]
  <2>1. j - 1 \in Nat /\ i <= (j - 1) + 1 /\ j - 1 <= n /\ (j - 1) + 1 - i = j - i
    BY <1>1
  <2> HIDE DEF a
  <2> QED BY <2>1, PartIs DEF a
<1>3. b \in Bytes /\ Len(b) = n + 1 - j /\ \A k \in 1..(n + 1 - j) : b[k] = bytes[j - 1 + k]
  <2>1. n \in Nat /\ j <= n + 1 /\ n <= Len(bytes) /\ j \in Nat \ {0}
    BY <1>1
  <2> QED BY <2>1, PartIs
<1>4. c \in Bytes /\ Len(c) = n + 1 - i /\ \A k \in 1..(n + 1 - i) : c[k] = bytes[i - 1 + k]
  <2>1. n \in Nat /\ i <= n + 1 /\ n <= Len(bytes)
    BY <1>1
  <2> QED BY <2>1, PartIs
<1> HIDE DEF a, b, c, n
<1>5. a \o b \in Bytes /\ Len(a \o b) = Len(a) + Len(b)
      /\ (\A k \in 1..Len(a) : (a \o b)[k] = a[k])
      /\ (\A k \in 1..Len(b) : (a \o b)[Len(a) + k] = b[k])
  BY <1>2, <1>3, JoinIs
<1>6. Len(a \o b) = n + 1 - i
  BY <1>1, <1>2, <1>3, <1>5
<1>7. ASSUME NEW k \in 1..(n + 1 - i) PROVE c[k] = (a \o b)[k]
  <2>1. CASE k <= j - i
    <3>1. k \in 1..(j - i)
      BY <1>1, <2>1
    <3> QED BY <1>2, <1>4, <1>5, <3>1
  <2>2. CASE ~(k <= j - i)
    <3>1. k - (j - i) \in 1..(n + 1 - j) /\ (j - i) + (k - (j - i)) = k
          /\ j - 1 + (k - (j - i)) = i - 1 + k
      BY <1>1, <2>2
    <3>2. (a \o b)[k] = b[k - (j - i)]
      BY <1>2, <1>3, <1>5, <3>1
    <3>3. b[k - (j - i)] = bytes[i - 1 + k]
      BY <1>3, <3>1
    <3> QED BY <1>4, <3>2, <3>3
  <2> QED BY <2>1, <2>2
<1>8. c = a \o b
  BY <1>4, <1>5, <1>6, <1>7, SameBytes
<1> QED BY <1>8 DEF a, b, c, n

\* A part of the end of the bytes is a part of the bytes.
LEMMA SamePart ==
  ASSUME NEW part \in Bytes, NEW bytes \in Bytes, NEW p \in Nat, EndsWith(part, bytes, p),
         NEW i \in Nat \ {0}, NEW j \in Nat, i < j, j <= Len(part) + 1
  PROVE  SubSeq(bytes, p + i, (p + j) - 1) = SubSeq(part, i, j - 1)
<1> DEFINE n == Len(part)
           a == SubSeq(bytes, p + i, (p + j) - 1)
           b == SubSeq(part, i, j - 1)
<1>1. n \in Nat /\ Len(bytes) = p + n /\ \A k \in 1..n : bytes[p + k] = part[k]
  BY BytesAre DEF EndsWith
<1>2. b \in Bytes /\ Len(b) = j - i /\ \A k \in 1..(j - i) : b[k] = part[i - 1 + k]
  <2>1. j - 1 \in Nat /\ i <= (j - 1) + 1 /\ j - 1 <= n /\ (j - 1) + 1 - i = j - i
    BY <1>1
  <2> HIDE DEF b
  <2> QED BY <2>1, PartIs DEF b
<1>3. a \in Bytes /\ Len(a) = j - i /\ \A k \in 1..(j - i) : a[k] = bytes[p + i - 1 + k]
  <2> DEFINE c == p + i
             d == (p + j) - 1
  <2>1. c \in Nat \ {0} /\ d \in Nat /\ c <= d + 1 /\ d <= Len(bytes) /\ d + 1 - c = j - i
    BY <1>1
  <2>2. c - 1 = p + i - 1
    OBVIOUS
  <2>3. SubSeq(bytes, c, d) \in Bytes /\ Len(SubSeq(bytes, c, d)) = d + 1 - c
        /\ \A k \in 1..(d + 1 - c) : SubSeq(bytes, c, d)[k] = bytes[c - 1 + k]
    <3> HIDE DEF c, d
    <3> QED BY <2>1, PartIs
  <2>4. a = SubSeq(bytes, c, d)
    OBVIOUS
  <2> HIDE DEF a, c, d
  <2> QED BY <2>1, <2>2, <2>3, <2>4
<1> HIDE DEF a, b, n
<1>4. ASSUME NEW k \in 1..(j - i) PROVE a[k] = b[k]
  <2>1. i - 1 + k \in 1..n /\ p + (i - 1 + k) = p + i - 1 + k
    BY <1>1 DEF n
  <2>2. bytes[p + i - 1 + k] = part[i - 1 + k]
    BY <1>1, <2>1
  <2> QED BY <1>2, <1>3, <2>2
<1>5. a = b
  BY <1>2, <1>3, <1>4, SameBytes
<1> QED BY <1>5 DEF a, b

\* The number of a field is natural.
LEMMA Eighth == \A x \in Nat : x \div 8 \in Nat
OBVIOUS

\* A later field from i to j of ext, with which bytes end.
LaterHere(fields, ext, bytes, p, i, j, at, next) ==
  /\ DOMAIN fields \subseteq 1..7 /\ ext \in Bytes /\ bytes \in Bytes /\ Fits(bytes)
  /\ p \in Nat /\ EndsWith(ext, bytes, p) /\ i \in Nat \ {0} /\ LaterField(ext, i, j)
  /\ at = p + i /\ next = p + j

\* How a field that no message knows is read.
LEMMA LaterFieldRead ==
  ASSUME NEW fields, NEW ext, NEW bytes, NEW p, NEW i, NEW j, NEW at, NEW next,
         LaterHere(fields, ext, bytes, p, i, j, at, next), NEW m
  PROVE  /\ PlainDecode(fields, m, bytes, at) = Read(Gains(m, SubSeq(ext, i, j - 1)), next)
         /\ AnyDecode(fields, m, bytes, at) = Read(Gains(m, SubSeq(ext, i, j - 1)), next)
         /\ j \in Nat /\ i < j /\ j <= Len(ext) + 1
<1> SUFFICES ASSUME DOMAIN fields \subseteq 1..7, ext \in Bytes, bytes \in Bytes, Fits(bytes),
                    p \in Nat, EndsWith(ext, bytes, p), i \in Nat \ {0},
                    LaterField(ext, i, j), at = p + i, next = p + j
             PROVE  /\ PlainDecode(fields, m, bytes, at)
                         = Read(Gains(m, SubSeq(ext, i, j - 1)), next)
                    /\ AnyDecode(fields, m, bytes, at)
                         = Read(Gains(m, SubSeq(ext, i, j - 1)), next)
                    /\ j \in Nat /\ i < j /\ j <= Len(ext) + 1
  BY DEF LaterHere
<1> DEFINE tag == ReadVarint(ext, i)
           num == Signed(tag.value \div 8, SmallBits)
           skip == Skip(bytes, at)
           x == SubSeq(ext, i, j - 1)
           block == Bounded(bytes, at, skip.next - at)
           new == Gains(m, x)
<1>1. tag.err = "nil" /\ num > 7 /\ tag.value % 8 # 4 /\ Skip(ext, i) = Read(0, j)
      /\ j <= Len(ext) + 1
  <2>1. Len(PublishFields) = 7
    BY DEF PublishFields
  <2> QED BY <2>1 DEF LaterField, FieldNumber
<1>2. Skip(ext, i).err = "nil" /\ Skip(ext, i).next = j
  BY <1>1, StepIs
<1>3. j \in Nat /\ i < j
  BY <1>2, SkipTyped
<1>4. ReadVarint(bytes, at) = Read(tag.value, p + tag.next)
  BY <1>1, VarintMoves
<1>5. skip = Read(0, p + j)
  BY <1>1, <1>2, SkipMoves
<1>6. at \in Nat \ {0} /\ p + j <= Len(bytes) + 1 /\ at <= Len(bytes) + 1
  <2>1. Len(bytes) = p + Len(ext) /\ Len(ext) \in Nat
    BY BytesAre DEF EndsWith
  <2> QED BY <1>1, <1>3, <2>1
<1>7. num \in Int
  <2>1. tag.value \in Nat
    BY <1>1, VarintOutcome
  <2>2. tag.value \div 8 \in Nat
    <3> HIDE DEF tag
    <3> QED BY <2>1, Eighth
  <2>3. tag.value \div 8 \in Int
    BY <2>2
  <2> HIDE DEF tag
  <2> QED BY <2>3, SignedIs
<1> HIDE DEF tag, num, skip
<1>8. block = Read(x, p + j)
  <2>1. skip.err = "nil" /\ skip.next = p + j
    BY <1>5, StepIs
  <2>2. block = Read(SubSeq(bytes, at, skip.next - 1), skip.next)
    BY <1>6, <2>1, UnknownBlock DEF skip
  <2>3. SubSeq(bytes, at, skip.next - 1) = x
    BY <1>1, <1>3, <2>1, SamePart
  <2> QED BY <2>1, <2>2, <2>3
<1> HIDE DEF x, block
<1>9. UnknownField(m, bytes, at) = Read(new, p + j)
  <2>1. UnknownField(m, bytes, at) =
           IF skip.err # "nil" THEN skip
           ELSE IF block.err # "nil" THEN block
           ELSE Read(Gains(m, block.value), block.next)
    BY UnknownIs DEF skip, block
  <2> QED BY <1>5, <1>8, <2>1, StepIs
<1>10. num \notin DOMAIN fields /\ ~(num <= 0)
  BY <1>1, <1>7
<1> HIDE DEF new
<1>11. PlainDecode(fields, m, bytes, at) = UnknownField(m, bytes, at)
       /\ AnyDecode(fields, m, bytes, at) = UnknownField(m, bytes, at)
  <2>1. Read(tag.value, p + tag.next).err = "nil"
        /\ Read(tag.value, p + tag.next).value = tag.value
    BY StepIs
  <2>2. Signed(tag.value \div 8, SmallBits) \notin DOMAIN fields
        /\ ~(Signed(tag.value \div 8, SmallBits) <= 0)
    BY <1>10 DEF num
  <2>3. PlainDecode(fields, m, bytes, at) = UnknownField(m, bytes, at)
    BY <1>1, <1>4, <2>1, <2>2 DEF PlainDecode, DecodeField, FieldNumber, Then
  <2>4. AnyDecode(fields, m, bytes, at) = UnknownField(m, bytes, at)
    BY <1>1, <1>4, <2>1, <2>2 DEF AnyDecode, DecodeField, FieldNumber, Then
  <2> QED BY <2>3, <2>4
<1> QED BY <1>1, <1>3, <1>9, <1>11 DEF new, x

Functions(Message) == \A m \in Message : m = [name \in DOMAIN m |-> m[name]]

\* f is the loop of a message.
Loops(f, Message, fields, bytes) ==
  \A m \in Message : \A i \in Nat \ {0} : i <= Len(bytes) + 1 =>
    \/ LoopIs(f, <<m, i>>, bytes, PlainDecode(fields, m, bytes, i))
    \/ LoopIs(f, <<m, i>>, bytes, AnyDecode(fields, m, bytes, i))

\* The loop stops at the end of the bytes.
LEMMA Ends ==
  ASSUME NEW f, NEW m, NEW bytes, NEW i, NEW one, LoopIs(f, <<m, i>>, bytes, one), i > Len(bytes)
  PROVE  f[<<m, i>>] = Read(m, i)
BY DEF LoopIs

\* Fields of a later version are all that is left of bytes, from at on.
LaterRest(f, Message, fields, ext, bytes, at) ==
  /\ Keeps(Message, fields) /\ DOMAIN fields \subseteq 1..7 /\ Functions(Message)
  /\ ext \in Bytes /\ LaterFields(ext) /\ bytes \in Bytes /\ Fits(bytes)
  /\ \E p \in Nat : EndsWith(ext, bytes, p) /\ at = p + 1
  /\ Loops(f, Message, fields, bytes)

\* The fields of a later version are kept as they are.
LEMMA LaterRead ==
  ASSUME NEW f, NEW Message, NEW fields, NEW ext, NEW bytes, NEW at,
         LaterRest(f, Message, fields, ext, bytes, at), NEW m \in Message
  PROVE  f[<<m, at>>] = Read(Gains(m, ext), Len(bytes) + 1)
<1> SUFFICES ASSUME Keeps(Message, fields), DOMAIN fields \subseteq 1..7,
                    Functions(Message), ext \in Bytes, LaterFields(ext),
                    bytes \in Bytes, Fits(bytes), NEW p \in Nat, EndsWith(ext, bytes, p),
                    Loops(f, Message, fields, bytes)
             PROVE  f[<<m, p + 1>>] = Read(Gains(m, ext), Len(bytes) + 1)
  BY DEF LaterRest
<1> DEFINE n == Len(ext)
           rest(i) == SubSeq(ext, i, n)
           end == Len(bytes) + 1
<1>0. n \in Nat /\ Len(bytes) = p + n /\ Len(bytes) \in Nat
  BY BytesAre DEF EndsWith
<1>1. PICK starts \in SUBSET (1..(n + 1)) :
        /\ 1 \in starts
        /\ \A i \in starts : i = n + 1 \/ \E j \in starts : LaterField(ext, i, j)
  BY DEF LaterFields
<1> DEFINE rank == [i \in starts |-> n + 1 - i]
           T == {i \in starts : \A x \in Message : f[<<x, p + i>>] = Read(Gains(x, rest(i)), end)}
<1>2. \A i \in starts : i \in Nat \ {0} /\ i <= n + 1 /\ n + 1 - i \in Nat
  BY <1>0
<1>3. \A x \in Message : x = [name \in DOMAIN x |-> x[name]] /\ x.unknownFields \in Bytes
  BY DEF Functions, Keeps
<1>4. \A x \in Message : \A a \in Bytes : Gains(x, a) \in Message
  BY JoinIs DEF Keeps, Gains, Sets
<1> HIDE DEF n
<1>5. ASSUME NEW i \in starts, \A j \in starts : rank[j] < rank[i] => j \in T
      PROVE  i \in T
  <2> SUFFICES ASSUME NEW x \in Message
               PROVE  f[<<x, p + i>>] = Read(Gains(x, rest(i)), end)
    OBVIOUS
  <2> DEFINE here == p + i
  <2>0. here \in Nat \ {0} /\ here <= Len(bytes) + 1 /\ i \in Nat \ {0}
    BY <1>0, <1>2
  <2>1. PICK one : LoopIs(f, <<x, here>>, bytes, one)
                   /\ (one = PlainDecode(fields, x, bytes, here)
                        \/ one = AnyDecode(fields, x, bytes, here))
    <3> HIDE DEF here
    <3> QED BY <2>0 DEF Loops
  <2>2. CASE i = n + 1
    <3>1. here > Len(bytes) /\ here = end
      BY <1>0, <2>2
    <3>2. f[<<x, here>>] = Read(x, here)
      <4> HIDE DEF here
      <4> QED BY <2>1, <3>1, Ends
    <3>3. rest(i) = <<>>
      <4> DEFINE Byte == 0..255
      <4>1. ext \in Seq(Byte)
        BY DEF Bytes
      <4> HIDE DEF Byte
      <4>2. SubSeq(ext, n + 1, n) = <<>>
        BY <1>0, <4>1
      <4> QED BY <2>2, <4>2
    <3>4. Gains(x, <<>>) = x
      BY <1>3, GainsNothing
    <3> HIDE DEF end, rest, here
    <3> QED BY <3>1, <3>2, <3>3, <3>4 DEF here
  <2>3. CASE i # n + 1
    <3>1. PICK j \in starts : LaterField(ext, i, j)
      BY <1>1, <2>3
    <3> DEFINE a == SubSeq(ext, i, j - 1)
               y == Gains(x, a)
               next == p + j
    <3>2. /\ PlainDecode(fields, x, bytes, here) = Read(y, next)
          /\ AnyDecode(fields, x, bytes, here) = Read(y, next)
          /\ j \in Nat /\ i < j /\ j <= n + 1
      <4>1. LaterHere(fields, ext, bytes, p, i, j, here, next)
        BY <2>0, <3>1 DEF LaterHere
      <4>2. /\ PlainDecode(fields, x, bytes, here) = Read(Gains(x, SubSeq(ext, i, j - 1)), next)
            /\ AnyDecode(fields, x, bytes, here) = Read(Gains(x, SubSeq(ext, i, j - 1)), next)
            /\ j \in Nat /\ i < j /\ j <= Len(ext) + 1
        <5> HIDE DEF here, y, next, a, rest, end
        <5> QED BY <4>1, LaterFieldRead
      <4> QED BY <4>2 DEF n
    <3>3. a \in Bytes
      <4>1. j - 1 \in Nat /\ i <= (j - 1) + 1 /\ j - 1 <= Len(ext)
        BY <1>0, <2>0, <3>2 DEF n
      <4> QED BY <2>0, <4>1, PartIs
    <3>4. rest(j) \in Bytes
      <4>1. n \in Nat /\ j <= n + 1 /\ n <= Len(ext) /\ j \in Nat \ {0}
        BY <1>0, <2>0, <3>2 DEF n
      <4> QED BY <4>1, PartIs
    <3>5. rest(i) = a \o rest(j)
      BY <2>0, <3>2, RestSplits DEF n
    <3>6. y \in Message
      <4> HIDE DEF a
      <4> QED BY <1>4, <3>3
    <3>7. Gains(y, rest(j)) = Gains(x, rest(i))
      <4> HIDE DEF a, rest
      <4> QED BY <1>3, <3>3, <3>4, <3>5, Gaining
    <3>8. j \in T
      <4>1. rank[j] < rank[i]
        BY <1>0, <1>2, <3>2
      <4> HIDE DEF T, rank
      <4> QED BY <1>5, <4>1
    <3>9. f[<<y, next>>] = Read(Gains(y, rest(j)), end)
      <4> HIDE DEF y, end, rest
      <4> QED BY <3>6, <3>8
    <3>10. f[<<x, here>>] = f[<<y, next>>]
      <4>1. one = Read(y, next)
        BY <2>1, <3>2
      <4>2. here <= Len(bytes) /\ here \in Nat
        BY <1>0, <2>0, <3>2
      <4> HIDE DEF here, y, next
      <4> QED BY <2>1, <4>1, <4>2, Goes
    <3> HIDE DEF here, y, next, rest, end
    <3> QED BY <3>7, <3>9, <3>10 DEF here
  <2> QED BY <2>2, <2>3
<1>6. starts \subseteq T
  <2>1. rank \in [starts -> Nat]
    BY <1>2
  <2> HIDE DEF rank, T
  <2> QED BY <1>5, <2>1, RankInduction
<1>7. f[<<m, p + 1>>] = Read(Gains(m, rest(1)), end)
  <2> HIDE DEF rest, end
  <2> QED BY <1>1, <1>6
<1>8. rest(1) = ext
  <2> DEFINE Byte == 0..255
  <2>1. ext \in Seq(Byte)
    BY DEF Bytes
  <2> HIDE DEF Byte
  <2> QED BY <2>1 DEF n
<1> QED BY <1>7, <1>8

--------------------------------------------------------------------------------
(* Messages of strings *)

Names(fields) == {fields[n].name : n \in DOMAIN fields} \cup {"unknownFields"}

AllBytes(fields) == [Names(fields) -> Bytes]

StringFields(fields) ==
  /\ DOMAIN fields \subseteq 1..7
  /\ \A n \in DOMAIN fields :
       /\ fields[n].kind = "string" /\ fields[n].name # "unknownFields"
       /\ \A k \in DOMAIN fields : fields[k].name = fields[n].name => k = n

\* What is known of r when the fields up to k were read.
Upto(fields, r, k) ==
  [name \in Names(fields) |->
     IF \E n \in DOMAIN fields : n <= k /\ fields[n].name = name THEN r[name] ELSE <<>>]

\* A new message of strings has empty ones.
LEMMA NewStrings ==
  ASSUME NEW fields, StringFields(fields)
  PROVE  NewMessage(fields) = [name \in Names(fields) |-> <<>>]
<1> DEFINE new == NewMessage(fields)
<1>1. DOMAIN new = Names(fields) /\ new = [name \in DOMAIN new |-> new[name]]
      /\ new.unknownFields = <<>>
  BY NewIs DEF Names
<1>2. ASSUME NEW n \in DOMAIN fields PROVE new[fields[n].name] = <<>>
  <2>1. \A k \in DOMAIN fields :
          fields[k].name # "unknownFields"
            /\ (\A j \in DOMAIN fields : fields[j].name = fields[k].name => j = k) =>
          new[fields[k].name] = ZeroOf(fields[k].kind)
    BY NewIs
  <2>2. fields[n].kind = "string" /\ fields[n].name # "unknownFields"
        /\ \A j \in DOMAIN fields : fields[j].name = fields[n].name => j = n
    BY DEF StringFields
  <2> HIDE DEF new
  <2>3. new[fields[n].name] = ZeroOf(fields[n].kind)
    BY <2>1, <2>2
  <2> QED BY <2>2, <2>3, KindsAre
<1>3. \A name \in Names(fields) : new[name] = <<>>
  <2> HIDE DEF new
  <2> QED BY <1>1, <1>2 DEF Names
<1> HIDE DEF new
<1>4. new = [name \in Names(fields) |-> <<>>]
  BY <1>1, <1>3
<1> QED BY <1>4 DEF new

\* A message of strings is one the decoder keeps the type of.
LEMMA StringCodec ==
  ASSUME NEW fields, StringFields(fields)
  PROVE  Codec(AllBytes(fields), fields) /\ Functions(AllBytes(fields))
<1> DEFINE M == AllBytes(fields)
<1>1. "unknownFields" \in Names(fields) /\ \A n \in DOMAIN fields : fields[n].name \in Names(fields)
  BY DEF Names
<1>2. \A m \in M : m.unknownFields \in Bytes /\ m = [name \in DOMAIN m |-> m[name]]
  BY <1>1 DEF AllBytes
<1>3. \A m \in M : \A name \in Names(fields) : \A x \in Bytes :
        m[name] \in Bytes /\ Sets(m, name, x) \in M
  BY DEF AllBytes, Sets
<1>4. Keeps(M, fields)
  <2>1. \A n \in DOMAIN fields : ValuesOf(fields[n].kind) = Bytes
    BY KindsAre DEF StringFields
  <2> HIDE DEF M
  <2> QED BY <1>1, <1>2, <1>3, <2>1 DEF Keeps
<1>5. NewMessage(fields) \in M
  BY NewStrings, ZeroFits DEF AllBytes
<1>6. \A n \in DOMAIN fields : fields[n].kind \in PlainKinds \cup ListKinds
  BY DEF StringFields, PlainKinds
<1> HIDE DEF M
<1>7. Codec(M, fields) /\ Functions(M)
  BY <1>2, <1>4, <1>5, <1>6 DEF Codec, Functions
<1> QED BY <1>7 DEF M

\* Reading field after field, a new message becomes the one that was written.
LEMMA UptoIs ==
  ASSUME NEW fields, StringFields(fields), NEW r \in AllBytes(fields)
  PROVE  /\ NewMessage(fields) = Upto(fields, r, 0)
         /\ \A k \in Int : Upto(fields, r, k) \in AllBytes(fields)
         /\ \A k \in DOMAIN fields :
              /\ Sets(Upto(fields, r, k - 1), fields[k].name, r[fields[k].name]) = Upto(fields, r, k)
              /\ Sets(Upto(fields, r, k - 1), fields[k].name, <<>>) = Upto(fields, r, k - 1)
         /\ \A k : (\A n \in DOMAIN fields : n <= k) => Gains(Upto(fields, r, k), r.unknownFields) = r
<1> DEFINE new == NewMessage(fields)
           u(k) == Upto(fields, r, k)
<1>1. \A n \in DOMAIN fields : n \in Nat /\ ~(n <= 0)
  BY DEF StringFields
<1>2. new = u(0)
  <2>1. u(0) = [name \in Names(fields) |-> <<>>]
    BY <1>1 DEF Upto
  <2> QED BY <2>1, NewStrings
<1>3. ASSUME NEW k \in Int PROVE u(k) \in AllBytes(fields)
  BY ZeroFits DEF Upto, AllBytes
<1>4. ASSUME NEW k \in DOMAIN fields
      PROVE  /\ Sets(u(k - 1), fields[k].name, r[fields[k].name]) = u(k)
             /\ Sets(u(k - 1), fields[k].name, <<>>) = u(k - 1)
  <2> DEFINE at == fields[k].name
             Has(x, name) == \E n \in DOMAIN fields : n <= x /\ fields[n].name = name
  <2>1. \A x : u(x) = [name \in Names(fields) |-> IF Has(x, name) THEN r[name] ELSE <<>>]
    BY DEF Upto
  <2>2. Has(k, at) /\ ~Has(k - 1, at) /\ at \in Names(fields)
    BY <1>1 DEF StringFields, Names
  <2>3. ASSUME NEW name \in Names(fields), name # at PROVE Has(k, name) <=> Has(k - 1, name)
    <3>1. \A n \in DOMAIN fields : n <= k /\ fields[n].name = name => n <= k - 1
      BY <1>1, <2>3
    <3>2. \A n \in DOMAIN fields : n <= k - 1 => n <= k
      BY <1>1
    <3> QED BY <3>1, <3>2
  <2> HIDE DEF Has, at, u
  <2>4. Sets(u(k - 1), at, r[at]) = u(k)
    BY <2>1, <2>2, <2>3 DEF Sets
  <2>5. Sets(u(k - 1), at, <<>>) = u(k - 1)
    BY <2>1, <2>2 DEF Sets
  <2> QED BY <2>4, <2>5 DEF at
<1>5. ASSUME NEW k, \A n \in DOMAIN fields : n <= k PROVE Gains(u(k), r.unknownFields) = r
  <2>1. u(k) = [name \in Names(fields) |-> IF name = "unknownFields" THEN <<>> ELSE r[name]]
    <3>1. \A name \in Names(fields) :
            (\E n \in DOMAIN fields : n <= k /\ fields[n].name = name) <=> name # "unknownFields"
      BY <1>5 DEF Names, StringFields
    <3> QED BY <3>1 DEF Upto
  <2>2. "unknownFields" \in Names(fields)
    BY DEF Names
  <2>3. <<>> \o r.unknownFields = r.unknownFields
    <3> DEFINE Byte == 0..255
    <3>1. r.unknownFields \in Seq(Byte)
      BY <2>2 DEF AllBytes, Bytes
    <3> HIDE DEF Byte
    <3> QED BY <3>1
  <2>4. r = [name \in Names(fields) |-> r[name]]
    BY DEF AllBytes
  <2>5. u(k).unknownFields = <<>>
    BY <2>1, <2>2
  <2>6. Gains(u(k), r.unknownFields) = [u(k) EXCEPT !.unknownFields = r.unknownFields]
    BY <2>3, <2>5 DEF Gains
  <2> HIDE DEF u
  <2> QED BY <2>1, <2>2, <2>4, <2>6
<1> QED BY <1>2, <1>3, <1>4, <1>5

\* The second of two parts ends the bytes.
LEMMA JoinEnds ==
  ASSUME NEW a \in Bytes, NEW b \in Bytes
  PROVE  EndsWith(b, a \o b, Len(a))
BY JoinIs DEF EndsWith

\* The loop of a message is what its definition says at every field.
LEMMA MessageLoops ==
  ASSUME NEW Message, NEW fields, Codec(Message, fields), NEW bytes \in Bytes, Fits(bytes)
  PROVE  /\ Loops(AnyLoop(Message, fields, bytes), Message, fields, bytes)
         /\ UnmarshalVT(Message, fields, bytes)
              = AnyLoop(Message, fields, bytes)[<<NewMessage(fields), 1>>]
<1>1. ASSUME NEW m \in Message, NEW i \in Nat \ {0}, i <= Len(bytes) + 1
      PROVE  LoopIs(AnyLoop(Message, fields, bytes), <<m, i>>, bytes, AnyDecode(fields, m, bytes, i))
  <2> DEFINE s == <<m, i>>
  <2>1. s \in States(Message, bytes) /\ s[1] = m /\ s[2] = i
    BY <1>1, StatesAre
  <2> HIDE DEF s
  <2>2. LoopIs(AnyLoop(Message, fields, bytes), s, bytes,
               AnyDecode(fields, s[1], bytes, s[2]))
    BY <2>1, AnyDecodes
  <2> QED BY <2>1, <2>2 DEF s
<1>2. UnmarshalVT(Message, fields, bytes)
              = AnyLoop(Message, fields, bytes)[<<NewMessage(fields), 1>>]
  BY UnmarshalIs
<1> QED BY <1>1, <1>2 DEF Loops

\* A request of strings that fit, with fields of a later version.
Request(fields, r) ==
  /\ StringFields(fields) /\ r \in AllBytes(fields)
  /\ \A n \in DOMAIN fields : Fits(r[fields[n].name])
  /\ LaterFields(r.unknownFields)

\* f read front, which holds the fields up to k.
Covered(f, fields, r, bytes, k, front) ==
  /\ front \in Bytes /\ Stands(front, bytes, 1)
  /\ f[<<NewMessage(fields), 1>>] = f[<<Upto(fields, r, k), 1 + Len(front)>>]

\* Before the first field, nothing is read.
LEMMA NothingCovered ==
  ASSUME NEW f, NEW fields, NEW r, Request(fields, r), NEW bytes \in Bytes
  PROVE  Covered(f, fields, r, bytes, 0, <<>>)
<1>1. NewMessage(fields) = Upto(fields, r, 0)
  BY UptoIs DEF Request
<1>2. <<>> \in Bytes /\ Len(<<>>) = 0 /\ 1 + 0 = 1 /\ Len(bytes) \in Nat
  BY ZeroFits, BytesAre
<1>3. Stands(<<>>, bytes, 1)
  BY <1>2 DEF Stands
<1> QED BY <1>1, <1>2, <1>3 DEF Covered

\* With what stands before a field, the field is read.
LEMMA NextCovered ==
  ASSUME NEW f, NEW fields, NEW r, Request(fields, r), NEW bytes \in Bytes, Fits(bytes),
         Loops(f, AllBytes(fields), fields, bytes), NEW n \in DOMAIN fields,
         NEW front, Covered(f, fields, r, bytes, n - 1, front),
         NEW s, s = r[fields[n].name], NEW longer, longer = front \o StringField(n, s),
         Stands(longer, bytes, 1)
  PROVE  Covered(f, fields, r, bytes, n, longer)
<1> DEFINE M == AllBytes(fields)
           old == Upto(fields, r, n - 1)
           new == Upto(fields, r, n)
           i == 1 + Len(front)
           b == StringField(n, s)
<1>1. StringFields(fields) /\ r \in M /\ Fits(s)
  BY DEF Request
<1>2. n \in 1..15 /\ n \in 1..7 /\ n - 1 \in Int /\ fields[n].kind = "string"
      /\ fields[n].name \in Names(fields)
  BY <1>1 DEF StringFields, Names
<1>3. s \in Bytes
  BY <1>1, <1>2 DEF AllBytes
<1>4. b \in Bytes /\ Len(b) = StringSize(s)
  BY <1>1, <1>2, <1>3, StringFieldIs
<1>5. front \in Bytes /\ f[<<NewMessage(fields), 1>>] = f[<<old, i>>]
  BY DEF Covered
<1>6. old \in M /\ Sets(old, fields[n].name, s) = new /\ Sets(old, fields[n].name, <<>>) = old
  <2>1. /\ \A k \in Int : Upto(fields, r, k) \in M
        /\ \A k \in DOMAIN fields :
              /\ Sets(Upto(fields, r, k - 1), fields[k].name, r[fields[k].name]) = Upto(fields, r, k)
              /\ Sets(Upto(fields, r, k - 1), fields[k].name, <<>>) = Upto(fields, r, k - 1)
    BY <1>1, UptoIs
  <2> QED BY <1>2, <2>1
<1>7. longer \in Bytes /\ Len(longer) = Len(front) + Len(b) /\ Len(front) \in Nat /\ Len(b) \in Nat
  BY <1>4, <1>5, JoinIs
<1>8. Stands(b, bytes, i) /\ i \in Nat \ {0}
  BY <1>4, <1>5, <1>7, StandsJoin
<1>9. i <= Len(bytes) + 1
  <2>1. i + Len(b) <= Len(bytes) + 1 /\ Len(bytes) \in Nat
    <3> HIDE DEF i, b
    <3> QED BY <1>4, <1>8, NotEmpty, BytesAre
  <2> QED BY <1>7, <2>1
<1>10. \/ LoopIs(f, <<old, i>>, bytes, PlainDecode(fields, old, bytes, i))
       \/ LoopIs(f, <<old, i>>, bytes, AnyDecode(fields, old, bytes, i))
  <2> HIDE DEF i, old, M
  <2> QED BY <1>6, <1>8, <1>9 DEF Loops, M
<1>11. f[<<old, i>>] = f[<<Sets(old, fields[n].name, s), i + StringSize(s)>>]
  <2> HIDE DEF i, old, M
  <2>1. StringStands(fields, n, s, bytes, i, i + StringSize(s))
    BY <1>1, <1>2, <1>3, <1>8 DEF StringStands, b
  <2> QED BY <1>6, <1>10, <2>1, StringStep
<1>12. i + StringSize(s) = 1 + Len(longer)
  <2> HIDE DEF b
  <2> QED BY <1>4, <1>7
<1> HIDE DEF i, old, new
<1>13. f[<<NewMessage(fields), 1>>] = f[<<new, 1 + Len(longer)>>]
  BY <1>5, <1>6, <1>11, <1>12
<1> QED BY <1>7, <1>13 DEF Covered, new

\* With all fields, and what is unknown behind them, the message is read.
LEMMA AllCovered ==
  ASSUME NEW f, NEW fields, NEW r, Request(fields, r), NEW bytes \in Bytes, Fits(bytes),
         Loops(f, AllBytes(fields), fields, bytes), NEW n \in Nat, \A k \in DOMAIN fields : k <= n,
         NEW front, Covered(f, fields, r, bytes, n, front),
         EndsWith(r.unknownFields, bytes, Len(front))
  PROVE  f[<<NewMessage(fields), 1>>] = Read(r, Len(bytes) + 1)
<1> DEFINE M == AllBytes(fields)
           m == Upto(fields, r, n)
           ext == r.unknownFields
           p == Len(front)
<1>1. StringFields(fields) /\ r \in M /\ LaterFields(ext) /\ DOMAIN fields \subseteq 1..7
  BY DEF Request, StringFields
<1>2. ext \in Bytes
  BY <1>1 DEF AllBytes, Names
<1>3. Keeps(M, fields) /\ Functions(M)
  BY <1>1, StringCodec DEF Codec
<1>4. m \in M /\ Gains(m, ext) = r
  BY <1>1, UptoIs
<1>5. front \in Bytes /\ f[<<NewMessage(fields), 1>>] = f[<<m, 1 + p>>]
  BY DEF Covered
<1>6. EndsWith(ext, bytes, p) /\ p \in Nat /\ 1 + p = p + 1
  <2> HIDE DEF ext
  <2> QED BY <1>2, <1>5, BytesAre DEF ext
<1>7. f[<<m, p + 1>>] = Read(Gains(m, ext), Len(bytes) + 1)
  <2> HIDE DEF m, M, ext, p
  <2> DEFINE at == p + 1
  <2>1. LaterRest(f, M, fields, ext, bytes, at)
    BY <1>1, <1>2, <1>3, <1>6 DEF LaterRest, M
  <2> HIDE DEF at
  <2>2. f[<<m, at>>] = Read(Gains(m, ext), Len(bytes) + 1)
    BY <1>4, <2>1, LaterRead
  <2> QED BY <2>2 DEF at
<1> QED BY <1>4, <1>5, <1>6, <1>7

\* The bytes of a message whose fields up to k are front, read by its own loop.
Written(fields, r, bytes, front) ==
  /\ Request(fields, r) /\ bytes \in Bytes /\ Fits(bytes) /\ front \in Bytes
  /\ Stands(front, bytes, 1) /\ EndsWith(r.unknownFields, bytes, Len(front))

Loop(fields, bytes) == AnyLoop(AllBytes(fields), fields, bytes)

\* The loop runs over what was written.
LEMMA LoopRuns ==
  ASSUME NEW fields, NEW r, NEW bytes, NEW front, Written(fields, r, bytes, front)
  PROVE  /\ Loops(Loop(fields, bytes), AllBytes(fields), fields, bytes)
         /\ UnmarshalVT(AllBytes(fields), fields, bytes)
              = Loop(fields, bytes)[<<NewMessage(fields), 1>>]
<1>1. StringFields(fields) /\ bytes \in Bytes /\ Fits(bytes)
  BY DEF Written, Request
<1>2. Codec(AllBytes(fields), fields)
  BY <1>1, StringCodec
<1> QED BY <1>1, <1>2, MessageLoops DEF Loop

\* A field that is written is bytes.
LEMMA FieldWritten ==
  ASSUME NEW fields, NEW r, Request(fields, r), NEW n \in DOMAIN fields
  PROVE  StringField(n, r[fields[n].name]) \in Bytes
<1>1. StringFields(fields) /\ r \in AllBytes(fields) /\ Fits(r[fields[n].name])
  BY DEF Request
<1>2. n \in 1..15 /\ r[fields[n].name] \in Bytes
  BY <1>1 DEF StringFields, AllBytes, Names
<1> QED BY <1>1, <1>2, StringFieldIs

\* Field n is read after front.
LEMMA FieldCovered ==
  ASSUME NEW fields, NEW r, NEW bytes, NEW whole, Written(fields, r, bytes, whole),
         NEW n \in DOMAIN fields, NEW front,
         Covered(Loop(fields, bytes), fields, r, bytes, n - 1, front),
         Stands(front \o StringField(n, r[fields[n].name]), bytes, 1)
  PROVE  Covered(Loop(fields, bytes), fields, r, bytes, n, front \o StringField(n, r[fields[n].name]))
<1> DEFINE f == Loop(fields, bytes)
           s == r[fields[n].name]
           longer == front \o StringField(n, s)
<1>1. Request(fields, r) /\ bytes \in Bytes /\ Fits(bytes)
  BY DEF Written
<1>2. Loops(f, AllBytes(fields), fields, bytes)
  BY LoopRuns
<1>3. s = r[fields[n].name] /\ longer = front \o StringField(n, s)
  OBVIOUS
<1> HIDE DEF f, s, longer
<1>4. Covered(f, fields, r, bytes, n - 1, front) /\ Stands(longer, bytes, 1)
  BY <1>3 DEF f
<1>5. Covered(f, fields, r, bytes, n, longer)
  BY <1>1, <1>2, <1>3, <1>4, NextCovered
<1> QED BY <1>5 DEF f, s, longer

\* What was written is read, once all of its fields are.
LEMMA WrittenRead ==
  ASSUME NEW fields, NEW r, NEW bytes, NEW front, Written(fields, r, bytes, front),
         NEW n \in Nat, \A k \in DOMAIN fields : k <= n,
         Covered(Loop(fields, bytes), fields, r, bytes, n, front)
  PROVE  UnmarshalVT(AllBytes(fields), fields, bytes) = Read(r, Len(bytes) + 1)
<1> DEFINE f == Loop(fields, bytes)
<1>1. Request(fields, r) /\ bytes \in Bytes /\ Fits(bytes)
      /\ EndsWith(r.unknownFields, bytes, Len(front))
  BY DEF Written
<1>2. Loops(f, AllBytes(fields), fields, bytes)
      /\ UnmarshalVT(AllBytes(fields), fields, bytes) = f[<<NewMessage(fields), 1>>]
  BY LoopRuns
<1> HIDE DEF f
<1>3. Covered(f, fields, r, bytes, n, front)
  BY DEF f
<1>4. f[<<NewMessage(fields), 1>>] = Read(r, Len(bytes) + 1)
  BY <1>1, <1>2, <1>3, AllCovered
<1> QED BY <1>2, <1>4

\* The first field is read.
LEMMA StartCovered ==
  ASSUME NEW fields, NEW r, NEW bytes, NEW whole, Written(fields, r, bytes, whole),
         1 \in DOMAIN fields, NEW a, a = StringField(1, r[fields[1].name]), Stands(a, bytes, 1)
  PROVE  Covered(Loop(fields, bytes), fields, r, bytes, 1, a)
<1>1. Request(fields, r) /\ bytes \in Bytes
  BY DEF Written
<1>2. Covered(Loop(fields, bytes), fields, r, bytes, 0, <<>>)
  BY <1>1, NothingCovered
<1>3. a \in Bytes
  BY <1>1, FieldWritten
<1>4. <<>> \o a = a
  <2> DEFINE Byte == 0..255
  <2>1. a \in Seq(Byte)
    BY <1>3 DEF Bytes
  <2> HIDE DEF Byte
  <2> QED BY <2>1
<1>5. Stands(<<>> \o a, bytes, 1) /\ 1 - 1 = 0
  BY <1>4
<1>6. Covered(Loop(fields, bytes), fields, r, bytes, 1 - 1, <<>>)
  BY <1>2, <1>5
<1>7. Covered(Loop(fields, bytes), fields, r, bytes, 1, <<>> \o a)
  BY <1>5, <1>6, FieldCovered
<1> QED BY <1>4, <1>7

\* Messages of one, two and four strings.
LEMMA OneRead ==
  ASSUME NEW fields, DOMAIN fields = 1..1, NEW r, NEW bytes, NEW a,
         a = StringField(1, r[fields[1].name]), Written(fields, r, bytes, a)
  PROVE  UnmarshalVT(AllBytes(fields), fields, bytes) = Read(r, Len(bytes) + 1)
<1>1. 1 \in DOMAIN fields /\ Stands(a, bytes, 1) /\ 1 \in Nat /\ \A k \in DOMAIN fields : k <= 1
  BY DEF Written
<1>2. Covered(Loop(fields, bytes), fields, r, bytes, 1, a)
  BY <1>1, StartCovered
<1> QED BY <1>1, <1>2, WrittenRead

\* UnmarshalVT reads back both strings of a message of two, and its later fields
\* (publisher_vtproto.pb.go: UnPublishRequest, GetPublishStatusRequest).
LEMMA TwoRead ==
  ASSUME NEW fields, DOMAIN fields = 1..2, NEW r, NEW bytes, NEW a, NEW b,
         a = StringField(1, r[fields[1].name]), b = StringField(2, r[fields[2].name]),
         Written(fields, r, bytes, a \o b)
  PROVE  UnmarshalVT(AllBytes(fields), fields, bytes) = Read(r, Len(bytes) + 1)
<1>1. 1 \in DOMAIN fields /\ 2 \in DOMAIN fields /\ \A k \in DOMAIN fields : k <= 2
  OBVIOUS
<1>2. Request(fields, r) /\ bytes \in Bytes /\ Stands(a \o b, bytes, 1)
  BY DEF Written
<1>3. a \in Bytes /\ b \in Bytes
  BY <1>1, <1>2, FieldWritten
<1>4. Stands(a, bytes, 1)
  BY <1>2, <1>3, StandsJoin
<1>5. Covered(Loop(fields, bytes), fields, r, bytes, 2 - 1, a)
  BY <1>1, <1>4, StartCovered
<1>6. Covered(Loop(fields, bytes), fields, r, bytes, 2, a \o b)
  BY <1>1, <1>2, <1>5, FieldCovered
<1> QED BY <1>1, <1>6, WrittenRead

\* UnmarshalVT reads back the four strings of a PublishRequest, and its later fields
\* (publisher_vtproto.pb.go: PublishRequest).
LEMMA FourRead ==
  ASSUME NEW fields, DOMAIN fields = 1..4, NEW r, NEW bytes, NEW a, NEW b, NEW c, NEW d,
         a = StringField(1, r[fields[1].name]), b = StringField(2, r[fields[2].name]),
         c = StringField(3, r[fields[3].name]), d = StringField(4, r[fields[4].name]),
         Written(fields, r, bytes, ((a \o b) \o c) \o d)
  PROVE  UnmarshalVT(AllBytes(fields), fields, bytes) = Read(r, Len(bytes) + 1)
<1>1. 1 \in DOMAIN fields /\ 2 \in DOMAIN fields /\ 3 \in DOMAIN fields /\ 4 \in DOMAIN fields
      /\ \A k \in DOMAIN fields : k <= 4
  OBVIOUS
<1>2. Request(fields, r) /\ bytes \in Bytes /\ Stands(((a \o b) \o c) \o d, bytes, 1)
  BY DEF Written
<1>3. a \in Bytes /\ b \in Bytes /\ c \in Bytes /\ d \in Bytes
  BY <1>1, <1>2, FieldWritten
<1>4. a \o b \in Bytes /\ (a \o b) \o c \in Bytes
  BY <1>3, JoinIs
<1>5. Stands((a \o b) \o c, bytes, 1)
  BY <1>2, <1>3, <1>4, StandsJoin
<1>6. Stands(a \o b, bytes, 1)
  BY <1>2, <1>3, <1>4, <1>5, StandsJoin
<1>7. Stands(a, bytes, 1)
  BY <1>2, <1>3, <1>6, StandsJoin
<1>8. Covered(Loop(fields, bytes), fields, r, bytes, 2 - 1, a)
  BY <1>1, <1>7, StartCovered
<1>9. Covered(Loop(fields, bytes), fields, r, bytes, 3 - 1, a \o b)
  BY <1>1, <1>6, <1>8, FieldCovered
<1>10. Covered(Loop(fields, bytes), fields, r, bytes, 4 - 1, (a \o b) \o c)
  <2>1. Covered(Loop(fields, bytes), fields, r, bytes, 3, (a \o b) \o c)
    BY <1>1, <1>5, <1>9, FieldCovered
  <2>2. 4 - 1 = 3
    OBVIOUS
  <2> QED BY <2>1, <2>2
<1>11. Covered(Loop(fields, bytes), fields, r, bytes, 4, ((a \o b) \o c) \o d)
  BY <1>1, <1>2, <1>10, FieldCovered
<1> QED BY <1>1, <1>11, WrittenRead

--------------------------------------------------------------------------------
(* Requests *)

\* A request and its unknown fields are what was written.
LEMMA WrittenIs ==
  ASSUME NEW fields, NEW r, Request(fields, r), NEW front \in Bytes, NEW bytes,
         bytes = front \o r.unknownFields, Fits(bytes)
  PROVE  Written(fields, r, bytes, front)
<1> DEFINE ext == r.unknownFields
<1>1. ext \in Bytes
  BY DEF Request, AllBytes, Names
<1>2. bytes = front \o ext
  OBVIOUS
<1> HIDE DEF ext
<1>3. bytes \in Bytes
  BY <1>1, <1>2, JoinIs
<1>4. EndsWith(ext, bytes, Len(front))
  BY <1>1, <1>2, JoinEnds
<1>5. Stands(front, bytes, 1)
  <2>1. Stands(front \o ext, bytes, 1)
    BY <1>2, <1>3, StandsWhole
  <2> QED BY <1>1, <1>3, <2>1, StandsJoin
<1> QED BY <1>3, <1>4, <1>5 DEF Written, ext

\* MarshalVT does not panic if SizeVT is the size of what it writes.
LEMMA MarshalIs ==
  ASSUME NEW bytes \in Bytes, NEW size, size = Len(bytes)
  PROVE  MarshalVT(size, bytes) = Read(bytes, 0)
<1> DEFINE Byte == 0..255
           n == Len(bytes)
           zeros == [k \in 1..0 |-> 0]
<1>1. bytes \in Seq(Byte) /\ n \in Nat /\ size - n = 0
  BY BytesAre DEF Bytes
<1>2. zeros = <<>>
  OBVIOUS
<1>3. MarshalVT(size, bytes) = Read(SubSeq(zeros \o bytes, 1, n), 0)
  BY <1>1 DEF MarshalVT
<1> HIDE DEF Byte, zeros
<1>4. <<>> \o bytes = bytes /\ SubSeq(bytes, 1, Len(bytes)) = bytes
  BY <1>1
<1> QED BY <1>2, <1>3, <1>4

\* A ResolveUriRequest is marshalled within its buffer and decodes to itself.
LEMMA ResolveUriRequestIs ==
  ASSUME NEW r \in ResolveUriRequest, Fits(r.uri),
         LaterFields(r.unknownFields), NEW bytes, bytes = MarshalResolveUriRequest(r)
  PROVE  /\ MarshalVT(SizeResolveUriRequest(r), bytes) = Read(bytes, 0)
         /\ Fits(bytes) => UnmarshalResolveUriRequest(bytes) = Read(r, Len(bytes) + 1)
<1> DEFINE F == <<StringOf("uri")>>
           a == StringField(1, r.uri)
<1>1. /\ DOMAIN F = 1..1
      /\ F[1].name = "uri" /\ F[1].kind = "string"
  BY DEF StringOf
<1>2. UnmarshalResolveUriRequest(bytes) = UnmarshalVT(ResolveUriRequest, F, bytes)
  BY DEF UnmarshalResolveUriRequest
<1>3. bytes = a \o r.unknownFields
      /\ SizeResolveUriRequest(r) = StringSize(r.uri) + Len(r.unknownFields)
  BY DEF MarshalResolveUriRequest, SizeResolveUriRequest
<1> HIDE DEF F, a
<1>4. \A n \in 1..1 : n = 1
  OBVIOUS
<1>5. Names(F) = {"uri", "unknownFields"}
  BY <1>1, <1>4 DEF Names
<1>6. AllBytes(F) = ResolveUriRequest
  BY <1>5 DEF AllBytes, ResolveUriRequest
<1>7. StringFields(F)
  BY <1>1, <1>4 DEF StringFields
<1>8. Request(F, r)
  BY <1>1, <1>4, <1>6, <1>7 DEF Request
<1>9. /\ r.unknownFields \in Bytes
      /\ a \in Bytes /\ Len(a) = StringSize(r.uri)
  BY StringFieldIs DEF a, ResolveUriRequest
<1>10. a \in Bytes /\ Len(a) = StringSize(r.uri)
  BY <1>9
<1>11. MarshalVT(SizeResolveUriRequest(r), bytes) = Read(bytes, 0)
  <2>1. bytes \in Bytes /\ Len(bytes) = StringSize(r.uri) + Len(r.unknownFields)
    <3>1. bytes \in Bytes /\ Len(bytes) = Len(a) + Len(r.unknownFields)
      <4>1. a \in Bytes /\ r.unknownFields \in Bytes
        BY <1>9, <1>10
      <4> QED BY <1>3, <4>1, JoinIs
    <3> QED BY <1>10, <3>1
  <2> QED BY <1>3, <2>1, MarshalIs
<1>12. ASSUME Fits(bytes) PROVE UnmarshalResolveUriRequest(bytes) = Read(r, Len(bytes) + 1)
  <2>1. Written(F, r, bytes, a)
    BY <1>3, <1>8, <1>10, <1>12, WrittenIs
  <2>2. /\ a = StringField(1, r[F[1].name])
    BY <1>1 DEF a
  <2>3. UnmarshalVT(AllBytes(F), F, bytes) = Read(r, Len(bytes) + 1)
    BY <1>1, <2>1, <2>2, OneRead
  <2> QED BY <1>2, <1>6, <2>3
<1> QED BY <1>11, <1>12

\* So is a ListPublishesRequest.
LEMMA ListPublishesRequestIs ==
  ASSUME NEW r \in ListPublishesRequest, Fits(r.spaceId),
         LaterFields(r.unknownFields), NEW bytes, bytes = MarshalListPublishesRequest(r)
  PROVE  /\ MarshalVT(SizeListPublishesRequest(r), bytes) = Read(bytes, 0)
         /\ Fits(bytes) => UnmarshalListPublishesRequest(bytes) = Read(r, Len(bytes) + 1)
<1> DEFINE F == <<StringOf("spaceId")>>
           a == StringField(1, r.spaceId)
<1>1. /\ DOMAIN F = 1..1
      /\ F[1].name = "spaceId" /\ F[1].kind = "string"
  BY DEF StringOf
<1>2. UnmarshalListPublishesRequest(bytes) = UnmarshalVT(ListPublishesRequest, F, bytes)
  BY DEF UnmarshalListPublishesRequest
<1>3. bytes = a \o r.unknownFields
      /\ SizeListPublishesRequest(r) = StringSize(r.spaceId) + Len(r.unknownFields)
  BY DEF MarshalListPublishesRequest, SizeListPublishesRequest
<1> HIDE DEF F, a
<1>4. \A n \in 1..1 : n = 1
  OBVIOUS
<1>5. Names(F) = {"spaceId", "unknownFields"}
  BY <1>1, <1>4 DEF Names
<1>6. AllBytes(F) = ListPublishesRequest
  BY <1>5 DEF AllBytes, ListPublishesRequest
<1>7. StringFields(F)
  BY <1>1, <1>4 DEF StringFields
<1>8. Request(F, r)
  BY <1>1, <1>4, <1>6, <1>7 DEF Request
<1>9. /\ r.unknownFields \in Bytes
      /\ a \in Bytes /\ Len(a) = StringSize(r.spaceId)
  BY StringFieldIs DEF a, ListPublishesRequest
<1>10. a \in Bytes /\ Len(a) = StringSize(r.spaceId)
  BY <1>9
<1>11. MarshalVT(SizeListPublishesRequest(r), bytes) = Read(bytes, 0)
  <2>1. bytes \in Bytes /\ Len(bytes) = StringSize(r.spaceId) + Len(r.unknownFields)
    <3>1. bytes \in Bytes /\ Len(bytes) = Len(a) + Len(r.unknownFields)
      <4>1. a \in Bytes /\ r.unknownFields \in Bytes
        BY <1>9, <1>10
      <4> QED BY <1>3, <4>1, JoinIs
    <3> QED BY <1>10, <3>1
  <2> QED BY <1>3, <2>1, MarshalIs
<1>12. ASSUME Fits(bytes) PROVE UnmarshalListPublishesRequest(bytes) = Read(r, Len(bytes) + 1)
  <2>1. Written(F, r, bytes, a)
    BY <1>3, <1>8, <1>10, <1>12, WrittenIs
  <2>2. /\ a = StringField(1, r[F[1].name])
    BY <1>1 DEF a
  <2>3. UnmarshalVT(AllBytes(F), F, bytes) = Read(r, Len(bytes) + 1)
    BY <1>1, <2>1, <2>2, OneRead
  <2> QED BY <1>2, <1>6, <2>3
<1> QED BY <1>11, <1>12

\* So is a GetPublishStatusRequest.
LEMMA GetPublishStatusRequestIs ==
  ASSUME NEW r \in GetPublishStatusRequest, Fits(r.spaceId), Fits(r.objectId),
         LaterFields(r.unknownFields), NEW bytes, bytes = MarshalGetPublishStatusRequest(r)
  PROVE  /\ MarshalVT(SizeGetPublishStatusRequest(r), bytes) = Read(bytes, 0)
         /\ Fits(bytes) => UnmarshalGetPublishStatusRequest(bytes) = Read(r, Len(bytes) + 1)
<1> DEFINE F == <<StringOf("spaceId"), StringOf("objectId")>>
           a == StringField(1, r.spaceId)
           b == StringField(2, r.objectId)
           front == a \o b
<1>1. /\ DOMAIN F = 1..2
      /\ F[1].name = "spaceId" /\ F[1].kind = "string"
      /\ F[2].name = "objectId" /\ F[2].kind = "string"
  BY DEF StringOf
<1>2. UnmarshalGetPublishStatusRequest(bytes) = UnmarshalVT(GetPublishStatusRequest, F, bytes)
  BY DEF UnmarshalGetPublishStatusRequest
<1>3. bytes = front \o r.unknownFields
      /\ SizeGetPublishStatusRequest(r) = StringSize(r.spaceId) + StringSize(r.objectId) + Len(r.unknownFields)
  BY DEF MarshalGetPublishStatusRequest, SizeGetPublishStatusRequest
<1> HIDE DEF F, a, b, front
<1>4. \A n \in 1..2 : n = 1 \/ n = 2
  OBVIOUS
<1>5. Names(F) = {"spaceId", "objectId", "unknownFields"}
  BY <1>1, <1>4 DEF Names
<1>6. AllBytes(F) = GetPublishStatusRequest
  BY <1>5 DEF AllBytes, GetPublishStatusRequest
<1>7. StringFields(F)
  BY <1>1, <1>4 DEF StringFields
<1>8. Request(F, r)
  BY <1>1, <1>4, <1>6, <1>7 DEF Request
<1>9. /\ r.unknownFields \in Bytes
      /\ a \in Bytes /\ Len(a) = StringSize(r.spaceId)
      /\ b \in Bytes /\ Len(b) = StringSize(r.objectId)
  BY StringFieldIs DEF a, b, GetPublishStatusRequest
<1>10. front \in Bytes /\ Len(front) = StringSize(r.spaceId) + StringSize(r.objectId)
  <2>1. a \o b \in Bytes /\ Len(a \o b) = Len(a) + Len(b)
    BY <1>9, JoinIs
  <2> QED BY <1>9, <2>1 DEF front
<1>11. MarshalVT(SizeGetPublishStatusRequest(r), bytes) = Read(bytes, 0)
  <2>1. bytes \in Bytes /\ Len(bytes) = StringSize(r.spaceId) + StringSize(r.objectId) + Len(r.unknownFields)
    <3>1. bytes \in Bytes /\ Len(bytes) = Len(front) + Len(r.unknownFields)
      <4>1. front \in Bytes /\ r.unknownFields \in Bytes
        BY <1>9, <1>10
      <4> QED BY <1>3, <4>1, JoinIs
    <3> QED BY <1>10, <3>1
  <2> QED BY <1>3, <2>1, MarshalIs
<1>12. ASSUME Fits(bytes) PROVE UnmarshalGetPublishStatusRequest(bytes) = Read(r, Len(bytes) + 1)
  <2>1. Written(F, r, bytes, front)
    BY <1>3, <1>8, <1>10, <1>12, WrittenIs
  <2>2. /\ a = StringField(1, r[F[1].name])
        /\ b = StringField(2, r[F[2].name])
    BY <1>1 DEF a, b
  <2>3. UnmarshalVT(AllBytes(F), F, bytes) = Read(r, Len(bytes) + 1)
    BY <1>1, <2>1, <2>2, TwoRead DEF front
  <2> QED BY <1>2, <1>6, <2>3
<1> QED BY <1>11, <1>12

\* So is an UnPublishRequest.
LEMMA UnPublishRequestIs ==
  ASSUME NEW r \in UnPublishRequest, Fits(r.spaceId), Fits(r.objectId),
         LaterFields(r.unknownFields), NEW bytes, bytes = MarshalUnPublishRequest(r)
  PROVE  /\ MarshalVT(SizeUnPublishRequest(r), bytes) = Read(bytes, 0)
         /\ Fits(bytes) => UnmarshalUnPublishRequest(bytes) = Read(r, Len(bytes) + 1)
<1> DEFINE F == <<StringOf("spaceId"), StringOf("objectId")>>
           a == StringField(1, r.spaceId)
           b == StringField(2, r.objectId)
           front == a \o b
<1>1. /\ DOMAIN F = 1..2
      /\ F[1].name = "spaceId" /\ F[1].kind = "string"
      /\ F[2].name = "objectId" /\ F[2].kind = "string"
  BY DEF StringOf
<1>2. UnmarshalUnPublishRequest(bytes) = UnmarshalVT(UnPublishRequest, F, bytes)
  BY DEF UnmarshalUnPublishRequest
<1>3. bytes = front \o r.unknownFields
      /\ SizeUnPublishRequest(r) = StringSize(r.spaceId) + StringSize(r.objectId) + Len(r.unknownFields)
  BY DEF MarshalUnPublishRequest, SizeUnPublishRequest
<1> HIDE DEF F, a, b, front
<1>4. \A n \in 1..2 : n = 1 \/ n = 2
  OBVIOUS
<1>5. Names(F) = {"spaceId", "objectId", "unknownFields"}
  BY <1>1, <1>4 DEF Names
<1>6. AllBytes(F) = UnPublishRequest
  BY <1>5 DEF AllBytes, UnPublishRequest
<1>7. StringFields(F)
  BY <1>1, <1>4 DEF StringFields
<1>8. Request(F, r)
  BY <1>1, <1>4, <1>6, <1>7 DEF Request
<1>9. /\ r.unknownFields \in Bytes
      /\ a \in Bytes /\ Len(a) = StringSize(r.spaceId)
      /\ b \in Bytes /\ Len(b) = StringSize(r.objectId)
  BY StringFieldIs DEF a, b, UnPublishRequest
<1>10. front \in Bytes /\ Len(front) = StringSize(r.spaceId) + StringSize(r.objectId)
  <2>1. a \o b \in Bytes /\ Len(a \o b) = Len(a) + Len(b)
    BY <1>9, JoinIs
  <2> QED BY <1>9, <2>1 DEF front
<1>11. MarshalVT(SizeUnPublishRequest(r), bytes) = Read(bytes, 0)
  <2>1. bytes \in Bytes /\ Len(bytes) = StringSize(r.spaceId) + StringSize(r.objectId) + Len(r.unknownFields)
    <3>1. bytes \in Bytes /\ Len(bytes) = Len(front) + Len(r.unknownFields)
      <4>1. front \in Bytes /\ r.unknownFields \in Bytes
        BY <1>9, <1>10
      <4> QED BY <1>3, <4>1, JoinIs
    <3> QED BY <1>10, <3>1
  <2> QED BY <1>3, <2>1, MarshalIs
<1>12. ASSUME Fits(bytes) PROVE UnmarshalUnPublishRequest(bytes) = Read(r, Len(bytes) + 1)
  <2>1. Written(F, r, bytes, front)
    BY <1>3, <1>8, <1>10, <1>12, WrittenIs
  <2>2. /\ a = StringField(1, r[F[1].name])
        /\ b = StringField(2, r[F[2].name])
    BY <1>1 DEF a, b
  <2>3. UnmarshalVT(AllBytes(F), F, bytes) = Read(r, Len(bytes) + 1)
    BY <1>1, <2>1, <2>2, TwoRead DEF front
  <2> QED BY <1>2, <1>6, <2>3
<1> QED BY <1>11, <1>12

\* So is a PublishRequest.
LEMMA PublishRequestIs ==
  ASSUME NEW r \in PublishRequest, Fits(r.spaceId), Fits(r.objectId), Fits(r.uri), Fits(r.version),
         LaterFields(r.unknownFields), NEW bytes, bytes = MarshalPublishRequest(r)
  PROVE  /\ MarshalVT(SizePublishRequest(r), bytes) = Read(bytes, 0)
         /\ Fits(bytes) => UnmarshalPublishRequest(bytes) = Read(r, Len(bytes) + 1)
<1> DEFINE F == <<StringOf("spaceId"), StringOf("objectId"), StringOf("uri"), StringOf("version")>>
           a == StringField(1, r.spaceId)
           b == StringField(2, r.objectId)
           c == StringField(3, r.uri)
           d == StringField(4, r.version)
           front == ((a \o b) \o c) \o d
<1>1. /\ DOMAIN F = 1..4
      /\ F[1].name = "spaceId" /\ F[1].kind = "string"
      /\ F[2].name = "objectId" /\ F[2].kind = "string"
      /\ F[3].name = "uri" /\ F[3].kind = "string"
      /\ F[4].name = "version" /\ F[4].kind = "string"
  BY DEF StringOf
<1>2. UnmarshalPublishRequest(bytes) = UnmarshalVT(PublishRequest, F, bytes)
  BY DEF UnmarshalPublishRequest
<1>3. bytes = front \o r.unknownFields
      /\ SizePublishRequest(r) = StringSize(r.spaceId) + StringSize(r.objectId) + StringSize(r.uri) + StringSize(r.version) + Len(r.unknownFields)
  BY DEF MarshalPublishRequest, SizePublishRequest
<1> HIDE DEF F, a, b, c, d, front
<1>4. \A n \in 1..4 : n = 1 \/ n = 2 \/ n = 3 \/ n = 4
  OBVIOUS
<1>5. Names(F) = {"spaceId", "objectId", "uri", "version", "unknownFields"}
  BY <1>1, <1>4 DEF Names
<1>6. AllBytes(F) = PublishRequest
  BY <1>5 DEF AllBytes, PublishRequest
<1>7. StringFields(F)
  BY <1>1, <1>4 DEF StringFields
<1>8. Request(F, r)
  BY <1>1, <1>4, <1>6, <1>7 DEF Request
<1>9. /\ r.unknownFields \in Bytes
      /\ a \in Bytes /\ Len(a) = StringSize(r.spaceId)
      /\ b \in Bytes /\ Len(b) = StringSize(r.objectId)
      /\ c \in Bytes /\ Len(c) = StringSize(r.uri)
      /\ d \in Bytes /\ Len(d) = StringSize(r.version)
  BY StringFieldIs DEF a, b, c, d, PublishRequest
<1>10. front \in Bytes /\ Len(front) = StringSize(r.spaceId) + StringSize(r.objectId) + StringSize(r.uri) + StringSize(r.version)
  <2>1. a \o b \in Bytes /\ Len(a \o b) = Len(a) + Len(b)
    BY <1>9, JoinIs
  <2>2. (a \o b) \o c \in Bytes /\ Len((a \o b) \o c) = Len(a \o b) + Len(c)
    BY <1>9, <2>1, JoinIs
  <2>3. ((a \o b) \o c) \o d \in Bytes
        /\ Len(((a \o b) \o c) \o d) = Len((a \o b) \o c) + Len(d)
    BY <1>9, <2>2, JoinIs
  <2> QED BY <1>9, <2>1, <2>2, <2>3 DEF front
<1>11. MarshalVT(SizePublishRequest(r), bytes) = Read(bytes, 0)
  <2>1. bytes \in Bytes /\ Len(bytes) = StringSize(r.spaceId) + StringSize(r.objectId) + StringSize(r.uri) + StringSize(r.version) + Len(r.unknownFields)
    <3>1. bytes \in Bytes /\ Len(bytes) = Len(front) + Len(r.unknownFields)
      <4>1. front \in Bytes /\ r.unknownFields \in Bytes
        BY <1>9, <1>10
      <4> QED BY <1>3, <4>1, JoinIs
    <3> QED BY <1>10, <3>1
  <2> QED BY <1>3, <2>1, MarshalIs
<1>12. ASSUME Fits(bytes) PROVE UnmarshalPublishRequest(bytes) = Read(r, Len(bytes) + 1)
  <2>1. Written(F, r, bytes, front)
    BY <1>3, <1>8, <1>10, <1>12, WrittenIs
  <2>2. /\ a = StringField(1, r[F[1].name])
        /\ b = StringField(2, r[F[2].name])
        /\ c = StringField(3, r[F[3].name])
        /\ d = StringField(4, r[F[4].name])
    BY <1>1 DEF a, b, c, d
  <2>3. UnmarshalVT(AllBytes(F), F, bytes) = Read(r, Len(bytes) + 1)
    BY <1>1, <2>1, <2>2, FourRead DEF front
  <2> QED BY <1>2, <1>6, <2>3
<1> QED BY <1>11, <1>12

--------------------------------------------------------------------------------
(* Numbers *)

\* A power of two is a multiple of every smaller one.
LEMMA PowerDivides ==
  ASSUME NEW a \in Nat, NEW b \in Nat, a <= b
  PROVE  \E q \in Nat \ {0} : Pow2[b] = q * Pow2[a]
<1> DEFINE T == {d \in Nat : \E q \in Nat \ {0} : Pow2[a + d] = q * Pow2[a]}
<1>1. 0 \in T
  <2>1. Pow2[a + 0] = 1 * Pow2[a]
    BY PowersGrow, Pow2Unfolds
  <2> QED BY <2>1
<1>2. ASSUME NEW d \in Nat, d \in T PROVE d + 1 \in T
  <2>1. PICK q \in Nat \ {0} : Pow2[a + d] = q * Pow2[a]
    BY <1>2
  <2>2. a + d \in Nat /\ a + (d + 1) = (a + d) + 1 /\ Pow2[a] \in Nat
    BY Pow2Unfolds
  <2>3. Pow2[(a + d) + 1] = 2 * Pow2[a + d]
    BY <2>2, Pow2Unfolds
  <2> DEFINE x == Pow2[a]
  <2> HIDE DEF x
  <2>4. 2 * (q * x) = (2 * q) * x
    BY <2>2 DEF x
  <2>5. Pow2[a + (d + 1)] = (2 * q) * Pow2[a]
    BY <2>1, <2>2, <2>3, <2>4 DEF x
  <2> QED BY <2>5
<1>3. Nat \subseteq T
  <2> HIDE DEF T
  <2> QED BY <1>1, <1>2, Induction
<1>4. b - a \in Nat /\ a + (b - a) = b
  OBVIOUS
<1>5. b - a \in T
  BY <1>3, <1>4
<1> QED BY <1>4, <1>5

\* The remainder of a remainder is that of the number, if one divisor divides the
\* other.
LEMMA Remainders ==
  \A d \in Nat \ {0} : \A y \in 0..(d - 1) : y % d = y /\ \A q \in Int : (q * d + y) % d = y
<1>1. ASSUME NEW d \in Nat \ {0}, NEW y \in 0..(d - 1) PROVE y % d = y
  BY Remainder
<1>2. ASSUME NEW d \in Nat \ {0}, NEW y \in 0..(d - 1), NEW q \in Int
      PROVE  (q * d + y) % d = y
  BY Quotient
<1> QED BY <1>1, <1>2

\* What a number is in a wider word, and back.
WiderWord(half, word, q, wide, x) ==
  /\ half \in Nat \ {0} /\ word = 2 * half /\ q \in Nat \ {0} /\ wide = q * word
  /\ x \in -half..(half - 1)

\* A number with a sign, widened to a word, keeps its remainder by its own width.
LEMMA Widening ==
  ASSUME NEW half, NEW word, NEW q, NEW wide, NEW x, WiderWord(half, word, q, wide, x)
  PROVE  /\ x % wide \in 0..(wide - 1)
         /\ (x % wide) % word = IF x >= 0 THEN x ELSE x + word
<1> SUFFICES ASSUME half \in Nat \ {0}, word = 2 * half, q \in Nat \ {0}, wide = q * word,
                    x \in -half..(half - 1)
             PROVE  /\ x % wide \in 0..(wide - 1)
                    /\ (x % wide) % word = IF x >= 0 THEN x ELSE x + word
  BY DEF WiderWord
<1>1. word \in Nat \ {0} /\ wide \in Nat \ {0} /\ wide >= word
  <2>1. word \in Nat \ {0}
    OBVIOUS
  <2>2. q * word \in Nat /\ q * word >= word
    <3>1. PICK p \in Nat : q = p + 1
      <4>1. q - 1 \in Nat /\ q = (q - 1) + 1
        OBVIOUS
      <4> QED BY <4>1
    <3>2. q * word = p * word + word /\ p * word \in Nat
      BY <2>1, <3>1
    <3> QED BY <2>1, <3>2
  <2> QED BY <2>1, <2>2
<1>2. CASE x >= 0
  <2>1. x \in 0..(wide - 1) /\ x \in 0..(word - 1)
    BY <1>1, <1>2
  <2>2. x % wide = x /\ x % word = x
    BY <1>1, <2>1, Remainders
  <2> QED BY <1>2, <2>1, <2>2
<1>3. CASE ~(x >= 0)
  <2>1. x + wide \in 0..(wide - 1) /\ (-1) * wide + (x + wide) = x
    BY <1>1, <1>3
  <2>2. x % wide = x + wide
    <3> DEFINE y == x + wide
    <3>1. -1 \in Int /\ y \in 0..(wide - 1) /\ (-1) * wide + y = x
      BY <2>1
    <3> HIDE DEF y
    <3>2. ((-1) * wide + y) % wide = y
      BY <1>1, <3>1, Remainders
    <3> QED BY <3>1, <3>2 DEF y
  <2>3. x + word \in 0..(word - 1) /\ q - 1 \in Int
    BY <1>1, <1>3
  <2>4. (q - 1) * word + (x + word) = x + wide
    <3>1. (q - 1) * word = q * word - word
      BY <1>1
    <3> QED BY <1>1, <3>1
  <2>5. ((q - 1) * word + (x + word)) % word = x + word
    BY <1>1, <2>3, Remainders
  <2> QED BY <1>3, <2>1, <2>2, <2>4, <2>5
<1> QED BY <1>2, <1>3

\* A number of either width travels as a word and comes back.
LEMMA SignedBack ==
  ASSUME NEW bits \in {SmallBits, IntBits}, NEW x \in -Pow2[bits - 1]..(Pow2[bits - 1] - 1)
  PROVE  /\ Unsigned(x, IntBits) \in Words
         /\ Signed(Unsigned(x, IntBits), bits) = x
<1> DEFINE half == Pow2[bits - 1]
           word == Pow2[bits]
           wide == Pow2[IntBits]
<1>1. half \in Nat \ {0} /\ word = 2 * half /\ wide \in Nat \ {0}
  BY PowerSplits
<1>2. bits \in Nat /\ IntBits \in Nat /\ bits <= IntBits
  BY WidthsAssumption
<1>3. PICK q \in Nat \ {0} : wide = q * word
  BY <1>2, PowerDivides
<1>4. x \in -half..(half - 1)
  OBVIOUS
<1>5. Unsigned(x, IntBits) = x % wide /\ Words = 0..(wide - 1)
  BY DEF Unsigned, Words
<1>6. Signed(x % wide, bits)
        = IF (x % wide) % word < half THEN (x % wide) % word ELSE ((x % wide) % word) - word
  BY DEF Signed, Unsigned
<1> HIDE DEF half, word, wide
<1>7. /\ x % wide \in 0..(wide - 1)
      /\ (x % wide) % word = IF x >= 0 THEN x ELSE x + word
  <2>1. WiderWord(half, word, q, wide, x)
    BY <1>1, <1>3, <1>4 DEF WiderWord
  <2> QED BY <2>1, Widening
<1>8. Signed(x % wide, bits) = x
  BY <1>1, <1>4, <1>6, <1>7
<1> QED BY <1>5, <1>7, <1>8

--------------------------------------------------------------------------------
(* Fields of numbers *)

Numbers == {"int64", "enum"}

BitsOf(kind) == IF kind = "enum" THEN SmallBits ELSE IntBits

\* What is left of a word when it is read as a number of a kind.
LEMMA NumberIs ==
  ASSUME NEW kind \in Numbers, NEW x \in ValuesOf(kind)
  PROVE  /\ Unsigned(x, IntBits) \in Words
         /\ Signed(Unsigned(x, IntBits), BitsOf(kind)) = x
<1>1. BitsOf(kind) \in {SmallBits, IntBits}
  BY DEF BitsOf
<1>2. x \in -Pow2[BitsOf(kind) - 1]..(Pow2[BitsOf(kind) - 1] - 1)
  BY DEF BitsOf, Numbers, ValuesOf, Int64, Enum
<1> QED BY <1>1, <1>2, SignedBack

\* IntField writes as many bytes as IntSize says, and none for zero.
LEMMA IntFieldIs ==
  ASSUME NEW n \in 1..15, NEW kind \in Numbers, NEW x \in ValuesOf(kind), NEW w,
         w = Unsigned(x, IntBits)
  PROVE  /\ IntField(n, x) \in Bytes /\ Len(IntField(n, x)) = IntSize(x)
         /\ (x # 0 => /\ IntField(n, x) = <<8 * n>> \o EncodeVarint(w)
                      /\ IntSize(x) = 1 + SizeOfVarint(w)
                      /\ <<8 * n>> \in Bytes /\ EncodeVarint(w) \in Bytes
                      /\ Len(<<8 * n>>) = 1 /\ IntSize(x) >= 1)
<1>1. CASE x = 0
  <2>1. IntField(n, x) = <<>> /\ IntSize(x) = 0 /\ Len(<<>>) = 0
    BY <1>1 DEF IntField, IntSize
  <2> QED BY <1>1, <2>1, ZeroFits
<1>2. CASE x # 0
  <2>1. IntField(n, x) = <<8 * n>> \o EncodeVarint(w) /\ IntSize(x) = 1 + SizeOfVarint(w)
    BY <1>2 DEF IntField, IntSize
  <2>2. 8 * n \in 0..255
    OBVIOUS
  <2>3. w \in Words
    BY NumberIs
  <2>4. EncodeVarint(w) \in Bytes /\ Len(EncodeVarint(w)) = SizeOfVarint(w)
        /\ SizeOfVarint(w) \in Nat
    <3>1. SizeOfVarint(w) \in 1..VarintBytes
      BY <2>3, SizeFits
    <3> QED BY <2>3, <3>1, EncodedVarint, VarintBytesFit
  <2>5. <<8 * n>> \in Bytes /\ Len(<<8 * n>>) = 1
    BY <2>2, OneByte
  <2>6. <<8 * n>> \o EncodeVarint(w) \in Bytes
        /\ Len(<<8 * n>> \o EncodeVarint(w)) = 1 + SizeOfVarint(w)
    <3> DEFINE a == <<8 * n>>
               b == EncodeVarint(w)
    <3>1. a \in Bytes /\ b \in Bytes /\ Len(a) = 1 /\ Len(b) = SizeOfVarint(w)
      BY <2>4, <2>5
    <3> HIDE DEF a, b
    <3>2. a \o b \in Bytes /\ Len(a \o b) = Len(a) + Len(b)
      BY <3>1, JoinIs
    <3> QED BY <3>1, <3>2 DEF a, b
  <2> QED BY <2>1, <2>4, <2>5, <2>6
<1> QED BY <1>1, <1>2

\* Field n, a number other than zero, stands at i up to end.
NumberHere(fields, n, x, bytes, i, end) ==
  /\ n \in 1..15 /\ n \in DOMAIN fields /\ fields[n].kind \in Numbers
  /\ x \in ValuesOf(fields[n].kind) /\ x # 0
  /\ bytes \in Bytes /\ Fits(bytes) /\ i \in Nat \ {0}
  /\ Stands(IntField(n, x), bytes, i) /\ end = i + IntSize(x)

\* A number that was written as a field's word is read as itself.
LEMMA NumberRead ==
  ASSUME NEW fields, NEW n, NEW x, NEW bytes, NEW i, NEW end,
         NumberHere(fields, n, x, bytes, i, end), NEW w, w = Unsigned(x, IntBits)
  PROVE  /\ ReadVarint(bytes, i) = Read(8 * n, i + 1)
         /\ ReadVarint(bytes, i + 1) = Read(w, end)
<1> USE DEF NumberHere
<1> DEFINE a == <<8 * n>>
           b == EncodeVarint(w)
<1>1. IntField(n, x) = a \o b /\ IntSize(x) = 1 + SizeOfVarint(w) /\ a \in Bytes /\ b \in Bytes
      /\ Len(a) = 1
  BY IntFieldIs
<1>2. w \in Words
  BY NumberIs
<1>3. 8 * n \in 0..127
  OBVIOUS
<1>4. Stands(a \o b, bytes, i)
  BY <1>1
<1>5. Stands(a, bytes, i) /\ Stands(b, bytes, i + Len(a))
  <2> HIDE DEF a, b
  <2> QED BY <1>1, <1>4, StandsJoin
<1>6. ReadVarint(bytes, i) = Read(8 * n, i + 1)
  BY <1>3, <1>5, TagRead
<1>7. i + 1 \in Nat \ {0} /\ Stands(b, bytes, i + 1)
  BY <1>1, <1>5
<1>8. ReadVarint(bytes, i + 1) = Read(w, (i + 1) + SizeOfVarint(w))
  <2> DEFINE j == i + 1
  <2>1. j \in Nat \ {0} /\ Stands(EncodeVarint(w), bytes, j)
    BY <1>7
  <2> HIDE DEF j
  <2>2. ReadVarint(bytes, j) = Read(w, j + SizeOfVarint(w))
    BY <1>2, <2>1, VarintIsRead
  <2> QED BY <2>2 DEF j
<1>9. (i + 1) + SizeOfVarint(w) = end
  <2>1. SizeOfVarint(w) \in Nat
    BY <1>2, SizeFits, VarintBytesFit
  <2> QED BY <1>1, <2>1
<1> QED BY <1>6, <1>8, <1>9

\* A number's field sets its field.
LEMMA NumberDecoded ==
  ASSUME NEW fields, NEW n, NEW x, NEW bytes, NEW i, NEW end,
         NumberHere(fields, n, x, bytes, i, end), NEW m
  PROVE  PlainDecode(fields, m, bytes, i) = Read(Sets(m, fields[n].name, x), end)
<1> DEFINE f == fields[n]
           new == Sets(m, fields[n].name, x)
           w == Unsigned(x, IntBits)
           number == ReadVarint(bytes, i + 1)
           tag == 8 * n
<1>1. n \in 1..15 /\ n \in DOMAIN fields /\ f.kind \in {"int64", "enum"} /\ x \in ValuesOf(f.kind)
  BY DEF NumberHere, Numbers
<1>2. tag \div 8 = n /\ tag % 8 = 0 /\ Signed(n, SmallBits) = n /\ ~(n <= 0)
  BY <1>1, TagIs
<1>3. ReadVarint(bytes, i) = Read(tag, i + 1) /\ number = Read(w, end)
  BY NumberRead
<1>4. Signed(w, BitsOf(f.kind)) = x
  BY <1>1, NumberIs DEF Numbers
<1>5. PlainField(f, m, 0, bytes, i + 1) = Read(new, end)
  <2>1. PlainField(f, m, 0, bytes, i + 1) =
          IF number.err # "nil" THEN number
          ELSE Read(Sets(m, f.name, Signed(number.value, BitsOf(f.kind))), number.next)
    BY <1>1, PlainIs DEF BitsOf
  <2>2. new = Sets(m, f.name, x)
    OBVIOUS
  <2> HIDE DEF number, f, w
  <2> QED BY <1>3, <1>4, <2>1, <2>2, StepIs
<1> HIDE DEF number, tag
<1>6. PlainDecode(fields, m, bytes, i) = PlainField(f, m, 0, bytes, i + 1)
  BY <1>1, <1>2, <1>3, StepIs DEF PlainDecode, DecodeField, FieldNumber, Then
<1> QED BY <1>5, <1>6

--------------------------------------------------------------------------------
(* A Publish comes back *)

\* f read front and made m of it.
Reaches(f, start, bytes, front, m) ==
  /\ front \in Bytes /\ Stands(front, bytes, 1)
  /\ f[<<start, 1>>] = f[<<m, 1 + Len(front)>>]

FieldBytes(fields, n, v) ==
  IF fields[n].kind \in Numbers THEN IntField(n, v) ELSE StringField(n, v)

FieldSize(fields, n, v) == IF fields[n].kind \in Numbers THEN IntSize(v) ELSE StringSize(v)

\* A value that a field may be written with.
Writable(fields, n, v) ==
  /\ n \in 1..15 /\ n \in DOMAIN fields /\ fields[n].kind \in PlainKinds
  /\ v \in ValuesOf(fields[n].kind) /\ (fields[n].kind = "string" => Fits(v))

\* The bytes of a field are as many as the size that is counted for it.
LEMMA FieldBytesAre ==
  ASSUME NEW fields, NEW n, NEW v, Writable(fields, n, v)
  PROVE  /\ FieldBytes(fields, n, v) \in Bytes
         /\ Len(FieldBytes(fields, n, v)) = FieldSize(fields, n, v)
<1> USE DEF Writable
<1>1. CASE fields[n].kind \in Numbers
  BY <1>1, IntFieldIs DEF FieldBytes, FieldSize
<1>2. CASE fields[n].kind \notin Numbers
  <2>1. fields[n].kind = "string" /\ v \in Bytes /\ Fits(v)
    BY <1>2, KindsAre DEF Numbers, PlainKinds
  <2> QED BY <1>2, <2>1, StringFieldIs DEF FieldBytes, FieldSize
<1> QED BY <1>1, <1>2

PlainLoops(f, Message, fields, bytes) ==
  \A m \in Message : \A i \in Nat \ {0} : i <= Len(bytes) + 1 =>
    LoopIs(f, <<m, i>>, bytes, PlainDecode(fields, m, bytes, i))

\* The loop reads a number that stands where it is.
NumberStands(fields, n, x, bytes, i, next) ==
  /\ Writable(fields, n, x) /\ fields[n].kind \in Numbers
  /\ bytes \in Bytes /\ Fits(bytes) /\ i \in Nat \ {0}
  /\ Stands(IntField(n, x), bytes, i) /\ next = i + IntSize(x)

\* The loop reads a number field that stands where it is.
LEMMA NumberStep ==
  ASSUME NEW fields, NEW n, NEW x, NEW bytes, NEW i, NEW next,
         NumberStands(fields, n, x, bytes, i, next), NEW m,
         Sets(m, fields[n].name, 0) = m, NEW f,
         LoopIs(f, <<m, i>>, bytes, PlainDecode(fields, m, bytes, i))
  PROVE  f[<<m, i>>] = f[<<Sets(m, fields[n].name, x), next>>]
<1> SUFFICES ASSUME n \in 1..15, n \in DOMAIN fields, fields[n].kind \in Numbers,
                    x \in ValuesOf(fields[n].kind), bytes \in Bytes, Fits(bytes), i \in Nat \ {0},
                    Stands(IntField(n, x), bytes, i), next = i + IntSize(x)
             PROVE  f[<<m, i>>] = f[<<Sets(m, fields[n].name, x), next>>]
  BY DEF NumberStands, Writable
<1>1. CASE x = 0
  <2>1. next = i
    BY <1>1 DEF IntSize
  <2> QED BY <1>1, <2>1
<1>2. CASE x # 0
  <2>1. IntField(n, x) \in Bytes /\ Len(IntField(n, x)) = IntSize(x) /\ IntSize(x) >= 1
    BY <1>2, IntFieldIs
  <2>2. i <= Len(bytes)
    BY <2>1, NotEmpty
  <2> DEFINE new == Sets(m, fields[n].name, x)
  <2>3. PlainDecode(fields, m, bytes, i) = Read(new, next)
    <3>1. NumberHere(fields, n, x, bytes, i, next)
      BY <1>2 DEF NumberHere
    <3> QED BY <3>1, NumberDecoded
  <2> HIDE DEF new
  <2>4. f[<<m, i>>] = f[<<new, next>>]
    <3>1. ~(i > Len(bytes))
      BY <2>2, BytesAre
    <3> QED BY <2>3, <3>1, StepIs DEF LoopIs
  <2> QED BY <2>4 DEF new
<1> QED BY <1>1, <1>2

\* The state in which field n, of value v, is read next.
ReadNext(f, Message, fields, start, bytes, n, v, m) ==
  /\ Writable(fields, n, v) /\ bytes \in Bytes /\ Fits(bytes)
  /\ PlainLoops(f, Message, fields, bytes)
  /\ m \in Message /\ Sets(m, fields[n].name, ZeroOf(fields[n].kind)) = m

\* The loop reads any field of numbers and strings that stands where it is.
LEMMA FieldReached ==
  ASSUME NEW f, NEW Message, NEW fields, NEW start, NEW bytes, NEW n, NEW v, NEW m,
         ReadNext(f, Message, fields, start, bytes, n, v, m), NEW front,
         Reaches(f, start, bytes, front, m), NEW part, part = FieldBytes(fields, n, v),
         NEW longer, longer = front \o part, Stands(longer, bytes, 1)
  PROVE  Reaches(f, start, bytes, longer, Sets(m, fields[n].name, v))
<1> DEFINE i == 1 + Len(front)
           new == Sets(m, fields[n].name, v)
           size == FieldSize(fields, n, v)
<1>1. Writable(fields, n, v) /\ bytes \in Bytes /\ Fits(bytes)
      /\ PlainLoops(f, Message, fields, bytes) /\ m \in Message
      /\ Sets(m, fields[n].name, ZeroOf(fields[n].kind)) = m
  BY DEF ReadNext
<1>2. part \in Bytes /\ Len(part) = size
  BY <1>1, FieldBytesAre
<1>3. front \in Bytes /\ f[<<start, 1>>] = f[<<m, i>>]
  BY DEF Reaches
<1>4. longer \in Bytes /\ Len(longer) = Len(front) + Len(part) /\ Len(front) \in Nat
      /\ Len(part) \in Nat
  BY <1>2, <1>3, JoinIs
<1>5. Stands(part, bytes, i) /\ i \in Nat \ {0}
  BY <1>1, <1>2, <1>3, <1>4, StandsJoin
<1>6. i <= Len(bytes) + 1
  <2>1. i + Len(part) <= Len(bytes) + 1 /\ Len(bytes) \in Nat
    <3> HIDE DEF i
    <3> QED BY <1>1, <1>2, <1>5, NotEmpty, BytesAre
  <2> QED BY <1>4, <2>1
<1>7. LoopIs(f, <<m, i>>, bytes, PlainDecode(fields, m, bytes, i))
  <2> HIDE DEF i
  <2> QED BY <1>1, <1>5, <1>6 DEF PlainLoops
<1> HIDE DEF i
<1>8. f[<<m, i>>] = f[<<new, i + size>>]
  <2>1. CASE fields[n].kind \in Numbers
    <3>1. part = IntField(n, v) /\ size = IntSize(v)
      BY <2>1 DEF FieldBytes, FieldSize
    <3>2. ZeroOf(fields[n].kind) = 0
      BY <2>1 DEF ZeroOf, Numbers
    <3> DEFINE next == i + size
    <3>3. NumberStands(fields, n, v, bytes, i, next)
      BY <1>1, <1>5, <2>1, <3>1 DEF NumberStands
    <3>4. Sets(m, fields[n].name, 0) = m
      BY <1>1, <3>2
    <3> HIDE DEF next
    <3>5. f[<<m, i>>] = f[<<Sets(m, fields[n].name, v), next>>]
      BY <1>7, <3>3, <3>4, NumberStep
    <3> QED BY <3>5 DEF next
  <2>2. CASE fields[n].kind \notin Numbers
    <3>1. fields[n].kind = "string" /\ v \in Bytes /\ Fits(v) /\ n \in 1..15 /\ n \in DOMAIN fields
      BY <1>1, <2>2, KindsAre DEF Numbers, PlainKinds, Writable
    <3>2. part = StringField(n, v) /\ size = StringSize(v)
      BY <2>2 DEF FieldBytes, FieldSize
    <3>3. Sets(m, fields[n].name, <<>>) = m
      BY <1>1, <3>1, KindsAre
    <3> DEFINE next == i + size
    <3>4. StringStands(fields, n, v, bytes, i, next)
      BY <1>1, <1>5, <3>1, <3>2 DEF StringStands
    <3> HIDE DEF next
    <3>5. f[<<m, i>>] = f[<<Sets(m, fields[n].name, v), next>>]
      BY <1>7, <3>3, <3>4, StringStep
    <3> QED BY <3>5 DEF next
  <2> QED BY <2>1, <2>2
<1>9. i + size = 1 + Len(longer)
  BY <1>2, <1>4 DEF i
<1> HIDE DEF new, size
<1>10. f[<<start, 1>>] = f[<<new, 1 + Len(longer)>>]
  BY <1>3, <1>8, <1>9
<1> QED BY <1>4, <1>10 DEF Reaches, new

--------------------------------------------------------------------------------
(* A Publish *)

DistinctNames(fields) ==
  /\ DOMAIN fields \subseteq 1..7
  /\ \A n \in DOMAIN fields :
       /\ fields[n].name # "unknownFields"
       /\ \A k \in DOMAIN fields : fields[k].name = fields[n].name => k = n

\* What is known of r after its fields up to k.
Known(fields, r, k) ==
  [name \in Names(fields) |->
     IF \E n \in DOMAIN fields : n <= k /\ fields[n].name = name THEN r[name]
     ELSE NewMessage(fields)[name]]

HasNames(fields, r) == r = [name \in Names(fields) |-> r[name]] /\ r.unknownFields \in Bytes

\* What is known of a message starts as a new message, grows by a field at a time, and
\* ends as the message without its unknown fields.
LEMMA KnownIs ==
  ASSUME NEW fields, DistinctNames(fields), NEW r, HasNames(fields, r)
  PROVE  /\ Known(fields, r, 0) = NewMessage(fields)
         /\ \A k \in DOMAIN fields :
              /\ Sets(Known(fields, r, k - 1), fields[k].name, r[fields[k].name])
                   = Known(fields, r, k)
              /\ Sets(Known(fields, r, k - 1), fields[k].name, ZeroOf(fields[k].kind))
                   = Known(fields, r, k - 1)
         /\ \A k : (\A n \in DOMAIN fields : n <= k) =>
              Gains(Known(fields, r, k), r.unknownFields) = r
<1> DEFINE new == NewMessage(fields)
           u(k) == Known(fields, r, k)
<1>1. \A n \in DOMAIN fields : n \in Nat /\ ~(n <= 0)
  BY DEF DistinctNames
<1>2. /\ new = [name \in Names(fields) |-> new[name]] /\ new.unknownFields = <<>>
      /\ \A n \in DOMAIN fields : new[fields[n].name] = ZeroOf(fields[n].kind)
  BY NewIs DEF Names, DistinctNames
<1> HIDE DEF new
<1>3. u(0) = new
  BY <1>1, <1>2 DEF Known, new
<1>4. ASSUME NEW k \in DOMAIN fields
      PROVE  /\ Sets(u(k - 1), fields[k].name, r[fields[k].name]) = u(k)
             /\ Sets(u(k - 1), fields[k].name, ZeroOf(fields[k].kind)) = u(k - 1)
  <2> DEFINE at == fields[k].name
             zero == ZeroOf(fields[k].kind)
             Has(x, name) == \E n \in DOMAIN fields : n <= x /\ fields[n].name = name
  <2>1. \A x : u(x) = [name \in Names(fields) |-> IF Has(x, name) THEN r[name] ELSE new[name]]
    BY DEF Known, new
  <2>2. Has(k, at) /\ ~Has(k - 1, at) /\ at \in Names(fields) /\ new[at] = zero
    BY <1>1, <1>2 DEF DistinctNames, Names
  <2>3. ASSUME NEW name \in Names(fields), name # at PROVE Has(k, name) <=> Has(k - 1, name)
    <3>1. \A n \in DOMAIN fields : n <= k /\ fields[n].name = name => n <= k - 1
      BY <1>1, <2>3
    <3>2. \A n \in DOMAIN fields : n <= k - 1 => n <= k
      BY <1>1
    <3> QED BY <3>1, <3>2
  <2> HIDE DEF Has, at, u, zero
  <2>4. Sets(u(k - 1), at, r[at]) = u(k)
    BY <2>1, <2>2, <2>3 DEF Sets
  <2>5. Sets(u(k - 1), at, zero) = u(k - 1)
    BY <2>1, <2>2 DEF Sets
  <2> QED BY <2>4, <2>5 DEF at, zero
<1>5. ASSUME NEW k, \A n \in DOMAIN fields : n <= k PROVE Gains(u(k), r.unknownFields) = r
  <2>1. u(k) = [name \in Names(fields) |-> IF name = "unknownFields" THEN <<>> ELSE r[name]]
    <3>1. \A name \in Names(fields) :
            (\E n \in DOMAIN fields : n <= k /\ fields[n].name = name) <=> name # "unknownFields"
      BY <1>5 DEF Names, DistinctNames
    <3>2. new["unknownFields"] = <<>>
      BY <1>2
    <3> QED BY <3>1, <3>2 DEF Known, new
  <2>2. "unknownFields" \in Names(fields)
    BY DEF Names
  <2>3. <<>> \o r.unknownFields = r.unknownFields
    <3> DEFINE Byte == 0..255
    <3>1. r.unknownFields \in Seq(Byte)
      BY DEF HasNames, Bytes
    <3> HIDE DEF Byte
    <3> QED BY <3>1
  <2>4. r = [name \in Names(fields) |-> r[name]]
    BY DEF HasNames
  <2>5. u(k).unknownFields = <<>>
    BY <2>1, <2>2
  <2>6. Gains(u(k), r.unknownFields) = [u(k) EXCEPT !.unknownFields = r.unknownFields]
    BY <2>3, <2>5 DEF Gains
  <2> HIDE DEF u
  <2> QED BY <2>1, <2>2, <2>4, <2>6
<1> QED BY <1>3, <1>4, <1>5 DEF new

\* A Publish that can be sent: its strings fit into memory, and what it has of a later
\* version is that version's fields.
Sendable(r) ==
  /\ r \in PublishMessage /\ LaterFields(r.unknownFields)
  /\ Fits(r.spaceId) /\ Fits(r.objectId) /\ Fits(r.uri) /\ Fits(r.version)

FieldOf(r, n) == r[PublishFields[n].name]

PublishPart(r, n) == FieldBytes(PublishFields, n, FieldOf(r, n))

\* The fields of a Publish have names of their own.
LEMMA PublishNames ==
  ASSUME NEW r \in PublishMessage
  PROVE  DistinctNames(PublishFields) /\ HasNames(PublishFields, r)
<1>1. DistinctNames(PublishFields)
  <2>1. \A n \in 1..7 : \A k \in 1..7 : PublishFields[k].name = PublishFields[n].name => k = n
    BY OneToSeven, PublishFieldsAre
  <2>2. \A n \in 1..7 : PublishFields[n].name # "unknownFields"
    BY OneToSeven, PublishFieldsAre
  <2> QED BY <2>1, <2>2, PublishFieldsAre DEF DistinctNames
<1>2. Names(PublishFields) = {"spaceId", "objectId", "uri", "status", "version", "timestamp",
                              "size", "unknownFields"}
  BY OneToSeven, PublishFieldsAre DEF Names
<1>3. r = [name \in Names(PublishFields) |-> r[name]] /\ r.unknownFields \in Bytes
  BY <1>2 DEF PublishMessage
<1> QED BY <1>1, <1>3 DEF HasNames

\* Every field of a Publish that can be sent can be written.
LEMMA PublishWritable ==
  ASSUME NEW r, Sendable(r), NEW n \in 1..7
  PROVE  Writable(PublishFields, n, FieldOf(r, n))
<1>1. n \in 1..15 /\ n \in DOMAIN PublishFields
  BY PublishFieldsAre
<1>2. FieldOf(r, n) \in ValuesOf(PublishFields[n].kind)
  BY PublishKeeps, PublishFieldsAre DEF Sendable, Keeps, FieldOf
<1>3. PublishFields[n].kind \in PlainKinds
  BY <1>1, PublishKeeps
<1>4. PublishFields[n].kind = "string" => Fits(FieldOf(r, n))
  BY OneToSeven, PublishFieldsAre DEF Sendable, FieldOf
<1> QED BY <1>1, <1>2, <1>3, <1>4 DEF Writable

PublishLoop(bytes) == PlainLoop(PublishMessage, PublishFields, bytes)

\* The loop of UnmarshalVT read front, which is the fields of r up to k.
ReadUpto(r, bytes, k, front) ==
  /\ Known(PublishFields, r, k) \in PublishMessage
  /\ Reaches(PublishLoop(bytes), EmptyPublish, bytes, front, Known(PublishFields, r, k))

\* The loop of a Publish is one that reads numbers and strings.
LEMMA PublishLoops ==
  ASSUME NEW bytes \in Bytes, Fits(bytes)
  PROVE  PlainLoops(PublishLoop(bytes), PublishMessage, PublishFields, bytes)
<1>1. ASSUME NEW m \in PublishMessage, NEW i \in Nat \ {0}, i <= Len(bytes) + 1
      PROVE  LoopIs(PublishLoop(bytes), <<m, i>>, bytes, PlainDecode(PublishFields, m, bytes, i))
  <2> DEFINE s == <<m, i>>
  <2>1. s \in States(PublishMessage, bytes) /\ s[1] = m /\ s[2] = i
    BY <1>1, StatesAre
  <2> HIDE DEF s
  <2>2. LoopIs(PublishLoop(bytes), s, bytes, PlainDecode(PublishFields, s[1], bytes, s[2]))
    BY <2>1, PublishKeeps, PlainDecodes DEF PublishLoop
  <2> QED BY <2>1, <2>2 DEF s
<1> QED BY <1>1 DEF PlainLoops

\* Before the first field, the loop has read nothing.
LEMMA NothingRead ==
  ASSUME NEW r, Sendable(r), NEW bytes \in Bytes
  PROVE  ReadUpto(r, bytes, 0, <<>>)
<1>1. r \in PublishMessage
  BY DEF Sendable
<1>2. Known(PublishFields, r, 0) = EmptyPublish
  BY <1>1, PublishNames, KnownIs, NewPublish
<1>3. <<>> \in Bytes /\ Len(<<>>) = 0 /\ 1 + 0 = 1 /\ Len(bytes) \in Nat
  BY ZeroFits, BytesAre
<1>4. Stands(<<>>, bytes, 1)
  BY <1>3 DEF Stands
<1> QED BY <1>2, <1>3, <1>4, NewPublish DEF ReadUpto, Reaches

\* With every field the loop has read one more.
LEMMA PartRead ==
  ASSUME NEW r, Sendable(r), NEW bytes \in Bytes, Fits(bytes), NEW k, NEW n \in 1..7, k = n - 1,
         NEW front, ReadUpto(r, bytes, k, front), NEW part, part = PublishPart(r, n),
         Stands(front \o part, bytes, 1)
  PROVE  ReadUpto(r, bytes, n, front \o part)
<1> DEFINE m == Known(PublishFields, r, k)
           v == FieldOf(r, n)
           new == Known(PublishFields, r, n)
           f == PublishLoop(bytes)
           longer == front \o part
<1>1. r \in PublishMessage /\ n \in DOMAIN PublishFields
  BY PublishFieldsAre DEF Sendable
<1>2. /\ Sets(m, PublishFields[n].name, v) = new
      /\ Sets(m, PublishFields[n].name, ZeroOf(PublishFields[n].kind)) = m
  <2>1. Sets(Known(PublishFields, r, n - 1), PublishFields[n].name, r[PublishFields[n].name])
          = Known(PublishFields, r, n)
        /\ Sets(Known(PublishFields, r, n - 1), PublishFields[n].name, ZeroOf(PublishFields[n].kind))
              = Known(PublishFields, r, n - 1)
    BY <1>1, PublishNames, KnownIs
  <2> QED BY <2>1 DEF FieldOf
<1>3. Writable(PublishFields, n, v)
  BY PublishWritable
<1>4. m \in PublishMessage /\ Reaches(f, EmptyPublish, bytes, front, m)
  BY DEF ReadUpto
<1>5. new \in PublishMessage
  <2>1. v \in ValuesOf(PublishFields[n].kind)
    BY <1>3 DEF Writable
  <2>2. Sets(m, PublishFields[n].name, v) \in PublishMessage
    <3> HIDE DEF m, v
    <3> QED BY <1>1, <1>4, <2>1, PublishKeeps DEF Keeps
  <2> QED BY <1>2, <2>2
<1>6. PlainLoops(f, PublishMessage, PublishFields, bytes)
  BY PublishLoops
<1>7. part = FieldBytes(PublishFields, n, v) /\ longer = front \o part /\ Stands(longer, bytes, 1)
  BY DEF PublishPart
<1> HIDE DEF m, v, new, f, longer
<1>8. ReadNext(f, PublishMessage, PublishFields, EmptyPublish, bytes, n, v, m)
  BY <1>2, <1>3, <1>4, <1>6 DEF ReadNext
<1>9. Reaches(f, EmptyPublish, bytes, longer, Sets(m, PublishFields[n].name, v))
  BY <1>4, <1>7, <1>8, FieldReached
<1> QED BY <1>2, <1>5, <1>9 DEF ReadUpto, new, f, longer

\* Behind the fields is what a later version added.
LEMMA PublishRest ==
  ASSUME NEW r, Sendable(r), NEW bytes \in Bytes, Fits(bytes), NEW front,
         ReadUpto(r, bytes, 7, front), EndsWith(r.unknownFields, bytes, Len(front))
  PROVE  UnmarshalPublish(EmptyPublish, bytes) = Read(r, Len(bytes) + 1)
<1> DEFINE m == Known(PublishFields, r, 7)
           f == PublishLoop(bytes)
           ext == r.unknownFields
           p == Len(front)
           at == p + 1
<1>1. r \in PublishMessage /\ LaterFields(ext) /\ DOMAIN PublishFields \subseteq 1..7
      /\ \A n \in DOMAIN PublishFields : n <= 7
  BY PublishFieldsAre DEF Sendable
<1>2. ext \in Bytes
  BY <1>1 DEF PublishMessage
<1>3. Functions(PublishMessage)
  <2>1. ASSUME NEW x \in PublishMessage PROVE x = [name \in DOMAIN x |-> x[name]]
    BY PublishNames DEF HasNames
  <2> QED BY <2>1 DEF Functions
<1>4. m \in PublishMessage /\ front \in Bytes /\ f[<<EmptyPublish, 1>>] = f[<<m, 1 + p>>]
  BY DEF ReadUpto, Reaches
<1>5. Gains(m, ext) = r
  BY <1>1, PublishNames, KnownIs
<1>6. Loops(f, PublishMessage, PublishFields, bytes)
  BY PublishLoops DEF PlainLoops, Loops
<1>7. EndsWith(ext, bytes, p) /\ p \in Nat /\ 1 + p = at
  BY <1>4, BytesAre
<1>8. UnmarshalPublish(EmptyPublish, bytes) = f[<<EmptyPublish, 1>>]
  BY PublishIs DEF PublishLoop
<1>9. f[<<m, at>>] = Read(Gains(m, ext), Len(bytes) + 1)
  <2>1. \E q \in Nat : EndsWith(ext, bytes, q) /\ at = q + 1
    BY <1>7
  <2> HIDE DEF m, f, ext, p, at
  <2>2. LaterRest(f, PublishMessage, PublishFields, ext, bytes, at)
    BY <1>1, <1>2, <1>3, <1>6, <2>1, PublishKeeps DEF LaterRest
  <2> QED BY <1>4, <2>2, LaterRead
<1> QED BY <1>4, <1>5, <1>7, <1>8, <1>9

\* The parts a Publish is marshalled to.
LEMMA PublishPartsAre ==
  ASSUME NEW r
  PROVE  /\ PublishPart(r, 1) = StringField(1, r.spaceId)
         /\ FieldSize(PublishFields, 1, FieldOf(r, 1)) = StringSize(r.spaceId)
         /\ PublishPart(r, 2) = StringField(2, r.objectId)
         /\ FieldSize(PublishFields, 2, FieldOf(r, 2)) = StringSize(r.objectId)
         /\ PublishPart(r, 3) = StringField(3, r.uri)
         /\ FieldSize(PublishFields, 3, FieldOf(r, 3)) = StringSize(r.uri)
         /\ PublishPart(r, 4) = IntField(4, r.status)
         /\ FieldSize(PublishFields, 4, FieldOf(r, 4)) = IntSize(r.status)
         /\ PublishPart(r, 5) = StringField(5, r.version)
         /\ FieldSize(PublishFields, 5, FieldOf(r, 5)) = StringSize(r.version)
         /\ PublishPart(r, 6) = IntField(6, r.timestamp)
         /\ FieldSize(PublishFields, 6, FieldOf(r, 6)) = IntSize(r.timestamp)
         /\ PublishPart(r, 7) = IntField(7, r.size)
         /\ FieldSize(PublishFields, 7, FieldOf(r, 7)) = IntSize(r.size)
<1>1. PublishPart(r, 1) = StringField(1, r.spaceId)
     /\ FieldSize(PublishFields, 1, FieldOf(r, 1)) = StringSize(r.spaceId)
  BY PublishFieldsAre DEF PublishPart, FieldBytes, FieldSize, FieldOf, Numbers
<1>2. PublishPart(r, 2) = StringField(2, r.objectId)
     /\ FieldSize(PublishFields, 2, FieldOf(r, 2)) = StringSize(r.objectId)
  BY PublishFieldsAre DEF PublishPart, FieldBytes, FieldSize, FieldOf, Numbers
<1>3. PublishPart(r, 3) = StringField(3, r.uri)
     /\ FieldSize(PublishFields, 3, FieldOf(r, 3)) = StringSize(r.uri)
  BY PublishFieldsAre DEF PublishPart, FieldBytes, FieldSize, FieldOf, Numbers
<1>4. PublishPart(r, 4) = IntField(4, r.status)
     /\ FieldSize(PublishFields, 4, FieldOf(r, 4)) = IntSize(r.status)
  BY PublishFieldsAre DEF PublishPart, FieldBytes, FieldSize, FieldOf, Numbers
<1>5. PublishPart(r, 5) = StringField(5, r.version)
     /\ FieldSize(PublishFields, 5, FieldOf(r, 5)) = StringSize(r.version)
  BY PublishFieldsAre DEF PublishPart, FieldBytes, FieldSize, FieldOf, Numbers
<1>6. PublishPart(r, 6) = IntField(6, r.timestamp)
     /\ FieldSize(PublishFields, 6, FieldOf(r, 6)) = IntSize(r.timestamp)
  BY PublishFieldsAre DEF PublishPart, FieldBytes, FieldSize, FieldOf, Numbers
<1>7. PublishPart(r, 7) = IntField(7, r.size)
     /\ FieldSize(PublishFields, 7, FieldOf(r, 7)) = IntSize(r.size)
  BY PublishFieldsAre DEF PublishPart, FieldBytes, FieldSize, FieldOf, Numbers
<1> QED BY <1>1, <1>2, <1>3, <1>4, <1>5, <1>6, <1>7

\* Parts one behind the other: each front is the one before and a part.
LEMMA FrontsStand ==
  ASSUME NEW front \in Bytes, NEW part \in Bytes, NEW longer, longer = front \o part,
         NEW bytes \in Bytes
  PROVE  /\ longer \in Bytes /\ Len(longer) = Len(front) + Len(part)
         /\ Stands(longer, bytes, 1) => Stands(front, bytes, 1)
<1>1. longer \in Bytes /\ Len(longer) = Len(front) + Len(part)
  BY JoinIs
<1>2. ASSUME Stands(longer, bytes, 1) PROVE Stands(front, bytes, 1)
  BY <1>2, StandsJoin
<1> QED BY <1>1, <1>2

\* Sums of sizes, in the order SizePublish has.
LEMMA SizesAdd ==
  ASSUME NEW s1 \in Nat, NEW s2 \in Nat, NEW s3 \in Nat, NEW s4 \in Nat, NEW s5 \in Nat, NEW s6 \in Nat, NEW s7 \in Nat, NEW s8 \in Nat,
         NEW t2, t2 = s1 + s2, NEW t3, t3 = t2 + s3, NEW t4, t4 = t3 + s4, NEW t5, t5 = t4 + s5,
         NEW t6, t6 = t5 + s6, NEW t7, t7 = t6 + s7, NEW t8, t8 = t7 + s8
  PROVE  t8 = s1 + s2 + s3 + s4 + s5 + s6 + s7 + s8
OBVIOUS

\* A Publish is as long as SizeVT says.
LEMMA PublishSize ==
  ASSUME NEW r, Sendable(r), NEW bytes, bytes = MarshalPublish(r)
  PROVE  bytes \in Bytes /\ Len(bytes) = SizePublish(r)
<1> DEFINE a == PublishPart(r, 1)
           b == PublishPart(r, 2)
           c == PublishPart(r, 3)
           d == PublishPart(r, 4)
           e == PublishPart(r, 5)
           g == PublishPart(r, 6)
           h == PublishPart(r, 7)
           ext == r.unknownFields
           f2 == a \o b
           f3 == f2 \o c
           f4 == f3 \o d
           f5 == f4 \o e
           f6 == f5 \o g
           f7 == f6 \o h
<1>1. \A n \in 1..7 : PublishPart(r, n) \in Bytes
        /\ Len(PublishPart(r, n)) = FieldSize(PublishFields, n, FieldOf(r, n))
  BY PublishWritable, FieldBytesAre DEF PublishPart
<1>2. ext \in Bytes
  BY DEF Sendable, PublishMessage
<1>3. /\ a \in Bytes /\ Len(a) = StringSize(r.spaceId)
      /\ b \in Bytes /\ Len(b) = StringSize(r.objectId)
      /\ c \in Bytes /\ Len(c) = StringSize(r.uri)
      /\ d \in Bytes /\ Len(d) = IntSize(r.status)
      /\ e \in Bytes /\ Len(e) = StringSize(r.version)
      /\ g \in Bytes /\ Len(g) = IntSize(r.timestamp)
      /\ h \in Bytes /\ Len(h) = IntSize(r.size)
  BY <1>1, PublishPartsAre
<1>4. bytes = f7 \o ext
  BY PublishPartsAre DEF MarshalPublish
<1>5. SizePublish(r) = StringSize(r.spaceId) + StringSize(r.objectId) + StringSize(r.uri) + IntSize(r.status)
                         + StringSize(r.version) + IntSize(r.timestamp) + IntSize(r.size) + Len(ext)
  BY DEF SizePublish
<1> HIDE DEF a, b, c, d, e, g, h, ext
<1>6. f2 \in Bytes /\ Len(f2) = Len(a) + Len(b)
  BY <1>3, JoinIs
<1>7. f3 \in Bytes /\ Len(f3) = Len(f2) + Len(c)
  <2> HIDE DEF f2
  <2> QED BY <1>3, <1>6, JoinIs
<1>8. f4 \in Bytes /\ Len(f4) = Len(f3) + Len(d)
  <2> HIDE DEF f3
  <2> QED BY <1>3, <1>7, JoinIs
<1>9. f5 \in Bytes /\ Len(f5) = Len(f4) + Len(e)
  <2> HIDE DEF f4
  <2> QED BY <1>3, <1>8, JoinIs
<1>10. f6 \in Bytes /\ Len(f6) = Len(f5) + Len(g)
  <2> HIDE DEF f5
  <2> QED BY <1>3, <1>9, JoinIs
<1>11. f7 \in Bytes /\ Len(f7) = Len(f6) + Len(h)
  <2> HIDE DEF f6
  <2> QED BY <1>3, <1>10, JoinIs
<1> HIDE DEF f2, f3, f4, f5, f6, f7
<1>12. bytes \in Bytes /\ Len(bytes) = Len(f7) + Len(ext)
  BY <1>2, <1>4, <1>11, JoinIs
<1>13. Len(a) \in Nat /\ Len(b) \in Nat /\ Len(c) \in Nat /\ Len(d) \in Nat
       /\ Len(e) \in Nat /\ Len(g) \in Nat /\ Len(h) \in Nat /\ Len(ext) \in Nat
  BY <1>2, <1>3, BytesAre
<1>14. Len(bytes) = Len(a) + Len(b) + Len(c) + Len(d) + Len(e) + Len(g) + Len(h) + Len(ext)
  BY <1>6, <1>7, <1>8, <1>9, <1>10, <1>11, <1>12, <1>13, SizesAdd
<1> QED BY <1>3, <1>5, <1>12, <1>14

\* A Publish that is marshalled decodes to itself.
LEMMA PublishBack ==
  ASSUME NEW r, Sendable(r), NEW bytes, bytes = MarshalPublish(r), Fits(bytes)
  PROVE  UnmarshalPublish(EmptyPublish, bytes) = Read(r, Len(bytes) + 1)
<1> DEFINE a == PublishPart(r, 1)
           b == PublishPart(r, 2)
           c == PublishPart(r, 3)
           d == PublishPart(r, 4)
           e == PublishPart(r, 5)
           g == PublishPart(r, 6)
           h == PublishPart(r, 7)
           ext == r.unknownFields
           f1 == <<>> \o a
           f2 == f1 \o b
           f3 == f2 \o c
           f4 == f3 \o d
           f5 == f4 \o e
           f6 == f5 \o g
           f7 == f6 \o h
<1>1. \A n \in 1..7 : PublishPart(r, n) \in Bytes
  BY PublishWritable, FieldBytesAre DEF PublishPart
<1>2. ext \in Bytes
  BY DEF Sendable, PublishMessage
<1>3. a \in Bytes /\ b \in Bytes /\ c \in Bytes /\ d \in Bytes /\ e \in Bytes /\ g \in Bytes /\ h \in Bytes
  BY <1>1
<1>4. <<>> \o a = a
  <2> DEFINE Byte == 0..255
  <2>1. a \in Seq(Byte)
    BY <1>3 DEF Bytes
  <2> HIDE DEF Byte, a
  <2> QED BY <2>1
<1>5. bytes = f7 \o ext
  BY <1>4, PublishPartsAre DEF MarshalPublish
<1> HIDE DEF a, b, c, d, e, g, h, ext
<1>6. f1 \in Bytes
  BY <1>3, <1>4
<1>7. f2 \in Bytes
  <2> HIDE DEF f1
  <2> QED BY <1>3, <1>6, JoinIs
<1>8. f3 \in Bytes
  <2> HIDE DEF f2
  <2> QED BY <1>3, <1>7, JoinIs
<1>9. f4 \in Bytes
  <2> HIDE DEF f3
  <2> QED BY <1>3, <1>8, JoinIs
<1>10. f5 \in Bytes
  <2> HIDE DEF f4
  <2> QED BY <1>3, <1>9, JoinIs
<1>11. f6 \in Bytes
  <2> HIDE DEF f5
  <2> QED BY <1>3, <1>10, JoinIs
<1>12. f7 \in Bytes
  <2> HIDE DEF f6
  <2> QED BY <1>3, <1>11, JoinIs
<1> HIDE DEF f1, f2, f3, f4, f5, f6, f7
<1>13. bytes \in Bytes
  BY <1>2, <1>5, <1>12, JoinIs
<1>14. EndsWith(ext, bytes, Len(f7))
  BY <1>2, <1>5, <1>12, JoinEnds
<1>15. Stands(f7, bytes, 1)
  <2>1. Stands(bytes, bytes, 1)
    BY <1>13, StandsWhole
  <2> QED BY <1>2, <1>5, <1>12, <1>13, <2>1, FrontsStand
<1>16. Stands(f6, bytes, 1)
  <2>1. f7 = f6 \o h
    BY DEF f7
  <2> QED BY <1>3, <1>11, <1>13, <1>15, <2>1, FrontsStand
<1>17. Stands(f5, bytes, 1)
  <2>1. f6 = f5 \o g
    BY DEF f6
  <2> QED BY <1>3, <1>10, <1>13, <1>16, <2>1, FrontsStand
<1>18. Stands(f4, bytes, 1)
  <2>1. f5 = f4 \o e
    BY DEF f5
  <2> QED BY <1>3, <1>9, <1>13, <1>17, <2>1, FrontsStand
<1>19. Stands(f3, bytes, 1)
  <2>1. f4 = f3 \o d
    BY DEF f4
  <2> QED BY <1>3, <1>8, <1>13, <1>18, <2>1, FrontsStand
<1>20. Stands(f2, bytes, 1)
  <2>1. f3 = f2 \o c
    BY DEF f3
  <2> QED BY <1>3, <1>7, <1>13, <1>19, <2>1, FrontsStand
<1>21. Stands(f1, bytes, 1)
  <2>1. f2 = f1 \o b
    BY DEF f2
  <2> QED BY <1>3, <1>6, <1>13, <1>20, <2>1, FrontsStand
<1>22. ReadUpto(r, bytes, 0, <<>>)
  BY <1>13, NothingRead
<1>23. ReadUpto(r, bytes, 1, f1)
  <2>1. a = PublishPart(r, 1) /\ f1 = <<>> \o a /\ 0 = 1 - 1 /\ 1 \in 1..7
    BY DEF a, f1
  <2>2. Stands(<<>> \o a, bytes, 1)
    BY <1>21, <2>1
  <2>3. ReadUpto(r, bytes, 1, <<>> \o a)
    BY <1>13, <1>22, <2>1, <2>2, PartRead
  <2> QED BY <2>1, <2>3
<1>24. ReadUpto(r, bytes, 2, f2)
  <2>1. b = PublishPart(r, 2) /\ f2 = f1 \o b /\ 1 = 2 - 1 /\ 2 \in 1..7
    BY DEF b, f2
  <2>2. Stands(f1 \o b, bytes, 1)
    BY <1>20, <2>1
  <2>3. ReadUpto(r, bytes, 2, f1 \o b)
    BY <1>13, <1>23, <2>1, <2>2, PartRead
  <2> QED BY <2>1, <2>3
<1>25. ReadUpto(r, bytes, 3, f3)
  <2>1. c = PublishPart(r, 3) /\ f3 = f2 \o c /\ 2 = 3 - 1 /\ 3 \in 1..7
    BY DEF c, f3
  <2>2. Stands(f2 \o c, bytes, 1)
    BY <1>19, <2>1
  <2>3. ReadUpto(r, bytes, 3, f2 \o c)
    BY <1>13, <1>24, <2>1, <2>2, PartRead
  <2> QED BY <2>1, <2>3
<1>26. ReadUpto(r, bytes, 4, f4)
  <2>1. d = PublishPart(r, 4) /\ f4 = f3 \o d /\ 3 = 4 - 1 /\ 4 \in 1..7
    BY DEF d, f4
  <2>2. Stands(f3 \o d, bytes, 1)
    BY <1>18, <2>1
  <2>3. ReadUpto(r, bytes, 4, f3 \o d)
    BY <1>13, <1>25, <2>1, <2>2, PartRead
  <2> QED BY <2>1, <2>3
<1>27. ReadUpto(r, bytes, 5, f5)
  <2>1. e = PublishPart(r, 5) /\ f5 = f4 \o e /\ 4 = 5 - 1 /\ 5 \in 1..7
    BY DEF e, f5
  <2>2. Stands(f4 \o e, bytes, 1)
    BY <1>17, <2>1
  <2>3. ReadUpto(r, bytes, 5, f4 \o e)
    BY <1>13, <1>26, <2>1, <2>2, PartRead
  <2> QED BY <2>1, <2>3
<1>28. ReadUpto(r, bytes, 6, f6)
  <2>1. g = PublishPart(r, 6) /\ f6 = f5 \o g /\ 5 = 6 - 1 /\ 6 \in 1..7
    BY DEF g, f6
  <2>2. Stands(f5 \o g, bytes, 1)
    BY <1>16, <2>1
  <2>3. ReadUpto(r, bytes, 6, f5 \o g)
    BY <1>13, <1>27, <2>1, <2>2, PartRead
  <2> QED BY <2>1, <2>3
<1>29. ReadUpto(r, bytes, 7, f7)
  <2>1. h = PublishPart(r, 7) /\ f7 = f6 \o h /\ 6 = 7 - 1 /\ 7 \in 1..7
    BY DEF h, f7
  <2>2. Stands(f6 \o h, bytes, 1)
    BY <1>15, <2>1
  <2>3. ReadUpto(r, bytes, 7, f6 \o h)
    BY <1>13, <1>28, <2>1, <2>2, PartRead
  <2> QED BY <2>1, <2>3
<1> QED BY <1>13, <1>14, <1>29, PublishRest DEF ext

--------------------------------------------------------------------------------
(* Lists of Publish messages *)

\* Recursion over the first n of a list.
ContinuesTo(n, f, start, out) ==
  f[0] = start /\ \A k \in 1..n : f[k] = out[<<k, f[k - 1]>>]

\* A function on the front of a list that is defined by recursion is what its
\* definition says.
LEMMA ListRecursion ==
  ASSUME NEW n \in Nat, NEW R, NEW start \in R, NEW out \in [(1..n) \X R -> R]
  PROVE  \E f \in [0..n -> R] : ContinuesTo(n, f, start, out)
<1> DEFINE any == [p \in Nat \X R |-> IF p[1] \in 1..n THEN out[p] ELSE start]
<1>1. any \in [Nat \X R -> R]
  <2>1. ASSUME NEW p \in Nat \X R PROVE (IF p[1] \in 1..n THEN out[p] ELSE start) \in R
    <3>1. CASE p[1] \in 1..n
      <4>1. p \in (1..n) \X R
        BY <3>1
      <4> QED BY <3>1, <4>1
    <3> QED BY <3>1
  <2> QED BY <2>1
<1>2. PICK g \in [Nat -> R] : Continues(g, start, any)
  <2> HIDE DEF any
  <2> QED BY <1>1, PrimitiveRecursion
<1> DEFINE f == [k \in 0..n |-> g[k]]
<1>3. f \in [0..n -> R] /\ f[0] = start
  BY <1>2 DEF Continues
<1>4. ASSUME NEW k \in 1..n PROVE f[k] = out[<<k, f[k - 1]>>]
  <2>1. k \in Nat /\ k # 0 /\ k - 1 \in Nat /\ k - 1 \in 0..n /\ k \in 0..n
    OBVIOUS
  <2>2. g[k] = any[<<k, g[k - 1]>>] /\ g[k - 1] \in R
    <3> HIDE DEF any
    <3> QED BY <1>2, <2>1 DEF Continues
  <2>3. any[<<k, g[k - 1]>>] = out[<<k, g[k - 1]>>]
    <3> DEFINE p == <<k, g[k - 1]>>
    <3>1. p \in Nat \X R /\ p[1] = k
      BY <2>1, <2>2
    <3> HIDE DEF p
    <3>2. any[p] = out[p]
      BY <3>1
    <3> QED BY <3>2 DEF p
  <2>4. f[k] = g[k] /\ f[k - 1] = g[k - 1]
    BY <2>1
  <2> QED BY <2>2, <2>3, <2>4
<1> HIDE DEF f
<1> QED BY <1>3, <1>4 DEF ContinuesTo

\* Where the parts of bytes are put together does not matter.
LEMMA JoinsAssociate ==
  ASSUME NEW a \in Bytes, NEW b \in Bytes, NEW c \in Bytes
  PROVE  (a \o b) \o c = a \o (b \o c)
<1> DEFINE Byte == 0..255
<1>1. a \in Seq(Byte) /\ b \in Seq(Byte) /\ c \in Seq(Byte)
  BY DEF Bytes
<1> HIDE DEF Byte
<1> QED BY <1>1

\* A list that can be sent.
SendableList(list) ==
  /\ list \in Seq(PublishMessage)
  /\ \A k \in 1..Len(list) : Sendable(list[k]) /\ Fits(MarshalPublish(list[k]))

FieldsStep(n, list, first, k) ==
  IF k = 0 THEN <<>>
  ELSE first[k - 1] \o <<8 * n + 2>> \o EncodeVarint(Len(MarshalPublish(list[k])))
                    \o MarshalPublish(list[k])

\* The fields of the first k messages.
FieldsOf(n, list) ==
  CHOOSE first : first = [k \in 0..Len(list) |-> FieldsStep(n, list, first, k)]

\* PublishesField in terms of its recursion, under a name.
LEMMA PublishesFieldIs ==
  ASSUME NEW n, NEW list
  PROVE  PublishesField(n, list) = FieldsOf(n, list)[Len(list)]
BY DEF PublishesField, FieldsOf, FieldsStep

SizesStep(list, first, k) ==
  IF k = 0 THEN 0
  ELSE first[k - 1] + 1 + SizePublish(list[k]) + SizeOfVarint(SizePublish(list[k]))

SizesOf(list) == CHOOSE first : first = [k \in 0..Len(list) |-> SizesStep(list, first, k)]

\* PublishesSize in terms of its recursion, under a name.
LEMMA PublishesSizeIs ==
  ASSUME NEW list
  PROVE  PublishesSize(list) = SizesOf(list)[Len(list)]
BY DEF PublishesSize, SizesOf, SizesStep

\* What is written behind x is a block.
WritesBlock(x, tag, b) ==
  ((x \o <<tag>>) \o EncodeVarint(Len(b))) \o b = x \o Block(tag, b)

\* One message of a list, and its size.
LEMMA ListItem ==
  ASSUME NEW list, SendableList(list), NEW k \in 1..Len(list), NEW n \in 1..15,
         NEW b, b = MarshalPublish(list[k])
  PROVE  /\ list[k] \in PublishMessage /\ b \in Bytes /\ Fits(b) /\ Len(b) = SizePublish(list[k])
         /\ Block(8 * n + 2, b) \in Bytes
         /\ Len(Block(8 * n + 2, b)) = 1 + SizeOfVarint(Len(b)) + Len(b)
         /\ SizeOfVarint(Len(b)) \in Nat /\ Len(b) \in Nat
         /\ \A x \in Bytes : WritesBlock(x, 8 * n + 2, b)
<1>1. list[k] \in PublishMessage /\ Sendable(list[k]) /\ Fits(b)
  BY DEF SendableList
<1>2. b \in Bytes /\ Len(b) = SizePublish(list[k])
  BY <1>1, PublishSize
<1>3. 8 * n + 2 \in 0..255
  OBVIOUS
<1> DEFINE tag == 8 * n + 2
           w == Len(b)
<1> HIDE DEF tag
<1>4. Block(tag, b) \in Bytes /\ Len(Block(tag, b)) = 1 + SizeOfVarint(Len(b)) + Len(b)
      /\ SizeOfVarint(Len(b)) \in Nat
  BY <1>1, <1>2, <1>3, BlockIsBytes DEF tag
<1>5. w \in Words /\ w \in Nat
  BY <1>1, <1>2, FitsIsWord
<1>6. <<tag>> \in Bytes /\ EncodeVarint(w) \in Bytes
  <2>1. <<tag>> \in Bytes
    BY <1>3, OneByte DEF tag
  <2> HIDE DEF w
  <2> QED BY <1>5, <2>1, EncodedVarint
<1>7. ASSUME NEW x \in Bytes
      PROVE  WritesBlock(x, tag, b)
  <2> DEFINE t == <<tag>>
             e == EncodeVarint(w)
  <2>1. Block(tag, b) = (t \o e) \o b
    BY DEF Block
  <2>2. t \in Bytes /\ e \in Bytes
    BY <1>6
  <2> HIDE DEF t, e
  <2>3. (x \o t) \o e = x \o (t \o e) /\ t \o e \in Bytes
    BY <2>2, JoinsAssociate, JoinIs
  <2>4. (x \o (t \o e)) \o b = x \o ((t \o e) \o b)
    BY <1>2, <2>3, JoinsAssociate
  <2> QED BY <2>1, <2>3, <2>4 DEF t, e, WritesBlock
<1> QED BY <1>1, <1>2, <1>4, <1>5, <1>7 DEF tag

\* The fields of a list grow by a block for each message.
LEMMA FieldsUnfold ==
  ASSUME NEW list, SendableList(list), NEW n \in 1..15
  PROVE  /\ FieldsOf(n, list)[0] = <<>>
         /\ \A k \in 0..Len(list) : FieldsOf(n, list)[k] \in Bytes
         /\ \A k \in 1..Len(list) :
              FieldsOf(n, list)[k]
                = FieldsOf(n, list)[k - 1] \o Block(8 * n + 2, MarshalPublish(list[k]))
<1> DEFINE len == Len(list)
           block(k) == Block(8 * n + 2, MarshalPublish(list[k]))
           out == [p \in (1..len) \X Bytes |-> p[2] \o block(p[1])]
           G == FieldsOf(n, list)
<1>1. len \in Nat
  BY DEF SendableList
<1>2. ASSUME NEW k \in 1..len
      PROVE  /\ block(k) \in Bytes
             /\ \A x \in Bytes : WritesBlock(x, 8 * n + 2, MarshalPublish(list[k]))
  <2> DEFINE b == MarshalPublish(list[k])
  <2>1. Block(8 * n + 2, b) \in Bytes /\ \A x \in Bytes : WritesBlock(x, 8 * n + 2, b)
    BY ListItem
  <2> QED BY <2>1
<1>3. ASSUME NEW first, NEW k \in 1..len, first[k - 1] \in Bytes
      PROVE  FieldsStep(n, list, first, k) = first[k - 1] \o block(k)
  <2> DEFINE x == first[k - 1]
             b == MarshalPublish(list[k])
  <2>1. k # 0
    OBVIOUS
  <2>2. FieldsStep(n, list, first, k) = ((x \o <<8 * n + 2>>) \o EncodeVarint(Len(b))) \o b
    BY <2>1 DEF FieldsStep
  <2>3. WritesBlock(x, 8 * n + 2, b)
    BY <1>2, <1>3
  <2> QED BY <2>2, <2>3 DEF WritesBlock
<1>4. out \in [(1..len) \X Bytes -> Bytes]
  <2>1. ASSUME NEW p \in (1..len) \X Bytes PROVE p[2] \o block(p[1]) \in Bytes
    <3>1. p[1] \in 1..len /\ p[2] \in Bytes
      OBVIOUS
    <3> HIDE DEF block
    <3> QED BY <1>2, <3>1, JoinIs
  <2> HIDE DEF block
  <2> QED BY <2>1
<1>5. PICK f \in [0..len -> Bytes] : f[0] = <<>> /\ \A k \in 1..len : f[k] = out[<<k, f[k - 1]>>]
  <2>1. \E f \in [0..len -> Bytes] : ContinuesTo(len, f, <<>>, out)
    <3> HIDE DEF out, len
    <3> QED BY <1>1, <1>4, ZeroFits, ListRecursion
  <2> HIDE DEF out, len
  <2> QED BY <2>1 DEF ContinuesTo
<1>6. ASSUME NEW k \in 0..len PROVE f[k] = FieldsStep(n, list, f, k)
  <2>1. CASE k = 0
    BY <1>5, <2>1 DEF FieldsStep
  <2>2. CASE k # 0
    <3>1. k \in 1..len /\ k - 1 \in 0..len
      BY <1>1, <2>2
    <3>2. f[k - 1] \in Bytes /\ f[k] = out[<<k, f[k - 1]>>]
      <4> HIDE DEF out
      <4> QED BY <1>5, <3>1
    <3>3. out[<<k, f[k - 1]>>] = f[k - 1] \o block(k)
      <4> DEFINE p == <<k, f[k - 1]>>
      <4>1. p \in (1..len) \X Bytes /\ p[1] = k /\ p[2] = f[k - 1]
        BY <3>1, <3>2
      <4> HIDE DEF p, block
      <4>2. out[p] = p[2] \o block(p[1])
        BY <4>1
      <4> QED BY <4>1, <4>2 DEF p
    <3>4. FieldsStep(n, list, f, k) = f[k - 1] \o block(k)
      BY <1>3, <3>1, <3>2
    <3> QED BY <3>2, <3>3, <3>4
  <2> QED BY <2>1, <2>2
<1>7. f = [k \in 0..len |-> FieldsStep(n, list, f, k)]
  BY <1>5, <1>6
<1>8. G = [k \in 0..len |-> FieldsStep(n, list, G, k)]
  BY <1>7 DEF FieldsOf
<1>9. 0 \in 0..len /\ FieldsStep(n, list, G, 0) = <<>>
  BY <1>1 DEF FieldsStep
<1> HIDE DEF G, len, block
<1>10. G[0] = <<>>
  BY <1>8, <1>9
<1>11. \A k \in 0..len : G[k] = FieldsStep(n, list, G, k)
  BY <1>8
<1>12. ASSUME NEW k \in Nat, k + 1 <= len, G[k] \in Bytes
       PROVE  G[k + 1] \in Bytes
  <2>1. k + 1 \in 1..len /\ k + 1 \in 0..len /\ (k + 1) - 1 = k
    BY <1>1, <1>12
  <2> DEFINE j == k + 1
  <2>2. j \in 1..len /\ j \in 0..len /\ G[j - 1] = G[k] /\ G[j - 1] \in Bytes
    BY <1>12, <2>1
  <2> HIDE DEF j
  <2>3. FieldsStep(n, list, G, j) = G[j - 1] \o block(j)
    BY <1>3, <2>2
  <2>4. G[j] = G[j - 1] \o block(j) /\ block(j) \in Bytes
    <3> QED BY <1>2, <1>11, <2>2, <2>3
  <2>5. G[j] \in Bytes
    <3> QED BY <2>2, <2>4, JoinIs
  <2> QED BY <2>5 DEF j
<1>13. \A k \in 0..len : G[k] \in Bytes
  <2> DEFINE T == {k \in Nat : k <= len => G[k] \in Bytes}
  <2>1. 0 \in T
    BY <1>10, ZeroFits
  <2>2. ASSUME NEW k \in Nat, k \in T PROVE k + 1 \in T
    <3>1. k + 1 <= len => k <= len
      BY <1>1
    <3> QED BY <1>12, <2>2, <3>1
  <2>3. Nat \subseteq T
    <3> HIDE DEF T
    <3> QED BY <2>1, <2>2, Induction
  <2> QED BY <1>1, <2>3
<1>14. ASSUME NEW k \in 1..len PROVE G[k] = G[k - 1] \o block(k)
  <2>1. k \in 0..len /\ k - 1 \in 0..len
    BY <1>1
  <2>2. G[k] = FieldsStep(n, list, G, k) /\ G[k - 1] \in Bytes
    BY <1>11, <1>13, <2>1
  <2> QED BY <1>3, <2>2
<1> QED BY <1>10, <1>13, <1>14 DEF G, len, block

\* The sizes of a list add up as its fields do.
LEMMA SizesUnfold ==
  ASSUME NEW list, SendableList(list), NEW n \in 1..15
  PROVE  /\ SizesOf(list)[0] = 0
         /\ \A k \in 0..Len(list) : SizesOf(list)[k] \in Nat
         /\ \A k \in 1..Len(list) :
              SizesOf(list)[k]
                = SizesOf(list)[k - 1] + Len(Block(8 * n + 2, MarshalPublish(list[k])))
<1> DEFINE len == Len(list)
           block(k) == Block(8 * n + 2, MarshalPublish(list[k]))
           out == [p \in (1..len) \X Nat |-> p[2] + Len(block(p[1]))]
           G == SizesOf(list)
<1>1. len \in Nat
  BY DEF SendableList
<1>2. ASSUME NEW k \in 1..len
      PROVE  /\ Len(block(k)) \in Nat
             /\ \A x \in Nat : x + 1 + SizePublish(list[k]) + SizeOfVarint(SizePublish(list[k]))
                                 = x + Len(block(k))
  <2> DEFINE b == MarshalPublish(list[k])
  <2>1. Len(b) = SizePublish(list[k]) /\ Len(block(k)) = 1 + SizeOfVarint(Len(b)) + Len(b)
        /\ SizeOfVarint(Len(b)) \in Nat /\ Len(b) \in Nat
    BY ListItem
  <2> HIDE DEF b, block
  <2> QED BY <2>1
<1>3. ASSUME NEW first, NEW k \in 1..len, first[k - 1] \in Nat
      PROVE  SizesStep(list, first, k) = first[k - 1] + Len(block(k))
  <2>1. k # 0
    OBVIOUS
  <2> HIDE DEF block
  <2> QED BY <1>2, <1>3, <2>1 DEF SizesStep
<1> HIDE DEF block
<1>4. out \in [(1..len) \X Nat -> Nat]
  <2>1. ASSUME NEW p \in (1..len) \X Nat PROVE p[2] + Len(block(p[1])) \in Nat
    <3>1. p[1] \in 1..len /\ p[2] \in Nat
      OBVIOUS
    <3> QED BY <1>2, <3>1
  <2> QED BY <2>1
<1>5. PICK f \in [0..len -> Nat] : f[0] = 0 /\ \A k \in 1..len : f[k] = out[<<k, f[k - 1]>>]
  <2>1. \E f \in [0..len -> Nat] : ContinuesTo(len, f, 0, out)
    <3> HIDE DEF out, len
    <3> QED BY <1>1, <1>4, ListRecursion
  <2> HIDE DEF out, len
  <2> QED BY <2>1 DEF ContinuesTo
<1>6. ASSUME NEW k \in 0..len PROVE f[k] = SizesStep(list, f, k)
  <2>1. CASE k = 0
    BY <1>5, <2>1 DEF SizesStep
  <2>2. CASE k # 0
    <3>1. k \in 1..len /\ k - 1 \in 0..len
      BY <1>1, <2>2
    <3>2. f[k - 1] \in Nat /\ f[k] = out[<<k, f[k - 1]>>]
      <4> HIDE DEF out
      <4> QED BY <1>5, <3>1
    <3>3. out[<<k, f[k - 1]>>] = f[k - 1] + Len(block(k))
      <4> DEFINE p == <<k, f[k - 1]>>
      <4>1. p \in (1..len) \X Nat /\ p[1] = k /\ p[2] = f[k - 1]
        BY <3>1, <3>2
      <4> HIDE DEF p
      <4>2. out[p] = p[2] + Len(block(p[1]))
        BY <4>1
      <4> QED BY <4>1, <4>2 DEF p
    <3>4. SizesStep(list, f, k) = f[k - 1] + Len(block(k))
      BY <1>3, <3>1, <3>2
    <3> QED BY <3>2, <3>3, <3>4
  <2> QED BY <2>1, <2>2
<1>7. f = [k \in 0..len |-> SizesStep(list, f, k)]
  BY <1>5, <1>6
<1>8. G = [k \in 0..len |-> SizesStep(list, G, k)]
  BY <1>7 DEF SizesOf
<1>9. 0 \in 0..len /\ SizesStep(list, G, 0) = 0
  BY <1>1 DEF SizesStep
<1> HIDE DEF G, len
<1>10. G[0] = 0
  BY <1>8, <1>9
<1>11. \A k \in 0..len : G[k] = SizesStep(list, G, k)
  BY <1>8
<1>12. ASSUME NEW k \in Nat, k + 1 <= len, G[k] \in Nat
       PROVE  G[k + 1] \in Nat
  <2> DEFINE j == k + 1
  <2>1. j \in 1..len /\ j \in 0..len /\ j - 1 = k
    BY <1>1, <1>12
  <2>2. G[j - 1] \in Nat
    BY <1>12, <2>1
  <2> HIDE DEF j
  <2>3. G[j] = G[j - 1] + Len(block(j))
    BY <1>3, <1>11, <2>1, <2>2
  <2>4. G[j] \in Nat
    BY <1>2, <2>1, <2>2, <2>3
  <2> QED BY <2>4 DEF j
<1>13. \A k \in 0..len : G[k] \in Nat
  <2> DEFINE T == {k \in Nat : k <= len => G[k] \in Nat}
  <2>1. 0 \in T
    BY <1>10
  <2>2. ASSUME NEW k \in Nat, k \in T PROVE k + 1 \in T
    <3>1. k + 1 <= len => k <= len
      BY <1>1
    <3> QED BY <1>12, <2>2, <3>1
  <2>3. Nat \subseteq T
    <3> HIDE DEF T
    <3> QED BY <2>1, <2>2, Induction
  <2> QED BY <1>1, <2>3
<1>14. ASSUME NEW k \in 1..len PROVE G[k] = G[k - 1] + Len(block(k))
  <2>1. k \in 0..len /\ k - 1 \in 0..len
    BY <1>1
  <2>2. G[k] = SizesStep(list, G, k) /\ G[k - 1] \in Nat
    BY <1>11, <1>13, <2>1
  <2> QED BY <1>3, <2>2
<1> QED BY <1>10, <1>13, <1>14 DEF G, len, block

\* PublishesField writes as many bytes as PublishesSize says.
LEMMA PublishesSizeFits ==
  ASSUME NEW list, SendableList(list), NEW n \in 1..15
  PROVE  PublishesField(n, list) \in Bytes /\ Len(PublishesField(n, list)) = PublishesSize(list)
<1> DEFINE F == FieldsOf(n, list)
           G == SizesOf(list)
           len == Len(list)
           block(k) == Block(8 * n + 2, MarshalPublish(list[k]))
           T == {k \in Nat : k <= len => Len(F[k]) = G[k]}
<1>1. len \in Nat
  BY DEF SendableList
<1>2. /\ F[0] = <<>> /\ \A k \in 0..len : F[k] \in Bytes
      /\ \A k \in 1..len : F[k] = F[k - 1] \o block(k)
  BY FieldsUnfold
<1>3. /\ G[0] = 0 /\ \A k \in 0..len : G[k] \in Nat
      /\ \A k \in 1..len : G[k] = G[k - 1] + Len(block(k))
  BY SizesUnfold
<1>4. \A k \in 1..len : block(k) \in Bytes
  BY ListItem
<1> HIDE DEF F, G, block, len
<1>5. 0 \in T
  <2>1. Len(<<>>) = 0
    OBVIOUS
  <2> QED BY <1>2, <1>3, <2>1
<1>6. ASSUME NEW k \in Nat, k \in T PROVE k + 1 \in T
  <2> SUFFICES ASSUME k + 1 <= len PROVE Len(F[k + 1]) = G[k + 1]
    OBVIOUS
  <2> DEFINE j == k + 1
  <2>1. j \in 1..len /\ j - 1 = k /\ k \in 0..len /\ Len(F[k]) = G[k]
    BY <1>1, <1>6
  <2>2. F[j - 1] \in Bytes /\ Len(F[j - 1]) = G[j - 1]
    BY <1>2, <2>1
  <2> HIDE DEF j
  <2>3. Len(F[j - 1] \o block(j)) = Len(F[j - 1]) + Len(block(j))
    BY <1>4, <2>1, <2>2, JoinIs
  <2>4. Len(F[j]) = G[j]
    BY <1>2, <1>3, <2>1, <2>2, <2>3
  <2> QED BY <2>4 DEF j
<1>7. Nat \subseteq T
  <2> HIDE DEF T
  <2> QED BY <1>5, <1>6, Induction
<1>8. len \in 0..len /\ Len(F[len]) = G[len]
  BY <1>1, <1>7
<1> QED BY <1>2, <1>8, PublishesFieldIs, PublishesSizeIs DEF F, G, len

\* A message of the list, in a field of number n, stands at i up to end.
ItemHere(fields, n, r, b, bytes, i, end) ==
  /\ n \in 1..15 /\ n \in DOMAIN fields /\ fields[n].kind \in ListKinds
  /\ Sendable(r) /\ b = MarshalPublish(r) /\ Fits(b)
  /\ bytes \in Bytes /\ Fits(bytes) /\ i \in Nat \ {0}
  /\ Stands(Block(8 * n + 2, b), bytes, i) /\ end = i + Len(Block(8 * n + 2, b))

\* It is added to the message, unless there is one already to be merged with it.
LEMMA ItemDecoded ==
  ASSUME NEW fields, NEW n, NEW r, NEW b, NEW bytes, NEW i, NEW end,
         ItemHere(fields, n, r, b, bytes, i, end), NEW m, Into(fields[n], m) = EmptyPublish
  PROVE  AnyDecode(fields, m, bytes, i)
           = Read(Sets(m, fields[n].name, Holds(fields[n], m, r)), end)
<1> DEFINE f == fields[n]
           tag == 8 * n + 2
           block == LengthDelimited(bytes, i + 1)
           new == Sets(m, f.name, Holds(f, m, r))
<1>1. n \in 1..15 /\ n \in DOMAIN fields /\ f.kind \in ListKinds /\ Sendable(r)
      /\ b = MarshalPublish(r) /\ Fits(b) /\ bytes \in Bytes /\ Fits(bytes) /\ i \in Nat \ {0}
      /\ Stands(Block(tag, b), bytes, i) /\ end = i + Len(Block(tag, b))
  BY DEF ItemHere
<1>2. tag \in 0..127 /\ tag \div 8 = n /\ tag % 8 = 2 /\ Signed(n, SmallBits) = n /\ ~(n <= 0)
  BY <1>1, TagIs
<1> HIDE DEF tag
<1>3. b \in Bytes
  BY <1>1, PublishSize
<1>4. ReadVarint(bytes, i) = Read(tag, i + 1) /\ block = Read(b, end)
  BY <1>1, <1>2, <1>3, BlockRead
<1>5. UnmarshalPublish(Into(f, m), b) = Read(r, Len(b) + 1)
  BY <1>1, PublishBack
<1>6. AnyField(f, m, 2, bytes, i + 1) = Read(new, end)
  <2> DEFINE back == UnmarshalPublish(Into(f, m), block.value)
  <2>1. AnyField(f, m, 2, bytes, i + 1) =
          IF block.err # "nil" THEN block
          ELSE IF back.err # "nil" THEN back
          ELSE Read(Sets(m, f.name, Holds(f, m, back.value)), block.next)
    BY <1>1, ListFieldIs
  <2>2. back = Read(r, Len(b) + 1)
    BY <1>4, <1>5, StepIs
  <2>3. new = Sets(m, f.name, Holds(f, m, r))
    OBVIOUS
  <2> HIDE DEF block, f, back, new
  <2> QED BY <1>4, <2>1, <2>2, <2>3, StepIs
<1> HIDE DEF block, new
<1>7. AnyDecode(fields, m, bytes, i) = AnyField(f, m, 2, bytes, i + 1)
  <2>1. FieldNumber(tag) = n /\ ~(tag % 8 = 4) /\ tag % 8 = 2 /\ ~(n <= 0) /\ n \in DOMAIN fields
    BY <1>1, <1>2 DEF FieldNumber
  <2>2. ReadVarint(bytes, i) = Read(tag, i + 1)
    BY <1>4
  <2> HIDE DEF f
  <2>3. AnyDecode(fields, m, bytes, i)
          = DecodeField(fields, AnyField(fields[FieldNumber(tag)], m, tag % 8, bytes, i + 1),
                        m, tag, bytes, i)
    BY <2>2, StepIs DEF AnyDecode, Then
  <2>4. AnyDecode(fields, m, bytes, i)
          = AnyField(fields[FieldNumber(tag)], m, tag % 8, bytes, i + 1)
    BY <2>1, <2>3 DEF DecodeField
  <2> QED BY <2>1, <2>4 DEF f
<1> QED BY <1>6, <1>7 DEF new

\* What stands when the first k messages of a list are read.
ListReading(Message, fields, list, bytes) ==
  /\ Codec(Message, fields) /\ Functions(Message) /\ DOMAIN fields = 1..1
  /\ fields[1].kind \in ListKinds /\ fields[1].name # "unknownFields"
  /\ SendableList(list) /\ (fields[1].kind = "publish" => Len(list) <= 1)
  /\ bytes \in Bytes /\ Fits(bytes)
  /\ Stands(FieldsOf(1, list)[Len(list)], bytes, 1)

ReadFirst(fields, list, k) == Sets(NewMessage(fields), fields[1].name, SubSeq(list, 1, k))

\* The front of a list grows by one message.
LEMMA FrontGrows ==
  ASSUME NEW S, NEW list \in Seq(S), NEW k \in 1..Len(list)
  PROVE  /\ SubSeq(list, 1, k) \in Seq(S) /\ SubSeq(list, 1, k - 1) \in Seq(S)
         /\ Append(SubSeq(list, 1, k - 1), list[k]) = SubSeq(list, 1, k)
         /\ k = 1 => SubSeq(list, 1, k) = <<list[k]>> /\ SubSeq(list, 1, k - 1) = <<>>
<1> DEFINE old == SubSeq(list, 1, k - 1)
           longer == SubSeq(list, 1, k)
<1>1. Len(list) \in Nat /\ \A n \in 1..Len(list) : list[n] \in S
  OBVIOUS
<1>2. old \in Seq(S) /\ Len(old) = k - 1 /\ \A n \in 1..(k - 1) : old[n] = list[n]
  <2>1. \A n \in 1..(k - 1) : n \in 1..Len(list) /\ 1 + n - 1 = n
    OBVIOUS
  <2> QED BY <1>1, <2>1
<1>3. longer \in Seq(S) /\ Len(longer) = k /\ \A n \in 1..k : longer[n] = list[n]
  <2>1. \A n \in 1..k : n \in 1..Len(list) /\ 1 + n - 1 = n
    OBVIOUS
  <2> QED BY <1>1, <2>1
<1> HIDE DEF old, longer
<1>4. Append(old, list[k]) = longer
  <2>1. Append(old, list[k]) \in Seq(S) /\ Len(Append(old, list[k])) = k
    BY <1>1, <1>2
  <2>2. \A n \in 1..k : Append(old, list[k])[n] = longer[n]
    BY <1>1, <1>2, <1>3
  <2> DEFINE a == Append(old, list[k])
  <2> HIDE DEF a
  <2>3. a = longer
    BY <1>3, <2>1, <2>2 DEF a
  <2> QED BY <2>3 DEF a
<1>5. k = 1 => longer = <<list[k]>> /\ old = <<>>
  BY <1>1, <1>2, <1>3
<1> QED BY <1>2, <1>3, <1>4, <1>5 DEF old, longer

\* A message with the front of a list is one, and gains the next of the list as the
\* decoder adds it.
LEMMA ReadFirstIs ==
  ASSUME NEW Message, NEW fields, NEW list, NEW bytes,
         ListReading(Message, fields, list, bytes)
  PROVE  /\ ReadFirst(fields, list, 0) = NewMessage(fields)
         /\ \A k \in 0..Len(list) :
              ReadFirst(fields, list, k) \in Message
              /\ ReadFirst(fields, list, k)[fields[1].name] = SubSeq(list, 1, k)
         /\ \A k \in 1..Len(list) :
              /\ Into(fields[1], ReadFirst(fields, list, k - 1)) = EmptyPublish
              /\ Sets(ReadFirst(fields, list, k - 1), fields[1].name,
                      Holds(fields[1], ReadFirst(fields, list, k - 1), list[k]))
                   = ReadFirst(fields, list, k)
<1> DEFINE new == NewMessage(fields)
           f == fields[1]
           name == f.name
           u(k) == ReadFirst(fields, list, k)
<1>1. /\ new \in Message /\ f.kind \in ListKinds /\ name # "unknownFields" /\ 1 \in DOMAIN fields
      /\ list \in Seq(PublishMessage) /\ (f.kind = "publish" => Len(list) <= 1)
      /\ \A m \in Message : \A v \in Seq(PublishMessage) : Sets(m, name, v) \in Message
      /\ \A n \in DOMAIN fields : n = 1
  <2>1. /\ Codec(Message, fields) /\ f.kind \in ListKinds /\ name # "unknownFields"
        /\ DOMAIN fields = 1..1 /\ SendableList(list) /\ (f.kind = "publish" => Len(list) <= 1)
    BY DEF ListReading
  <2>2. 1 \in DOMAIN fields /\ \A n \in DOMAIN fields : n = 1
    BY <2>1
  <2>3. ValuesOf(f.kind) = Seq(PublishMessage)
    BY <2>1, KindsAre DEF ListKinds
  <2>4. new \in Message /\ Keeps(Message, fields)
    BY <2>1 DEF Codec
  <2>5. \A m \in Message : \A v \in ValuesOf(f.kind) : Sets(m, name, v) \in Message
    BY <2>2, <2>4 DEF Keeps
  <2> QED BY <2>1, <2>2, <2>3, <2>4, <2>5 DEF SendableList
<1>2. new = [x \in DOMAIN new |-> new[x]] /\ name \in DOMAIN new /\ new[name] = <<>>
  <2>1. ZeroOf(f.kind) = <<>>
    BY <1>1, KindsAre DEF ListKinds
  <2>2. new = [x \in DOMAIN new |-> new[x]]
        /\ DOMAIN new = {fields[n].name : n \in DOMAIN fields} \cup {"unknownFields"}
    BY NewIs
  <2>3. name # "unknownFields"
          /\ (\A k \in DOMAIN fields : fields[k].name = name => k = 1) => new[name] = ZeroOf(f.kind)
    BY <1>1, NewIs
  <2>4. new[name] = ZeroOf(f.kind)
    BY <1>1, <2>3
  <2> QED BY <1>1, <2>1, <2>2, <2>4
<1>3. \A k : u(k) = Sets(new, name, SubSeq(list, 1, k))
  BY DEF ReadFirst
<1> HIDE DEF new, f, name, u
<1>4. \A v : Sets(new, name, v)[name] = v
  BY <1>2 DEF Sets
<1>5. \A v, w : Sets(Sets(new, name, v), name, w) = Sets(new, name, w)
  BY <1>2 DEF Sets
<1>6. Sets(new, name, <<>>) = new
  BY <1>2 DEF Sets
<1>7. SubSeq(list, 1, 0) = <<>>
  BY <1>1
<1>8. ASSUME NEW k \in 0..Len(list) PROVE u(k) \in Message /\ u(k)[name] = SubSeq(list, 1, k)
  <2>1. SubSeq(list, 1, k) \in Seq(PublishMessage)
    BY <1>1
  <2> QED BY <1>1, <1>3, <1>4, <2>1
<1>9. ASSUME NEW k \in 1..Len(list)
      PROVE  /\ Into(f, u(k - 1)) = EmptyPublish
             /\ Sets(u(k - 1), name, Holds(f, u(k - 1), list[k])) = u(k)
  <2> DEFINE old == SubSeq(list, 1, k - 1)
             longer == SubSeq(list, 1, k)
  <2>1. /\ Append(old, list[k]) = longer
        /\ k = 1 => longer = <<list[k]>> /\ old = <<>>
    BY <1>1, FrontGrows
  <2>2. u(k - 1) = Sets(new, name, old) /\ u(k) = Sets(new, name, longer)
    BY <1>3
  <2>3. f.kind = "publish" => k = 1
    BY <1>1
  <2> HIDE DEF old, longer
  <2>4. u(k - 1)[name] = old
    BY <1>4, <2>2
  <2>5. Holds(f, u(k - 1), list[k]) = longer
    BY <2>1, <2>3, <2>4 DEF Holds, name
  <2>6. Into(f, u(k - 1)) = EmptyPublish
    BY <2>1, <2>3, <2>4 DEF Into, name
  <2> QED BY <1>5, <2>2, <2>5, <2>6
<1>10. u(0) = new
  BY <1>3, <1>6, <1>7
<1> QED BY <1>8, <1>9, <1>10 DEF new, f, name, u

\* The fields of the first k messages stand at the beginning.
LEMMA FrontOfList ==
  ASSUME NEW Message, NEW fields, NEW list, NEW bytes,
         ListReading(Message, fields, list, bytes)
  PROVE  \A k \in 0..Len(list) : Stands(FieldsOf(1, list)[k], bytes, 1)
<1> DEFINE F == FieldsOf(1, list)
           len == Len(list)
           block(k) == Block(8 * 1 + 2, MarshalPublish(list[k]))
           T == {k \in 0..len : Stands(F[k], bytes, 1)}
<1>1. SendableList(list) /\ bytes \in Bytes /\ Stands(F[len], bytes, 1) /\ len \in Nat
      /\ 1 \in 1..15
  BY DEF ListReading, SendableList
<1>2. /\ \A k \in 0..len : F[k] \in Bytes
      /\ \A k \in 1..len : F[k] = F[k - 1] \o block(k)
  BY <1>1, FieldsUnfold
<1>3. \A k \in 1..len : block(k) \in Bytes
  BY <1>1, ListItem
<1> HIDE DEF F, len, block
<1>4. ASSUME NEW k \in 0..len, k < len => k + 1 \in T PROVE k \in T
  <2>1. CASE k = len
    BY <1>1, <2>1
  <2>2. CASE k # len
    <3> DEFINE j == k + 1
    <3>1. j \in 1..len /\ j - 1 = k /\ Stands(F[j], bytes, 1)
      BY <1>1, <1>4, <2>2
    <3> HIDE DEF j
    <3>2. F[j] = F[j - 1] \o block(j) /\ F[j - 1] \in Bytes /\ block(j) \in Bytes
      BY <1>1, <1>2, <1>3, <3>1
    <3>3. Stands(F[j - 1], bytes, 1)
      BY <1>1, <3>1, <3>2, FrontsStand
    <3> QED BY <3>1, <3>3
  <2> QED BY <2>1, <2>2
<1>5. 0..len \subseteq T
  <2> HIDE DEF T
  <2> QED BY <1>1, <1>4, Downwards
<1> QED BY <1>5 DEF F, len

\* f read the first k messages.
FirstRead(f, fields, list, k) ==
  f[<<NewMessage(fields), 1>>]
    = f[<<ReadFirst(fields, list, k), 1 + Len(FieldsOf(1, list)[k])>>]

\* One more is read.
LEMMA ListStep ==
  ASSUME NEW Message, NEW fields, NEW list, NEW bytes,
         ListReading(Message, fields, list, bytes), NEW f, f = AnyLoop(Message, fields, bytes),
         NEW k \in 1..Len(list), FirstRead(f, fields, list, k - 1)
  PROVE  FirstRead(f, fields, list, k)
<1> DEFINE F == FieldsOf(1, list)
           b == MarshalPublish(list[k])
           block == Block(8 * 1 + 2, b)
           i == 1 + Len(F[k - 1])
           end == 1 + Len(F[k])
           m == ReadFirst(fields, list, k - 1)
           new == ReadFirst(fields, list, k)
           one == AnyDecode(fields, m, bytes, i)
<1>1. /\ Codec(Message, fields) /\ SendableList(list) /\ bytes \in Bytes /\ Fits(bytes)
      /\ fields[1].kind \in ListKinds /\ 1 \in DOMAIN fields /\ 1 \in 1..15
      /\ Len(list) \in Nat /\ k - 1 \in 0..Len(list) /\ k \in 0..Len(list)
  <2>1. SendableList(list) /\ DOMAIN fields = 1..1
    BY DEF ListReading
  <2>2. Len(list) \in Nat
    BY <2>1 DEF SendableList
  <2> QED BY <2>1, <2>2 DEF ListReading
<1>2. Sendable(list[k]) /\ Fits(b) /\ b \in Bytes /\ block \in Bytes /\ Len(block) \in Nat
      /\ Len(block) >= 1
  <2>1. Fits(b) /\ b \in Bytes /\ Block(8 * 1 + 2, b) \in Bytes
        /\ Len(Block(8 * 1 + 2, b)) = 1 + SizeOfVarint(Len(b)) + Len(b)
        /\ SizeOfVarint(Len(b)) \in Nat /\ Len(b) \in Nat
    BY <1>1, ListItem
  <2>2. Sendable(list[k])
    BY <1>1 DEF SendableList
  <2> HIDE DEF b
  <2> QED BY <2>1, <2>2
<1>3. F[k] = F[k - 1] \o block /\ F[k] \in Bytes /\ F[k - 1] \in Bytes
  BY <1>1, FieldsUnfold
<1>4. Stands(F[k], bytes, 1)
  BY <1>1, FrontOfList
<1>5. m \in Message
  BY <1>1, ReadFirstIs
<1>6. Into(fields[1], m) = EmptyPublish
      /\ Sets(m, fields[1].name, Holds(fields[1], m, list[k])) = new
  BY ReadFirstIs
<1>7. f[<<NewMessage(fields), 1>>] = f[<<m, i>>]
  BY DEF FirstRead
<1> HIDE DEF F, block, m, new
<1>8. i \in Nat \ {0} /\ Stands(block, bytes, i) /\ end = i + Len(block)
  <2>1. Len(F[k - 1]) \in Nat /\ Len(F[k]) = Len(F[k - 1]) + Len(block)
    BY <1>2, <1>3, JoinIs
  <2>2. Stands(F[k - 1] \o block, bytes, 1)
    BY <1>3, <1>4
  <2>3. Stands(block, bytes, 1 + Len(F[k - 1]))
    BY <1>1, <1>2, <1>3, <2>2, StandsJoin
  <2> QED BY <1>2, <2>1, <2>3
<1>9. i <= Len(bytes) /\ Len(bytes) \in Nat
  <2> HIDE DEF i
  <2> QED BY <1>1, <1>2, <1>8, NotEmpty, BytesAre
<1> HIDE DEF i, end
<1>10. one = Read(new, end)
  <2>1. ItemHere(fields, 1, list[k], b, bytes, i, end)
    BY <1>1, <1>2, <1>8 DEF ItemHere, block
  <2>2. one = Read(Sets(m, fields[1].name, Holds(fields[1], m, list[k])), end)
    BY <1>6, <2>1, ItemDecoded
  <2> QED BY <1>6, <2>2
<1>11. LoopIs(f, <<m, i>>, bytes, one)
  <2> DEFINE s == <<m, i>>
  <2>1. s \in States(Message, bytes) /\ s[1] = m /\ s[2] = i
    BY <1>1, <1>5, <1>8, <1>9, StatesAre
  <2> HIDE DEF s
  <2>2. LoopIs(f, s, bytes, AnyDecode(fields, s[1], bytes, s[2]))
    BY <1>1, <2>1, AnyDecodes
  <2> QED BY <2>1, <2>2 DEF s
<1> HIDE DEF one
<1>12. f[<<m, i>>] = f[<<new, end>>]
  <2>1. ~(i > Len(bytes))
    BY <1>8, <1>9
  <2> QED BY <1>10, <1>11, <2>1, StepIs DEF LoopIs
<1> QED BY <1>7, <1>12 DEF FirstRead, new, end, F

\* All are read.
LEMMA ListRead ==
  ASSUME NEW Message, NEW fields, NEW list, NEW bytes,
         ListReading(Message, fields, list, bytes), NEW f, f = AnyLoop(Message, fields, bytes)
  PROVE  FirstRead(f, fields, list, Len(list))
<1> DEFINE len == Len(list)
           T == {k \in Nat : k <= len => FirstRead(f, fields, list, k)}
<1>1. SendableList(list) /\ len \in Nat /\ 1 \in 1..15
  BY DEF ListReading, SendableList
<1>2. 0 \in T
  <2>1. FieldsOf(1, list)[0] = <<>>
    BY <1>1, FieldsUnfold
  <2>3. 1 + Len(<<>>) = 1
    OBVIOUS
  <2>2. ReadFirst(fields, list, 0) = NewMessage(fields)
    BY ReadFirstIs
  <2> QED BY <2>1, <2>2, <2>3 DEF FirstRead
<1>3. ASSUME NEW k \in Nat, k \in T PROVE k + 1 \in T
  <2> SUFFICES ASSUME k + 1 <= len PROVE FirstRead(f, fields, list, k + 1)
    OBVIOUS
  <2> DEFINE j == k + 1
  <2>1. j \in 1..Len(list) /\ j - 1 = k /\ FirstRead(f, fields, list, k)
    BY <1>1, <1>3
  <2>2. FirstRead(f, fields, list, j - 1)
    BY <2>1
  <2> HIDE DEF j
  <2>3. FirstRead(f, fields, list, j)
    BY <2>1, <2>2, ListStep
  <2> QED BY <2>3 DEF j
<1>4. Nat \subseteq T
  <2> HIDE DEF T
  <2> QED BY <1>2, <1>3, Induction
<1> QED BY <1>1, <1>4

\* A message of a list, with what a later version added, is read whole.
ListWritten(Message, fields, list, ext, bytes) ==
  /\ ListReading(Message, fields, list, bytes)
  /\ ext \in Bytes /\ LaterFields(ext) /\ bytes = PublishesField(1, list) \o ext

\* A list of Publish messages with fields of a later version is read back whole.
LEMMA ListBack ==
  ASSUME NEW Message, NEW fields, NEW list, NEW ext, NEW bytes,
         ListWritten(Message, fields, list, ext, bytes)
  PROVE  UnmarshalVT(Message, fields, bytes)
           = Read(Gains(Sets(NewMessage(fields), fields[1].name, list), ext), Len(bytes) + 1)
<1> DEFINE f == AnyLoop(Message, fields, bytes)
           len == Len(list)
           front == PublishesField(1, list)
           p == Len(front)
           at == p + 1
           m == ReadFirst(fields, list, len)
<1>1. /\ ListReading(Message, fields, list, bytes) /\ ext \in Bytes /\ LaterFields(ext)
      /\ Codec(Message, fields) /\ Functions(Message) /\ bytes \in Bytes /\ Fits(bytes)
      /\ SendableList(list) /\ bytes = front \o ext
  BY DEF ListWritten, ListReading
<1>2. DOMAIN fields \subseteq 1..7 /\ Keeps(Message, fields)
  BY <1>1 DEF ListReading, Codec
<1>3. len \in Nat /\ len \in 0..len /\ list \in Seq(PublishMessage)
  BY <1>1 DEF SendableList
<1>4. front = FieldsOf(1, list)[len] /\ front \in Bytes
  BY <1>1, PublishesFieldIs, PublishesSizeFits
<1>5. m \in Message
  BY <1>1, <1>3, ReadFirstIs
<1>6. m = Sets(NewMessage(fields), fields[1].name, list)
  <2>1. SubSeq(list, 1, len) = list
    BY <1>3
  <2> QED BY <2>1 DEF ReadFirst
<1>7. f[<<NewMessage(fields), 1>>] = f[<<m, 1 + p>>]
  <2>1. FirstRead(f, fields, list, len)
    BY <1>1, ListRead
  <2> QED BY <1>4, <2>1 DEF FirstRead
<1>8. EndsWith(ext, bytes, p) /\ p \in Nat /\ 1 + p = at
  <2> HIDE DEF front
  <2> QED BY <1>1, <1>4, JoinEnds, BytesAre
<1>9. Loops(f, Message, fields, bytes)
      /\ UnmarshalVT(Message, fields, bytes) = f[<<NewMessage(fields), 1>>]
  BY <1>1, MessageLoops
<1>10. f[<<m, at>>] = Read(Gains(m, ext), Len(bytes) + 1)
  <2>1. \E q \in Nat : EndsWith(ext, bytes, q) /\ at = q + 1
    BY <1>8
  <2> HIDE DEF m, f, p, at
  <2>2. LaterRest(f, Message, fields, ext, bytes, at)
    BY <1>1, <1>2, <1>9, <2>1 DEF LaterRest
  <2> QED BY <1>5, <2>2, LaterRead
<1> QED BY <1>6, <1>7, <1>8, <1>9, <1>10

--------------------------------------------------------------------------------
(* Answers *)

\* The new message that may hold one Publish is empty.
LEMMA NewOnePublish ==
  ASSUME NEW fields, DOMAIN fields = 1..1, fields[1].name = "publish", fields[1].kind = "publish"
  PROVE  NewMessage(fields) = [publish |-> <<>>, unknownFields |-> <<>>]
<1> DEFINE new == NewMessage(fields)
<1>1. /\ DOMAIN new = {fields[n].name : n \in DOMAIN fields} \cup {"unknownFields"}
      /\ new = [name \in DOMAIN new |-> new[name]] /\ new.unknownFields = <<>>
      /\ \A n \in DOMAIN fields :
           fields[n].name # "unknownFields"
             /\ (\A k \in DOMAIN fields : fields[k].name = fields[n].name => k = n) =>
           new[fields[n].name] = ZeroOf(fields[n].kind)
  BY NewIs
<1>2. 1 \in DOMAIN fields /\ \A n \in DOMAIN fields : n = 1
  OBVIOUS
<1> HIDE DEF new
<1>3. DOMAIN new = {"publish", "unknownFields"}
  BY <1>1, <1>2
<1>4. new["publish"] = <<>>
  BY <1>1, <1>2, KindsAre
<1>5. new = [publish |-> <<>>, unknownFields |-> <<>>]
  BY <1>1, <1>3, <1>4
<1> QED BY <1>5 DEF new

\* The messages that may hold one Publish stay such messages under the decoder.
LEMMA OnePublishCodec ==
  ASSUME NEW fields, DOMAIN fields = 1..1, fields[1].name = "publish", fields[1].kind = "publish",
         NEW Message, Message = [publish : Seq(PublishMessage), unknownFields : Bytes]
  PROVE  Codec(Message, fields) /\ Functions(Message)
<1>1. \A n \in DOMAIN fields : n = 1
  OBVIOUS
<1>2. \A m \in Message : /\ m.unknownFields \in Bytes /\ m.publish \in Seq(PublishMessage)
                         /\ m = [name \in DOMAIN m |-> m[name]]
                         /\ \A x \in Bytes : Sets(m, "unknownFields", x) \in Message
                         /\ \A v \in Seq(PublishMessage) : Sets(m, "publish", v) \in Message
  BY DEF Sets
<1>3. Keeps(Message, fields)
  <2>1. \A m \in Message : m["publish"] = m.publish
    OBVIOUS
  <2> QED BY <1>1, <1>2, <2>1, KindsAre DEF Keeps
<1>4. NewMessage(fields) \in Message
  <2>1. NewMessage(fields) = [publish |-> <<>>, unknownFields |-> <<>>]
    BY NewOnePublish
  <2> QED BY <2>1, ZeroFits
<1>5. \A n \in DOMAIN fields : fields[n].kind \in PlainKinds \cup ListKinds
  BY <1>1 DEF ListKinds
<1>6. Functions(Message)
  BY <1>2 DEF Functions
<1> QED BY <1>3, <1>4, <1>5, <1>6 DEF Codec

\* A new message that was given a Publish, and fields of a later version, holds just
\* those.
LEMMA OnePublishHolds ==
  ASSUME NEW fields, DOMAIN fields = 1..1, fields[1].name = "publish", fields[1].kind = "publish",
         NEW list, NEW ext \in Bytes
  PROVE  Gains(Sets(NewMessage(fields), fields[1].name, list), ext)
           = [publish |-> list, unknownFields |-> ext]
<1>1. NewMessage(fields) = [publish |-> <<>>, unknownFields |-> <<>>]
  BY NewOnePublish
<1>2. Sets(NewMessage(fields), fields[1].name, list) = [publish |-> list, unknownFields |-> <<>>]
  BY <1>1 DEF Sets
<1>3. <<>> \o ext = ext
  <2> DEFINE Byte == 0..255
  <2>1. ext \in Seq(Byte)
    BY DEF Bytes
  <2> HIDE DEF Byte
  <2> QED BY <2>1
<1> DEFINE m == Sets(NewMessage(fields), fields[1].name, list)
<1>4. m = [publish |-> list, unknownFields |-> <<>>] /\ m.unknownFields = <<>>
  BY <1>2
<1> HIDE DEF m
<1>5. Gains(m, ext) = [m EXCEPT !.unknownFields = ext]
  BY <1>3, <1>4 DEF Gains
<1>6. [m EXCEPT !.unknownFields = ext] = [publish |-> list, unknownFields |-> ext]
  BY <1>4
<1> QED BY <1>5, <1>6 DEF m

\* The new message of a list of Publish messages is empty.
LEMMA NewManyPublishes ==
  ASSUME NEW fields, DOMAIN fields = 1..1, fields[1].name = "publishes", fields[1].kind = "publishes"
  PROVE  NewMessage(fields) = [publishes |-> <<>>, unknownFields |-> <<>>]
<1> DEFINE new == NewMessage(fields)
<1>1. /\ DOMAIN new = {fields[n].name : n \in DOMAIN fields} \cup {"unknownFields"}
      /\ new = [name \in DOMAIN new |-> new[name]] /\ new.unknownFields = <<>>
      /\ \A n \in DOMAIN fields :
           fields[n].name # "unknownFields"
             /\ (\A k \in DOMAIN fields : fields[k].name = fields[n].name => k = n) =>
           new[fields[n].name] = ZeroOf(fields[n].kind)
  BY NewIs
<1>2. 1 \in DOMAIN fields /\ \A n \in DOMAIN fields : n = 1
  OBVIOUS
<1> HIDE DEF new
<1>3. DOMAIN new = {"publishes", "unknownFields"}
  BY <1>1, <1>2
<1>4. new["publishes"] = <<>>
  BY <1>1, <1>2, KindsAre
<1>5. new = [publishes |-> <<>>, unknownFields |-> <<>>]
  BY <1>1, <1>3, <1>4
<1> QED BY <1>5 DEF new

\* The messages of a list of Publish messages stay such messages under the decoder.
LEMMA ManyPublishesCodec ==
  ASSUME NEW fields, DOMAIN fields = 1..1, fields[1].name = "publishes", fields[1].kind = "publishes",
         NEW Message, Message = [publishes : Seq(PublishMessage), unknownFields : Bytes]
  PROVE  Codec(Message, fields) /\ Functions(Message)
<1>1. \A n \in DOMAIN fields : n = 1
  OBVIOUS
<1>2. \A m \in Message : /\ m.unknownFields \in Bytes /\ m.publishes \in Seq(PublishMessage)
                         /\ m = [name \in DOMAIN m |-> m[name]]
                         /\ \A x \in Bytes : Sets(m, "unknownFields", x) \in Message
                         /\ \A v \in Seq(PublishMessage) : Sets(m, "publishes", v) \in Message
  BY DEF Sets
<1>3. Keeps(Message, fields)
  <2>1. \A m \in Message : m["publishes"] = m.publishes
    OBVIOUS
  <2> QED BY <1>1, <1>2, <2>1, KindsAre DEF Keeps
<1>4. NewMessage(fields) \in Message
  <2>1. NewMessage(fields) = [publishes |-> <<>>, unknownFields |-> <<>>]
    BY NewManyPublishes
  <2> QED BY <2>1, ZeroFits
<1>5. \A n \in DOMAIN fields : fields[n].kind \in PlainKinds \cup ListKinds
  BY <1>1 DEF ListKinds
<1>6. Functions(Message)
  BY <1>2 DEF Functions
<1> QED BY <1>3, <1>4, <1>5, <1>6 DEF Codec

\* A new message that was given a list, and fields of a later version, holds just
\* those.
LEMMA ManyPublishesHolds ==
  ASSUME NEW fields, DOMAIN fields = 1..1, fields[1].name = "publishes", fields[1].kind = "publishes",
         NEW list, NEW ext \in Bytes
  PROVE  Gains(Sets(NewMessage(fields), fields[1].name, list), ext)
           = [publishes |-> list, unknownFields |-> ext]
<1>1. NewMessage(fields) = [publishes |-> <<>>, unknownFields |-> <<>>]
  BY NewManyPublishes
<1>2. Sets(NewMessage(fields), fields[1].name, list) = [publishes |-> list, unknownFields |-> <<>>]
  BY <1>1 DEF Sets
<1>3. <<>> \o ext = ext
  <2> DEFINE Byte == 0..255
  <2>1. ext \in Seq(Byte)
    BY DEF Bytes
  <2> HIDE DEF Byte
  <2> QED BY <2>1
<1> DEFINE m == Sets(NewMessage(fields), fields[1].name, list)
<1>4. m = [publishes |-> list, unknownFields |-> <<>>] /\ m.unknownFields = <<>>
  BY <1>2
<1> HIDE DEF m
<1>5. Gains(m, ext) = [m EXCEPT !.unknownFields = ext]
  BY <1>3, <1>4 DEF Gains
<1>6. [m EXCEPT !.unknownFields = ext] = [publishes |-> list, unknownFields |-> ext]
  BY <1>4
<1> QED BY <1>5, <1>6 DEF m

\* A ResolveUriResponse fills the buffer that SizeVT asks for, and is read back as it
\* was.
LEMMA ResolveUriResponseIs ==
  ASSUME NEW r \in ResolveUriResponse, SendableList(r.publish), Len(r.publish) <= 1,
         LaterFields(r.unknownFields), NEW bytes, bytes = MarshalResolveUriResponse(r)
  PROVE  /\ MarshalVT(SizeResolveUriResponse(r), bytes) = Read(bytes, 0)
         /\ Fits(bytes) => UnmarshalResolveUriResponse(bytes) = Read(r, Len(bytes) + 1)
<1> DEFINE F == <<PublishOf("publish")>>
           list == r.publish
           ext == r.unknownFields
           front == PublishesField(1, list)
<1>1. DOMAIN F = 1..1 /\ F[1].name = "publish" /\ F[1].kind = "publish"
  BY DEF PublishOf
<1>2. UnmarshalResolveUriResponse(bytes) = UnmarshalVT(ResolveUriResponse, F, bytes)
  BY DEF UnmarshalResolveUriResponse
<1>3. bytes = front \o ext /\ SizeResolveUriResponse(r) = PublishesSize(list) + Len(ext)
  BY DEF MarshalResolveUriResponse, SizeResolveUriResponse
<1>4. r = [publish |-> list, unknownFields |-> ext] /\ ext \in Bytes
  BY DEF ResolveUriResponse
<1>5. Codec(ResolveUriResponse, F) /\ Functions(ResolveUriResponse)
  <2> HIDE DEF F
  <2> QED BY <1>1, OnePublishCodec DEF ResolveUriResponse
<1> HIDE DEF F
<1>6. SendableList(list) /\ LaterFields(ext) /\ 1 \in 1..15 /\ Len(list) <= 1
  OBVIOUS
<1>7. Gains(Sets(NewMessage(F), F[1].name, list), ext) = r
  <2> HIDE DEF list, ext
  <2>1. Gains(Sets(NewMessage(F), F[1].name, list), ext) = [publish |-> list, unknownFields |-> ext]
    BY <1>1, <1>4, OnePublishHolds
  <2> QED BY <1>4, <2>1
<1> HIDE DEF list, ext
<1>8. front \in Bytes /\ Len(front) = PublishesSize(list)
  BY <1>6, PublishesSizeFits
<1> HIDE DEF front
<1>9. bytes \in Bytes /\ Len(bytes) = PublishesSize(list) + Len(ext)
  BY <1>3, <1>4, <1>8, JoinIs
<1>10. MarshalVT(SizeResolveUriResponse(r), bytes) = Read(bytes, 0)
  BY <1>3, <1>9, MarshalIs
<1>11. ASSUME Fits(bytes) PROVE UnmarshalResolveUriResponse(bytes) = Read(r, Len(bytes) + 1)
  <2>1. Stands(FieldsOf(1, list)[Len(list)], bytes, 1)
    <3>1. Stands(front \o ext, bytes, 1)
      BY <1>3, <1>9, StandsWhole
    <3>2. Stands(front, bytes, 1)
      BY <1>4, <1>8, <1>9, <3>1, FrontsStand
    <3>3. front = FieldsOf(1, list)[Len(list)]
      BY <1>6, PublishesFieldIs DEF front
    <3> QED BY <3>2, <3>3
  <2>2. ListReading(ResolveUriResponse, F, list, bytes)
    BY <1>1, <1>5, <1>6, <1>9, <1>11, <2>1 DEF ListReading, ListKinds
  <2>3. ListWritten(ResolveUriResponse, F, list, ext, bytes)
    BY <1>3, <1>4, <1>6, <2>2 DEF ListWritten, front
  <2>4. UnmarshalVT(ResolveUriResponse, F, bytes)
           = Read(Gains(Sets(NewMessage(F), F[1].name, list), ext), Len(bytes) + 1)
    BY <2>3, ListBack
  <2> QED BY <1>2, <1>7, <2>4
<1> QED BY <1>10, <1>11

\* A GetPublishStatusResponse fills the buffer that SizeVT asks for, and is read back
\* as it was.
LEMMA GetPublishStatusResponseIs ==
  ASSUME NEW r \in GetPublishStatusResponse, SendableList(r.publish), Len(r.publish) <= 1,
         LaterFields(r.unknownFields), NEW bytes, bytes = MarshalGetPublishStatusResponse(r)
  PROVE  /\ MarshalVT(SizeGetPublishStatusResponse(r), bytes) = Read(bytes, 0)
         /\ Fits(bytes) => UnmarshalGetPublishStatusResponse(bytes) = Read(r, Len(bytes) + 1)
<1> DEFINE F == <<PublishOf("publish")>>
           list == r.publish
           ext == r.unknownFields
           front == PublishesField(1, list)
<1>1. DOMAIN F = 1..1 /\ F[1].name = "publish" /\ F[1].kind = "publish"
  BY DEF PublishOf
<1>2. UnmarshalGetPublishStatusResponse(bytes) = UnmarshalVT(GetPublishStatusResponse, F, bytes)
  BY DEF UnmarshalGetPublishStatusResponse
<1>3. bytes = front \o ext /\ SizeGetPublishStatusResponse(r) = PublishesSize(list) + Len(ext)
  BY DEF MarshalGetPublishStatusResponse, SizeGetPublishStatusResponse
<1>4. r = [publish |-> list, unknownFields |-> ext] /\ ext \in Bytes
  BY DEF GetPublishStatusResponse
<1>5. Codec(GetPublishStatusResponse, F) /\ Functions(GetPublishStatusResponse)
  <2> HIDE DEF F
  <2> QED BY <1>1, OnePublishCodec DEF GetPublishStatusResponse
<1> HIDE DEF F
<1>6. SendableList(list) /\ LaterFields(ext) /\ 1 \in 1..15 /\ Len(list) <= 1
  OBVIOUS
<1>7. Gains(Sets(NewMessage(F), F[1].name, list), ext) = r
  <2> HIDE DEF list, ext
  <2>1. Gains(Sets(NewMessage(F), F[1].name, list), ext) = [publish |-> list, unknownFields |-> ext]
    BY <1>1, <1>4, OnePublishHolds
  <2> QED BY <1>4, <2>1
<1> HIDE DEF list, ext
<1>8. front \in Bytes /\ Len(front) = PublishesSize(list)
  BY <1>6, PublishesSizeFits
<1> HIDE DEF front
<1>9. bytes \in Bytes /\ Len(bytes) = PublishesSize(list) + Len(ext)
  BY <1>3, <1>4, <1>8, JoinIs
<1>10. MarshalVT(SizeGetPublishStatusResponse(r), bytes) = Read(bytes, 0)
  BY <1>3, <1>9, MarshalIs
<1>11. ASSUME Fits(bytes) PROVE UnmarshalGetPublishStatusResponse(bytes) = Read(r, Len(bytes) + 1)
  <2>1. Stands(FieldsOf(1, list)[Len(list)], bytes, 1)
    <3>1. Stands(front \o ext, bytes, 1)
      BY <1>3, <1>9, StandsWhole
    <3>2. Stands(front, bytes, 1)
      BY <1>4, <1>8, <1>9, <3>1, FrontsStand
    <3>3. front = FieldsOf(1, list)[Len(list)]
      BY <1>6, PublishesFieldIs DEF front
    <3> QED BY <3>2, <3>3
  <2>2. ListReading(GetPublishStatusResponse, F, list, bytes)
    BY <1>1, <1>5, <1>6, <1>9, <1>11, <2>1 DEF ListReading, ListKinds
  <2>3. ListWritten(GetPublishStatusResponse, F, list, ext, bytes)
    BY <1>3, <1>4, <1>6, <2>2 DEF ListWritten, front
  <2>4. UnmarshalVT(GetPublishStatusResponse, F, bytes)
           = Read(Gains(Sets(NewMessage(F), F[1].name, list), ext), Len(bytes) + 1)
    BY <2>3, ListBack
  <2> QED BY <1>2, <1>7, <2>4
<1> QED BY <1>10, <1>11

\* A ListPublishesResponse fills the buffer that SizeVT asks for, and is read back as
\* it was.
LEMMA ListPublishesResponseIs ==
  ASSUME NEW r \in ListPublishesResponse, SendableList(r.publishes),
         LaterFields(r.unknownFields), NEW bytes, bytes = MarshalListPublishesResponse(r)
  PROVE  /\ MarshalVT(SizeListPublishesResponse(r), bytes) = Read(bytes, 0)
         /\ Fits(bytes) => UnmarshalListPublishesResponse(bytes) = Read(r, Len(bytes) + 1)
<1> DEFINE F == <<PublishesOf("publishes")>>
           list == r.publishes
           ext == r.unknownFields
           front == PublishesField(1, list)
<1>1. DOMAIN F = 1..1 /\ F[1].name = "publishes" /\ F[1].kind = "publishes"
  BY DEF PublishesOf
<1>2. UnmarshalListPublishesResponse(bytes) = UnmarshalVT(ListPublishesResponse, F, bytes)
  BY DEF UnmarshalListPublishesResponse
<1>3. bytes = front \o ext /\ SizeListPublishesResponse(r) = PublishesSize(list) + Len(ext)
  BY DEF MarshalListPublishesResponse, SizeListPublishesResponse
<1>4. r = [publishes |-> list, unknownFields |-> ext] /\ ext \in Bytes
  BY DEF ListPublishesResponse
<1>5. Codec(ListPublishesResponse, F) /\ Functions(ListPublishesResponse)
  <2> HIDE DEF F
  <2> QED BY <1>1, ManyPublishesCodec DEF ListPublishesResponse
<1> HIDE DEF F
<1>6. SendableList(list) /\ LaterFields(ext) /\ 1 \in 1..15
  OBVIOUS
<1>7. Gains(Sets(NewMessage(F), F[1].name, list), ext) = r
  <2> HIDE DEF list, ext
  <2>1. Gains(Sets(NewMessage(F), F[1].name, list), ext) = [publishes |-> list, unknownFields |-> ext]
    BY <1>1, <1>4, ManyPublishesHolds
  <2> QED BY <1>4, <2>1
<1> HIDE DEF list, ext
<1>8. front \in Bytes /\ Len(front) = PublishesSize(list)
  BY <1>6, PublishesSizeFits
<1> HIDE DEF front
<1>9. bytes \in Bytes /\ Len(bytes) = PublishesSize(list) + Len(ext)
  BY <1>3, <1>4, <1>8, JoinIs
<1>10. MarshalVT(SizeListPublishesResponse(r), bytes) = Read(bytes, 0)
  BY <1>3, <1>9, MarshalIs
<1>11. ASSUME Fits(bytes) PROVE UnmarshalListPublishesResponse(bytes) = Read(r, Len(bytes) + 1)
  <2>1. Stands(FieldsOf(1, list)[Len(list)], bytes, 1)
    <3>1. Stands(front \o ext, bytes, 1)
      BY <1>3, <1>9, StandsWhole
    <3>2. Stands(front, bytes, 1)
      BY <1>4, <1>8, <1>9, <3>1, FrontsStand
    <3>3. front = FieldsOf(1, list)[Len(list)]
      BY <1>6, PublishesFieldIs DEF front
    <3> QED BY <3>2, <3>3
  <2>2. ListReading(ListPublishesResponse, F, list, bytes)
    BY <1>1, <1>5, <1>6, <1>9, <1>11, <2>1 DEF ListReading, ListKinds
  <2>3. ListWritten(ListPublishesResponse, F, list, ext, bytes)
    BY <1>3, <1>4, <1>6, <2>2 DEF ListWritten, front
  <2>4. UnmarshalVT(ListPublishesResponse, F, bytes)
           = Read(Gains(Sets(NewMessage(F), F[1].name, list), ext), Len(bytes) + 1)
    BY <2>3, ListBack
  <2> QED BY <1>2, <1>7, <2>4
<1> QED BY <1>10, <1>11

\* A PublishResponse fills the buffer that SizeVT asks for, and is read back as it was.
LEMMA PublishResponseIs ==
  ASSUME NEW r \in PublishResponse, Fits(r.uploadUrl),
         LaterFields(r.unknownFields), NEW bytes, bytes = MarshalPublishResponse(r)
  PROVE  /\ MarshalVT(SizePublishResponse(r), bytes) = Read(bytes, 0)
         /\ Fits(bytes) => UnmarshalPublishResponse(bytes) = Read(r, Len(bytes) + 1)
<1> DEFINE F == <<StringOf("uploadUrl")>>
           a == StringField(1, r.uploadUrl)
<1>1. /\ DOMAIN F = 1..1
      /\ F[1].name = "uploadUrl" /\ F[1].kind = "string"
  BY DEF StringOf
<1>2. UnmarshalPublishResponse(bytes) = UnmarshalVT(PublishResponse, F, bytes)
  BY DEF UnmarshalPublishResponse
<1>3. bytes = a \o r.unknownFields
      /\ SizePublishResponse(r) = StringSize(r.uploadUrl) + Len(r.unknownFields)
  BY DEF MarshalPublishResponse, SizePublishResponse
<1> HIDE DEF F, a
<1>4. \A n \in 1..1 : n = 1
  OBVIOUS
<1>5. Names(F) = {"uploadUrl", "unknownFields"}
  BY <1>1, <1>4 DEF Names
<1>6. AllBytes(F) = PublishResponse
  BY <1>5 DEF AllBytes, PublishResponse
<1>7. StringFields(F)
  BY <1>1, <1>4 DEF StringFields
<1>8. Request(F, r)
  BY <1>1, <1>4, <1>6, <1>7 DEF Request
<1>9. /\ r.unknownFields \in Bytes
      /\ a \in Bytes /\ Len(a) = StringSize(r.uploadUrl)
  BY StringFieldIs DEF a, PublishResponse
<1>10. a \in Bytes /\ Len(a) = StringSize(r.uploadUrl)
  BY <1>9
<1>11. MarshalVT(SizePublishResponse(r), bytes) = Read(bytes, 0)
  <2>1. bytes \in Bytes /\ Len(bytes) = StringSize(r.uploadUrl) + Len(r.unknownFields)
    <3>1. bytes \in Bytes /\ Len(bytes) = Len(a) + Len(r.unknownFields)
      <4>1. a \in Bytes /\ r.unknownFields \in Bytes
        BY <1>9, <1>10
      <4> QED BY <1>3, <4>1, JoinIs
    <3> QED BY <1>10, <3>1
  <2> QED BY <1>3, <2>1, MarshalIs
<1>12. ASSUME Fits(bytes) PROVE UnmarshalPublishResponse(bytes) = Read(r, Len(bytes) + 1)
  <2>1. Written(F, r, bytes, a)
    BY <1>3, <1>8, <1>10, <1>12, WrittenIs
  <2>2. /\ a = StringField(1, r[F[1].name])
    BY <1>1 DEF a
  <2>3. UnmarshalVT(AllBytes(F), F, bytes) = Read(r, Len(bytes) + 1)
    BY <1>1, <2>1, <2>2, OneRead
  <2> QED BY <1>2, <1>6, <2>3
<1> QED BY <1>11, <1>12

\* An Ok fills the buffer that SizeVT asks for, and is read back as it was.
LEMMA OkIs ==
  ASSUME NEW r \in Ok, LaterFields(r.unknownFields), NEW bytes, bytes = MarshalOk(r)
  PROVE  /\ MarshalVT(SizeOk(r), bytes) = Read(bytes, 0)
         /\ Fits(bytes) => UnmarshalOk(bytes) = Read(r, Len(bytes) + 1)
<1> DEFINE F == <<>>
           ext == r.unknownFields
<1>1. DOMAIN F = {} /\ UnmarshalOk(bytes) = UnmarshalVT(Ok, F, bytes)
  BY DEF UnmarshalOk
<1>2. bytes = ext /\ SizeOk(r) = Len(ext) /\ ext \in Bytes
  BY DEF MarshalOk, SizeOk, Ok
<1> HIDE DEF F
<1>3. Names(F) = {"unknownFields"}
  BY <1>1 DEF Names
<1>4. AllBytes(F) = Ok
  BY <1>3 DEF AllBytes, Ok
<1>5. StringFields(F)
  BY <1>1 DEF StringFields
<1>6. Request(F, r)
  BY <1>1, <1>4, <1>5 DEF Request
<1>7. MarshalVT(SizeOk(r), bytes) = Read(bytes, 0)
  BY <1>2, MarshalIs
<1>8. ASSUME Fits(bytes) PROVE UnmarshalOk(bytes) = Read(r, Len(bytes) + 1)
  <2>1. bytes = <<>> \o r.unknownFields
    <3> DEFINE Byte == 0..255
    <3>1. ext \in Seq(Byte)
      BY <1>2 DEF Bytes
    <3> HIDE DEF Byte, ext
    <3>2. <<>> \o ext = ext
      BY <3>1
    <3> QED BY <1>2, <3>2 DEF ext
  <2>2. Written(F, r, bytes, <<>>)
    BY <1>6, <1>8, <2>1, ZeroFits, WrittenIs
  <2>3. Covered(Loop(F, bytes), F, r, bytes, 0, <<>>)
    <3>1. bytes \in Bytes
      BY <1>2
    <3> QED BY <1>6, <3>1, NothingCovered
  <2>4. 0 \in Nat /\ \A k \in DOMAIN F : k <= 0
    BY <1>1
  <2>5. UnmarshalVT(AllBytes(F), F, bytes) = Read(r, Len(bytes) + 1)
    BY <2>2, <2>3, <2>4, WrittenRead
  <2> QED BY <1>1, <1>4, <2>5
<1> QED BY <1>7, <1>8

\* No bytes at all are fields of a later version.
LEMMA NothingLater == LaterFields(<<>>)
<1>1. Len(<<>>) = 0
  OBVIOUS
<1>2. {1} \in SUBSET (1..Len(<<>>) + 1) /\ \A i \in {1} : i = Len(<<>>) + 1
  BY <1>1
<1> QED BY <1>2 DEF LaterFields

================================================================================

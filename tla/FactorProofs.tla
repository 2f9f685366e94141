---------------------------- MODULE FactorProofs ----------------------------
(***************************************************************************)
(* What factor prints is right for every argument and every rounding of    *)
(* the square root.                                                        *)
(***************************************************************************)
EXTENDS Factor, TLAPS

-----------------------------------------------------------------------------
(* Multiplication and division.                                            *)

\* Products of larger numbers are larger.
LEMMA ProductMonotone ==
  ASSUME NEW a \in Nat, NEW b \in Nat, NEW c \in Nat, NEW e \in Nat, a <= c, b <= e
  PROVE  a * b <= c * e
<1>1. a * b <= c * b
  BY SMT
<1>2. c * b <= c * e
  BY SMT
<1> QED BY <1>1, <1>2, SMT

\* A divisor that is not the number itself leaves a quotient of two or more.
LEMMA ProperDivisor ==
  ASSUME NEW m \in Nat, NEW e \in 2 .. m - 1, NEW q \in 1 .. m, m = e * q
  PROVE  q \in 2 .. m - 1
<1>1. q # 1
  BY SMT
<1>2. q # m
  <2>1. SUFFICES ASSUME q = m PROVE FALSE
    OBVIOUS
  <2>2. 2 * m <= e * m
    BY ProductMonotone, SMT
  <2> QED BY <2>1, <2>2, SMT
<1> QED BY <1>1, <1>2, SMT

\* What divides a divisor divides the number.
LEMMA DividesTransitive ==
  ASSUME NEW m \in Nat, m >= 1, NEW e \in Nat, NEW q \in 1 .. m, NEW f \in Nat, m = f * q, Divides(e, q)
  PROVE  Divides(e, m)
<1>1. PICK g \in 1 .. q : q = e * g
  BY DEF Divides
<1>2. m = e * (f * g)
  <2>1. f * (e * g) = e * (f * g)
    BY <1>1, SMT
  <2> QED BY <1>1, <2>1
<1>3. f * g >= 1
  <2>1. f # 0
    BY SMT
  <2> QED BY <2>1, <1>1, ProductMonotone, SMT
<1>4. f * g <= m
  BY <1>1, ProductMonotone, SMT
<1>5. f * g \in 1 .. m
  BY <1>1, <1>3, <1>4, SMT
<1> QED BY <1>2, <1>5 DEF Divides

\* A number without a divisor up to its root is prime: of two factors one is
\* below any number whose square is larger.
LEMMA NoneBelowRoot ==
  ASSUME NEW m \in Nat, m > 1, NEW r \in Nat, m < (r + 1) * (r + 1),
         \A e \in 2 .. r : ~Divides(e, m)
  PROVE  Prime(m)
<1>1. SUFFICES ASSUME NEW e \in 2 .. m - 1, Divides(e, m) PROVE FALSE
  BY DEF Prime
<1>2. PICK q \in 1 .. m : m = e * q
  BY <1>1 DEF Divides
<1>3. q \in 2 .. m - 1
  BY <1>1, <1>2, ProperDivisor
<1>4. m = q * e
  BY <1>1, <1>2, SMT
<1>5. Divides(q, m)
  <2>1. e \in 1 .. m
    BY <1>1, SMT
  <2> QED BY <1>4, <2>1 DEF Divides
<1>6. e >= r + 1 /\ q >= r + 1
  BY <1>1, <1>3, <1>5, SMT
<1>7. (r + 1) * (r + 1) <= e * q
  BY <1>1, <1>2, <1>6, ProductMonotone, SMT
<1> QED BY <1>1, <1>2, <1>7, SMT

\* The least divisor is prime.
LEMMA LeastDivisorPrime ==
  ASSUME NEW m \in Nat, m >= 1, NEW e \in Nat, e >= 2, NEW q \in 1 .. m, m = e * q,
         \A f \in 2 .. e - 1 : ~Divides(f, m)
  PROVE  Prime(e)
<1>1. SUFFICES ASSUME NEW f \in 2 .. e - 1, Divides(f, e) PROVE FALSE
  BY DEF Prime
<1>2. m = q * e
  BY SMT
<1>3. e \in 1 .. m
  <2>1. 1 * e <= q * e
    BY ProductMonotone, SMT
  <2> QED BY <1>2, <2>1, SMT
<1>4. Divides(f, m)
  BY <1>1, <1>2, <1>3, DividesTransitive, SMT
<1> QED BY <1>1, <1>4

\* sqrtn is at least the root.
LEMMA RootsCover ==
  ASSUME NEW m \in Nat, NEW r \in Roots(m)
  PROVE  r \in Nat /\ r <= m + 1 /\ m < (r + 1) * (r + 1)
BY SMT DEF Roots

-----------------------------------------------------------------------------
(* The inductive invariant: what is left has no divisor that was passed.   *)

\* In the loop the argument and what is left are at least one, the limit is
\* that of what is left, and no divisor below d remains.
LoopInv ==
  state = "loop" =>
    /\ input >= 2 /\ n >= 1
    /\ n < (sqrtn + 1) * (sqrtn + 1)
    /\ \A e \in 2 .. d - 1 : ~Divides(e, n)

IInv == TypeOK /\ ProductKept /\ PrimesOnly /\ LoopInv

LEMMA InitIInv == Init => IInv
<1> SUFFICES ASSUME Init PROVE IInv
  OBVIOUS
<1>1. TypeOK /\ ProductKept
  BY FactorAssumption, SMT DEF Init, TypeOK, Numbers, ProductKept
<1>2. PrimesOnly /\ LoopInv
  BY DEF Init, PrimesOnly, LoopInv
<1> QED BY <1>1, <1>2 DEF IInv

\* Divide: d is prime, as no divisor of n is below it, and what remains of n has
\* no divisor that n had not.
LEMMA DivideIInv == ASSUME IInv, Divide PROVE IInv'
<1> USE FactorAssumption DEF IInv, TypeOK, Numbers
<1>1. PICK q \in 1 .. n : n = d * q /\ n' = q /\ sqrtn' \in Roots(q)
  BY DEF Divide
<1>2. state = "loop" /\ state' = "loop" /\ input' = input /\ d' = d /\ product' = product * d
      /\ printed' = printed \cup {d} /\ d <= sqrtn
  BY DEF Divide
<1>3. input >= 2 /\ n >= 1 /\ \A e \in 2 .. d - 1 : ~Divides(e, n)
  BY <1>2 DEF LoopInv
<1>4. q * (product * d) = input
  <2>1. (d * q) * product = input
    BY <1>1, <1>2 DEF ProductKept
  <2>2. q * (product * d) = (d * q) * product
    BY SMT
  <2> QED BY <2>1, <2>2
<1>5. product * d \in Numbers
  <2>1. product * d \in Nat
    BY SMT
  <2>2. 1 * (product * d) <= q * (product * d)
    BY <1>1, <2>1, ProductMonotone, SMT
  <2> QED BY <1>4, <2>1, <2>2, SMT
<1>6. sqrtn' \in Nat /\ sqrtn' <= q + 1 /\ q < (sqrtn' + 1) * (sqrtn' + 1)
  BY <1>1, RootsCover, SMT
<1>7. d \in Numbers
  <2>1. d * 1 <= d * q
    BY <1>1, ProductMonotone, SMT
  <2> QED BY <1>1, <2>1, SMT
<1>8. TypeOK'
  BY <1>1, <1>2, <1>5, <1>6, <1>7, SMT
<1>9. ProductKept'
  BY <1>1, <1>2, <1>4 DEF ProductKept
<1>10. PrimesOnly'
  <2>1. Prime(d)
    BY <1>1, <1>3, LeastDivisorPrime, SMT
  <2>2. \A p \in printed : Prime(p)
    BY <1>3 DEF PrimesOnly
  <2> QED BY <1>2, <2>1, <2>2 DEF PrimesOnly
<1>11. LoopInv'
  <2>1. ASSUME NEW e \in 2 .. d - 1, Divides(e, q) PROVE FALSE
    <3>1. Divides(e, n)
      BY <1>1, <1>3, <2>1, DividesTransitive, SMT
    <3> QED BY <1>3, <3>1
  <2>2. n' = q /\ d' = d /\ input' >= 2 /\ n' >= 1
    BY <1>1, <1>2, <1>3
  <2>3. n' < (sqrtn' + 1) * (sqrtn' + 1)
    BY <1>6, <2>2
  <2> QED BY <2>1, <2>2, <2>3 DEF LoopInv
<1> QED BY <1>8, <1>9, <1>10, <1>11

\* Advance: d joins the numbers that do not divide n.
LEMMA AdvanceIInv == ASSUME IInv, Advance PROVE IInv'
<1> USE FactorAssumption DEF IInv, TypeOK, Numbers
<1>1. state = "loop" /\ state' = "loop" /\ input' = input /\ n' = n /\ d' = d + 1
      /\ sqrtn' = sqrtn /\ printed' = printed /\ product' = product
      /\ d <= sqrtn /\ ~Divides(d, n)
  BY DEF Advance
<1>2. TypeOK'
  BY <1>1, SMT
<1>3. ProductKept'
  BY <1>1 DEF ProductKept
<1>4. PrimesOnly'
  BY <1>1 DEF PrimesOnly
<1>5. LoopInv'
  <2>1. \A e \in 2 .. d : ~Divides(e, n)
    <3>1. ASSUME NEW e \in 2 .. d PROVE e = d \/ e \in 2 .. d - 1
      BY SMT
    <3> QED BY <1>1, <3>1 DEF LoopInv
  <2>2. d' - 1 = d
    BY <1>1, SMT
  <2> QED BY <1>1, <2>1, <2>2 DEF LoopInv
<1> QED BY <1>2, <1>3, <1>4, <1>5

\* Rest: what is left has no divisor up to its root.
LEMMA RestIInv == ASSUME IInv, Rest PROVE IInv'
<1> USE FactorAssumption DEF IInv, TypeOK, Numbers
<1>1. state = "loop" /\ state' = "next" /\ input' = input /\ n' = n /\ d' = d /\ sqrtn' = sqrtn
      /\ d > sqrtn
  BY DEF Rest
<1>2. input >= 2 /\ n >= 1 /\ n < (sqrtn + 1) * (sqrtn + 1) /\ \A e \in 2 .. d - 1 : ~Divides(e, n)
  BY <1>1 DEF LoopInv
<1>3. n * product = input
  BY <1>1 DEF ProductKept
<1>4. LoopInv'
  BY <1>1 DEF LoopInv
<1>5. CASE n = 1
  <2>1. printed' = printed /\ product' = product
    BY <1>5 DEF Rest
  <2> QED BY <1>1, <1>3, <1>4, <1>5, <2>1, SMT DEF ProductKept, PrimesOnly
<1>6. CASE n # 1
  <2>1. printed' = printed \cup {n} /\ product' = product * n
    BY <1>6 DEF Rest
  <2>2. product * n = input
    BY <1>3, SMT
  <2>3. Prime(n)
    BY <1>1, <1>2, <1>6, NoneBelowRoot, SMT
  <2>4. PrimesOnly'
    BY <1>1, <1>2, <2>1, <2>3 DEF PrimesOnly
  <2> QED BY <1>1, <1>4, <2>1, <2>2, <2>4, SMT DEF ProductKept
<1> QED BY <1>5, <1>6

\* The steps between two arguments.
LEMMA OtherIInv == ASSUME IInv, Small \/ Start \/ End \/ UNCHANGED vars PROVE IInv'
<1> USE FactorAssumption DEF IInv, TypeOK, Numbers, ProductKept, PrimesOnly, LoopInv
<1>1. CASE Small
  BY <1>1, SMT DEF Small
<1>2. CASE Start
  <2>1. PICK number \in Numbers : number >= 2 /\ input' = number /\ n' = number /\ sqrtn' \in Roots(number)
    BY <1>2 DEF Start
  <2>2. printed' = {} /\ product' = 1 /\ d' = 2 /\ state' = "loop"
    BY <1>2 DEF Start
  <2>3. sqrtn' \in Nat /\ sqrtn' <= number + 1 /\ number < (sqrtn' + 1) * (sqrtn' + 1)
    BY <2>1, RootsCover, SMT
  <2>4. TypeOK'
    BY <2>1, <2>2, <2>3, SMT
  <2>5. ProductKept'
    BY <2>1, <2>2, SMT
  <2>6. PrimesOnly'
    BY <2>2
  <2>7. LoopInv'
    <3>1. n' >= 1 /\ input' >= 2
      BY <2>1, SMT
    <3>2. n' < (sqrtn' + 1) * (sqrtn' + 1)
      BY <2>1, <2>3
    <3>3. \A e \in 2 .. d' - 1 : ~Divides(e, n')
      BY <2>2, SMT
    <3> QED BY <3>1, <3>2, <3>3
  <2> QED BY <2>4, <2>5, <2>6, <2>7
<1>3. CASE End
  BY <1>3, SMT DEF End
<1>4. CASE UNCHANGED vars
  BY <1>4 DEF vars
<1> QED BY <1>1, <1>2, <1>3, <1>4

LEMMA SpecIInv == Spec => []IInv
<1>1. IInv /\ [Next]_vars => IInv'
  BY DivideIInv, AdvanceIInv, RestIInv, OtherIInv DEF Next, Loop
<1> QED BY InitIInv, <1>1, PTL DEF Spec

-----------------------------------------------------------------------------
\* The numbers printed stay within the argument's width and the counters within
\* a step of it, for every width (factor.c:15).
THEOREM FactorTypeCorrect == Spec => []TypeOK
BY SpecIInv, PTL DEF IInv

\* The numbers printed for an argument multiply to it (factor.c:38).
THEOREM ProductAlwaysKept == Spec => []ProductKept
BY SpecIInv, PTL DEF IInv

\* Only primes are printed, whichever way the square root is rounded
\* (factor.c:26).
THEOREM PrintsPrimesOnly == Spec => []PrimesOnly
BY SpecIInv, PTL DEF IInv
=============================================================================

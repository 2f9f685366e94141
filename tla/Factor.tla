------------------------------- MODULE Factor --------------------------------
(***************************************************************************)
(* factor (programs/factor/src/factor.c): trial division of each argument. *)
(***************************************************************************)
EXTENDS Naturals

CONSTANT MaxNumber  \* the largest unsigned long long, or a bound below it

ASSUME FactorAssumption == MaxNumber \in Nat \ {0}

\* What sqrt of n, computed in doubles, is once it is an integer again: the root
\* rounded down or, where n is close to a square it lost bits to, one more.
Roots(n) ==
  {r \in 0 .. n + 1 : n < (r + 1) * (r + 1) /\ (r > 0 => (r - 1) * (r - 1) <= n)}

Divides(e, n) == \E q \in 1 .. n : n = e * q

Prime(p) == p > 1 /\ \A e \in 2 .. p - 1 : ~Divides(e, p)

VARIABLES
  state,    \* "next" between arguments, "loop" in the trial division, "ended"
  input,    \* history: the argument
  n,        \* what is left of it
  d,        \* the divisor tried next
  sqrtn,    \* the last one worth trying
  printed,  \* the numbers printed for this argument
  product   \* history: their product

vars == <<state, input, n, d, sqrtn, printed, product>>

Numbers == 0 .. MaxNumber

TypeOK ==
  /\ state \in {"next", "loop", "ended"}
  /\ input \in Numbers /\ n \in Numbers /\ product \in Numbers
  /\ printed \subseteq Numbers
  /\ d \in 2 .. MaxNumber + 2 /\ sqrtn \in 0 .. MaxNumber + 1

Init ==
  /\ state = "next"
  /\ input = 1 /\ n = 1 /\ printed = {} /\ product = 1
  /\ d = 2 /\ sqrtn = 1

\* The special case: numbers below two are printed as they are.
Small ==
  /\ state = "next"
  /\ \E number \in Numbers :
       /\ number < 2
       /\ input' = number /\ n' = number /\ printed' = {number} /\ product' = number
  /\ UNCHANGED <<state, d, sqrtn>>

Start ==
  /\ state = "next"
  /\ \E number \in Numbers :
       /\ number >= 2
       /\ input' = number /\ n' = number
       /\ sqrtn' \in Roots(number)
  /\ printed' = {} /\ product' = 1
  /\ d' = 2
  /\ state' = "loop"

\* Fault: d is not tried again.
DivideOnce ==
  /\ state = "loop" /\ d <= sqrtn
  /\ \E q \in 1 .. n : n = d * q /\ n' = q /\ sqrtn' \in Roots(q)
  /\ printed' = printed \cup {d} /\ product' = product * d
  /\ d' = d + 1
  /\ UNCHANGED <<state, input>>

\* d divides n: it is printed and tried again.
Divide ==
  /\ state = "loop" /\ d <= sqrtn
  /\ \E q \in 1 .. n : n = d * q /\ n' = q /\ sqrtn' \in Roots(q)
  /\ printed' = printed \cup {d} /\ product' = product * d
  /\ UNCHANGED <<state, input, d>>

\* Fault: the counter is given back whether or not d divides.
AdvanceBack ==
  /\ state = "loop" /\ d <= sqrtn
  /\ ~Divides(d, n)
  /\ UNCHANGED vars

\* Fault: the loop knows no limit.
AdvanceUnlimited ==
  /\ state = "loop"
  /\ ~Divides(d, n)
  /\ d' = d + 1
  /\ UNCHANGED <<state, input, n, sqrtn, printed, product>>

Advance ==
  /\ state = "loop" /\ d <= sqrtn
  /\ ~Divides(d, n)
  /\ d' = d + 1
  /\ UNCHANGED <<state, input, n, sqrtn, printed, product>>

\* Fault: what is left is printed only if something was printed before.
RestOfMany ==
  /\ state = "loop" /\ d > sqrtn
  /\ IF n = 1 \/ printed = {} THEN UNCHANGED <<printed, product>>
     ELSE printed' = printed \cup {n} /\ product' = product * n
  /\ state' = "next"
  /\ UNCHANGED <<input, n, d, sqrtn>>

\* What is left is printed unless it is one.
Rest ==
  /\ state = "loop" /\ d > sqrtn
  /\ IF n = 1 THEN UNCHANGED <<printed, product>>
     ELSE printed' = printed \cup {n} /\ product' = product * n
  /\ state' = "next"
  /\ UNCHANGED <<input, n, d, sqrtn>>

End == state = "next" /\ state' = "ended" /\ UNCHANGED <<input, n, d, sqrtn, printed, product>>

Loop == Divide \/ Advance \/ Rest

Next == Small \/ Start \/ Loop \/ End

Spec == Init /\ [][Next]_vars

\* The program runs by itself: an argument that is begun is worked on.
FairSpec == Spec /\ WF_vars(Loop)

-----------------------------------------------------------------------------
\* Nothing is lost: at any time the numbers printed and what is left make up the
\* argument, and in the end the numbers printed do (factor.c:38).
ProductKept == (IF state = "loop" THEN n ELSE 1) * product = input

\* Only primes are printed, though d runs over all numbers and nothing asks
\* whether it or what is left is one (factor.c:35, factor.c:48).
PrimesOnly == input >= 2 => \A p \in printed : Prime(p)

\* The loop ends, although a step that divides gives the counter back
\* (factor.c:42).
Terminates == state = "loop" ~> state = "next"
=============================================================================

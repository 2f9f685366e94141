----------------------------- MODULE ShellProofs -----------------------------
(***************************************************************************)
(* Theorems about Shell, for paths of any length.  That the rewriting of a *)
(* path in place gives its reduced form is proved with a relation between  *)
(* positions, which each pass shortens and keeps.                          *)
(***************************************************************************)
EXTENDS Shell, FiniteSetTheorems, SequenceTheorems, WellFoundedInduction, TLAPS

-----------------------------------------------------------------------------
(* Induction and recursion over positions.                                 *)

\* A set of numbers that is not empty has a least one.
LEMMA Least == ASSUME NEW T \in SUBSET Nat, T # {} PROVE \E x \in T : \A y \in T : x <= y
<1>1. IsWellFoundedOn(OpToRel(<, Nat), Nat)
  BY NatLessThanWellFounded
<1>2. OpToRel(<, Nat) = {p \in Nat \X Nat : p[1] < p[2]}
  BY DEF OpToRel
<1>. DEFINE R == OpToRel(<, Nat)
<1>. HIDE DEF R
<1>3. PICK x \in T : \A y \in T : <<y, x>> \notin R
  BY <1>1, WFMin DEF R
<1>4. \A y \in T : ~(y < x)
  BY <1>2, <1>3 DEF R
<1>. QED
  BY <1>3, <1>4

\* A set that holds zero and with each number the next holds all up to n.
LEMMA UpTo ==
  ASSUME NEW n \in Nat, NEW T, 0 \in T, \A i \in 0 .. n - 1 : i \in T => i + 1 \in T
  PROVE  \A i \in 0 .. n : i \in T
<1>. SUFFICES ASSUME 0 .. n \cap (Nat \ T) # {} PROVE FALSE
  OBVIOUS
<1>1. PICK m \in 0 .. n \cap (Nat \ T) : \A y \in 0 .. n \cap (Nat \ T) : m <= y
  BY Least
<1>2. m # 0 /\ m - 1 \in 0 .. n - 1
  BY <1>1
<1>3. m - 1 \in T
  BY <1>1, <1>2
<1>. QED
  BY <1>1, <1>2, <1>3

\* What a loop over n positions computes from b, one step for each.
Loops(n, S, b, step) ==
  {f \in [0 .. n -> S] : f[0] = b /\ \A i \in 1 .. n : f[i] = step[i][f[i - 1]]}

\* Every loop computes something.
LEMMA Recursion ==
  ASSUME NEW n \in Nat, NEW S, NEW b \in S, NEW step \in [1 .. n -> [S -> S]]
  PROVE  Loops(n, S, b, step) # {}
<1>. DEFINE Good(m, f) == f[0] = b /\ \A i \in 1 .. m : f[i] = step[i][f[i - 1]]
            T == {m \in Nat : m <= n => \E f \in [0 .. m -> S] : Good(m, f)}
<1>1. 0 \in T
  <2>1. Good(0, [i \in 0 .. 0 |-> b])
    OBVIOUS
  <2>. QED
    BY <2>1
<1>2. ASSUME NEW m \in 0 .. n - 1, m \in T PROVE m + 1 \in T
  <2>1. PICK f \in [0 .. m -> S] : Good(m, f)
    BY <1>2
  <2>. DEFINE g == [i \in 0 .. m + 1 |-> IF i = m + 1 THEN step[i][f[m]] ELSE f[i]]
  <2>2. g \in [0 .. m + 1 -> S]
    OBVIOUS
  <2>3. Good(m + 1, g)
    BY <2>1
  <2>. HIDE DEF g, Good
  <2>. QED
    BY <2>2, <2>3
<1>. HIDE DEF T
<1>3. \A i \in 0 .. n - 1 : i \in T => i + 1 \in T
  BY <1>2
<1>4. \A i \in 0 .. n : i \in T
  BY <1>1, <1>3, UpTo
<1>. QED
  BY <1>4 DEF T, Loops

-----------------------------------------------------------------------------
-----------------------------------------------------------------------------
(* One pass.                                                               *)

Text == Seq(Lexemes)

LEMMA TextLen ==
  ASSUME NEW p \in Text
  PROVE  /\ Len(p) \in Nat /\ DOMAIN p = 1 .. Len(p) /\ p \in [1 .. Len(p) -> Lexemes]
         /\ p # <<>> <=> Len(p) > 0
  BY LenProperties, EmptySeq DEF Text

\* The slashes that start at s end somewhere.
LEMMA LastSlashIs ==
  ASSUME NEW p \in Text, NEW s \in 1 .. Len(p), p[s] = "/"
  PROVE  LET t == LastSlash(p, s) IN
         /\ t \in s .. Len(p) /\ \A k \in s .. t : p[k] = "/"
         /\ t = Len(p) \/ p[t + 1] # "/"
<1>. DEFINE n == Len(p)
            T == {t \in Nat : s <= t /\ t <= n /\ (t = n \/ p[t + 1] # "/")}
<1>1. n \in Nat /\ s \in Nat /\ s <= n
  BY TextLen
<1>. HIDE DEF n
<1>2. n \in T
  BY <1>1
<1>3. PICK t \in T : \A y \in T : t <= y
  BY <1>2, Least
<1>4. ASSUME NEW k \in s .. t PROVE p[k] = "/"
  <2>1. CASE k = s
    BY <2>1
  <2>2. CASE k # s
    <3>1. k - 1 \in Nat /\ s <= k - 1 /\ k - 1 < t /\ k - 1 <= n /\ k - 1 # n
      BY <1>1, <2>2
    <3>2. k - 1 \notin T
      BY <1>3, <3>1
    <3>3. p[(k - 1) + 1] = "/" /\ (k - 1) + 1 = k
      BY <3>1, <3>2
    <3>. QED
      BY <3>3
  <2>. QED
    BY <2>1, <2>2
<1>5. t \in s .. n /\ (t = n \/ p[t + 1] # "/")
  BY <1>1, <1>3
<1>6. \E u \in s .. n : (\A k \in s .. u : p[k] = "/") /\ (u = n \/ p[u + 1] # "/")
  BY <1>4, <1>5
<1>. QED
  BY <1>6 DEF LastSlash, n

LEMMA PartOf ==
  ASSUME NEW p \in Text, NEW s \in 1 .. Len(p) + 1, NEW t \in 0 .. Len(p), s <= t + 1
  PROVE  /\ SubSeq(p, s, t) \in Text /\ Len(SubSeq(p, s, t)) = t - s + 1
         /\ \A k \in 1 .. t - s + 1 : SubSeq(p, s, t)[k] = p[s + k - 1]
<1>1. Len(p) \in Nat /\ s \in Int /\ t \in Int /\ \A i \in s .. t : p[i] \in Lexemes
  <2>1. Len(p) \in Nat /\ p \in [1 .. Len(p) -> Lexemes]
    BY TextLen
  <2>2. \A i \in s .. t : i \in 1 .. Len(p)
    BY <2>1
  <2>. QED
    BY <2>1, <2>2
<1>. DEFINE q == SubSeq(p, s, t)
<1>2. /\ q \in Seq(Lexemes) /\ Len(q) = IF s <= t THEN t - s + 1 ELSE 0
      /\ \A i \in 1 .. t - s + 1 : q[i] = p[s + i - 1]
  BY <1>1, SubSeqProperties
<1>. HIDE DEF q
<1>3. Len(q) = t - s + 1
  BY <1>1, <1>2
<1>. QED
  BY <1>2, <1>3 DEF q, Text

\* What is left when the pieces from s to before t are taken out.
LEMMA CutIs ==
  ASSUME NEW p \in Text, NEW s \in 1 .. Len(p), NEW t \in s .. Len(p)
  PROVE  LET q == SubSeq(p, 1, s - 1) \o SubSeq(p, t, Len(p)) IN
         /\ q \in Text /\ Len(q) = Len(p) - (t - s)
         /\ \A k \in 1 .. Len(p) - (t - s) : q[k] = IF k < s THEN p[k] ELSE p[k + (t - s)]
<1>. DEFINE n == Len(p)
            a == SubSeq(p, 1, s - 1)
            b == SubSeq(p, t, n)
            q == a \o b
<1>1. n \in Nat /\ s \in 1 .. n /\ t \in s .. n
  BY TextLen
<1>2. a \in Text /\ Len(a) = (s - 1) - 1 + 1 /\ \A k \in 1 .. (s - 1) - 1 + 1 : a[k] = p[1 + k - 1]
  <2>1. 1 \in 1 .. n + 1 /\ s - 1 \in 0 .. n /\ 1 <= (s - 1) + 1
    BY <1>1
  <2>. HIDE DEF a
  <2>. QED
    BY <2>1, PartOf DEF a
<1>3. b \in Text /\ Len(b) = n - t + 1 /\ \A k \in 1 .. n - t + 1 : b[k] = p[t + k - 1]
  <2>1. t \in 1 .. n + 1 /\ n \in 0 .. n /\ t <= n + 1
    BY <1>1
  <2>. HIDE DEF b
  <2>. QED
    BY <2>1, PartOf DEF b
<1>. HIDE DEF n, a, b
<1>4. /\ q \in Text /\ Len(q) = Len(a) + Len(b)
      /\ \A k \in 1 .. Len(a) + Len(b) : q[k] = IF k <= Len(a) THEN a[k] ELSE b[k - Len(a)]
  BY <1>2, <1>3, ConcatProperties DEF Text
<1>. HIDE DEF q
<1>5. Len(a) = s - 1 /\ Len(a) + Len(b) = n - (t - s)
  BY <1>1, <1>2, <1>3
<1>6. ASSUME NEW k \in 1 .. n - (t - s), k < s PROVE q[k] = p[k]
  <2>1. k <= Len(a) /\ k \in 1 .. (s - 1) - 1 + 1 /\ 1 + k - 1 = k
    BY <1>1, <1>5, <1>6
  <2>. QED
    BY <1>2, <1>4, <1>5, <2>1
<1>7. ASSUME NEW k \in 1 .. n - (t - s), ~(k < s) PROVE q[k] = p[k + (t - s)]
  <2>1. ~(k <= Len(a)) /\ k - Len(a) \in 1 .. n - t + 1 /\ t + (k - Len(a)) - 1 = k + (t - s)
    BY <1>1, <1>5, <1>7
  <2>. QED
    BY <1>3, <1>4, <1>5, <2>1
<1>. QED
  BY <1>4, <1>5, <1>6, <1>7 DEF q, a, b, n

\* What a pass leaves: the first of some slashes, and what follows the last.
LEMMA SqueezeIs ==
  ASSUME NEW p \in Text, NEW s \in 1 .. Len(p), p[s] = "/"
  PROVE  LET q == Squeeze(p, s)
             d == LastSlash(p, s) - s IN
         /\ q \in Text /\ Len(q) = Len(p) - d
         /\ \A k \in 1 .. Len(p) - d : q[k] = IF k <= s THEN p[k] ELSE p[k + d]
<1>. DEFINE n == Len(p)
            t == LastSlash(p, s)
            q == SubSeq(p, 1, s - 1) \o SubSeq(p, t, n)
<1>1. n \in Nat /\ s \in 1 .. n /\ t \in s .. n /\ p[t] = "/"
  BY TextLen, LastSlashIs
<1>2. Squeeze(p, s) = q
  BY <1>1 DEF Squeeze
<1>3. /\ q \in Text /\ Len(q) = n - (t - s)
      /\ \A k \in 1 .. n - (t - s) : q[k] = IF k < s THEN p[k] ELSE p[k + (t - s)]
  BY <1>1, CutIs
<1>. HIDE DEF n, t, q
<1>4. ASSUME NEW k \in 1 .. n - (t - s) PROVE q[k] = IF k <= s THEN p[k] ELSE p[k + (t - s)]
  <2>1. k = s => k + (t - s) = t
    BY <1>1
  <2>2. k <= s <=> k < s \/ k = s
    BY <1>1
  <2>. QED
    BY <1>1, <1>3, <2>1, <2>2
<1>. QED
  BY <1>2, <1>3, <1>4 DEF n, t

\* A pass at something else, or beyond the end, changes nothing.
LEMMA SqueezeNone ==
  ASSUME NEW p \in Text, NEW s \in Nat \ {0}, s > Len(p) \/ p[s] # "/"
  PROVE  Squeeze(p, s) = p
<1>. DEFINE n == Len(p)
            q == SubSeq(p, 1, s - 1) \o SubSeq(p, s, n)
<1>1. n \in Nat
  BY TextLen
<1>2. CASE s > n
  BY <1>2 DEF Squeeze
<1>3. CASE s \in 1 .. n
  <2>1. Squeeze(p, s) = q
    <3>1. ~(s > n) /\ p[s] # "/"
      BY <1>1, <1>3
    <3>2. LastSlash(p, s) = s
      BY <3>1 DEF LastSlash
    <3>. QED
      BY <3>1, <3>2 DEF Squeeze
  <2>2. /\ q \in Text /\ Len(q) = n - (s - s)
        /\ \A k \in 1 .. n - (s - s) : q[k] = IF k < s THEN p[k] ELSE p[k + (s - s)]
    <3>1. s \in s .. n
      BY <1>3
    <3>. QED
      BY <1>3, <3>1, CutIs
  <2>. HIDE DEF n, q
  <2>3. n - (s - s) = n /\ \A k \in 1 .. n : k + (s - s) = k
    BY <1>1
  <2>4. Len(q) = n /\ \A k \in 1 .. n : q[k] = p[k]
    BY <2>2, <2>3
  <2>. QED
    BY <2>1, <2>2, <2>4, SeqEqual DEF n, Text
<1>. QED
  BY <1>1, <1>2, <1>3

-----------------------------------------------------------------------------
(* The passes over a path.                                                 *)

LEMMA SqueezeType ==
  ASSUME NEW p \in Text, NEW s \in Nat \ {0}
  PROVE  Squeeze(p, s) \in Text
<1>1. Len(p) \in Nat
  BY TextLen
<1>2. CASE s > Len(p) \/ p[s] # "/"
  BY <1>2, SqueezeNone
<1>3. CASE s <= Len(p) /\ p[s] = "/"
  BY <1>1, <1>3, SqueezeIs
<1>. QED
  BY <1>1, <1>2, <1>3

LEMMA SweepSteps ==
  ASSUME NEW p \in Text
  PROVE  /\ Sweep(p) \in [0 .. Len(p) -> Text] /\ Sweep(p)[0] = p
         /\ \A s \in 1 .. Len(p) : Sweep(p)[s] = Squeeze(Sweep(p)[s - 1], s)
<1>. DEFINE n == Len(p)
            step == [s \in 1 .. n |-> [q \in Text |-> Squeeze(q, s)]]
            Body(f) == [s \in 0 .. n |-> IF s = 0 THEN p ELSE Squeeze(f[s - 1], s)]
<1>1. n \in Nat
  BY TextLen
<1>2. step \in [1 .. n -> [Text -> Text]]
  BY <1>1, SqueezeType
<1>. HIDE DEF n, step
<1>3. PICK f \in [0 .. n -> Text] : f[0] = p /\ \A s \in 1 .. n : f[s] = step[s][f[s - 1]]
  <2>1. Loops(n, Text, p, step) # {}
    BY <1>1, <1>2, Recursion
  <2>. QED
    BY <2>1 DEF Loops
<1>4. f = Body(f)
  <2>1. ASSUME NEW s \in 0 .. n, s # 0 PROVE f[s] = Squeeze(f[s - 1], s)
    <3>1. s \in 1 .. n /\ s - 1 \in 0 .. n
      BY <1>1, <2>1
    <3>. QED
      BY <1>3, <3>1 DEF step
  <2>. QED
    BY <1>3, <2>1
<1>5. Sweep(p) = CHOOSE g : g = Body(g)
  BY DEF Sweep, n
<1>6. Sweep(p) = Body(Sweep(p))
  <2>. HIDE DEF Body
  <2>. QED
    BY <1>4, <1>5
<1>. DEFINE g == Sweep(p)
<1>7. g[0] = p /\ \A s \in 1 .. n : g[s] = Squeeze(g[s - 1], s)
  BY <1>1, <1>6
<1>. DEFINE U == {s \in Nat : s <= n => g[s] \in Text}
<1>8. \A s \in 0 .. n : s \in U
  <2>1. 0 \in U
    BY <1>7
  <2>2. ASSUME NEW s \in 0 .. n - 1, g[s] \in Text PROVE g[s + 1] \in Text
    <3>1. s + 1 \in 1 .. n /\ (s + 1) - 1 = s /\ s + 1 \in Nat \ {0}
      BY <1>1
    <3>2. g[s + 1] = Squeeze(g[s], s + 1)
      BY <1>7, <3>1
    <3>. HIDE DEF g
    <3>. QED
      BY <2>2, <3>1, <3>2, SqueezeType
  <2>. HIDE DEF g
  <2>3. \A s \in 0 .. n - 1 : s \in U => s + 1 \in U
    BY <1>1, <2>2
  <2>. HIDE DEF U
  <2>. QED
    BY <1>1, <2>1, <2>3, UpTo
<1>9. g \in [0 .. n -> Text]
  <2>1. g = [s \in 0 .. n |-> g[s]]
    BY <1>6
  <2>. HIDE DEF g
  <2>. QED
    BY <1>8, <2>1
<1>. QED
  BY <1>7, <1>9 DEF n

\* A slash after another.
Doubled(p, i) == i > 1 /\ p[i] = "/" /\ p[i - 1] = "/"

\* q has the pieces of p at the positions at[1], at[2], ..., which are in S.
Picks(q, p, S, at) ==
  /\ at \in [1 .. Len(q) -> S]
  /\ \A j \in 1 .. Len(q), k \in 1 .. Len(q) : j < k => at[j] < at[k]
  /\ \A k \in 1 .. Len(q) : q[k] = p[at[k]]

\* All that is missing from q is doubled slashes of p.
Thins(q, p, at) ==
  /\ Picks(q, p, 1 .. Len(p), at)
  /\ \A i \in 1 .. Len(p) : Doubled(p, i) \/ \E k \in 1 .. Len(q) : at[k] = i

\* What the passes at 1 to s have made of p.
SweepInv(p, q, s) ==
  /\ q \in Text /\ Len(q) <= Len(p)
  /\ \E at : Thins(q, p, at)
  /\ \A k \in 1 .. s : k < Len(q) => ~Doubled(q, k + 1)

LEMMA SweepFirst == ASSUME NEW p \in Text PROVE SweepInv(p, p, 0)
<1>. DEFINE at == [k \in 1 .. Len(p) |-> k]
<1>1. Len(p) \in Nat
  BY TextLen
<1>2. Thins(p, p, at)
  BY <1>1 DEF Thins, Picks
<1>. HIDE DEF at
<1>. QED
  BY <1>1, <1>2 DEF SweepInv

LEMMA SweepSlash ==
  ASSUME NEW p \in Text, NEW s \in Nat \ {0}, NEW q, SweepInv(p, q, s - 1), s <= Len(q), q[s] = "/"
  PROVE  SweepInv(p, Squeeze(q, s), s)
<1>. DEFINE t == LastSlash(q, s)
            d == t - s
            r == Squeeze(q, s)
            n == Len(p)
            m == Len(q)
<1>1. PICK at : Thins(q, p, at)
  BY DEF SweepInv
<1>2. q \in Text /\ m <= n /\ n \in Nat /\ m \in Nat /\ s \in 1 .. m
  BY TextLen DEF SweepInv
<1>3. t \in s .. m /\ (\A k \in s .. t : q[k] = "/") /\ (t = m \/ q[t + 1] # "/")
  BY <1>2, LastSlashIs
<1>4. r \in Text /\ Len(r) = m - d /\ \A k \in 1 .. m - d : r[k] = IF k <= s THEN q[k] ELSE q[k + d]
  BY <1>2, SqueezeIs
<1>. DEFINE to == [k \in 1 .. m - d |-> IF k <= s THEN at[k] ELSE at[k + d]]
<1>5. /\ at \in [1 .. m -> 1 .. n]
      /\ \A j \in 1 .. m, k \in 1 .. m : j < k => at[j] < at[k]
      /\ \A k \in 1 .. m : q[k] = p[at[k]]
      /\ \A i \in 1 .. n : Doubled(p, i) \/ \E k \in 1 .. m : at[k] = i
  BY <1>1 DEF Thins, Picks
<1>. HIDE DEF t, r, n, m
<1>6. d \in Nat /\ m - d \in Nat /\ s + d = t /\ s <= m - d
  BY <1>2, <1>3
<1>. HIDE DEF d
<1>7. \A k \in 1 .. m - d : (k <= s => k \in 1 .. m) /\ (~(k <= s) => k + d \in 1 .. m)
  BY <1>2, <1>6
<1>8. to \in [1 .. m - d -> 1 .. n]
  BY <1>5, <1>7
<1>9. ASSUME NEW j \in 1 .. m - d, NEW k \in 1 .. m - d, j < k PROVE to[j] < to[k]
  <2>1. CASE k <= s
    <3>1. j <= s
      BY <1>6, <1>9, <2>1
    <3>. QED
      BY <1>5, <1>7, <1>9, <2>1, <3>1
  <2>2. CASE ~(k <= s) /\ j <= s
    <3>1. j < k + d
      BY <1>2, <1>6, <1>9
    <3>. QED
      BY <1>5, <1>7, <1>9, <2>2, <3>1
  <2>3. CASE ~(k <= s) /\ ~(j <= s)
    <3>1. j + d < k + d
      BY <1>2, <1>6, <1>9
    <3>. QED
      BY <1>5, <1>7, <1>9, <2>3, <3>1
  <2>. QED
    BY <2>1, <2>2, <2>3
<1>10. \A k \in 1 .. m - d : r[k] = p[to[k]]
  BY <1>4, <1>5, <1>7
<1>11. ASSUME NEW i \in 1 .. n PROVE Doubled(p, i) \/ \E k \in 1 .. m - d : to[k] = i
  <2>1. SUFFICES ASSUME NEW j \in 1 .. m, at[j] = i
                 PROVE  Doubled(p, i) \/ \E k \in 1 .. m - d : to[k] = i
    BY <1>5
  <2>2. CASE j <= s
    <3>1. j \in 1 .. m - d
      BY <1>2, <1>6, <2>2
    <3>. QED
      BY <2>1, <2>2, <3>1
  <2>3. CASE j > t
    <3>1. j - d \in 1 .. m - d /\ ~(j - d <= s) /\ (j - d) + d = j
      BY <1>2, <1>3, <1>6, <2>3
    <3>. QED
      BY <2>1, <3>1
  <2>4. CASE s < j /\ j <= t
    <3>1. j \in s .. t /\ j - 1 \in s .. t /\ j - 1 \in 1 .. m /\ j - 1 < j
      BY <1>2, <1>3, <2>4
    <3>2. p[i] = "/" /\ p[at[j - 1]] = "/" /\ at[j - 1] < i /\ at[j - 1] \in 1 .. n
      BY <1>3, <1>5, <2>1, <3>1
    <3>3. i > 1 /\ i - 1 \in 1 .. n
      BY <1>2, <3>2
    <3>4. p[i - 1] = "/"
      <4>1. CASE Doubled(p, i - 1)
        BY <4>1 DEF Doubled
      <4>2. ASSUME NEW k \in 1 .. m, at[k] = i - 1 PROVE k = j - 1
        <5>1. ~(k < j - 1) /\ ~(j < k) /\ k # j
          BY <1>5, <2>1, <3>1, <3>2, <3>3, <4>2
        <5>. QED
          BY <1>2, <3>1, <5>1
      <4>. QED
        BY <1>5, <3>2, <3>3, <4>1, <4>2
    <3>. QED
      BY <3>2, <3>3, <3>4 DEF Doubled
  <2>. QED
    BY <1>2, <1>3, <2>2, <2>3, <2>4
<1>12. Thins(r, p, to)
  <2>. HIDE DEF to
  <2>. QED
    BY <1>4, <1>8, <1>9, <1>10, <1>11 DEF Thins, Picks, n
<1>13. ASSUME NEW k \in 1 .. s, k < m - d PROVE ~Doubled(r, k + 1)
  <2>1. k \in 1 .. m - d /\ k + 1 \in 1 .. m - d /\ (k + 1) - 1 = k
    BY <1>2, <1>6, <1>13
  <2>2. CASE k = s
    <3>1. ~(k + 1 <= s) /\ (k + 1) + d = t + 1 /\ t # m
      BY <1>2, <1>3, <1>6, <1>13, <2>2
    <3>2. r[k + 1] # "/"
      BY <1>3, <1>4, <2>1, <3>1
    <3>. QED
      BY <3>2 DEF Doubled
  <2>3. CASE k < s
    <3>1. k <= s /\ k + 1 <= s /\ k \in 1 .. s - 1 /\ k < m
      BY <1>2, <1>6, <2>3
    <3>2. r[k] = q[k] /\ r[k + 1] = q[k + 1]
      BY <1>4, <2>1, <3>1
    <3>3. ~Doubled(q, k + 1)
      BY <3>1 DEF SweepInv, m
    <3>. QED
      BY <2>1, <3>2, <3>3 DEF Doubled
  <2>. QED
    BY <1>2, <2>2, <2>3
<1>14. Len(r) <= n
  BY <1>2, <1>4, <1>6
<1>. QED
  BY <1>4, <1>12, <1>13, <1>14 DEF SweepInv, r, n

LEMMA SweepNext ==
  ASSUME NEW p \in Text, NEW s \in Nat \ {0}, NEW q, SweepInv(p, q, s - 1)
  PROVE  SweepInv(p, Squeeze(q, s), s)
<1>1. q \in Text /\ Len(q) \in Nat
  BY TextLen DEF SweepInv
<1>2. CASE s <= Len(q) /\ q[s] = "/"
  BY <1>2, SweepSlash
<1>3. CASE s > Len(q) \/ q[s] # "/"
  <2>1. Squeeze(q, s) = q
    BY <1>1, <1>3, SqueezeNone
  <2>2. ASSUME NEW k \in 1 .. s, k < Len(q) PROVE ~Doubled(q, k + 1)
    <3>1. CASE k = s
      BY <1>1, <1>3, <2>2, <3>1 DEF Doubled
    <3>2. CASE k # s
      <4>1. k \in 1 .. s - 1
        BY <3>2
      <4>. QED
        BY <2>2, <4>1 DEF SweepInv
    <3>. QED
      BY <3>1, <3>2
  <2>. QED
    BY <1>1, <2>1, <2>2 DEF SweepInv
<1>. QED
  BY <1>1, <1>2, <1>3

LEMMA CollapseIs == ASSUME NEW p \in Text PROVE SweepInv(p, Collapse(p), Len(p))
<1>. DEFINE U == {s \in Nat : s <= Len(p) => SweepInv(p, Sweep(p)[s], s)}
<1>1. Len(p) \in Nat
  BY TextLen
<1>2. 0 \in U
  BY SweepFirst, SweepSteps
<1>3. ASSUME NEW s \in 0 .. Len(p) - 1, SweepInv(p, Sweep(p)[s], s)
      PROVE  SweepInv(p, Sweep(p)[s + 1], s + 1)
  <2>1. s + 1 \in 1 .. Len(p) /\ s + 1 \in Nat \ {0} /\ (s + 1) - 1 = s
    BY <1>1
  <2>2. Sweep(p)[s + 1] = Squeeze(Sweep(p)[s], s + 1)
    BY <2>1, SweepSteps
  <2>. QED
    BY <1>3, <2>1, <2>2, SweepNext
<1>4. \A s \in 0 .. Len(p) - 1 : s \in U => s + 1 \in U
  BY <1>1, <1>3
<1>5. \A s \in 0 .. Len(p) : s \in U
  <2>. HIDE DEF U
  <2>. QED
    BY <1>1, <1>2, <1>4, UpTo
<1>. QED
  BY <1>1, <1>5 DEF Collapse

-----------------------------------------------------------------------------
(* A round.                                                                *)

\* q is what p has at the positions in S, in order.
Spells(q, p, S, at) ==
  Picks(q, p, S, at) /\ \A i \in S : \E k \in 1 .. Len(q) : at[k] = i

\* The positions that the passes keep.
Kept(p) == {i \in 1 .. Len(p) : ~Doubled(p, i)}

\* No doubled slash is left: it would stand next to one it doubles.
LEMMA NoneDoubled ==
  ASSUME NEW p \in Text, NEW q, SweepInv(p, q, Len(p)), NEW at, Thins(q, p, at), NEW k \in 1 .. Len(q)
  PROVE  ~Doubled(p, at[k])
<1>. DEFINE n == Len(p)
            m == Len(q)
            i == at[k]
            T == {e \in Nat : 1 <= e /\ e <= i - 1 /\ \E j \in 1 .. m : at[j] = i - e}
<1>1. SUFFICES ASSUME Doubled(p, i) PROVE FALSE
  OBVIOUS
<1>2. /\ n \in Nat /\ m \in Nat /\ m <= n /\ k \in 1 .. m
      /\ \A j \in 1 .. n : j < m => ~Doubled(q, j + 1)
  BY TextLen DEF SweepInv
<1>3. /\ at \in [1 .. m -> 1 .. n]
      /\ \A j \in 1 .. m, h \in 1 .. m : j < h => at[j] < at[h]
      /\ \A j \in 1 .. m : q[j] = p[at[j]]
      /\ \A h \in 1 .. n : Doubled(p, h) \/ \E j \in 1 .. m : at[j] = h
  BY DEF Thins, Picks
<1>. HIDE DEF n, m
<1>4. i \in 1 .. n /\ i > 1 /\ p[i] = "/" /\ p[i - 1] = "/" /\ q[k] = "/"
  BY <1>1, <1>2, <1>3 DEF Doubled
<1>5. T # {}
  <2>1. 1 \in 1 .. n /\ i - 1 \in Nat /\ 1 <= i - 1 /\ i - (i - 1) = 1 /\ ~Doubled(p, 1)
    BY <1>2, <1>4 DEF Doubled
  <2>2. PICK j \in 1 .. m : at[j] = 1
    BY <1>3, <2>1
  <2>3. i - 1 \in T
    BY <2>1, <2>2
  <2>. QED
    BY <2>3
<1>6. PICK e \in T : \A y \in T : e <= y
  <2>. T \subseteq Nat
    OBVIOUS
  <2>. HIDE DEF T
  <2>. QED
    BY <1>5, Least
<1>7. PICK j \in 1 .. m : at[j] = i - e
  BY <1>6
<1>8. e \in Nat /\ 1 <= e /\ e <= i - 1
  BY <1>6
<1>. HIDE DEF i
<1>9. j < k
  <2>1. ~(k < j) /\ k # j
    BY <1>2, <1>3, <1>4, <1>7, <1>8 DEF i
  <2>. QED
    BY <1>2, <1>7, <2>1
<1>10. j = k - 1
  <2>1. SUFFICES ASSUME j < k - 1 PROVE FALSE
    BY <1>2, <1>7, <1>9
  <2>2. k - 1 \in 1 .. m /\ k - 1 < k
    BY <1>2, <2>1
  <2>3. at[j] < at[k - 1] /\ at[k - 1] < i /\ at[k - 1] \in 1 .. n
    BY <1>2, <1>3, <1>7, <2>1, <2>2 DEF i
  <2>4. i - at[k - 1] \in T
    <3>1. /\ i - at[k - 1] \in Nat /\ 1 <= i - at[k - 1] /\ i - at[k - 1] <= i - 1
          /\ at[k - 1] = i - (i - at[k - 1])
      BY <1>2, <1>4, <2>3
    <3>. QED
      BY <2>2, <3>1
  <2>5. i - at[k - 1] < e
    BY <1>2, <1>4, <1>7, <1>8, <2>3
  <2>6. e <= i - at[k - 1]
    BY <1>6, <2>4
  <2>. QED
    BY <1>2, <1>4, <1>8, <2>3, <2>5, <2>6
<1>11. p[at[j]] = "/"
  <2>1. CASE e = 1
    BY <1>4, <1>7, <2>1
  <2>2. CASE e # 1
    <3>1. e - 1 \in Nat /\ e - 1 < e /\ 1 <= e - 1 /\ e - 1 <= i - 1 /\ i - (e - 1) \in 1 .. n
      BY <1>2, <1>4, <1>8, <2>2
    <3>2. e - 1 \notin T
      BY <1>6, <1>8, <3>1
    <3>3. Doubled(p, i - (e - 1))
      BY <1>3, <3>1, <3>2
    <3>4. (i - (e - 1)) - 1 = i - e
      BY <1>2, <1>4, <1>8
    <3>. QED
      BY <1>7, <3>3, <3>4 DEF Doubled
  <2>. QED
    BY <2>1, <2>2
<1>12. Doubled(q, j + 1)
  BY <1>2, <1>3, <1>4, <1>7, <1>10, <1>11 DEF Doubled
<1>. QED
  BY <1>2, <1>7, <1>9, <1>12

LEMMA CollapseSpells ==
  ASSUME NEW p \in Text
  PROVE  /\ Collapse(p) \in Text /\ Len(Collapse(p)) <= Len(p)
         /\ \E at : Spells(Collapse(p), p, Kept(p), at)
<1>. DEFINE q == Collapse(p)
<1>1. SweepInv(p, q, Len(p))
  BY CollapseIs
<1>. HIDE DEF q
<1>2. PICK at : Thins(q, p, at)
  BY <1>1 DEF SweepInv
<1>3. \A k \in 1 .. Len(q) : ~Doubled(p, at[k])
  BY <1>1, <1>2, NoneDoubled
<1>4. at \in [1 .. Len(q) -> Kept(p)]
  BY <1>2, <1>3 DEF Thins, Picks, Kept
<1>5. Spells(q, p, Kept(p), at)
  BY <1>2, <1>4 DEF Thins, Picks, Spells, Kept
<1>. QED
  BY <1>1, <1>5 DEF SweepInv, q

\* The slashes at the end of a path.
Trailing(p, i) == i > 1 /\ \A k \in i .. Len(p) : p[k] = "/"

LEMMA NeededIs == ASSUME NEW p \in Text PROVE Needed(p) = {i \in Kept(p) : ~Trailing(p, i)}
<1>1. Len(p) \in Nat /\ DOMAIN p = 1 .. Len(p)
  BY TextLen
<1>2. ASSUME NEW i \in 1 .. Len(p) PROVE Redundant(p, i) <=> Doubled(p, i) \/ Trailing(p, i)
  <2>1. Trailing(p, i) => p[i] = "/"
    BY <1>1 DEF Trailing
  <2>. QED
    BY <2>1 DEF Redundant, Doubled, Trailing
<1>. QED
  BY <1>1, <1>2 DEF Needed, Kept

\* Only the last piece that is kept can be a slash at the end.
LEMMA TrailingLast ==
  ASSUME NEW p \in Text, NEW q \in Text, NEW at, Spells(q, p, Kept(p), at), NEW k \in 1 .. Len(q)
  PROVE  Trailing(p, at[k]) <=> k = Len(q) /\ k # 1 /\ q[k] = "/"
<1>. DEFINE n == Len(p)
            m == Len(q)
            i == at[k]
<1>1. n \in Nat /\ m \in Nat /\ k \in 1 .. m
  BY TextLen
<1>2. /\ at \in [1 .. m -> Kept(p)]
      /\ \A j \in 1 .. m, h \in 1 .. m : j < h => at[j] < at[h]
      /\ \A j \in 1 .. m : q[j] = p[at[j]]
      /\ \A h \in Kept(p) : \E j \in 1 .. m : at[j] = h
  BY DEF Spells, Picks
<1>3. \A h : h \in Kept(p) <=> h \in 1 .. n /\ ~Doubled(p, h)
  BY DEF Kept
<1>. HIDE DEF n, m, i
<1>4. i \in 1 .. n /\ i = at[k] /\ q[k] = p[i]
  BY <1>1, <1>2, <1>3 DEF i
<1>5. ASSUME Trailing(p, i) PROVE k = m /\ k # 1 /\ q[k] = "/"
  <2>1. i > 1 /\ \A h \in i .. n : p[h] = "/"
    BY <1>5 DEF Trailing, n
  <2>2. q[k] = "/"
    BY <1>1, <1>4, <2>1
  <2>3. k = m
    <3>1. SUFFICES ASSUME k < m PROVE FALSE
      BY <1>1
    <3>2. m \in 1 .. m /\ i < at[m] /\ at[m] \in 1 .. n /\ ~Doubled(p, at[m])
      BY <1>1, <1>2, <1>3, <1>4, <3>1
    <3>3. at[m] \in i .. n /\ at[m] - 1 \in i .. n /\ at[m] > 1
      BY <1>1, <1>4, <2>1, <3>2
    <3>. QED
      BY <2>1, <3>2, <3>3 DEF Doubled
  <2>4. k # 1
    <3>1. 1 \in 1 .. n /\ ~Doubled(p, 1)
      BY <1>1, <1>4 DEF Doubled
    <3>2. PICK j \in 1 .. m : at[j] = 1
      BY <1>2, <1>3, <3>1
    <3>3. j # k /\ ~(k < j)
      BY <1>1, <1>2, <1>4, <2>1, <3>2
    <3>. QED
      BY <1>1, <3>2, <3>3
  <2>. QED
    BY <2>2, <2>3, <2>4
<1>6. ASSUME k = m, k # 1, q[k] = "/" PROVE Trailing(p, i)
  <2>1. i > 1
    <3>1. 1 \in 1 .. m /\ 1 < k
      BY <1>1, <1>6
    <3>2. at[1] < i /\ at[1] \in 1 .. n
      BY <1>1, <1>2, <1>3, <1>4, <3>1
    <3>. QED
      BY <1>1, <1>4, <3>2
  <2>2. ASSUME NEW h \in i .. n PROVE p[h] = "/"
    <3>1. CASE h = i
      BY <1>4, <1>6, <3>1
    <3>2. CASE h # i
      <4>1. h \in 1 .. n /\ i < h
        BY <1>1, <1>4, <3>2
      <4>2. ASSUME NEW j \in 1 .. m PROVE at[j] # h
        <5>1. j < k \/ j = k
          BY <1>1, <1>6
        <5>2. at[j] <= i
          BY <1>1, <1>2, <1>3, <1>4, <5>1
        <5>. QED
          BY <1>1, <1>2, <1>3, <1>4, <4>1, <5>2
      <4>3. Doubled(p, h)
        BY <1>2, <1>3, <4>1, <4>2
      <4>. QED
        BY <4>3 DEF Doubled
    <3>. QED
      BY <3>1, <3>2
  <2>. QED
    BY <2>1, <2>2 DEF Trailing, n
<1>. QED
  BY <1>5, <1>6 DEF i, m

Round(p) == DropTrailing(Collapse(p))

LEMMA SlashIs ==
  ASSUME NEW q \in Text
  PROVE  q = Slash <=> Len(q) = 1 /\ q[1] = "/"
<1>1. Slash \in Seq(Lexemes) /\ Len(Slash) = 1 /\ Slash[1] = "/"
  BY DEF Slash, Lexemes, Pieces
<1>2. ASSUME Len(q) = 1, q[1] = "/" PROVE q = Slash
  <2>1. \A i \in 1 .. Len(q) : q[i] = Slash[i]
    BY <1>1, <1>2
  <2>. HIDE DEF Slash
  <2>. QED
    BY <1>1, <1>2, <2>1, SeqEqual DEF Text
<1>. QED
  BY <1>1, <1>2

\* A round leaves the pieces that are needed.
LEMMA RoundSpells ==
  ASSUME NEW p \in Text
  PROVE  /\ Round(p) \in Text /\ Len(Round(p)) <= Len(p)
         /\ \E at : Spells(Round(p), p, Needed(p), at)
<1>. DEFINE q == Collapse(p)
            m == Len(q)
            n == Len(p)
<1>1. q \in Text /\ m <= n /\ n \in Nat /\ m \in Nat /\ (q # <<>> <=> m > 0)
  BY CollapseSpells, TextLen
<1>2. PICK at : Spells(q, p, Kept(p), at)
  BY CollapseSpells
<1>. HIDE DEF q
<1>3. /\ at \in [1 .. m -> Kept(p)]
      /\ \A j \in 1 .. m, k \in 1 .. m : j < k => at[j] < at[k]
      /\ \A j \in 1 .. m : q[j] = p[at[j]]
      /\ \A h \in Kept(p) : \E j \in 1 .. m : at[j] = h
  BY <1>2 DEF Spells, Picks
<1>4. \A k \in 1 .. m : Trailing(p, at[k]) <=> k = m /\ k # 1 /\ q[k] = "/"
  BY <1>1, <1>2, TrailingLast
<1>5. Needed(p) = {i \in Kept(p) : ~Trailing(p, i)}
  BY NeededIs
<1>. HIDE DEF m, n
<1>6. CASE m > 1 /\ q[m] = "/"
  <2>. DEFINE r == SubSeq(q, 1, m - 1)
  <2>1. Round(p) = r
    <3>1. q \notin {<<>>, Slash} /\ Last(q) = "/" /\ Front(q) = r
      BY <1>1, <1>6, SlashIs DEF Last, Front, m
    <3>. HIDE DEF r
    <3>. QED
      BY <3>1 DEF Round, DropTrailing, q
  <2>2. r \in Text /\ Len(r) = (m - 1) - 1 + 1 /\ \A k \in 1 .. (m - 1) - 1 + 1 : r[k] = q[1 + k - 1]
    <3>1. 1 \in 1 .. m + 1 /\ m - 1 \in 0 .. m /\ 1 <= (m - 1) + 1
      BY <1>1, <1>6
    <3>. HIDE DEF r
    <3>. QED
      BY <1>1, <3>1, PartOf DEF r, m
  <2>. HIDE DEF r
  <2>3. /\ Len(r) = m - 1 /\ \A k \in 1 .. m - 1 : r[k] = q[k] /\ k \in 1 .. m /\ k # m
        /\ \A k \in 1 .. m : k # m => k \in 1 .. m - 1
    <3>1. (m - 1) - 1 + 1 = m - 1 /\ \A k \in 1 .. m - 1 : 1 + k - 1 = k /\ k \in 1 .. m /\ k # m
      BY <1>1
    <3>2. \A k \in 1 .. m : k # m => k \in 1 .. m - 1
      BY <1>1
    <3>. QED
      BY <2>2, <3>1, <3>2
  <2>. DEFINE to == [k \in 1 .. m - 1 |-> at[k]]
  <2>4. m \in 1 .. m /\ m # 1
    BY <1>1, <1>6
  <2>5. Spells(r, p, Needed(p), to)
    <3>1. to \in [1 .. m - 1 -> Needed(p)]
      BY <1>3, <1>4, <1>5, <2>3
    <3>2. \A j \in 1 .. m - 1, k \in 1 .. m - 1 : j < k => to[j] < to[k]
      BY <1>3, <2>3
    <3>3. \A k \in 1 .. m - 1 : r[k] = p[to[k]]
      BY <1>3, <2>3
    <3>4. \A i \in Needed(p) : \E k \in 1 .. m - 1 : to[k] = i
      BY <1>3, <1>4, <1>5, <1>6, <2>3, <2>4
    <3>. HIDE DEF to
    <3>. QED
      BY <2>3, <3>1, <3>2, <3>3, <3>4 DEF Spells, Picks
  <2>6. m - 1 <= n
    BY <1>1
  <2>. QED
    BY <2>1, <2>2, <2>3, <2>5, <2>6 DEF n
<1>7. CASE ~(m > 1 /\ q[m] = "/")
  <2>1. Round(p) = q
    <3>1. q \in {<<>>, Slash} \/ Last(q) # "/"
      <4>1. m = 0 \/ m = 1 \/ m > 1
        BY <1>1
      <4>. QED
        BY <1>1, <1>7, <4>1, SlashIs DEF Last, m
    <3>. QED
      BY <3>1 DEF Round, DropTrailing, q
  <2>2. \A k \in 1 .. m : ~Trailing(p, at[k])
    <3>1. \A k \in 1 .. m : k = m /\ k # 1 => m > 1
      BY <1>1
    <3>. QED
      BY <1>4, <1>7, <3>1
  <2>3. Needed(p) = Kept(p)
    BY <1>3, <1>5, <2>2
  <2>. QED
    BY <1>1, <1>2, <2>1, <2>3 DEF m, n
<1>. QED
  BY <1>6, <1>7

\* The k-th position is the one with k up to it.
LEMMA RankIs ==
  ASSUME NEW n \in Nat, NEW S \in SUBSET Nat, NEW at \in [1 .. n -> S],
         \A j \in 1 .. n, k \in 1 .. n : j < k => at[j] < at[k],
         \A i \in S : \E k \in 1 .. n : at[k] = i
  PROVE  Cardinality(S) = n /\ \A k \in 1 .. n : Rank(S, at[k]) = k
<1>1. ASSUME NEW k \in 0 .. n, NEW T, T = {at[j] : j \in 1 .. k} PROVE Cardinality(T) = k
  <2>. DEFINE f == [j \in 1 .. k |-> at[j]]
  <2>1. \A j \in 1 .. k : j \in 1 .. n
    OBVIOUS
  <2>2. f \in [1 .. k -> T] /\ \A x \in T : \E j \in 1 .. k : f[j] = x
    BY <1>1
  <2>3. ASSUME NEW a \in 1 .. k, NEW b \in 1 .. k, f[a] = f[b] PROVE a = b
    <3>1. at[a] = at[b] /\ at[a] \in Nat
      BY <2>1, <2>3
    <3>. QED
      BY <2>1, <3>1
  <2>. HIDE DEF f
  <2>4. f \in Bijection(1 .. k, T)
    BY <2>2, <2>3 DEF Bijection, Injection, Surjection, IsInjective
  <2>5. IsFiniteSet(1 .. k) /\ Cardinality(1 .. k) = k
    <3>1. k \in Int /\ 1 \in Int
      OBVIOUS
    <3>. QED
      BY <3>1, FS_Interval
  <2>. QED
    BY <2>4, <2>5, FS_Bijection DEF ExistsBijection
<1>2. Cardinality(S) = n
  <2>1. S = {at[j] : j \in 1 .. n}
    OBVIOUS
  <2>2. n \in 0 .. n
    OBVIOUS
  <2>. QED
    BY <1>1, <2>1, <2>2
<1>3. ASSUME NEW k \in 1 .. n PROVE Rank(S, at[k]) = k
  <2>1. ASSUME NEW j \in 1 .. n PROVE at[j] <= at[k] <=> j \in 1 .. k
    <3>1. at[j] \in Nat /\ at[k] \in Nat
      OBVIOUS
    <3>2. k < j => at[k] < at[j]
      OBVIOUS
    <3>3. j < k => at[j] < at[k]
      OBVIOUS
    <3>. QED
      BY <3>1, <3>2, <3>3
  <2>2. {i \in S : i <= at[k]} = {at[j] : j \in 1 .. k}
    <3>1. \A j \in 1 .. k : j \in 1 .. n
      OBVIOUS
    <3>. QED
      BY <2>1, <3>1
  <2>3. k \in 0 .. n
    OBVIOUS
  <2>. QED
    BY <1>1, <2>2, <2>3 DEF Rank
<1>. QED
  BY <1>2, <1>3

\* What is spelled by the needed pieces is the reduced form.
LEMMA SpelledIs ==
  ASSUME NEW p \in Text, NEW q \in Text, NEW at, Spells(q, p, Needed(p), at)
  PROVE  q = ReferenceReduce(p)
<1>. DEFINE n == Len(q)
            S == Needed(p)
<1>1. /\ n \in Nat /\ S \in SUBSET Nat /\ at \in [1 .. n -> S]
      /\ \A j \in 1 .. n, k \in 1 .. n : j < k => at[j] < at[k]
      /\ \A k \in 1 .. n : q[k] = p[at[k]]
      /\ \A i \in S : \E k \in 1 .. n : at[k] = i
  BY TextLen DEF Spells, Picks, Needed
<1>2. q = [k \in 1 .. n |-> q[k]]
  BY TextLen
<1>. HIDE DEF n, S
<1>3. Cardinality(S) = n /\ \A k \in 1 .. n : Rank(S, at[k]) = k
  BY <1>1, RankIs
<1>4. ASSUME NEW k \in 1 .. n PROVE (CHOOSE i \in S : Rank(S, i) = k) = at[k]
  <2>1. at[k] \in S /\ Rank(S, at[k]) = k
    BY <1>1, <1>3
  <2>2. \A i \in S : Rank(S, i) = k => i = at[k]
    BY <1>1, <1>3
  <2>. QED
    BY <2>1, <2>2
<1>5. [k \in 1 .. n |-> q[k]] = [k \in 1 .. n |-> p[CHOOSE i \in S : Rank(S, i) = k]]
  BY <1>1, <1>4
<1>. QED
  BY <1>2, <1>3, <1>5 DEF ReferenceReduce, S

LEMMA RoundIs ==
  ASSUME NEW p \in Text
  PROVE  Round(p) = ReferenceReduce(p) /\ Round(p) \in Text /\ Len(Round(p)) <= Len(p)
BY RoundSpells, SpelledIs

-----------------------------------------------------------------------------
(* The rounds over a path.                                                 *)

Reduced(p) == Needed(p) = 1 .. Len(p)

\* All of what is spelled by the needed pieces is needed.
LEMMA SpelledReduced ==
  ASSUME NEW p \in Text, NEW q \in Text, NEW at, Spells(q, p, Needed(p), at)
  PROVE  Reduced(q)
<1>. DEFINE m == Len(q)
            n == Len(p)
<1>1. /\ m \in Nat /\ n \in Nat /\ DOMAIN q = 1 .. m /\ DOMAIN p = 1 .. n
  BY TextLen
<1>2. /\ at \in [1 .. m -> Needed(p)]
      /\ \A j \in 1 .. m, k \in 1 .. m : j < k => at[j] < at[k]
      /\ \A k \in 1 .. m : q[k] = p[at[k]]
      /\ \A i \in Needed(p) : \E k \in 1 .. m : at[k] = i
  BY DEF Spells, Picks
<1>3. \A i : i \in Needed(p) <=> i \in 1 .. n /\ ~Redundant(p, i)
  BY <1>1 DEF Needed
<1>4. \A i \in 1 .. n : p[i] # "/" => i \in Needed(p)
  BY <1>3 DEF Redundant
<1>. HIDE DEF m
<1>5. ASSUME NEW k \in 1 .. m, Redundant(q, k) PROVE FALSE
  <2>. DEFINE i == at[k]
  <2>1. k > 1 /\ q[k] = "/" /\ (q[k - 1] = "/" \/ \A j \in k .. m : q[j] = "/")
    BY <1>5 DEF Redundant, m
  <2>2. k - 1 \in 1 .. m /\ k - 1 < k
    BY <1>1, <2>1
  <2>3. i \in 1 .. n /\ at[k - 1] < i /\ at[k - 1] \in 1 .. n /\ p[i] = "/" /\ ~Redundant(p, i)
    BY <1>2, <1>3, <2>1, <2>2
  <2>. HIDE DEF n
  <2>4. i > 1 /\ i - 1 \in 1 .. n
    BY <1>1, <2>3
  <2>5. p[i - 1] # "/" /\ \E x \in i .. n : p[x] # "/"
    BY <2>3, <2>4 DEF Redundant, n
  <2>6. CASE q[k - 1] = "/"
    <3>1. PICK j \in 1 .. m : at[j] = i - 1
      BY <1>2, <1>4, <2>4, <2>5 DEF n
    <3>2. ~(k < j) /\ k # j /\ ~(j < k - 1)
      BY <1>1, <1>2, <2>2, <2>3, <2>4, <3>1
    <3>3. j = k - 1
      BY <1>1, <2>2, <3>2
    <3>. QED
      BY <1>2, <2>2, <2>5, <2>6, <3>1, <3>3
  <2>7. CASE \A j \in k .. m : q[j] = "/"
    <3>1. PICK x \in i .. n : p[x] # "/"
      BY <2>5
    <3>2. x \in 1 .. n
      BY <1>1, <2>3, <3>1
    <3>3. PICK j \in 1 .. m : at[j] = x
      BY <1>2, <1>4, <3>1, <3>2 DEF n
    <3>4. ~(j < k)
      BY <1>1, <1>2, <2>3, <3>1, <3>3
    <3>5. j \in k .. m
      BY <1>1, <3>4
    <3>. QED
      BY <1>2, <2>7, <3>1, <3>3, <3>5
  <2>. QED
    BY <2>1, <2>6, <2>7
<1>. QED
  BY <1>1, <1>5 DEF Reduced, Needed, m

LEMMA ReducedStays ==
  ASSUME NEW p \in Text, Reduced(p)
  PROVE  ReferenceReduce(p) = p
<1>. DEFINE at == [k \in 1 .. Len(p) |-> k]
<1>1. Len(p) \in Nat
  BY TextLen
<1>2. Spells(p, p, Needed(p), at)
  BY <1>1 DEF Spells, Picks, Reduced
<1>. HIDE DEF at
<1>. QED
  BY <1>2, SpelledIs

\* A second round does nothing.
LEMMA RoundReduced ==
  ASSUME NEW p \in Text
  PROVE  Reduced(Round(p)) /\ Round(Round(p)) = Round(p)
<1>1. Reduced(Round(p))
  BY RoundSpells, SpelledReduced
<1>. QED
  BY <1>1, RoundIs, ReducedStays

LEMMA RoundsSteps ==
  ASSUME NEW p \in Text
  PROVE  Rounds(p)[0] = p /\ \A n \in 1 .. Len(p) + 1 : Rounds(p)[n] = Round(Rounds(p)[n - 1])
<1>. DEFINE m == Len(p) + 1
            step == [n \in 1 .. m |-> [q \in Text |-> Round(q)]]
            Body(f) == [n \in 0 .. m |-> IF n = 0 THEN p ELSE Round(f[n - 1])]
<1>1. m \in Nat
  BY TextLen
<1>2. step \in [1 .. m -> [Text -> Text]]
  BY RoundIs
<1>. HIDE DEF m, step
<1>3. PICK f \in [0 .. m -> Text] : f[0] = p /\ \A n \in 1 .. m : f[n] = step[n][f[n - 1]]
  <2>1. Loops(m, Text, p, step) # {}
    BY <1>1, <1>2, Recursion
  <2>. QED
    BY <2>1 DEF Loops
<1>4. f = Body(f)
  <2>1. ASSUME NEW n \in 0 .. m, n # 0 PROVE f[n] = Round(f[n - 1])
    <3>1. n \in 1 .. m /\ n - 1 \in 0 .. m
      BY <1>1, <2>1
    <3>. QED
      BY <1>3, <3>1 DEF step
  <2>. QED
    BY <1>3, <2>1
<1>5. Rounds(p) = CHOOSE g : g = Body(g)
  BY DEF Rounds, Round, m
<1>6. Rounds(p) = Body(Rounds(p))
  <2>. HIDE DEF Body
  <2>. QED
    BY <1>4, <1>5
<1>. QED
  BY <1>1, <1>6 DEF m

\* shellPathReduce computes the reduced form, for every path.
LEMMA ReduceCorrect ==
  ASSUME NEW p \in Text
  PROVE  /\ ShellPathReduce(p) = ReferenceReduce(p)
         /\ ShellPathReduce(p) \in Text /\ Reduced(ShellPathReduce(p))
<1>. DEFINE m == Len(p)
            R == Rounds(p)
            U == {n \in Nat : n <= m => R[n + 1] = Round(p)}
<1>1. m \in Nat
  BY TextLen
<1>2. R[0] = p /\ \A n \in 1 .. m + 1 : R[n] = Round(R[n - 1])
  BY RoundsSteps
<1>. HIDE DEF R, m
<1>3. 0 \in U
  <2>1. 1 \in 1 .. m + 1 /\ 1 - 1 = 0 /\ 0 + 1 = 1
    BY <1>1
  <2>2. R[1] = Round(R[0])
    BY <1>2, <2>1
  <2>. QED
    BY <1>2, <2>1, <2>2
<1>4. ASSUME NEW n \in 0 .. m - 1, R[n + 1] = Round(p) PROVE R[(n + 1) + 1] = Round(p)
  <2>1. (n + 1) + 1 \in 1 .. m + 1 /\ ((n + 1) + 1) - 1 = n + 1
    BY <1>1
  <2>2. R[(n + 1) + 1] = Round(R[n + 1])
    BY <1>2, <2>1
  <2>. QED
    BY <1>4, <2>2, RoundReduced
<1>5. \A n \in 0 .. m : R[n + 1] = Round(p)
  <2>1. \A n \in 0 .. m - 1 : n \in U => n + 1 \in U
    BY <1>1, <1>4
  <2>2. \A n \in 0 .. m : n \in U
    <3>. HIDE DEF U
    <3>. QED
      BY <1>1, <1>3, <2>1, UpTo
  <2>. QED
    BY <1>1, <2>2
<1>6. \A n \in 1 .. m + 1 : R[n] = Round(p)
  <2>1. \A n \in 1 .. m + 1 : n - 1 \in 0 .. m /\ (n - 1) + 1 = n
    BY <1>1
  <2>. QED
    BY <1>5, <2>1
<1>7. \E n \in 1 .. m + 1 : Len(R[n]) = Len(R[n - 1])
  <2>1. CASE m = 0
    <3>1. 1 \in 1 .. m + 1 /\ 1 - 1 = 0
      BY <1>1
    <3>2. Len(R[1]) <= m /\ Len(R[1]) \in Nat /\ Len(R[0]) = m
      BY <1>2, <1>6, <3>1, RoundIs, TextLen DEF m
    <3>3. Len(R[1]) = Len(R[0])
      BY <2>1, <3>2
    <3>. QED
      BY <3>1, <3>3
  <2>2. CASE m > 0
    <3>1. 1 \in 1 .. m + 1 /\ 2 \in 1 .. m + 1 /\ 2 - 1 = 1
      BY <1>1, <2>2
    <3>. QED
      BY <1>6, <3>1
  <2>. QED
    BY <1>1, <2>1, <2>2
<1>8. ShellPathReduce(p) = Round(p)
  <2>. DEFINE end == CHOOSE n \in 1 .. m + 1 : Len(R[n]) = Len(R[n - 1])
  <2>1. end \in 1 .. m + 1
    BY <1>7
  <2>2. ShellPathReduce(p) = R[end]
    BY DEF ShellPathReduce, R, m
  <2>. HIDE DEF end
  <2>. QED
    BY <1>6, <2>1, <2>2
<1>. QED
  BY <1>8, RoundIs, RoundReduced

-----------------------------------------------------------------------------
(* What a command can have for an argument.                                *)

Plain == Lexemes \ {" ", "#"}

LEMMA TextsShape == Texts = Seq(Plain) /\ Texts \subseteq Text /\ Nowhere \notin Text
<1>1. Texts = Seq(Plain)
  BY DEF Texts, Plain
<1>2. ASSUME NEW p \in Seq(Plain) PROVE p \in Seq(Lexemes)
  BY SeqMonotonic DEF Plain
<1>. QED
  BY <1>1, <1>2, ShellAssumption DEF Text

LEMMA InputsType == Inputs \subseteq Text
<1>1. ASSUME NEW a \in Lexemes, NEW b \in Lexemes
      PROVE  <<a>> \in Text /\ <<a, b>> \in Text
  BY DEF Text
<1>2. <<>> \in Text
  BY EmptySeq DEF Text
<1>3. {"cd", "export", "h", " ", "\n", "#", "/", "=", "PWD", "HOME"} \subseteq Lexemes
  BY DEF Lexemes, Pieces
<1>4. ASSUME NEW a \in Text, NEW b \in Text PROVE a \o b \in Text
  BY ConcatProperties DEF Text
<1>5. Paths \subseteq Text
  <2>1. Pieces \subseteq Lexemes
    BY DEF Lexemes
  <2>2. ASSUME NEW p \in SeqOf(Pieces, MaxPath) PROVE p \in Seq(Pieces)
    BY ShellAssumption DEF SeqOf
  <2>3. ASSUME NEW p \in Seq(Pieces) PROVE p \in Text
    BY <2>1, SeqMonotonic DEF Text
  <2>. QED
    BY <2>2, <2>3 DEF Paths
<1>6. Assignments \subseteq Text
  <2>1. Slash \in Text /\ Home \in Text
    BY <1>1, <1>3 DEF Slash, Home
  <2>. DEFINE names == {<<"HOME", "=">>, <<"PWD", "=">>}
              values == {<<>>, Slash, Home}
  <2>2. names \subseteq Text
    BY <1>1, <1>3
  <2>3. values \subseteq Text
    BY <1>2, <2>1
  <2>4. Assignments = {name \o value : name \in names, value \in values}
    BY DEF Assignments
  <2>. HIDE DEF names, values
  <2>5. ASSUME NEW name \in names, NEW value \in values PROVE name \o value \in Text
    <3>1. name \in Text /\ value \in Text
      BY <2>2, <2>3
    <3>. QED
      BY <1>4, <3>1
  <2>6. ASSUME NEW p \in Assignments PROVE \E name \in names, value \in values : p = name \o value
    BY <2>4
  <2>. QED
    BY <2>5, <2>6
<1>7. Arguments \subseteq Text
  <2>1. <<" ">> \in Text /\ <<"PWD">> \in Text
    BY <1>1, <1>3
  <2>. QED
    BY <1>2, <1>4, <1>5, <1>6, <2>1 DEF Arguments
<1>. DEFINE verbs == {<<"cd">>, <<"export">>, <<"h">>, <<" ">>, <<"\n">>, <<"#", "cd">>}
            ends == {<<>>, <<"\n">>, <<" ">>, <<"\n", "cd", " ", "/", "\n">>, <<"#", "h", "\n">>}
<1>8. Inputs = {verb \o arg \o end : verb \in verbs, arg \in Arguments, end \in ends}
  BY DEF Inputs
<1>9. verbs \subseteq Text
  BY <1>1, <1>3
<1>10. ends \subseteq Text
  <2>1. ASSUME NEW a \in Lexemes, NEW b \in Lexemes, NEW c \in Lexemes, NEW d \in Lexemes, NEW e \in Lexemes
        PROVE  <<a, b, c, d, e>> \in Text /\ <<a, b, c>> \in Text
    BY DEF Text
  <2>2. <<"\n", "cd", " ", "/", "\n">> \in Text /\ <<"#", "h", "\n">> \in Text
    BY <1>3, <2>1
  <2>. QED
    BY <1>1, <1>2, <1>3, <2>2
<1>. HIDE DEF verbs, ends
<1>11. ASSUME NEW verb \in verbs, NEW arg \in Arguments, NEW end \in ends
       PROVE  verb \o arg \o end \in Text
  <2>1. verb \in Text /\ arg \in Text /\ end \in Text
    BY <1>7, <1>9, <1>10
  <2>. QED
    BY <1>4, <2>1
<1>12. ASSUME NEW text \in Inputs
       PROVE  \E verb \in verbs, arg \in Arguments, end \in ends : text = verb \o arg \o end
  BY <1>8
<1>. QED
  BY <1>11, <1>12

\* What is before the first "#" has none.
LEMMA StrippedIs ==
  ASSUME NEW text \in Text
  PROVE  /\ Stripped(text) \in Text
         /\ \A k \in 1 .. Len(Stripped(text)) : Stripped(text)[k] # "#"
<1>. DEFINE n == Len(text)
            Ends(i) == (\A k \in 1 .. i : text[k] # "#") /\ (i = n \/ text[i + 1] = "#")
            T == {i \in Nat : i <= n /\ (i = n \/ text[i + 1] = "#")}
            end == CHOOSE i \in 0 .. n : Ends(i)
            cut == SubSeq(text, 1, end)
<1>1. n \in Nat
  BY TextLen
<1>2. \E i \in 0 .. n : Ends(i)
  <2>. HIDE DEF n
  <2>1. n \in T
    BY <1>1
  <2>2. PICK t \in T : \A y \in T : t <= y
    BY <2>1, Least
  <2>3. ASSUME NEW k \in 1 .. t PROVE text[k] # "#"
    <3>1. k - 1 \in Nat /\ k - 1 < t /\ k - 1 <= n /\ (k - 1) + 1 = k
      BY <1>1, <2>2
    <3>2. k - 1 \notin T
      BY <2>2, <3>1
    <3>. QED
      BY <3>1, <3>2
  <2>4. Ends(t) /\ t \in 0 .. n
    BY <1>1, <2>2, <2>3
  <2>. QED
    BY <2>4
<1>3. end \in 0 .. n /\ Ends(end)
  <2>. HIDE DEF Ends
  <2>. QED
    BY <1>2
<1>. HIDE DEF end
<1>4. \A i \in 0 .. n : /\ SubSeq(text, 1, i) \in Text /\ Len(SubSeq(text, 1, i)) = i
                        /\ \A k \in 1 .. i : SubSeq(text, 1, i)[k] = text[k]
  <2>. SUFFICES ASSUME NEW i \in 0 .. n
                PROVE  /\ SubSeq(text, 1, i) \in Text /\ Len(SubSeq(text, 1, i)) = i
                       /\ \A k \in 1 .. i : SubSeq(text, 1, i)[k] = text[k]
    OBVIOUS
  <2>1. 1 \in 1 .. n + 1 /\ 1 <= i + 1 /\ i - 1 + 1 = i /\ \A k \in 1 .. i : 1 + k - 1 = k
    BY <1>1
  <2>2. /\ SubSeq(text, 1, i) \in Text /\ Len(SubSeq(text, 1, i)) = i - 1 + 1
        /\ \A k \in 1 .. i - 1 + 1 : SubSeq(text, 1, i)[k] = text[1 + k - 1]
    BY <2>1, PartOf
  <2>. QED
    BY <2>1, <2>2
<1>5. cut \in Text /\ Len(cut) = end /\ \A k \in 1 .. end : cut[k] = text[k] /\ cut[k] # "#"
  BY <1>3, <1>4
<1>6. Stripped(text) = IF cut # <<>> /\ Last(cut) = "\n" THEN Front(cut) ELSE cut
  BY DEF Stripped, end, n
<1>. HIDE DEF cut, n
<1>7. cut # <<>> =>
        /\ Front(cut) \in Text /\ Len(Front(cut)) = Len(cut) - 1
        /\ \A k \in 1 .. Len(cut) - 1 : Front(cut)[k] = cut[k]
  <2>. SUFFICES ASSUME cut # <<>>
                PROVE  /\ Front(cut) \in Text /\ Len(Front(cut)) = Len(cut) - 1
                       /\ \A k \in 1 .. Len(cut) - 1 : Front(cut)[k] = cut[k]
    OBVIOUS
  <2>. DEFINE m == Len(cut) - 1
  <2>1. m \in Nat /\ Len(cut) = m + 1
    BY <1>5, TextLen
  <2>2. /\ 1 \in 1 .. Len(cut) + 1 /\ m \in 0 .. Len(cut) /\ 1 <= m + 1 /\ m - 1 + 1 = m
        /\ \A k \in 1 .. m : 1 + k - 1 = k
    BY <2>1
  <2>3. Front(cut) = SubSeq(cut, 1, m)
    BY DEF Front
  <2>. HIDE DEF m
  <2>4. /\ SubSeq(cut, 1, m) \in Text /\ Len(SubSeq(cut, 1, m)) = m - 1 + 1
        /\ \A k \in 1 .. m - 1 + 1 : SubSeq(cut, 1, m)[k] = cut[1 + k - 1]
    BY <1>5, <2>2, PartOf
  <2>. QED
    BY <2>2, <2>3, <2>4 DEF m
<1>8. CASE cut # <<>> /\ Last(cut) = "\n"
  <2>1. Stripped(text) = Front(cut)
    BY <1>6, <1>8
  <2>2. \A k \in 1 .. Len(cut) - 1 : k \in 1 .. end
    BY <1>3, <1>5
  <2>. QED
    BY <1>5, <1>7, <1>8, <2>1, <2>2
<1>9. CASE ~(cut # <<>> /\ Last(cut) = "\n")
  BY <1>5, <1>6, <1>9
<1>. QED
  BY <1>8, <1>9

\* A word has no space, and is not empty.
LEMMA WordType ==
  ASSUME NEW text \in Text, NEW n, \A k \in 1 .. Len(text) : text[k] # "#"
  PROVE  Word(text, n) \in {Nowhere} \cup (Texts \ {<<>>})
<1>. DEFINE blank(i) == i \notin DOMAIN text \/ text[i] = " "
            words == {w \in (1 .. Len(text)) \X (1 .. Len(text)) :
                        /\ w[1] <= w[2] /\ blank(w[1] - 1) /\ blank(w[2] + 1)
                        /\ \A k \in w[1] .. w[2] : ~blank(k)
                        /\ Cardinality({k \in 1 .. w[1] - 1 : ~blank(k) /\ blank(k + 1)}) = n - 1}
            Found == {SubSeq(text, w[1], w[2]) : w \in words}
<1>1. Word(text, n) = IF words = {} THEN Nowhere ELSE CHOOSE word \in Found : TRUE
  BY DEF Word
<1>2. ASSUME NEW w \in words PROVE SubSeq(text, w[1], w[2]) \in Texts \ {<<>>}
  <2>1. /\ w[1] \in 1 .. Len(text) /\ w[2] \in 1 .. Len(text) /\ w[1] <= w[2]
        /\ \A k \in w[1] .. w[2] : k \in DOMAIN text /\ text[k] # " "
    OBVIOUS
  <2>. DEFINE a == w[1]
              b == w[2]
              q == SubSeq(text, a, b)
  <2>. HIDE DEF a, b, words
  <2>2. \A k \in a .. b : text[k] \in Plain
    <3>1. \A k \in a .. b : k \in 1 .. Len(text) /\ text[k] # " "
      BY <2>1, TextLen DEF a, b
    <3>. QED
      BY <3>1, TextLen DEF Plain
  <2>3. a \in Int /\ b \in Int /\ a <= b
    <3>1. a \in 1 .. Len(text) /\ b \in 1 .. Len(text) /\ a <= b
      BY <2>1 DEF a, b
    <3>. QED
      BY <3>1, TextLen
  <2>4. q \in Seq(Plain) /\ Len(q) = IF a <= b THEN b - a + 1 ELSE 0
    BY <2>2, <2>3, SubSeqProperties
  <2>. HIDE DEF q
  <2>5. q # <<>>
    <3>1. Len(q) > 0
      BY <2>3, <2>4
    <3>. QED
      BY <3>1, EmptySeq
  <2>. QED
    BY <2>4, <2>5, TextsShape DEF q, a, b
<1>. HIDE DEF words
<1>3. words # {} => Found # {}
  OBVIOUS
<1>4. Found \subseteq Texts \ {<<>>}
  BY <1>2
<1>. HIDE DEF Found
<1>. QED
  BY <1>1, <1>3, <1>4

LEMMA ArgumentType ==
  ASSUME NEW name, NEW arg \in ArgumentsOf(name), arg # Nowhere
  PROVE  arg \in Texts /\ arg # <<>>
<1>1. PICK c \in Commands : arg = c.argument
  BY DEF ArgumentsOf
<1>2. PICK t \in Inputs : c.argument = Word(Stripped(t), 2)
  BY DEF Commands
<1>. QED
  BY <1>1, <1>2, InputsType, StrippedIs, WordType


-----------------------------------------------------------------------------
(* The shell's states.                                                     *)

\* A reduced path is made of the pieces it was made of, and starts the same way.
LEMMA ReduceType ==
  ASSUME NEW p \in Texts, p # <<>>
  PROVE  /\ ShellPathReduce(p) \in Texts /\ ShellPathReduce(p) # <<>>
         /\ ShellPathReduce(p)[1] = p[1]
         /\ ShellPathReduce(p) = ReferenceReduce(p) /\ Reduced(ShellPathReduce(p))
<1>. DEFINE q == ShellPathReduce(p)
            m == Len(q)
            n == Len(p)
<1>1. p \in Text /\ p \in Seq(Plain)
  BY TextsShape
<1>2. q = Round(p) /\ q = ReferenceReduce(p) /\ q \in Text /\ Reduced(q)
  BY <1>1, ReduceCorrect, RoundIs
<1>3. PICK at : Spells(q, p, Needed(p), at)
  BY <1>1, <1>2, RoundSpells
<1>. HIDE DEF q
<1>4. /\ at \in [1 .. m -> Needed(p)]
      /\ \A j \in 1 .. m, k \in 1 .. m : j < k => at[j] < at[k]
      /\ \A k \in 1 .. m : q[k] = p[at[k]]
      /\ \A i \in Needed(p) : \E k \in 1 .. m : at[k] = i
  BY <1>3 DEF Spells, Picks
<1>5. m \in Nat /\ n \in Nat /\ n > 0 /\ DOMAIN p = 1 .. n /\ q = [k \in 1 .. m |-> q[k]]
  BY <1>1, <1>2, TextLen
<1>6. Needed(p) \subseteq 1 .. n
  BY <1>5 DEF Needed
<1>7. 1 \in Needed(p)
  BY <1>5 DEF Needed, Redundant
<1>. HIDE DEF m, n
<1>8. PICK k \in 1 .. m : at[k] = 1
  BY <1>4, <1>7
<1>9. 1 \in 1 .. m /\ ~(1 < k)
  BY <1>4, <1>5, <1>6, <1>8
<1>10. k = 1
  BY <1>9
<1>11. \A j \in 1 .. m : q[j] \in Plain
  <2>1. \A i \in 1 .. n : p[i] \in Plain
    BY <1>1 DEF n
  <2>. QED
    BY <1>4, <1>6, <2>1
<1>12. q \in Seq(Plain)
  BY <1>5, <1>11, IsASeq
<1>13. q # <<>>
  BY <1>2, <1>5, <1>9, TextLen DEF m
<1>. QED
  BY <1>2, <1>4, <1>8, <1>10, <1>12, <1>13, TextsShape DEF q

\* Without a value for HOME a path is resolved only if it has no tilde, and then
\* by reducing it.
LEMMA AbsoluteIs ==
  ASSUME NEW value, NEW path \in Texts \cup {Nowhere}, path # <<>>
  PROVE  /\ ShellPathAbsolute(value, path) # Nowhere =>
              path # Nowhere /\ path[1] # Tilde /\ ShellPathAbsolute(value, path) = ShellPathReduce(path)
         /\ path # Nowhere /\ path[1] # Tilde => ShellPathAbsolute(value, path) = ShellPathReduce(path)
BY DEF ShellPathAbsolute, Getenv

\* Without a home every path that is resolved is the reduced one: with
\* typing this is inductive.
ShellInv == TypeOK /\ cwd = ReferenceReduce(asked)

LEMMA InitShell == Init => ShellInv
<1>. SUFFICES ASSUME Init PROVE ShellInv
  OBVIOUS
<1>1. BinDir \in Texts /\ Len(BinDir) = 2 /\ BinDir[1] = "/" /\ BinDir[2] = "bin" /\ BinDir # <<>>
  BY DEF BinDir, Texts, Lexemes, Pieces
<1>2. Reduced(BinDir)
  <2>1. DOMAIN BinDir = 1 .. 2
    BY <1>1, TextsShape, TextLen
  <2>. QED
    BY <1>1, <2>1 DEF Reduced, Needed, Redundant
<1>3. ReferenceReduce(BinDir) = BinDir
  BY <1>1, <1>2, ReducedStays, TextsShape
<1>. QED
  BY <1>1, <1>3 DEF Init, ShellInv, TypeOK

LEMMA NextShell == ShellInv /\ [Next]_vars => ShellInv'
<1>. SUFFICES ASSUME ShellInv, [Next]_vars PROVE ShellInv'
  OBVIOUS
<1>. USE DEF ShellInv
<1>1. CASE EndOfInput
  BY <1>1 DEF EndOfInput, TypeOK
<1>2. CASE Nothing
  BY <1>2 DEF Nothing, Back, TypeOK
<1>3. CASE Cd
  <2>1. state' = "read" /\ home' = home
    BY <1>3 DEF Cd, Back
  <2>2. CASE UNCHANGED <<cwd, asked, pwd>>
    BY <2>1, <2>2 DEF TypeOK
  <2>3. CASE ~UNCHANGED <<cwd, asked, pwd>>
    <3>1. pwd' \in {"cwd", "other"}
      BY <1>3, <2>3 DEF Cd
    <3>2. PICK arg \in ArgumentsOf(<<"cd">>) :
            /\ ShellPathAbsolute(home, arg) # Nowhere
            /\ cwd' = ShellPathAbsolute(home, arg) /\ asked' = arg
      BY <1>3, <2>3 DEF Cd
    <3>3. arg # Nowhere
      BY <3>2 DEF ShellPathAbsolute
    <3>4. arg \in Texts /\ arg # <<>>
      BY <3>3, ArgumentType
    <3>5. cwd' = ShellPathReduce(arg)
      BY <3>2, <3>4, AbsoluteIs
    <3>6. cwd' \in Texts /\ cwd' = ReferenceReduce(asked')
      BY <3>2, <3>4, <3>5, ReduceType
    <3>. QED
      BY <2>1, <3>1, <3>2, <3>4, <3>6 DEF TypeOK
  <2>. QED
    BY <2>2, <2>3
<1>4. CASE Export
  <2>1. state' = "read" /\ cwd' = cwd /\ asked' = asked
    BY <1>4 DEF Export, Back
  <2>2. home' \in Texts \cup {Nowhere} /\ pwd' \in {"cwd", "other"}
    <3>1. CASE UNCHANGED <<home, pwd>>
      BY <3>1 DEF TypeOK
    <3>2. CASE ~UNCHANGED <<home, pwd>>
      <4>1. PICK string \in ArgumentsOf(<<"export">>) \ {Nowhere} :
              /\ Len(string) > 1
              /\ \/ home' = SubSeq(string, 3, Len(string)) /\ UNCHANGED pwd
                 \/ pwd' \in {"cwd", "other"} /\ UNCHANGED home
        BY <1>4, <3>2 DEF Export
      <4>2. string \in Seq(Plain)
        BY ArgumentType, TextsShape
      <4>3. SubSeq(string, 3, Len(string)) \in Seq(Plain)
        BY <4>1, <4>2, SubSeqProperties
      <4>. QED
        BY <4>1, <4>3, TextsShape DEF TypeOK
    <3>. QED
      BY <3>1, <3>2
  <2>. QED
    BY <2>1, <2>2 DEF TypeOK
<1>5. CASE ExportCrash
  BY <1>5 DEF ExportCrash, TypeOK
<1>6. CASE UNCHANGED vars
  BY <1>6 DEF vars, TypeOK
<1>. QED
  BY <1>1, <1>2, <1>3, <1>4, <1>5, <1>6 DEF Next

LEMMA ShellInvariant == Spec => []ShellInv
BY InitShell, NextShell, PTL DEF Spec

\* Every variable stays in its set: the directory and HOME are made of
\* what a word of a command can be made of, whatever a read returns
\* (shellParseLine, shellPathReduce, shellExport).
THEOREM ShellTypeCorrect == Spec => []TypeOK
<1>1. ShellInv => TypeOK
  BY DEF ShellInv
<1>. QED
  BY <1>1, ShellInvariant, PTL

\* After cd with an absolute path of any length the directory is that path with
\* each run of slashes made one and none at the end: shellPathReduce, which
\* rewrites in place and repeats until the length stays, loses nothing and leaves
\* nothing (shell.c:143).
THEOREM CwdAlwaysAsAsked == Spec => []CwdAsAsked
<1>1. ShellInv => CwdAsAsked
  BY DEF ShellInv, CwdAsAsked
<1>. QED
  BY <1>1, ShellInvariant, PTL
=============================================================================

---------------------------- MODULE DshellProofs ----------------------------
(***************************************************************************)
(* Theorems about Dshell, for lines of any length.  What a loop over a     *)
(* text computes is proved by induction on the least position at which it  *)
(* would be wrong.                                                         *)
(***************************************************************************)
EXTENDS Dshell, FiniteSetTheorems, SequenceTheorems, WellFoundedInduction, TLAPS

-----------------------------------------------------------------------------
(* Induction and recursion over positions.                                 *)

\* A set of numbers that is not empty has a least one.
LEMMA Least == ASSUME NEW T \in SUBSET Nat, T # {} PROVE \E x \in T : \A y \in T : x <= y
<1>1. IsWellFoundedOn(OpToRel(<, Nat), Nat)
  BY NatLessThanWellFounded
<1>2. OpToRel(<, Nat) = {p \in Nat \X Nat : p[1] < p[2]}
  BY DEF OpToRel
<1>. DEFINE R == OpToRel(<, Nat)
<1>. HIDE DEF R
<1>3. PICK x \in T : \A y \in T : <<y, x>> \notin R
  BY <1>1, WFMin DEF R
<1>4. \A y \in T : ~(y < x)
  BY <1>2, <1>3 DEF R
<1>. QED
  BY <1>3, <1>4

\* A set that holds zero and with each number the next holds all up to n.
LEMMA UpTo ==
  ASSUME NEW n \in Nat, NEW T, 0 \in T, \A i \in 0 .. n - 1 : i \in T => i + 1 \in T
  PROVE  \A i \in 0 .. n : i \in T
<1>. SUFFICES ASSUME 0 .. n \cap (Nat \ T) # {} PROVE FALSE
  OBVIOUS
<1>1. PICK m \in 0 .. n \cap (Nat \ T) : \A y \in 0 .. n \cap (Nat \ T) : m <= y
  BY Least
<1>2. m # 0 /\ m - 1 \in 0 .. n - 1
  BY <1>1
<1>3. m - 1 \in T
  BY <1>1, <1>2
<1>. QED
  BY <1>1, <1>2, <1>3

\* What a loop over n positions computes from b, one step for each.
Loops(n, S, b, step) ==
  {f \in [0 .. n -> S] : f[0] = b /\ \A i \in 1 .. n : f[i] = step[i][f[i - 1]]}

\* Every loop computes something.
LEMMA Recursion ==
  ASSUME NEW n \in Nat, NEW S, NEW b \in S, NEW step \in [1 .. n -> [S -> S]]
  PROVE  Loops(n, S, b, step) # {}
<1>. DEFINE Good(m, f) == f[0] = b /\ \A i \in 1 .. m : f[i] = step[i][f[i - 1]]
            T == {m \in Nat : m <= n => \E f \in [0 .. m -> S] : Good(m, f)}
<1>1. 0 \in T
  <2>1. Good(0, [i \in 0 .. 0 |-> b])
    OBVIOUS
  <2>. QED
    BY <2>1
<1>2. ASSUME NEW m \in 0 .. n - 1, m \in T PROVE m + 1 \in T
  <2>1. PICK f \in [0 .. m -> S] : Good(m, f)
    BY <1>2
  <2>. DEFINE g == [i \in 0 .. m + 1 |-> IF i = m + 1 THEN step[i][f[m]] ELSE f[i]]
  <2>2. g \in [0 .. m + 1 -> S]
    OBVIOUS
  <2>3. Good(m + 1, g)
    BY <2>1
  <2>. HIDE DEF g, Good
  <2>. QED
    BY <2>2, <2>3
<1>. HIDE DEF T
<1>3. \A i \in 0 .. n - 1 : i \in T => i + 1 \in T
  BY <1>2
<1>4. \A i \in 0 .. n : i \in T
  BY <1>1, <1>3, UpTo
<1>. QED
  BY <1>4 DEF T, Loops

-----------------------------------------------------------------------------
(* The loops, step by step.                                                *)

Letters == Chars \cup {NewLine, "?"}

Tokens == Text \ {<<>>}

Scans == [inString : BOOLEAN, ss : Text, tokens : Seq(Tokens)]

Collections == [jobs : Seq(Text), ss : Text]

LEMMA TextShape == /\ Text = Seq(Letters) /\ <<>> \in Text /\ <<" ">> \in Text /\ Garbage \in Tokens
                   /\ Splitter \in Tokens
<1>1. Text = Seq(Letters)
  BY DEF Text, Letters
<1>2. "?" \in Letters /\ " " \in Letters /\ "&" \in Letters
  BY DEF Letters, Chars
<1>3. <<"?">> \in Seq(Letters) /\ <<" ">> \in Seq(Letters) /\ <<"&">> \in Seq(Letters) /\ <<>> \in Seq(Letters)
  <2>1. \A c \in Letters : <<c>> \in Seq(Letters)
    OBVIOUS
  <2>. QED
    BY <1>2, <2>1, EmptySeq
<1>4. <<"?">> # <<>> /\ <<"&">> # <<>>
  OBVIOUS
<1>. QED
  BY <1>1, <1>3, <1>4 DEF Tokens, Garbage, Splitter

\* addToQueue adds only tokens that are not empty.
LEMMA AddToQueueType == ASSUME NEW t \in Scans PROVE AddToQueue(t) \in Scans
<1>1. CASE t.ss = <<>>
  BY <1>1 DEF AddToQueue
<1>2. CASE t.ss # <<>>
  <2>1. t.ss \in Tokens /\ Append(t.tokens, t.ss) \in Seq(Tokens)
    BY <1>2 DEF Scans, Tokens
  <2>2. AddToQueue(t) = [inString |-> t.inString, ss |-> <<>>, tokens |-> Append(t.tokens, t.ss)]
    BY <1>2 DEF AddToQueue, Scans
  <2>3. <<>> \in Text /\ t.inString \in BOOLEAN
    BY TextShape DEF Scans
  <2>. QED
    BY <2>1, <2>2, <2>3 DEF Scans
<1>. QED
  BY <1>1, <1>2

LEMMA KeepIs ==
  ASSUME NEW t \in Scans, NEW c \in Letters
  PROVE  Keep(t, c) = [inString |-> t.inString, ss |-> Append(t.ss, c), tokens |-> t.tokens]
<1>. t.ss \in Seq(Letters)
  BY TextShape DEF Scans
<1>. QED
  BY DEF Keep, Scans

LEMMA KeepType == ASSUME NEW t \in Scans, NEW c \in Letters PROVE Keep(t, c) \in Scans
<1>1. Keep(t, c) = [inString |-> t.inString, ss |-> Append(t.ss, c), tokens |-> t.tokens]
  BY KeepIs
<1>2. Append(t.ss, c) \in Text
  <2>. t.ss \in Seq(Letters)
    BY TextShape DEF Scans
  <2>. QED
    BY TextShape, AppendProperties
<1>. QED
  BY <1>1, <1>2 DEF Scans

LEMMA ConsumeType == ASSUME NEW t \in Scans, NEW c \in Letters PROVE Consume(t, c) \in Scans
<1>1. [t EXCEPT !.inString = FALSE] \in Scans /\ [t EXCEPT !.inString = TRUE] \in Scans
  BY DEF Scans
<1>2. AddToQueue(Keep(AddToQueue(t), c)) \in Scans
  BY AddToQueueType, KeepType
<1>. QED
  BY <1>1, <1>2, AddToQueueType, KeepType DEF Consume

LEMMA ScanSteps ==
  ASSUME NEW text \in Text
  PROVE  /\ Scan(text) \in [0 .. Len(text) -> Scans]
         /\ Scan(text)[0] = [inString |-> FALSE, ss |-> <<>>, tokens |-> <<>>]
         /\ \A i \in 1 .. Len(text) : Scan(text)[i] = Consume(Scan(text)[i - 1], text[i])
<1>. DEFINE n == Len(text)
            b == [inString |-> FALSE, ss |-> <<>>, tokens |-> <<>>]
            step == [i \in 1 .. n |-> [t \in Scans |-> Consume(t, text[i])]]
            Body(f) == [i \in 0 .. n |-> IF i = 0 THEN b ELSE Consume(f[i - 1], text[i])]
<1>. text \in Seq(Letters)
  BY TextShape
<1>1. n \in Nat /\ \A i \in 1 .. n : text[i] \in Letters
  OBVIOUS
<1>2. b \in Scans
  <2>1. <<>> \in Text /\ <<>> \in Seq(Tokens)
    BY TextShape, EmptySeq
  <2>. QED
    BY <2>1 DEF Scans
<1>3. step \in [1 .. n -> [Scans -> Scans]]
  BY <1>1, ConsumeType
<1>. HIDE DEF n, b, step
<1>4. PICK f \in [0 .. n -> Scans] : f[0] = b /\ \A i \in 1 .. n : f[i] = step[i][f[i - 1]]
  <2>1. Loops(n, Scans, b, step) # {}
    BY <1>1, <1>2, <1>3, Recursion
  <2>. QED
    BY <2>1 DEF Loops
<1>5. f = Body(f)
  <2>1. ASSUME NEW i \in 0 .. n, i # 0 PROVE f[i] = Consume(f[i - 1], text[i])
    <3>1. i \in 1 .. n /\ i - 1 \in 0 .. n
      BY <1>1, <2>1
    <3>2. f[i] = step[i][f[i - 1]] /\ f[i - 1] \in Scans
      BY <1>4, <3>1
    <3>. QED
      BY <3>1, <3>2 DEF step
  <2>. QED
    BY <1>4, <2>1
<1>6. Scan(text) = CHOOSE g : g = Body(g)
  BY DEF Scan, n, b
<1>7. Scan(text) = Body(Scan(text))
  <2>. HIDE DEF Body
  <2>. QED
    BY <1>5, <1>6
<1>. DEFINE g == Scan(text)
<1>8. g[0] = b /\ \A i \in 1 .. n : g[i] = Consume(g[i - 1], text[i])
  BY <1>1, <1>7
<1>. DEFINE U == {i \in Nat : i <= n => g[i] \in Scans}
<1>9. \A i \in 0 .. n : i \in U
  <2>1. 0 \in U
    BY <1>2, <1>8
  <2>2. \A i \in 0 .. n - 1 : i \in U => i + 1 \in U
    <3>1. ASSUME NEW i \in 0 .. n - 1, g[i] \in Scans PROVE g[i + 1] \in Scans
      <4>1. i + 1 \in 1 .. n /\ (i + 1) - 1 = i
        BY <1>1
      <4>2. g[i + 1] = Consume(g[i], text[i + 1])
        BY <1>8, <4>1
      <4>. QED
        BY <1>1, <3>1, <4>1, <4>2, ConsumeType
    <3>. HIDE DEF g
    <3>. QED
      BY <1>1, <3>1
  <2>. HIDE DEF U
  <2>. QED
    BY <1>1, <2>1, <2>2, UpTo
<1>10. g \in [0 .. n -> Scans]
  <2>1. g = [i \in 0 .. n |-> g[i]]
    BY <1>7
  <2>. HIDE DEF g
  <2>. QED
    BY <1>9, <2>1
<1>. QED
  BY <1>8, <1>10 DEF n, b

LEMMA TokenizeType == ASSUME NEW text \in Text PROVE Tokenize(text) \in Seq(Tokens)
<1>. text \in Seq(Letters)
  BY TextShape
<1>1. Len(text) \in 0 .. Len(text)
  OBVIOUS
<1>2. AddToQueue(Scan(text)[Len(text)]) \in Scans
  BY <1>1, ScanSteps, AddToQueueType
<1>. QED
  BY <1>2 DEF Scans, Tokenize

LEMMA CollectType == ASSUME NEW s \in Collections, NEW tok \in Text PROVE Collect(s, tok) \in Collections
<1>. s.jobs \in Seq(Text) /\ s.ss \in Text
  BY DEF Collections
<1>1. CASE tok = Splitter
  <2>1. Append(s.jobs, s.ss) \in Seq(Text) /\ <<>> \in Text
    BY TextShape, AppendProperties
  <2>. QED
    BY <1>1, <2>1 DEF Collect, Collections
<1>2. CASE tok # Splitter
  <2>1. s.ss \o tok \in Text
    BY TextShape, ConcatProperties
  <2>2. s.ss \o tok \o <<" ">> \in Text
    BY <2>1, TextShape, ConcatProperties
  <2>3. Collect(s, tok) = [jobs |-> s.jobs, ss |-> s.ss \o tok \o <<" ">>]
    BY <1>2 DEF Collect, Collections
  <2>. HIDE DEF Collections
  <2>. DEFINE ss == s.ss \o tok \o <<" ">>
  <2>. HIDE DEF ss
  <2>4. ss \in Text /\ Collect(s, tok) = [jobs |-> s.jobs, ss |-> ss]
    BY <2>2, <2>3 DEF ss
  <2>. QED
    BY <2>4 DEF Collections
<1>. QED
  BY <1>1, <1>2

LEMMA SplitSteps ==
  ASSUME NEW toks \in Seq(Tokens)
  PROVE  /\ Splits(toks) \in [0 .. Len(toks) -> Collections]
         /\ Splits(toks)[0] = [jobs |-> <<>>, ss |-> <<>>]
         /\ \A i \in 1 .. Len(toks) : Splits(toks)[i] = Collect(Splits(toks)[i - 1], toks[i])
<1>. DEFINE n == Len(toks)
            b == [jobs |-> <<>>, ss |-> <<>>]
            step == [i \in 1 .. n |-> [s \in Collections |-> Collect(s, toks[i])]]
            Body(f) == [i \in 0 .. n |-> IF i = 0 THEN b ELSE Collect(f[i - 1], toks[i])]
<1>1. n \in Nat /\ \A i \in 1 .. n : toks[i] \in Tokens
  OBVIOUS
<1>2. b \in Collections
  <2>1. <<>> \in Text /\ <<>> \in Seq(Text)
    BY TextShape, EmptySeq
  <2>. QED
    BY <2>1 DEF Collections
<1>3. step \in [1 .. n -> [Collections -> Collections]]
  <2>1. \A i \in 1 .. n : toks[i] \in Text
    BY <1>1 DEF Tokens
  <2>. QED
    BY <2>1, CollectType
<1>. HIDE DEF n, b, step
<1>4. PICK f \in [0 .. n -> Collections] : f[0] = b /\ \A i \in 1 .. n : f[i] = step[i][f[i - 1]]
  <2>1. Loops(n, Collections, b, step) # {}
    BY <1>1, <1>2, <1>3, Recursion
  <2>. QED
    BY <2>1 DEF Loops
<1>5. f = Body(f)
  <2>1. ASSUME NEW i \in 0 .. n, i # 0 PROVE f[i] = Collect(f[i - 1], toks[i])
    <3>1. i \in 1 .. n /\ i - 1 \in 0 .. n
      BY <1>1, <2>1
    <3>2. f[i] = step[i][f[i - 1]] /\ f[i - 1] \in Collections
      BY <1>4, <3>1
    <3>. QED
      BY <3>1, <3>2 DEF step
  <2>. QED
    BY <1>4, <2>1
<1>6. Splits(toks) = CHOOSE g : g = Body(g)
  BY DEF Splits, n, b
<1>7. Splits(toks) = Body(Splits(toks))
  <2>. HIDE DEF Body
  <2>. QED
    BY <1>5, <1>6
<1>. DEFINE g == Splits(toks)
<1>8. g[0] = b /\ \A i \in 1 .. n : g[i] = Collect(g[i - 1], toks[i])
  BY <1>1, <1>7
<1>. DEFINE U == {i \in Nat : i <= n => g[i] \in Collections}
<1>9. \A i \in 0 .. n : i \in U
  <2>1. 0 \in U
    BY <1>2, <1>8
  <2>2. \A i \in 0 .. n - 1 : i \in U => i + 1 \in U
    <3>1. ASSUME NEW i \in 0 .. n - 1, g[i] \in Collections PROVE g[i + 1] \in Collections
      <4>1. i + 1 \in 1 .. n /\ (i + 1) - 1 = i
        BY <1>1
      <4>2. g[i + 1] = Collect(g[i], toks[i + 1]) /\ toks[i + 1] \in Text
        BY <1>1, <1>8, <4>1 DEF Tokens
      <4>. QED
        BY <3>1, <4>2, CollectType
    <3>. HIDE DEF g
    <3>. QED
      BY <1>1, <3>1
  <2>. HIDE DEF U
  <2>. QED
    BY <1>1, <2>1, <2>2, UpTo
<1>10. g \in [0 .. n -> Collections]
  <2>1. g = [i \in 0 .. n |-> g[i]]
    BY <1>7
  <2>. HIDE DEF g
  <2>. QED
    BY <1>9, <2>1
<1>. QED
  BY <1>8, <1>10 DEF n, b

LEMMA SplitType == ASSUME NEW toks \in Seq(Tokens) PROVE Split(toks) \in Collections /\ JobTexts(toks) \in Seq(Text)
<1>1. Split(toks) \in Collections
  <2>1. Len(toks) \in 0 .. Len(toks)
    OBVIOUS
  <2>. QED
    BY <2>1, SplitSteps DEF Split
<1>2. Split(toks).jobs \in Seq(Text) /\ Split(toks).ss \in Text
  BY <1>1 DEF Collections
<1>3. (IF Split(toks).ss = <<>> THEN <<>> ELSE <<Split(toks).ss>>) \in Seq(Text)
  BY <1>2, EmptySeq
<1>. QED
  BY <1>1, <1>2, <1>3, ConcatProperties DEF JobTexts

LEMMA JobsType ==
  ASSUME NEW toks \in Seq(Tokens), NEW texts \in Jobs(toks)
  PROVE  /\ texts \in Seq(Text) /\ Len(texts) = Len(JobTexts(toks))
         /\ \A k \in 1 .. Len(texts) : texts[k] \in {Garbage, JobTexts(toks)[k]}
<1>. DEFINE all == JobTexts(toks)
<1>1. all \in Seq(Text)
  BY SplitType
<1>2. PICK lost \in SUBSET DOMAIN all :
        texts = [k \in DOMAIN all |-> IF k \in lost THEN Garbage ELSE all[k]]
  BY DEF Jobs
<1>. HIDE DEF all
<1>3. DOMAIN all = 1 .. Len(all) /\ Len(all) \in Nat
  BY <1>1
<1>4. \A k \in 1 .. Len(all) : all[k] \in Text /\ Garbage \in Text
  <2>1. Garbage \in Text
    BY TextShape DEF Tokens
  <2>. QED
    BY <1>1, <2>1
<1>5. texts = [k \in 1 .. Len(all) |-> IF k \in lost THEN Garbage ELSE all[k]]
  BY <1>2, <1>3
<1>6. texts \in Seq(Text) /\ Len(texts) = Len(all)
  BY <1>3, <1>4, <1>5
<1>. QED
  BY <1>5, <1>6 DEF all

\* The first word of the text goes from i to j, which are positions of it.
WordAt(text, i, j) == i \in 1 .. Len(text) /\ j \in 1 .. Len(text) /\ IsFirstWord(text, i, j)

LEMMA NameWordAt ==
  ASSUME NEW text, NEW name
  PROVE  name \in JobName(text) <=>
           \E i, j \in 1 .. Len(text) : WordAt(text, i, j) /\ name = SubSeq(text, i, j)
<1>. DEFINE D == 1 .. Len(text)
            W == {p \in D \X D : IsFirstWord(text, p[1], p[2])}
<1>. JobName(text) = {SubSeq(text, at[1], at[2]) : at \in W}
  BY DEF JobName
<1>. HIDE DEF D
<1>1. ASSUME name \in JobName(text) PROVE \E i, j \in D : WordAt(text, i, j) /\ name = SubSeq(text, i, j)
  <2>1. PICK p \in D \X D : IsFirstWord(text, p[1], p[2]) /\ name = SubSeq(text, p[1], p[2])
    BY <1>1
  <2>2. p[1] \in D /\ p[2] \in D
    OBVIOUS
  <2>. QED
    BY <2>1, <2>2 DEF WordAt, D
<1>2. ASSUME NEW i \in D, NEW j \in D, WordAt(text, i, j), name = SubSeq(text, i, j) PROVE name \in JobName(text)
  <2>1. <<i, j>> \in W
    BY <1>2 DEF WordAt
  <2>. QED
    <3>1. SubSeq(text, <<i, j>>[1], <<i, j>>[2]) \in JobName(text)
      <4>. HIDE DEF W
      <4>. QED
        BY <2>1
    <3>. QED
      BY <1>2, <3>1
<1>. QED
  BY <1>1, <1>2 DEF D

LEMMA JobNameType == ASSUME NEW text \in Text, NEW name \in JobName(text) PROVE name \in Tokens
<1>. text \in Seq(Letters)
  BY TextShape
<1>1. PICK i \in 1 .. Len(text), j \in 1 .. Len(text) : i <= j /\ name = SubSeq(text, i, j)
  BY NameWordAt DEF WordAt, IsFirstWord
<1>2. name \in Seq(Letters) /\ Len(name) = j - i + 1
  BY <1>1, SubSeqProperties
<1>. QED
  <2>1. name # <<>>
    BY <1>1, <1>2, EmptySeq
  <2>2. name \in Text
    BY <1>2, TextShape
  <2>. QED
    BY <2>1, <2>2 DEF Tokens

-----------------------------------------------------------------------------
(* Types.                                                                  *)

LEMMA LinesType == Lines \subseteq Text
<1>. SUFFICES ASSUME NEW text \in Lines PROVE text \in Text
  OBVIOUS
<1>1. PICK body \in SeqOf(Chars, MaxLine), end \in {<<NewLine>>, <<>>} : text = body \o end
  BY DEF Lines
<1>2. body \in Seq(Letters)
  BY <1>1 DEF SeqOf, Letters
<1>3. end \in Seq(Letters)
  <2>1. \A c \in Letters : <<c>> \in Seq(Letters)
    OBVIOUS
  <2>. QED
    BY <2>1, EmptySeq DEF Letters
<1>. QED
  BY <1>1, <1>2, <1>3, TextShape, ConcatProperties

LEMMA InitType == Init => TypeOK
  BY TextShape, EmptySeq DEF Init, TypeOK

LEMMA NextType == TypeOK /\ [Next]_vars => TypeOK'
<1>. SUFFICES ASSUME TypeOK, [Next]_vars PROVE TypeOK'
  OBVIOUS
<1>. USE DEF Tokens
<1>1. CASE ReadLine
  <2>1. line' \in Text
    BY <1>1, LinesType DEF ReadLine
  <2>2. tokens' \in Seq(Tokens)
    BY <1>1, <2>1, TokenizeType DEF ReadLine
  <2>3. jobs' \in Seq(Text)
    BY <1>1, <2>2, JobsType DEF ReadLine
  <2>. QED
    BY <1>1, <2>1, <2>2, <2>3 DEF ReadLine, TypeOK
<1>2. CASE EndOfInput
  BY <1>2 DEF EndOfInput, TypeOK
<1>3. CASE StartJob
  <2>0. failed' \in BOOLEAN
    BY <1>3 DEF StartJob, TypeOK
  <2>1. jobs \in Seq(Text) /\ jobs # <<>> /\ Head(jobs) \in Text /\ Tail(jobs) \in Seq(Text)
    BY <1>3 DEF StartJob, TypeOK
  <2>2. PICK name \in JobName(Head(jobs)) : started' = Append(started, name)
    BY <1>3 DEF StartJob
  <2>3. name \in Tokens
    BY <2>1, JobNameType
  <2>4. started' \in Seq(Tokens)
    BY <2>2, <2>3, AppendProperties DEF TypeOK
  <2>. QED
    BY <1>3, <2>0, <2>1, <2>4 DEF StartJob, TypeOK
<1>4. CASE NullName \/ StartJobFails
  BY <1>4 DEF NullName, StartJobFails, TypeOK
<1>5. CASE LineDone
  BY <1>5, TextShape, EmptySeq DEF LineDone, TypeOK
<1>6. CASE UNCHANGED vars
  BY <1>6 DEF vars, TypeOK
<1>. QED
  BY <1>1, <1>2, <1>3, <1>4, <1>5, <1>6 DEF Next

\* The state keeps its shape, and no token and no name of a job is ever empty:
\* addToQueue adds nothing for an empty stream (token.cpp:104).
THEOREM DshellTypeCorrect == Spec => []TypeOK
  BY InitType, NextType, PTL DEF Spec

-----------------------------------------------------------------------------
(* Numbers in order.                                                       *)

\* What InOrder's recursion computes up to each number.
Orders(n, S) ==
  {f \in [0 .. n -> Seq(S \cap 1 .. n)] :
     f[0] = <<>> /\ \A i \in 1 .. n : f[i] = Extended(f[i - 1], i, S)}

LEMMA InOrderSteps ==
  ASSUME NEW n \in Nat, NEW S
  PROVE  \E f \in Orders(n, S) : InOrder(n, S) = f[n]
<1>. DEFINE R == Seq(S \cap 1 .. n)
            step == [i \in 1 .. n |-> [s \in R |-> Extended(s, i, S)]]
            Body(f) == [i \in 0 .. n |-> IF i = 0 THEN <<>> ELSE Extended(f[i - 1], i, S)]
<1>1. <<>> \in R
  BY EmptySeq
<1>2. ASSUME NEW i \in 1 .. n, NEW s \in R PROVE Extended(s, i, S) \in R
  BY AppendProperties DEF Extended
<1>. HIDE DEF R
<1>3. step \in [1 .. n -> [R -> R]]
  BY <1>2
<1>4. PICK f \in [0 .. n -> R] : f[0] = <<>> /\ \A i \in 1 .. n : f[i] = step[i][f[i - 1]]
  <2>. HIDE DEF step
  <2>1. Loops(n, R, <<>>, step) # {}
    BY <1>1, <1>3, Recursion
  <2>. QED
    BY <2>1 DEF Loops
<1>5. ASSUME NEW i \in 1 .. n PROVE f[i] = Extended(f[i - 1], i, S)
  <2>1. i - 1 \in 0 .. n
    OBVIOUS
  <2>2. f[i] = step[i][f[i - 1]] /\ f[i - 1] \in R
    BY <1>4, <2>1
  <2>. QED
    BY <2>2
<1>6. f = Body(f)
  BY <1>4, <1>5
<1>7. InOrder(n, S) = (CHOOSE h : h = Body(h))[n]
  BY DEF InOrder
<1>. DEFINE g == CHOOSE h : h = Body(h)
<1>8. g = Body(g)
  <2>. HIDE DEF Body
  <2>. QED
    BY <1>6
<1>. HIDE DEF g
<1>9. g[0] = <<>>
  BY <1>8
<1>10. ASSUME NEW i \in 1 .. n PROVE g[i] = Extended(g[i - 1], i, S)
  BY <1>8
<1>. DEFINE U == {i \in Nat : i <= n => g[i] = f[i]}
<1>11. \A i \in 0 .. n : i \in U
  <2>1. 0 \in U
    BY <1>4, <1>9
  <2>2. ASSUME NEW i \in 0 .. n - 1, i \in U PROVE i + 1 \in U
    <3>1. i + 1 \in 1 .. n /\ (i + 1) - 1 = i /\ i <= n
      OBVIOUS
    <3>2. g[i + 1] = Extended(g[i], i + 1, S) /\ f[i + 1] = Extended(f[i], i + 1, S)
      BY <1>5, <1>10, <3>1
    <3>3. g[i] = f[i]
      BY <2>2, <3>1
    <3>. QED
      BY <3>2, <3>3
  <2>3. \A i \in 0 .. n - 1 : i \in U => i + 1 \in U
    BY <2>2
  <2>. HIDE DEF U
  <2>. QED
    BY <2>1, <2>3, UpTo
<1>12. g[n] = f[n]
  BY <1>11
<1>13. f \in Orders(n, S)
  BY <1>4, <1>5 DEF Orders, R
<1>. QED
  BY <1>7, <1>12, <1>13 DEF g

LEMMA InOrderType ==
  ASSUME NEW n \in Nat, NEW S
  PROVE  InOrder(n, S) \in Seq(S \cap 1 .. n)
<1>1. PICK f \in Orders(n, S) : InOrder(n, S) = f[n]
  BY InOrderSteps
<1>2. n \in 0 .. n
  OBVIOUS
<1>. QED
  BY <1>1, <1>2 DEF Orders

LEMMA InOrderNone == ASSUME NEW n \in Nat PROVE InOrder(n, {}) = <<>>
<1>1. InOrder(n, {}) \in Seq({} \cap 1 .. n)
  BY InOrderType
<1>2. InOrder(n, {}) \in Seq({})
  BY <1>1
<1>. QED
  BY <1>2, EmptySeq

\* A number above all the others comes last.
LEMMA InOrderAdd ==
  ASSUME NEW n \in Nat, NEW x \in 1 .. n, NEW S \in SUBSET (1 .. x - 1)
  PROVE  InOrder(n, S \cup {x}) = Append(InOrder(n, S), x)
<1>1. PICK f \in Orders(n, S) : InOrder(n, S) = f[n]
  BY InOrderSteps
<1>2. PICK g \in Orders(n, S \cup {x}) : InOrder(n, S \cup {x}) = g[n]
  BY InOrderSteps
<1>. x \notin S /\ x \in Nat /\ n >= x /\ f[0] = <<>> /\ g[0] = <<>>
  BY DEF Orders
<1>. DEFINE U == {i \in Nat : g[i] = IF i < x THEN f[i] ELSE Append(f[i], x)}
<1>3. 0 \in U
  OBVIOUS
<1>4. ASSUME NEW i \in 0 .. n - 1, i \in U PROVE i + 1 \in U
  <2>1. i + 1 \in 1 .. n /\ (i + 1) - 1 = i
    OBVIOUS
  <2>2. /\ f[i + 1] = IF i + 1 \in S THEN Append(f[i], i + 1) ELSE f[i]
        /\ g[i + 1] = IF i + 1 \in S \cup {x} THEN Append(g[i], i + 1) ELSE g[i]
    BY <2>1 DEF Orders, Extended
  <2>3. CASE i + 1 < x
    BY <1>4, <2>2, <2>3
  <2>4. CASE i + 1 = x
    <3>1. i < x /\ ~(i + 1 < x) /\ i + 1 \notin S
      BY <2>4
    <3>2. g[i] = f[i]
      BY <1>4, <3>1
    <3>3. g[i + 1] = Append(g[i], x) /\ f[i + 1] = f[i]
      BY <2>2, <2>4, <3>1
    <3>4. g[i + 1] = Append(f[i + 1], x)
      BY <3>2, <3>3
    <3>. QED
      BY <3>1, <3>4
  <2>5. CASE i + 1 > x
    BY <1>4, <2>2, <2>5
  <2>. QED
    BY <2>3, <2>4, <2>5
<1>5. n \in U
  <2>1. \A i \in 0 .. n - 1 : i \in U => i + 1 \in U
    BY <1>4
  <2>. HIDE DEF U
  <2>2. \A i \in 0 .. n : i \in U
    BY <1>3, <2>1, UpTo
  <2>. QED
    BY <2>2
<1>. QED
  <2>1. g[n] = Append(f[n], x)
    <3>1. ~(n < x)
      OBVIOUS
    <3>2. g[n] = IF n < x THEN f[n] ELSE Append(f[n], x)
      BY <1>5 DEF U
    <3>. QED
      BY <3>1, <3>2
  <2>. QED
    BY <1>1, <1>2, <2>1

-----------------------------------------------------------------------------
(* Names of jobs.                                                          *)

\* There is no word in the text.
Blank(text) == \A k \in 1 .. Len(text) : text[k] \in Blanks

\* Positions and characters of a text.
LEMMA TextLen ==
  ASSUME NEW text \in Text
  PROVE  text \in Seq(Letters) /\ Len(text) \in Nat /\ DOMAIN text = 1 .. Len(text)
<1>1. text \in Seq(Letters)
  BY TextShape
<1>. QED
  BY <1>1, LenProperties

LEMMA NameUnique ==
  ASSUME NEW text \in Text, NEW i, NEW j, WordAt(text, i, j)
  PROVE  JobName(text) = {SubSeq(text, i, j)}
<1>. text \in Seq(Letters) /\ Len(text) \in Nat
  BY TextLen
<1>1. ASSUME NEW a, NEW b, WordAt(text, a, b) PROVE a = i /\ b = j
  <2>1. /\ a \in Nat /\ b \in Nat /\ i \in Nat /\ j \in Nat /\ 1 <= a /\ 1 <= i /\ a <= b /\ i <= j
        /\ b <= Len(text) /\ j <= Len(text)
    BY <1>1 DEF WordAt, IsFirstWord
  <2>2. ~(a < i)
    <3>. SUFFICES ASSUME a < i PROVE FALSE
      OBVIOUS
    <3>1. a \in 1 .. i - 1 /\ a \in a .. b
      BY <2>1
    <3>. QED
      BY <1>1, <3>1 DEF WordAt, IsFirstWord
  <2>3. ~(i < a)
    <3>. SUFFICES ASSUME i < a PROVE FALSE
      OBVIOUS
    <3>1. i \in 1 .. a - 1 /\ i \in i .. j
      BY <2>1
    <3>. QED
      BY <1>1, <3>1 DEF WordAt, IsFirstWord
  <2>4. a = i
    BY <2>1, <2>2, <2>3
  <2>5. ~(b < j)
    <3>. SUFFICES ASSUME b < j PROVE FALSE
      OBVIOUS
    <3>1. b < Len(text) /\ b + 1 \in i .. j
      BY <2>1, <2>4
    <3>. QED
      BY <1>1, <3>1 DEF WordAt, IsFirstWord
  <2>6. ~(j < b)
    <3>. SUFFICES ASSUME j < b PROVE FALSE
      OBVIOUS
    <3>1. j < Len(text) /\ j + 1 \in a .. b
      BY <2>1, <2>4
    <3>. QED
      BY <1>1, <3>1 DEF WordAt, IsFirstWord
  <2>. QED
    BY <2>1, <2>4, <2>5, <2>6
<1>2. i \in 1 .. Len(text) /\ j \in 1 .. Len(text)
  BY DEF WordAt, IsFirstWord
<1>3. SubSeq(text, i, j) \in JobName(text)
  BY <1>2, NameWordAt
<1>4. ASSUME NEW name \in JobName(text) PROVE name = SubSeq(text, i, j)
  BY <1>1, NameWordAt
<1>. QED
  BY <1>3, <1>4

\* There is a first word unless the text is blank.
LEMMA WordExists ==
  ASSUME NEW text \in Text, ~Blank(text)
  PROVE  \E i, j \in 1 .. Len(text) : WordAt(text, i, j)
<1>. text \in Seq(Letters) /\ Len(text) \in Nat
  BY TextLen
<1>. DEFINE B == {k \in 1 .. Len(text) : text[k] \notin Blanks}
<1>1. PICK i \in B : \A k \in B : i <= k
  <2>1. B # {} /\ B \in SUBSET Nat
    BY DEF Blank
  <2>. QED
    BY <2>1, Least
<1>. DEFINE E == {k \in i .. Len(text) : k < Len(text) => text[k + 1] \in Blanks}
<1>2. PICK j \in E : \A k \in E : j <= k
  <2>1. Len(text) \in E /\ E \in SUBSET Nat
    BY <1>1
  <2>. QED
    BY <2>1, Least
<1>3. i \in 1 .. Len(text) /\ j \in 1 .. Len(text) /\ i <= j /\ text[i] \notin Blanks
  BY <1>1
<1>4. ASSUME NEW k \in i .. j PROVE text[k] \notin Blanks
  <2>1. CASE k = i
    BY <1>3, <2>1
  <2>2. CASE k # i
    <3>1. k - 1 \in i .. Len(text) /\ k - 1 < j /\ (k - 1) + 1 = k
      BY <1>3, <2>2
    <3>2. k - 1 \notin E
      <4>. HIDE DEF E
      <4>. QED
        BY <1>2, <1>3, <3>1
    <3>. QED
      BY <1>3, <3>1, <3>2
  <2>. QED
    BY <2>1, <2>2
<1>5. ASSUME NEW k \in 1 .. i - 1 PROVE text[k] \in Blanks
  <2>1. k \in 1 .. Len(text) /\ ~(i <= k)
    BY <1>3
  <2>. QED
    BY <1>1, <2>1
<1>6. j < Len(text) => text[j + 1] \in Blanks
  BY <1>2
<1>. HIDE DEF B, E
<1>. QED
  BY <1>3, <1>4, <1>5, <1>6 DEF WordAt, IsFirstWord

LEMMA NameOfBlank == ASSUME NEW text \in Text PROVE JobName(text) = {} <=> Blank(text)
<1>1. ASSUME ~Blank(text) PROVE JobName(text) # {}
  BY <1>1, WordExists, NameUnique
<1>2. ASSUME Blank(text) PROVE JobName(text) = {}
  <2>. SUFFICES ASSUME NEW name \in JobName(text) PROVE FALSE
    OBVIOUS
  <2>1. PICK i, j \in 1 .. Len(text) : WordAt(text, i, j)
    BY NameWordAt
  <2>2. i \in i .. j
    BY <2>1 DEF WordAt, IsFirstWord
  <2>. QED
    BY <1>2, <2>1, <2>2 DEF WordAt, IsFirstWord, Blank
<1>. QED
  BY <1>1, <1>2

\* A job has one name if any.
LEMMA OneName ==
  ASSUME NEW text \in Text, NEW name \in JobName(text)
  PROVE  JobName(text) = {name}
<1>1. PICK i, j \in 1 .. Len(text) : WordAt(text, i, j) /\ name = SubSeq(text, i, j)
  BY NameWordAt
<1>. QED
  BY <1>1, NameUnique

\* What handleCommand appends to the text of a job.
LEMMA Glued ==
  ASSUME NEW u \in Text, NEW v \in Text
  PROVE  LET w == u \o v \o <<" ">> IN
         /\ w \in Text /\ Len(w) = Len(u) + Len(v) + 1 /\ Len(u) \in Nat /\ Len(v) \in Nat
         /\ \A k \in 1 .. Len(u) : w[k] = u[k]
         /\ \A k \in 1 .. Len(v) : w[Len(u) + k] = v[k]
         /\ w[Len(u) + Len(v) + 1] = " "
<1>. DEFINE m == Len(u)
            n == Len(v)
            x == u \o v
            sp == <<" ">>
            w == x \o sp
<1>1. u \in Seq(Letters) /\ v \in Seq(Letters) /\ sp \in Seq(Letters) /\ Len(sp) = 1 /\ sp[1] = " "
  BY TextShape
<1>2. m \in Nat /\ n \in Nat
  BY TextLen
<1>3. x \in Seq(Letters) /\ Len(x) = m + n
  BY <1>1, ConcatProperties
<1>4. \A k \in 1 .. m + n : x[k] = IF k <= m THEN u[k] ELSE v[k - m]
  BY <1>1, ConcatProperties
<1>. HIDE DEF x, sp
<1>. HIDE DEF m, n
<1>5. /\ w \in Seq(Letters) /\ Len(w) = Len(x) + Len(sp)
      /\ \A k \in 1 .. Len(x) + Len(sp) : w[k] = IF k <= Len(x) THEN x[k] ELSE sp[k - Len(x)]
  BY <1>1, <1>3, ConcatProperties
<1>. HIDE DEF w
<1>6. /\ Len(w) = m + n + 1
      /\ \A k \in 1 .. m + n + 1 : w[k] = IF k <= m + n THEN x[k] ELSE sp[k - (m + n)]
  BY <1>1, <1>2, <1>3, <1>5
<1>7. ASSUME NEW k \in 1 .. m PROVE w[k] = u[k]
  <2>1. k \in 1 .. m + n + 1 /\ k \in 1 .. m + n /\ k <= m + n /\ k <= m
    BY <1>2
  <2>2. w[k] = x[k]
    BY <1>6, <2>1
  <2>. QED
    BY <1>4, <2>1, <2>2
<1>8. ASSUME NEW k \in 1 .. n PROVE w[m + k] = v[k]
  <2>1. m + k \in 1 .. m + n /\ m + k \in 1 .. m + n + 1 /\ ~(m + k <= m) /\ (m + k) - m = k
    BY <1>2
  <2>. QED
    BY <1>4, <1>6, <2>1
<1>9. w[m + n + 1] = " "
  <2>1. m + n + 1 \in 1 .. m + n + 1 /\ ~(m + n + 1 <= m + n) /\ (m + n + 1) - (m + n) = 1
    BY <1>2
  <2>. QED
    BY <1>1, <1>6, <2>1
<1>10. w \in Text
  BY <1>5, TextShape
<1>. QED
  BY <1>2, <1>6, <1>7, <1>8, <1>9, <1>10 DEF w, x, m, n, sp

LEMMA BlankGlued ==
  ASSUME NEW u \in Text, NEW v \in Text
  PROVE  Blank(u \o v \o <<" ">>) <=> Blank(u) /\ Blank(v)
<1>. DEFINE w == u \o v \o <<" ">>
            m == Len(u)
            n == Len(v)
<1>1. /\ Len(w) = m + n + 1
      /\ \A k \in 1 .. m : w[k] = u[k]
      /\ \A k \in 1 .. n : w[m + k] = v[k]
      /\ w[m + n + 1] = " "
  BY Glued
<1>0. m \in Nat /\ n \in Nat
  BY TextLen
<1>. HIDE DEF w, m, n
<1>2. ASSUME Blank(w) PROVE Blank(u) /\ Blank(v)
  <2>1. ASSUME NEW k \in 1 .. m PROVE u[k] \in Blanks
    <3>1. k \in 1 .. m + n + 1
      BY <1>0
    <3>. QED
      BY <1>1, <1>2, <3>1 DEF Blank
  <2>2. ASSUME NEW k \in 1 .. n PROVE v[k] \in Blanks
    <3>1. m + k \in 1 .. m + n + 1
      BY <1>0
    <3>. QED
      BY <1>1, <1>2, <3>1 DEF Blank
  <2>. QED
    BY <2>1, <2>2 DEF Blank, m, n
<1>3. ASSUME Blank(u), Blank(v) PROVE Blank(w)
  <2>. SUFFICES ASSUME NEW k \in 1 .. m + n + 1 PROVE w[k] \in Blanks
    BY <1>1 DEF Blank
  <2>1. CASE k \in 1 .. m
    BY <1>1, <1>3, <2>1 DEF Blank, m
  <2>2. CASE k \in m + 1 .. m + n
    <3>1. k - m \in 1 .. n /\ m + (k - m) = k
      BY <1>0, <2>2
    <3>2. w[k] = v[k - m]
      BY <1>1, <3>1
    <3>. QED
      BY <1>3, <3>1, <3>2 DEF Blank, n
  <2>3. CASE k = m + n + 1
    BY <1>1, <2>3 DEF Blanks
  <2>. QED
    BY <1>0, <2>1, <2>2, <2>3
<1>. QED
  BY <1>2, <1>3 DEF w

\* What is glued after a blank text gives the name.
LEMMA NameOfLater ==
  ASSUME NEW u \in Text, NEW v \in Text, Blank(u), ~Blank(v)
  PROVE  JobName(u \o v \o <<" ">>) = JobName(v)
<1>. DEFINE w == u \o v \o <<" ">>
            m == Len(u)
            n == Len(v)
<1>1. /\ Len(w) = m + n + 1 /\ w \in Text
      /\ \A k \in 1 .. m : w[k] = u[k]
      /\ \A k \in 1 .. n : w[m + k] = v[k]
      /\ w[m + n + 1] = " "
  BY Glued
<1>0. m \in Nat /\ n \in Nat
  BY TextLen
<1>2. PICK i, j \in 1 .. n : WordAt(v, i, j)
  BY WordExists
<1>. HIDE DEF w, m, n
<1>3. i <= j /\ i \in Nat /\ j \in Nat /\ 1 <= i /\ j <= n
  BY <1>2 DEF WordAt, IsFirstWord
<1>. DEFINE p == m + i
            q == m + j
<1>4. p \in Nat /\ q \in Nat /\ 1 <= p /\ p <= q /\ q < m + n + 1 /\ q - p + 1 = j - i + 1
  BY <1>0, <1>3
<1>5. w \in Seq(Letters) /\ v \in Seq(Letters) /\ Len(w) = m + n + 1
  BY <1>1, TextLen
<1>6. ASSUME NEW k \in p .. q PROVE w[k] = v[k - m] /\ k - m \in i .. j
  <2>1. k - m \in i .. j /\ k - m \in 1 .. n /\ m + (k - m) = k
    BY <1>0, <1>3
  <2>. QED
    BY <1>1, <2>1
<1>7. ASSUME NEW k \in 1 .. p - 1 PROVE w[k] \in Blanks
  <2>1. CASE k \in 1 .. m
    BY <1>1, <2>1 DEF Blank, m
  <2>2. CASE k \notin 1 .. m
    <3>1. k - m \in 1 .. i - 1 /\ k - m \in 1 .. n /\ m + (k - m) = k
      BY <1>0, <1>3, <2>2
    <3>2. w[k] = v[k - m]
      BY <1>1, <3>1
    <3>. QED
      BY <1>2, <3>1, <3>2 DEF WordAt, IsFirstWord
  <2>. QED
    BY <2>1, <2>2
<1>8. w[q + 1] \in Blanks
  <2>1. CASE j = n
    BY <1>1, <2>1 DEF Blanks
  <2>2. CASE j < n
    <3>1. j + 1 \in 1 .. n /\ m + (j + 1) = q + 1
      BY <1>0, <1>3, <2>2
    <3>2. w[m + (j + 1)] = v[j + 1]
      BY <1>1, <3>1
    <3>3. w[q + 1] = v[j + 1]
      BY <3>1, <3>2
    <3>. QED
      BY <1>2, <2>2, <3>3 DEF WordAt, IsFirstWord, n
  <2>. QED
    BY <1>0, <1>3, <2>1, <2>2
<1>. HIDE DEF p, q
<1>9. WordAt(w, p, q)
  <2>1. p \in 1 .. Len(w) /\ q \in 1 .. Len(w)
    BY <1>0, <1>4, <1>5
  <2>2. \A k \in p .. q : w[k] \notin Blanks
    BY <1>2, <1>6 DEF WordAt, IsFirstWord
  <2>. QED
    BY <1>4, <1>7, <1>8, <2>1, <2>2 DEF WordAt, IsFirstWord
<1>10. SubSeq(w, p, q) = SubSeq(v, i, j)
  <2>. DEFINE a == SubSeq(w, p, q)
              b == SubSeq(v, i, j)
  <2>1. ASSUME NEW k \in i .. j PROVE v[k] \in Letters
    <3>1. k \in 1 .. Len(v)
      BY <1>0, <1>3 DEF n
    <3>. QED
      BY <1>5, <3>1
  <2>2. ASSUME NEW k \in p .. q PROVE w[k] \in Letters
    BY <1>6, <2>1
  <2>3. i \in Int /\ j \in Int /\ p \in Int /\ q \in Int
    BY <1>3, <1>4
  <2>4. /\ b \in Seq(Letters) /\ Len(b) = j - i + 1
        /\ \A k \in 1 .. j - i + 1 : b[k] = v[i + k - 1]
    BY <1>3, <2>1, <2>3, SubSeqProperties
  <2>5. /\ a \in Seq(Letters) /\ Len(a) = q - p + 1
        /\ \A k \in 1 .. q - p + 1 : a[k] = w[p + k - 1]
    BY <1>4, <2>2, <2>3, SubSeqProperties
  <2>. HIDE DEF a, b
  <2>6. ASSUME NEW k \in 1 .. j - i + 1 PROVE a[k] = b[k]
    <3>1. p + k - 1 \in p .. q /\ k \in 1 .. q - p + 1
      BY <1>3, <1>4
    <3>2. (p + k - 1) - m = i + k - 1
      BY <1>0, <1>3 DEF p
    <3>3. w[p + k - 1] = v[(p + k - 1) - m]
      BY <1>6, <3>1
    <3>. QED
      BY <2>4, <2>5, <3>1, <3>2, <3>3
  <2>7. Len(a) = Len(b)
    BY <1>4, <2>4, <2>5
  <2>8. a = b
    BY <2>4, <2>5, <2>6, <2>7, SeqEqual
  <2>. QED
    BY <2>8 DEF a, b
<1>11. JobName(w) = {SubSeq(w, p, q)} /\ JobName(v) = {SubSeq(v, i, j)}
  <2>1. w \in Text
    BY <1>1
  <2>. QED
    BY <1>2, <1>9, <2>1, NameUnique
<1>. QED
  BY <1>10, <1>11 DEF w

\* What is glued after a text that ends with a blank does not change its name.
LEMMA NameOfEarlier ==
  ASSUME NEW u \in Text, NEW v \in Text, ~Blank(u), u[Len(u)] \in Blanks
  PROVE  JobName(u \o v \o <<" ">>) = JobName(u)
<1>. DEFINE w == u \o v \o <<" ">>
            m == Len(u)
            n == Len(v)
<1>1. /\ Len(w) = m + n + 1 /\ w \in Text
      /\ \A k \in 1 .. m : w[k] = u[k]
  BY Glued
<1>0. m \in Nat /\ n \in Nat
  BY TextLen
<1>2. PICK i, j \in 1 .. m : WordAt(u, i, j)
  BY WordExists
<1>. HIDE DEF w
<1>3. i <= j /\ i \in Nat /\ j \in Nat /\ 1 <= i /\ j < m
  <2>1. j # m
    BY <1>2 DEF WordAt, IsFirstWord
  <2>. QED
    BY <1>1, <1>2, <2>1 DEF WordAt, IsFirstWord
<1>4. i \in 1 .. Len(w) /\ j \in 1 .. Len(w)
  BY <1>1, <1>3
<1>5. ASSUME NEW k \in 1 .. j + 1 PROVE w[k] = u[k]
  BY <1>1, <1>3
<1>6. WordAt(w, i, j)
  BY <1>2, <1>3, <1>4, <1>5 DEF WordAt, IsFirstWord
<1>7. SubSeq(w, i, j) = SubSeq(u, i, j)
  <2>. DEFINE a == SubSeq(w, i, j)
              b == SubSeq(u, i, j)
  <2>1. ASSUME NEW k \in i .. j PROVE u[k] \in Letters /\ w[k] \in Letters /\ w[k] = u[k]
    <3>1. k \in 1 .. m /\ u \in Seq(Letters) /\ k \in 1 .. j + 1
      BY <1>0, <1>1, <1>3, TextLen
    <3>. QED
      BY <1>5, <3>1
  <2>2. i \in Int /\ j \in Int
    BY <1>3
  <2>3. /\ b \in Seq(Letters) /\ Len(b) = j - i + 1
        /\ \A k \in 1 .. j - i + 1 : b[k] = u[i + k - 1]
    BY <1>3, <2>1, <2>2, SubSeqProperties
  <2>4. /\ a \in Seq(Letters) /\ Len(a) = j - i + 1
        /\ \A k \in 1 .. j - i + 1 : a[k] = w[i + k - 1]
    BY <1>3, <2>1, <2>2, SubSeqProperties
  <2>. HIDE DEF a, b
  <2>5. ASSUME NEW k \in 1 .. j - i + 1 PROVE a[k] = b[k]
    <3>1. i + k - 1 \in i .. j
      BY <1>3
    <3>. QED
      BY <2>1, <2>3, <2>4, <3>1
  <2>6. a = b
    BY <2>3, <2>4, <2>5, SeqEqual
  <2>. QED
    BY <2>6 DEF a, b
<1>8. JobName(w) = {SubSeq(w, i, j)} /\ JobName(u) = {SubSeq(u, i, j)}
  <2>1. w \in Text
    BY <1>1
  <2>. QED
    BY <1>2, <1>6, <2>1, NameUnique
<1>. QED
  BY <1>7, <1>8 DEF w

-----------------------------------------------------------------------------
(* Jobs and words.                                                         *)

\* The first words up to m whose jobs are complete.
Closed(toks, m) == {i \in FirstWords(toks) : i <= m /\ SplitterIn(toks, i, m)}

\* Word i is the first one of the text that is being collected after m tokens.
Open(toks, m, i) == i \in FirstWords(toks) /\ i <= m /\ ~SplitterIn(toks, i, m)

\* The text being collected: it ends with a blank, and its name is that of the
\* first word of its job if there is one.
OpenText(toks, m, ss) ==
  /\ ss = <<>> <=> m = 0 \/ toks[m] = Splitter
  /\ ss # <<>> => ss[Len(ss)] \in Blanks
  /\ Blank(ss) => NoWordOpen(toks, m)
  /\ ~Blank(ss) => \E i \in 1 .. Len(toks) : Open(toks, m, i) /\ JobName(ss) = JobName(toks[i])

\* The texts are named after the words.
NamedAfter(texts, toks, order) ==
  /\ Len(order) = Len(texts)
  /\ \A k \in 1 .. Len(texts) : JobName(texts[k]) = JobName(toks[order[k]])

\* The texts complete after m tokens: one without a word has a splitter to
\* show for it, and otherwise they are named after the first words.
ClosedTexts(toks, m, texts) ==
  \/ /\ \E s \in 1 .. m : toks[s] = Splitter /\ NoWordOpen(toks, s - 1)
     /\ \E k \in 1 .. Len(texts) : Blank(texts[k])
  \/ /\ \A k \in 1 .. Len(texts) : ~Blank(texts[k])
     /\ NamedAfter(texts, toks, InOrder(Len(toks), Closed(toks, m)))

SplitInv(toks, m) ==
  OpenText(toks, m, Splits(toks)[m].ss) /\ ClosedTexts(toks, m, Splits(toks)[m].jobs)

LEMMA SplitterNext ==
  ASSUME NEW toks, NEW m \in Nat, NEW i \in 1 .. m
  PROVE  SplitterIn(toks, i, m + 1) <=> SplitterIn(toks, i, m) \/ toks[m + 1] = Splitter
<1>1. \A h : h \in i .. m + 1 <=> h \in i .. m \/ h = m + 1
  OBVIOUS
<1>. QED
  BY <1>1 DEF SplitterIn

LEMMA OpenBounds ==
  ASSUME NEW toks \in Seq(Tokens), NEW m \in 0 .. Len(toks), NEW i, Open(toks, m, i)
  PROVE  /\ i \in 1 .. m /\ i \in 1 .. Len(toks) /\ IsWord(toks[i]) /\ toks[i] # Splitter
         /\ NoWordOpen(toks, i - 1)
<1>1. Len(toks) \in Nat /\ DOMAIN toks = 1 .. Len(toks)
  BY LenProperties
<1>. QED
  BY <1>1 DEF Open, FirstWords, IsWord

\* The complete words come before the open one.
LEMMA ClosedBelow ==
  ASSUME NEW toks \in Seq(Tokens), NEW m \in 0 .. Len(toks), NEW i, NEW j,
         Open(toks, m, i), j \in FirstWords(toks), j <= m
  PROVE  j <= i /\ (j # i => j \in Closed(toks, m))
<1>1. Len(toks) \in Nat /\ DOMAIN toks = 1 .. Len(toks)
  BY LenProperties
<1>2. j \in 1 .. m /\ IsWord(toks[j]) /\ NoWordOpen(toks, j - 1)
  BY <1>1 DEF FirstWords
<1>3. i \in 1 .. m /\ IsWord(toks[i]) /\ NoWordOpen(toks, i - 1)
  BY OpenBounds
<1>4. ~(i < j)
  <2>. SUFFICES ASSUME i < j PROVE FALSE
    OBVIOUS
  <2>1. i \in 1 .. j - 1
    BY <1>2, <1>3
  <2>2. PICK h \in i .. j - 1 : toks[h] = Splitter
    BY <1>2, <1>3, <2>1 DEF NoWordOpen, SplitterIn
  <2>3. h \in i .. m
    BY <1>2, <1>3
  <2>. QED
    BY <2>2, <2>3 DEF Open, SplitterIn
<1>5. ASSUME j # i PROVE SplitterIn(toks, j, m)
  <2>1. j \in 1 .. i - 1
    BY <1>2, <1>3, <1>4, <1>5
  <2>2. PICK h \in j .. i - 1 : toks[h] = Splitter
    BY <1>2, <1>3, <2>1 DEF NoWordOpen, SplitterIn
  <2>3. h \in j .. m
    BY <1>2, <1>3
  <2>. QED
    BY <2>2, <2>3 DEF SplitterIn
<1>. QED
  BY <1>2, <1>3, <1>4, <1>5 DEF Closed

LEMMA ClosedBySplitter ==
  ASSUME NEW toks \in Seq(Tokens), NEW m \in 0 .. Len(toks) - 1, NEW i,
         Open(toks, m, i), toks[m + 1] = Splitter
  PROVE  Closed(toks, m + 1) = Closed(toks, m) \cup {i}
<1>1. Len(toks) \in Nat /\ DOMAIN toks = 1 .. Len(toks) /\ m \in 0 .. Len(toks) /\ m \in Nat
  BY LenProperties
<1>2. ASSUME NEW j \in Closed(toks, m + 1) PROVE j \in Closed(toks, m) \cup {i}
  <2>1. j \in FirstWords(toks) /\ j \in Nat /\ j <= m + 1 /\ IsWord(toks[j])
    BY <1>1 DEF Closed, FirstWords
  <2>2. j # m + 1
    BY <2>1 DEF IsWord
  <2>3. j <= m
    BY <1>1, <2>1, <2>2
  <2>. QED
    BY <1>1, <2>1, <2>3, ClosedBelow
<1>3. ASSUME NEW j \in Closed(toks, m) \cup {i} PROVE j \in Closed(toks, m + 1)
  <2>1. j \in FirstWords(toks) /\ j \in 1 .. m
    BY <1>1 DEF Closed, FirstWords, Open
  <2>2. SplitterIn(toks, j, m + 1)
    BY <1>1, <2>1, SplitterNext
  <2>3. j <= m + 1
    BY <1>1, <2>1
  <2>. QED
    BY <2>1, <2>2, <2>3 DEF Closed
<1>. QED
  BY <1>2, <1>3

LEMMA ClosedByOther ==
  ASSUME NEW toks \in Seq(Tokens), NEW m \in 0 .. Len(toks) - 1, toks[m + 1] # Splitter
  PROVE  Closed(toks, m + 1) = Closed(toks, m)
<1>1. Len(toks) \in Nat /\ DOMAIN toks = 1 .. Len(toks) /\ m \in Nat
  BY LenProperties
<1>2. ASSUME NEW j \in FirstWords(toks)
      PROVE  (j <= m + 1 /\ SplitterIn(toks, j, m + 1)) <=> (j <= m /\ SplitterIn(toks, j, m))
  <2>1. j \in Nat /\ 1 <= j
    BY <1>1 DEF FirstWords
  <2>2. CASE j \in 1 .. m
    BY <1>1, <2>2, SplitterNext
  <2>3. CASE j = m + 1
    <3>1. \A h \in j .. m + 1 : h = m + 1
      BY <1>1, <2>3
    <3>2. ~SplitterIn(toks, j, m + 1)
      BY <3>1 DEF SplitterIn
    <3>. QED
      BY <1>1, <2>3, <3>2
  <2>4. CASE j > m + 1
    BY <1>1, <2>1, <2>4
  <2>. QED
    BY <1>1, <2>1, <2>2, <2>3, <2>4
<1>. QED
  BY <1>2 DEF Closed

\* All that was complete in order, and then the word just completed.
LEMMA OrderBySplitter ==
  ASSUME NEW toks \in Seq(Tokens), NEW m \in 0 .. Len(toks), NEW i, Open(toks, m, i)
  PROVE  InOrder(Len(toks), Closed(toks, m) \cup {i}) = Append(InOrder(Len(toks), Closed(toks, m)), i)
<1>1. Len(toks) \in Nat /\ DOMAIN toks = 1 .. Len(toks) /\ m \in Nat
  BY LenProperties
<1>2. i \in 1 .. Len(toks)
  BY OpenBounds
<1>3. ASSUME NEW j \in Closed(toks, m) PROVE j \in 1 .. i - 1
  <2>1. j \in FirstWords(toks) /\ j <= m /\ j \in Nat /\ 1 <= j
    BY <1>1 DEF Closed, FirstWords
  <2>2. j # i
    BY DEF Open, Closed
  <2>3. j <= i
    BY <2>1, ClosedBelow
  <2>. QED
    BY <1>2, <2>1, <2>2, <2>3
<1>4. Closed(toks, m) \in SUBSET (1 .. i - 1)
  BY <1>3
<1>. QED
  BY <1>1, <1>2, <1>4, InOrderAdd

LEMMA NamedNext ==
  ASSUME NEW texts \in Seq(Text), NEW toks, NEW order \in Seq(Nat), NEW text \in Text, NEW i \in Nat,
         NamedAfter(texts, toks, order), JobName(text) = JobName(toks[i])
  PROVE  NamedAfter(Append(texts, text), toks, Append(order, i))
<1>. DEFINE n == Len(texts)
            ts == Append(texts, text)
            os == Append(order, i)
<1>1. /\ n \in Nat /\ Len(ts) = n + 1 /\ ts[n + 1] = text
      /\ \A k \in 1 .. n : ts[k] = texts[k]
  BY AppendProperties, LenProperties
<1>2. /\ Len(order) = n /\ Len(os) = n + 1 /\ os[n + 1] = i
      /\ \A k \in 1 .. n : os[k] = order[k]
  BY AppendProperties, LenProperties DEF NamedAfter
<1>. HIDE DEF ts, os, n
<1>3. ASSUME NEW k \in 1 .. n + 1 PROVE JobName(ts[k]) = JobName(toks[os[k]])
  <2>1. CASE k \in 1 .. n
    BY <1>1, <1>2, <2>1 DEF NamedAfter, n
  <2>2. CASE k = n + 1
    BY <1>1, <1>2, <2>2
  <2>. QED
    BY <1>1, <2>1, <2>2
<1>. QED
  BY <1>1, <1>2, <1>3 DEF NamedAfter, ts, os

\* A word more and nothing else: no splitter, so no job is complete.
LEMMA OpenByOther ==
  ASSUME NEW toks \in Seq(Tokens), NEW m \in 0 .. Len(toks) - 1, NEW ss \in Text,
         OpenText(toks, m, ss), toks[m + 1] # Splitter
  PROVE  OpenText(toks, m + 1, ss \o toks[m + 1] \o <<" ">>)
<1>. DEFINE tok == toks[m + 1]
            w == ss \o tok \o <<" ">>
<1>1. m \in Nat /\ Len(toks) \in Nat /\ m + 1 \in 1 .. Len(toks) /\ DOMAIN toks = 1 .. Len(toks)
  BY LenProperties
<1>2. tok \in Text
  BY <1>1 DEF Tokens
<1>3. Len(ss) \in Nat /\ Len(tok) \in Nat
  BY <1>2, TextLen
<1>4. Len(w) = Len(ss) + Len(tok) + 1 /\ w[Len(ss) + Len(tok) + 1] = " "
  BY <1>2, Glued
<1>5. w # <<>> /\ w[Len(w)] \in Blanks
  <2>. HIDE DEF w, tok
  <2>0. Len(w) = Len(ss) + Len(tok) + 1
    BY <1>4
  <2>1. Len(w) # 0
    BY <1>3, <2>0
  <2>2. w # <<>>
    BY <2>1
  <2>. QED
    BY <1>4, <2>2 DEF Blanks
<1>6. Blank(w) <=> Blank(ss) /\ Blank(tok)
  BY <1>2, BlankGlued
<1>7. IsWord(tok) <=> ~Blank(tok)
  <2>1. DOMAIN tok = 1 .. Len(tok)
    BY <1>2, TextLen
  <2>. QED
    BY <2>1 DEF IsWord, Blank
<1>8. \A i \in 1 .. m : SplitterIn(toks, i, m + 1) <=> SplitterIn(toks, i, m)
  BY <1>1, SplitterNext
<1>9. ASSUME Blank(w) PROVE NoWordOpen(toks, m + 1)
  <2>1. NoWordOpen(toks, m) /\ ~IsWord(toks[m + 1])
    BY <1>6, <1>7, <1>9 DEF OpenText
  <2>. QED
    BY <1>1, <1>8, <2>1 DEF NoWordOpen
<1>10. ASSUME ~Blank(ss) PROVE \E i \in 1 .. Len(toks) : Open(toks, m + 1, i) /\ JobName(w) = JobName(toks[i])
  <2>1. PICK i \in 1 .. Len(toks) : Open(toks, m, i) /\ JobName(ss) = JobName(toks[i])
    BY <1>10 DEF OpenText
  <2>2. i \in 1 .. m
    BY <2>1 DEF Open
  <2>3. Open(toks, m + 1, i)
    BY <1>1, <1>8, <2>1, <2>2 DEF Open
  <2>4. ss[Len(ss)] \in Blanks
    <3>1. Len(ss) # 0
      BY <1>3, <1>10 DEF Blank
    <3>2. ss # <<>>
      BY <3>1
    <3>. QED
      BY <3>2 DEF OpenText
  <2>5. JobName(w) = JobName(ss)
    BY <1>2, <1>10, <2>4, NameOfEarlier
  <2>. QED
    BY <2>1, <2>3, <2>5
<1>11. ASSUME Blank(ss), ~Blank(tok)
       PROVE  \E i \in 1 .. Len(toks) : Open(toks, m + 1, i) /\ JobName(w) = JobName(toks[i])
  <2>1. NoWordOpen(toks, m) /\ IsWord(toks[m + 1])
    BY <1>7, <1>11 DEF OpenText
  <2>2. m + 1 \in FirstWords(toks)
    BY <1>1, <2>1 DEF FirstWords
  <2>3. ~SplitterIn(toks, m + 1, m + 1)
    <3>1. \A h \in m + 1 .. m + 1 : h = m + 1
      BY <1>1
    <3>. QED
      BY <3>1 DEF SplitterIn
  <2>4. Open(toks, m + 1, m + 1)
    BY <1>1, <2>2, <2>3 DEF Open
  <2>5. JobName(w) = JobName(tok)
    BY <1>2, <1>11, NameOfLater
  <2>. QED
    BY <1>1, <2>4, <2>5
<1>12. m + 1 # 0
  BY <1>1
<1>. HIDE DEF w
<1>13. OpenText(toks, m + 1, w)
  BY <1>5, <1>6, <1>9, <1>10, <1>11, <1>12 DEF OpenText
<1>. QED
  BY <1>13 DEF w

LEMMA OpenBySplitter ==
  ASSUME NEW toks \in Seq(Tokens), NEW m \in Nat, toks[m + 1] = Splitter
  PROVE  OpenText(toks, m + 1, <<>>)
<1>1. Blank(<<>>)
  <2>1. Len(<<>>) = 0
    BY EmptySeq
  <2>. QED
    BY <2>1 DEF Blank
<1>2. NoWordOpen(toks, m + 1)
  <2>. SUFFICES ASSUME NEW i \in 1 .. m + 1 PROVE SplitterIn(toks, i, m + 1)
    BY DEF NoWordOpen
  <2>1. m + 1 \in i .. m + 1
    OBVIOUS
  <2>. QED
    BY <2>1 DEF SplitterIn
<1>. QED
  BY <1>1, <1>2 DEF OpenText

LEMMA SplitNext ==
  ASSUME NEW toks \in Seq(Tokens), NEW m \in 0 .. Len(toks) - 1, SplitInv(toks, m)
  PROVE  SplitInv(toks, m + 1)
<1>. DEFINE s == Splits(toks)[m]
            r == Splits(toks)[m + 1]
            tok == toks[m + 1]
<1>1. Len(toks) \in Nat /\ m \in Nat /\ m \in 0 .. Len(toks) /\ m + 1 \in 1 .. Len(toks) /\ (m + 1) - 1 = m
  BY LenProperties
<1>2. s \in Collections /\ r = Collect(s, tok)
  BY <1>1, SplitSteps
<1>3. OpenText(toks, m, s.ss) /\ ClosedTexts(toks, m, s.jobs)
  BY DEF SplitInv
<1>. HIDE DEF s, r
<1>4. s.jobs \in Seq(Text) /\ s.ss \in Text
  BY <1>2 DEF Collections
<1>5. CASE tok = Splitter
  <2>1. r.ss = <<>> /\ r.jobs = Append(s.jobs, s.ss)
    BY <1>2, <1>5 DEF Collect
  <2>2. OpenText(toks, m + 1, <<>>)
    BY <1>1, <1>5, OpenBySplitter
  <2>0. /\ Len(r.jobs) = Len(s.jobs) + 1 /\ Len(s.jobs) \in Nat
        /\ \A k \in 1 .. Len(s.jobs) : k \in 1 .. Len(r.jobs) /\ r.jobs[k] = s.jobs[k]
        /\ r.jobs[Len(s.jobs) + 1] = s.ss
    BY <1>4, <2>1, AppendProperties, LenProperties
  <2>3. CASE Blank(s.ss)
    <3>1. NoWordOpen(toks, m)
      BY <1>3, <2>3 DEF OpenText
    <3>2. m + 1 \in 1 .. m + 1
      BY <1>1
    <3>3. ClosedTexts(toks, m + 1, r.jobs)
      <4>1. Len(s.jobs) + 1 \in 1 .. Len(r.jobs)
        BY <2>0
      <4>. QED
        BY <1>1, <1>5, <2>0, <2>3, <3>1, <3>2, <4>1 DEF ClosedTexts
    <3>. QED
      BY <2>1, <2>2, <3>3 DEF SplitInv, r
  <2>4. CASE /\ \E k \in 1 .. m : toks[k] = Splitter /\ NoWordOpen(toks, k - 1)
             /\ \E k \in 1 .. Len(s.jobs) : Blank(s.jobs[k])
    <3>1. \A k \in 1 .. m : k \in 1 .. m + 1
      BY <1>1
    <3>2. ClosedTexts(toks, m + 1, r.jobs)
      BY <2>0, <2>4, <3>1 DEF ClosedTexts
    <3>. QED
      BY <2>1, <2>2, <3>2 DEF SplitInv, r
  <2>5. CASE /\ ~Blank(s.ss)
             /\ \A k \in 1 .. Len(s.jobs) : ~Blank(s.jobs[k])
             /\ NamedAfter(s.jobs, toks, InOrder(Len(toks), Closed(toks, m)))
    <3>. DEFINE order == InOrder(Len(toks), Closed(toks, m))
    <3>1. PICK i \in 1 .. Len(toks) : Open(toks, m, i) /\ JobName(s.ss) = JobName(toks[i])
      BY <1>3, <2>5 DEF OpenText
    <3>2. InOrder(Len(toks), Closed(toks, m + 1)) = Append(order, i)
      BY <1>1, <1>5, <3>1, ClosedBySplitter, OrderBySplitter
    <3>3. order \in Seq(Nat)
      <4>1. order \in Seq(Closed(toks, m) \cap 1 .. Len(toks))
        BY <1>1, InOrderType
      <4>. HIDE DEF order
      <4>. QED
        BY <1>1, <4>1, SeqMonotonic
    <3>. HIDE DEF order
    <3>4. NamedAfter(Append(s.jobs, s.ss), toks, Append(order, i))
      <4>1. NamedAfter(s.jobs, toks, order) /\ i \in Nat
        BY <1>1, <2>5 DEF order
      <4>. QED
        BY <1>4, <3>1, <3>3, <4>1, NamedNext
    <3>5. \A k \in 1 .. Len(Append(s.jobs, s.ss)) : ~Blank(Append(s.jobs, s.ss)[k])
      <4>1. /\ Len(Append(s.jobs, s.ss)) = Len(s.jobs) + 1
            /\ \A k \in 1 .. Len(s.jobs) : Append(s.jobs, s.ss)[k] = s.jobs[k]
            /\ Append(s.jobs, s.ss)[Len(s.jobs) + 1] = s.ss
            /\ Len(s.jobs) \in Nat
        BY <1>4, AppendProperties, LenProperties
      <4>2. \A k \in 1 .. Len(s.jobs) + 1 : k \in 1 .. Len(s.jobs) \/ k = Len(s.jobs) + 1
        BY <4>1
      <4>. QED
        BY <2>5, <4>1, <4>2
    <3>6. ClosedTexts(toks, m + 1, r.jobs)
      BY <2>1, <3>2, <3>4, <3>5 DEF ClosedTexts
    <3>. QED
      BY <2>1, <2>2, <3>6 DEF SplitInv, r
  <2>. QED
    BY <1>3, <2>3, <2>4, <2>5 DEF ClosedTexts
<1>6. CASE tok # Splitter
  <2>1. r.jobs = s.jobs /\ r.ss = s.ss \o tok \o <<" ">>
    BY <1>2, <1>6 DEF Collect, Collections
  <2>2. OpenText(toks, m + 1, r.ss)
    BY <1>3, <1>4, <1>6, <2>1, OpenByOther
  <2>3. Closed(toks, m + 1) = Closed(toks, m)
    BY <1>6, ClosedByOther
  <2>4. \A k \in 1 .. m : k \in 1 .. m + 1
    BY <1>1
  <2>5. ClosedTexts(toks, m + 1, r.jobs)
    BY <1>3, <2>1, <2>3, <2>4 DEF ClosedTexts
  <2>. QED
    BY <2>2, <2>5 DEF SplitInv, r
<1>. QED
  BY <1>5, <1>6

LEMMA SplitFirst == ASSUME NEW toks \in Seq(Tokens) PROVE SplitInv(toks, 0)
<1>1. Splits(toks)[0].ss = <<>> /\ Splits(toks)[0].jobs = <<>>
  BY SplitSteps
<1>2. Len(<<>>) = 0 /\ Len(toks) \in Nat
  BY EmptySeq, LenProperties
<1>3. OpenText(toks, 0, <<>>)
  BY <1>2 DEF OpenText, Blank, NoWordOpen
<1>4. Closed(toks, 0) = {}
  <2>1. DOMAIN toks = 1 .. Len(toks)
    BY LenProperties
  <2>. QED
    BY <1>2, <2>1 DEF Closed, FirstWords
<1>5. InOrder(Len(toks), Closed(toks, 0)) = <<>>
  BY <1>2, <1>4, InOrderNone
<1>6. ClosedTexts(toks, 0, <<>>)
  BY <1>2, <1>5 DEF ClosedTexts, NamedAfter
<1>. QED
  BY <1>1, <1>3, <1>6 DEF SplitInv

LEMMA SplitAlways == ASSUME NEW toks \in Seq(Tokens) PROVE SplitInv(toks, Len(toks))
<1>. DEFINE U == {m \in Nat : SplitInv(toks, m)}
<1>1. Len(toks) \in Nat
  BY LenProperties
<1>2. 0 \in U
  BY SplitFirst
<1>3. \A m \in 0 .. Len(toks) - 1 : m \in U => m + 1 \in U
  BY SplitNext
<1>4. \A m \in 0 .. Len(toks) : m \in U
  <2>. HIDE DEF U
  <2>. QED
    BY <1>1, <1>2, <1>3, UpTo
<1>. QED
  BY <1>1, <1>4

-----------------------------------------------------------------------------
(* The jobs started are those of the line.                                 *)

\* What the jobs left and the names started have to do with the line.
JobsInv ==
  /\ TypeOK
  /\ state = "read" => started = <<>>
  /\ state \in {"start", "nullname"} =>
       LET texts == JobTexts(tokens) IN
       /\ Len(started) + Len(jobs) = Len(texts)
       /\ \A k \in 1 .. Len(jobs) : jobs[k] \in {Garbage, texts[Len(started) + k]}
       /\ \A k \in 1 .. Len(started) : started[k] = Garbage \/ started[k] \in JobName(texts[k])
  /\ state = "nullname" => jobs # <<>> /\ (JobName(Head(jobs)) = {} \/ Head(jobs) = Garbage)

LEMMA NameOfGarbage == ASSUME NEW name \in JobName(Garbage) PROVE name = Garbage
<1>1. Garbage \in Seq(Letters) /\ Len(Garbage) = 1 /\ Garbage \in Text
  <2>1. Garbage \in Text
    BY TextShape DEF Tokens
  <2>2. Len(Garbage) = 1
    BY DEF Garbage
  <2>. QED
    BY <2>1, <2>2, TextLen
<1>2. PICK i, j \in 1 .. Len(Garbage) : WordAt(Garbage, i, j) /\ name = SubSeq(Garbage, i, j)
  BY NameWordAt
<1>3. i = 1 /\ j = Len(Garbage)
  BY <1>1, <1>2
<1>. QED
  BY <1>1, <1>2, <1>3, SubSeqFull

LEMMA JobsInit == Init => JobsInv
  BY InitType DEF Init, JobsInv

LEMMA JobsNext == JobsInv /\ [Next]_vars => JobsInv'
<1>. SUFFICES ASSUME JobsInv, [Next]_vars PROVE JobsInv'
  OBVIOUS
<1>0. TypeOK /\ TypeOK'
  BY NextType DEF JobsInv
<1>1. CASE ReadLine
  <2>1. started = <<>> /\ started' = <<>> /\ state' = "start" /\ Len(<<>>) = 0
    BY <1>1, EmptySeq DEF ReadLine, JobsInv
  <2>2. tokens' \in Seq(Tokens)
    BY <1>0 DEF TypeOK, Tokens
  <2>3. /\ Len(jobs') = Len(JobTexts(tokens')) /\ Len(jobs') \in Nat
        /\ \A k \in 1 .. Len(jobs') : jobs'[k] \in {Garbage, JobTexts(tokens')[k]}
    BY <1>1, <2>2, JobsType, LenProperties DEF ReadLine
  <2>4. \A k \in 1 .. Len(jobs') : jobs'[k] \in {Garbage, JobTexts(tokens')[Len(started') + k]}
    <3>1. \A k \in 1 .. Len(jobs') : Len(started') + k = k
      BY <2>1
    <3>. QED
      BY <2>3, <3>1
  <2>5. Len(started') + Len(jobs') = Len(JobTexts(tokens'))
    BY <2>1, <2>3
  <2>6. \A k \in 1 .. Len(started') : FALSE
    BY <2>1
  <2>. QED
    BY <1>0, <2>1, <2>4, <2>5, <2>6 DEF JobsInv
<1>2. CASE EndOfInput
  BY <1>0, <1>2 DEF EndOfInput, JobsInv
<1>3. CASE StartJob
  <2>. DEFINE texts == JobTexts(tokens)
              n == Len(started)
  <2>1. state = "start" /\ state' = "start" /\ jobs # <<>> /\ tokens' = tokens /\ jobs' = Tail(jobs)
    BY <1>3 DEF StartJob
  <2>2. PICK name \in JobName(Head(jobs)) : started' = Append(started, name)
    BY <1>3 DEF StartJob
  <2>3. /\ n + Len(jobs) = Len(texts)
        /\ \A k \in 1 .. Len(jobs) : jobs[k] \in {Garbage, texts[n + k]}
        /\ \A k \in 1 .. n : started[k] = Garbage \/ started[k] \in JobName(texts[k])
    BY <2>1 DEF JobsInv
  <2>4. jobs \in Seq(Text) /\ started \in Seq(Tokens)
    BY <1>0 DEF TypeOK, Tokens
  <2>5. Head(jobs) = jobs[1] /\ Head(jobs) \in Text /\ Len(jobs) \in Nat \ {0}
    BY <2>1, <2>4, HeadTailProperties, EmptySeq
  <2>6. Len(jobs') = Len(jobs) - 1 /\ \A k \in 1 .. Len(jobs') : jobs'[k] = jobs[k + 1]
    BY <2>1, <2>4, HeadTailProperties
  <2>7. /\ n \in Nat /\ Len(started') = n + 1 /\ started'[n + 1] = name
        /\ \A k \in 1 .. n : started'[k] = started[k]
    <3>1. name \in Tokens
      BY <2>5, JobNameType
    <3>. QED
      BY <2>2, <2>4, <3>1, AppendProperties, LenProperties
  <2>8. Head(jobs) \in {Garbage, texts[n + 1]}
    <3>1. 1 \in 1 .. Len(jobs)
      BY <2>5
    <3>. QED
      BY <2>3, <2>5, <3>1
  <2>9. name = Garbage \/ name \in JobName(texts[n + 1])
    BY <2>8, NameOfGarbage
  <2>. HIDE DEF texts, n
  <2>10. Len(started') + Len(jobs') = Len(texts)
    <3>1. /\ n + Len(jobs) = Len(texts) /\ Len(jobs) \in Nat /\ n \in Nat
          /\ Len(jobs') = Len(jobs) - 1 /\ Len(started') = n + 1
      BY <2>3, <2>5, <2>6, <2>7
    <3>. QED
      BY <3>1
  <2>11. ASSUME NEW k \in 1 .. Len(jobs') PROVE jobs'[k] \in {Garbage, texts[Len(started') + k]}
    <3>1. k + 1 \in 1 .. Len(jobs) /\ n + (k + 1) = Len(started') + k
      BY <2>5, <2>6, <2>7
    <3>2. jobs[k + 1] \in {Garbage, texts[n + (k + 1)]}
      BY <2>3, <3>1
    <3>. QED
      BY <2>6, <3>1, <3>2
  <2>12. ASSUME NEW k \in 1 .. Len(started')
         PROVE  started'[k] = Garbage \/ started'[k] \in JobName(texts[k])
    <3>1. CASE k \in 1 .. n
      BY <2>3, <2>7, <3>1
    <3>2. CASE k = n + 1
      BY <2>7, <2>9, <3>2
    <3>. QED
      BY <2>7, <3>1, <3>2
  <2>13. texts = JobTexts(tokens')
    BY <2>1 DEF texts
  <2>. QED
    BY <1>0, <2>1, <2>10, <2>11, <2>12, <2>13 DEF JobsInv
<1>4. CASE NullName
  <2>1. state = "start" /\ state' = "nullname" /\ UNCHANGED <<tokens, jobs, started>>
    BY <1>4 DEF NullName
  <2>2. jobs # <<>> /\ (JobName(Head(jobs)) = {} \/ Head(jobs) = Garbage)
    BY <1>4 DEF NullName
  <2>. QED
    BY <1>0, <2>1, <2>2 DEF JobsInv
<1>7. CASE StartJobFails
  BY <1>0, <1>7 DEF StartJobFails, JobsInv
<1>5. CASE LineDone
  BY <1>0, <1>5 DEF LineDone, JobsInv
<1>6. CASE UNCHANGED vars
  BY <1>0, <1>6 DEF vars, JobsInv
<1>. QED
  BY <1>1, <1>2, <1>3, <1>4, <1>5, <1>6, <1>7 DEF Next

LEMMA JobsAlways == Spec => []JobsInv
  BY JobsInit, JobsNext, PTL DEF Spec

\* The texts of a line's jobs, complete ones first.
LEMMA TextsShape ==
  ASSUME NEW toks \in Seq(Tokens)
  PROVE  LET done == Split(toks).jobs
             ss == Split(toks).ss
             texts == JobTexts(toks)
         IN  /\ done \in Seq(Text) /\ ss \in Text /\ Len(done) \in Nat
             /\ OpenText(toks, Len(toks), ss) /\ ClosedTexts(toks, Len(toks), done)
             /\ \A k \in 1 .. Len(done) : texts[k] = done[k]
             /\ ss = <<>> => texts = done
             /\ ss # <<>> => texts = Append(done, ss)
<1>. DEFINE done == Split(toks).jobs
            ss == Split(toks).ss
            texts == JobTexts(toks)
<1>1. done \in Seq(Text) /\ ss \in Text
  BY SplitType DEF Collections
<1>2. OpenText(toks, Len(toks), ss) /\ ClosedTexts(toks, Len(toks), done)
  BY SplitAlways DEF SplitInv, Split
<1>3. texts = done \o (IF ss = <<>> THEN <<>> ELSE <<ss>>)
  BY DEF JobTexts
<1>. HIDE DEF done, ss, texts
<1>4. Len(done) \in Nat
  BY <1>1, LenProperties
<1>5. ss = <<>> => texts = done
  BY <1>1, <1>3, ConcatEmptySeq
<1>6. ss # <<>> => texts = Append(done, ss)
  <2>. SUFFICES ASSUME ss # <<>> PROVE texts = Append(done, ss)
    OBVIOUS
  <2>1. texts = done \o <<ss>>
    BY <1>3
  <2>2. done \o <<ss>> = Append(done, ss)
    BY <1>1
  <2>. QED
    BY <2>1, <2>2
<1>7. \A k \in 1 .. Len(done) : texts[k] = done[k]
  BY <1>1, <1>4, <1>5, <1>6, AppendProperties
<1>. QED
  BY <1>1, <1>2, <1>4, <1>5, <1>6, <1>7 DEF done, ss, texts

\* A text without a word comes from a blank job.
LEMMA BlankText ==
  ASSUME NEW toks \in Seq(Tokens), NEW k \in 1 .. Len(JobTexts(toks)), Blank(JobTexts(toks)[k])
  PROVE  BlankJob(toks)
<1>. DEFINE done == Split(toks).jobs
            ss == Split(toks).ss
            texts == JobTexts(toks)
            n == Len(toks)
<1>1. /\ done \in Seq(Text) /\ ss \in Text /\ Len(done) \in Nat
      /\ OpenText(toks, n, ss) /\ ClosedTexts(toks, n, done)
      /\ \A i \in 1 .. Len(done) : texts[i] = done[i]
      /\ ss = <<>> => texts = done
      /\ ss # <<>> => texts = Append(done, ss)
  BY TextsShape
<1>2. n \in Nat
  BY LenProperties
<1>3. Blank(texts[k]) /\ k \in 1 .. Len(texts)
  OBVIOUS
<1>. HIDE DEF done, ss, texts, n
<1>4. CASE k \in 1 .. Len(done)
  <2>1. Blank(done[k])
    BY <1>1, <1>3, <1>4
  <2>2. \E s \in 1 .. n : toks[s] = Splitter /\ NoWordOpen(toks, s - 1)
    BY <1>1, <1>4, <2>1 DEF ClosedTexts
  <2>. QED
    BY <2>2 DEF BlankJob, n
<1>5. CASE k \notin 1 .. Len(done)
  <2>1. ss # <<>> /\ texts = Append(done, ss)
    BY <1>1, <1>3, <1>5
  <2>2. Len(texts) = Len(done) + 1 /\ texts[Len(done) + 1] = ss
    BY <1>1, <2>1, AppendProperties
  <2>3. k = Len(done) + 1
    BY <1>1, <1>3, <1>5, <2>2
  <2>4. Blank(ss)
    BY <1>3, <2>2, <2>3
  <2>5. n # 0 /\ toks[n] # Splitter /\ NoWordOpen(toks, n)
    BY <1>1, <2>1, <2>4 DEF OpenText
  <2>6. n > 0
    BY <1>2, <2>5
  <2>. QED
    BY <2>5, <2>6 DEF BlankJob, n
<1>. QED
  BY <1>4, <1>5

\* The name of a job is NULL only where a job without a word is asked for or a text
\* was read after it was freed (job.cpp:43), whatever was started before and
\* whatever popen returned.
THEOREM NullNamesOnlyOnBlank == Spec => []NullNameOnlyOnBlank
<1>1. JobsInv => NullNameOnlyOnBlank
  <2>. SUFFICES ASSUME JobsInv, state = "nullname", Head(jobs) # Garbage PROVE BlankJob(tokens)
    BY DEF NullNameOnlyOnBlank
  <2>1. tokens \in Seq(Tokens) /\ jobs \in Seq(Text) /\ started \in Seq(Tokens) /\ jobs # <<>>
    BY DEF JobsInv, TypeOK, Tokens
  <2>2. Len(jobs) \in Nat \ {0} /\ Len(started) \in Nat /\ Head(jobs) = jobs[1]
    BY <2>1, EmptySeq, LenProperties
  <2>. DEFINE k == Len(started) + 1
  <2>3. Len(started) + Len(jobs) = Len(JobTexts(tokens)) /\ jobs[1] \in {Garbage, JobTexts(tokens)[k]}
    BY <2>2 DEF JobsInv
  <2>4. k \in 1 .. Len(JobTexts(tokens))
    BY <2>2, <2>3
  <2>5. JobTexts(tokens)[k] \in Text /\ JobName(JobTexts(tokens)[k]) = {}
    <3>1. JobName(Head(jobs)) = {}
      BY DEF JobsInv
    <3>. QED
      BY <2>1, <2>2, <2>3, <2>4, <3>1, SplitType, ElementOfSeq
  <2>6. Blank(JobTexts(tokens)[k])
    BY <2>5, NameOfBlank
  <2>. QED
    BY <2>1, <2>4, <2>6, BlankText
<1>. QED
  BY <1>1, JobsAlways, PTL

\* If every text has a word the texts are named after the first words.
LEMMA TextsNamed ==
  ASSUME NEW toks \in Seq(Tokens),
         \A k \in 1 .. Len(JobTexts(toks)) : ~Blank(JobTexts(toks)[k])
  PROVE  NamedAfter(JobTexts(toks), toks, InOrder(Len(toks), FirstWords(toks)))
<1>. DEFINE done == Split(toks).jobs
            ss == Split(toks).ss
            texts == JobTexts(toks)
            n == Len(toks)
            order == InOrder(n, Closed(toks, n))
<1>1. /\ done \in Seq(Text) /\ ss \in Text /\ Len(done) \in Nat
      /\ OpenText(toks, n, ss) /\ ClosedTexts(toks, n, done)
      /\ \A i \in 1 .. Len(done) : texts[i] = done[i]
      /\ ss = <<>> => texts = done
      /\ ss # <<>> => texts = Append(done, ss)
  BY TextsShape
<1>2. n \in Nat /\ DOMAIN toks = 1 .. n /\ n \in 0 .. n
  BY LenProperties
<1>3. \A k \in 1 .. Len(texts) : ~Blank(texts[k])
  OBVIOUS
<1>4. order \in Seq(Nat)
  <2>1. order \in Seq(Closed(toks, n) \cap 1 .. n)
    BY <1>2, InOrderType
  <2>. HIDE DEF order
  <2>. QED
    BY <1>2, <2>1, SeqMonotonic
<1>. HIDE DEF done, ss, texts, n, order
<1>5. CASE ss = <<>>
  <2>1. texts = done
    BY <1>1, <1>5
  <2>2. NamedAfter(done, toks, order)
    BY <1>1, <1>3, <2>1 DEF ClosedTexts, order, n
  <2>3. n = 0 \/ toks[n] = Splitter
    BY <1>1, <1>5 DEF OpenText
  <2>4. ASSUME NEW i \in FirstWords(toks) PROVE i \in Closed(toks, n)
    <3>1. i \in 1 .. n
      BY <1>2 DEF FirstWords
    <3>2. n \in i .. n /\ toks[n] = Splitter
      BY <1>2, <2>3, <3>1
    <3>. QED
      BY <3>1, <3>2 DEF Closed, SplitterIn
  <2>5. FirstWords(toks) = Closed(toks, n)
    BY <2>4 DEF Closed
  <2>. QED
    BY <2>1, <2>2, <2>5 DEF order, texts, n
<1>6. CASE ss # <<>>
  <2>1. texts = Append(done, ss)
    BY <1>1, <1>6
  <2>2. Len(texts) = Len(done) + 1 /\ texts[Len(done) + 1] = ss
    BY <1>1, <2>1, AppendProperties
  <2>3. ~Blank(ss)
    <3>1. Len(done) + 1 \in 1 .. Len(texts)
      BY <1>1, <2>2
    <3>. QED
      BY <1>3, <2>2, <3>1
  <2>4. \A k \in 1 .. Len(done) : ~Blank(done[k])
    <3>1. \A k \in 1 .. Len(done) : k \in 1 .. Len(texts)
      BY <1>1, <2>2
    <3>. QED
      BY <1>1, <1>3, <3>1
  <2>5. NamedAfter(done, toks, order)
    BY <1>1, <2>4 DEF ClosedTexts, order, n
  <2>6. PICK i \in 1 .. n : Open(toks, n, i) /\ JobName(ss) = JobName(toks[i])
    BY <1>1, <2>3 DEF OpenText, n
  <2>7. FirstWords(toks) = Closed(toks, n) \cup {i}
    <3>1. ASSUME NEW j \in FirstWords(toks) PROVE j \in Closed(toks, n) \cup {i}
      <4>1. j \in 1 .. n
        BY <1>2 DEF FirstWords
      <4>2. j <= n
        BY <1>2, <4>1
      <4>. QED
        BY <1>2, <2>6, <4>2, ClosedBelow DEF n
    <3>2. i \in FirstWords(toks)
      BY <2>6 DEF Open
    <3>. QED
      BY <3>1, <3>2 DEF Closed
  <2>8. InOrder(n, FirstWords(toks)) = Append(order, i)
    BY <1>2, <2>6, <2>7, OrderBySplitter DEF order, n
  <2>9. NamedAfter(Append(done, ss), toks, Append(order, i))
    <3>1. i \in Nat
      BY <1>2
    <3>. QED
      BY <1>1, <1>4, <2>5, <2>6, <3>1, NamedNext
  <2>. QED
    BY <2>1, <2>8, <2>9 DEF texts, n
<1>. QED
  BY <1>5, <1>6

\* When a line without quotes or "|" is done and none of its jobs went wrong, every
\* job of it has been started, once, in order and under its own name, unless a text
\* was read after it was freed (command.cpp:13, dshell.cpp:35).
THEOREM EveryJobAlwaysStarts == Spec => []EveryJobStarts
<1>1. JobsInv => EveryJobStarts
  <2>. SUFFICES ASSUME JobsInv, state = "start", jobs = <<>>,
                       \A k \in DOMAIN started : started[k] # Garbage
                PROVE  started = ReferenceNames(tokens)
    BY DEF EveryJobStarts
  <2>. DEFINE texts == JobTexts(tokens)
              order == InOrder(Len(tokens), FirstWords(tokens))
              n == Len(started)
  <2>1. tokens \in Seq(Tokens) /\ started \in Seq(Tokens)
    BY DEF JobsInv, TypeOK, Tokens
  <2>2. n \in Nat /\ DOMAIN started = 1 .. n /\ Len(jobs) = 0 /\ started = [k \in 1 .. n |-> started[k]]
    <3>1. started \in [1 .. Len(started) -> Tokens]
      BY <2>1, LenProperties
    <3>. QED
      BY <2>1, <3>1, LenProperties, EmptySeq
  <2>3. n = Len(texts) /\ \A k \in 1 .. n : started[k] \in JobName(texts[k])
    <3>1. n + Len(jobs) = Len(texts) /\ \A k \in 1 .. n : started[k] = Garbage \/ started[k] \in JobName(texts[k])
      BY DEF JobsInv
    <3>. HIDE DEF n, texts
    <3>. QED
      BY <2>2, <3>1
  <2>4. texts \in Seq(Text)
    BY <2>1, SplitType
  <2>5. NamedAfter(texts, tokens, order)
    <3>1. ASSUME NEW k \in 1 .. Len(texts) PROVE ~Blank(texts[k])
      <4>1. texts[k] \in Text
        BY <2>4, ElementOfSeq
      <4>. QED
        BY <2>3, <4>1, NameOfBlank
    <3>. QED
      BY <2>1, <3>1, TextsNamed
  <2>6. order \in Seq(FirstWords(tokens) \cap 1 .. Len(tokens))
    <3>1. Len(tokens) \in Nat
      BY <2>1, LenProperties
    <3>. QED
      BY <3>1, InOrderType
  <2>. HIDE DEF texts, order, n
  <2>7. DOMAIN order = 1 .. n
    <3>1. DOMAIN order = 1 .. Len(order)
      BY <2>6, LenProperties
    <3>. QED
      BY <2>3, <2>5, <3>1 DEF NamedAfter
  <2>8. ASSUME NEW k \in 1 .. n PROVE started[k] = CHOOSE name \in JobName(tokens[order[k]]) : TRUE
    <3>1. JobName(texts[k]) = JobName(tokens[order[k]])
      BY <2>3, <2>5 DEF NamedAfter
    <3>2. JobName(texts[k]) = {started[k]}
      <4>1. texts[k] \in Text
        BY <2>3, <2>4, ElementOfSeq
      <4>. QED
        BY <2>3, <4>1, OneName
    <3>. QED
      BY <3>1, <3>2
  <2>9. ReferenceNames(tokens) = [k \in 1 .. n |-> CHOOSE name \in JobName(tokens[order[k]]) : TRUE]
    BY <2>7 DEF ReferenceNames, order
  <2>. QED
    BY <2>2, <2>8, <2>9
<1>. QED
  BY <1>1, JobsAlways, PTL

-----------------------------------------------------------------------------
(* Tokens.                                                                 *)

\* The scan after m characters is inside quotes.
Odd(text, m) == Cardinality({k \in 1 .. m : text[k] = Quote}) % 2 = 1

\* Character i ends the token before it.
Breaks(text, i) == text[i] = Quote \/ (~Quoted(text, i) /\ text[i] \in Listed)

\* The positions of the token that is being collected after m characters.
Pending(text, m) == {i \in Kept(text) : i <= m /\ Together(text, i, m)}

\* Where the tokens up to m begin, and those of them that are complete.
StartsTo(text, m) == {i \in Starts(text) : i <= m}
Complete(text, m) == {i \in StartsTo(text, m) : ~Together(text, i, m)}

\* The tokens that begin in S.
TokensAt(text, S) ==
  LET order == InOrder(Len(text), S)
  IN  [k \in DOMAIN order |-> Spell(text, Group(text, order[k]))]

ScanInv(text, m) ==
  LET t == Scan(text)[m] IN
  /\ t.inString <=> Odd(text, m)
  /\ t.ss = Spell(text, Pending(text, m))
  /\ t.tokens = TokensAt(text, Complete(text, m))

\* Values taken in order.
Mapped(f, order) == [k \in DOMAIN order |-> f[order[k]]]

\* One number more is one value more.
LEMMA MapAppend ==
  ASSUME NEW D, NEW f, NEW order \in Seq(D), NEW x \in D
  PROVE  Mapped(f, Append(order, x)) = Append(Mapped(f, order), f[x])
<1>. DEFINE V == {f[i] : i \in D}
            longer == Append(order, x)
            n == Len(order)
            s == [k \in 1 .. n |-> f[order[k]]]
            r == [k \in 1 .. n + 1 |-> f[longer[k]]]
<1>1. n \in Nat /\ DOMAIN order = 1 .. n
  BY LenProperties
<1>2. /\ longer \in Seq(D) /\ Len(longer) = n + 1 /\ longer[n + 1] = x
      /\ \A k \in 1 .. n : longer[k] = order[k]
  BY AppendProperties
<1>3. DOMAIN longer = 1 .. n + 1
  BY <1>2, LenProperties
<1>4. \A k \in 1 .. n : order[k] \in D
  BY ElementOfSeq
<1>. HIDE DEF longer, n
<1>5. s \in Seq(V) /\ Len(s) = n
  BY <1>1, <1>4
<1>6. \A k \in 1 .. n + 1 : longer[k] \in D
  BY <1>2, ElementOfSeq
<1>7. r \in Seq(V) /\ Len(r) = n + 1
  BY <1>1, <1>6
<1>. DEFINE a == Append(s, f[x])
<1>8. /\ a \in Seq(V) /\ Len(a) = n + 1 /\ a[n + 1] = f[x]
      /\ \A k \in 1 .. n : a[k] = s[k]
  <2>1. f[x] \in V
    OBVIOUS
  <2>. HIDE DEF s
  <2>. QED
    BY <1>5, <2>1, AppendProperties
<1>9. ASSUME NEW k \in 1 .. n + 1 PROVE r[k] = a[k]
  <2>1. CASE k \in 1 .. n
    BY <1>2, <1>8, <2>1
  <2>2. CASE k = n + 1
    BY <1>2, <1>8, <2>2
  <2>. QED
    BY <1>1, <2>1, <2>2
<1>. HIDE DEF a, r
<1>10. r = a
  BY <1>7, <1>8, <1>9, SeqEqual
<1>. QED
  BY <1>1, <1>3, <1>5, <1>10 DEF longer, a, r, Mapped

LEMMA SpellType == ASSUME NEW text \in Text, NEW S PROVE Spell(text, S) \in Text
<1>. DEFINE n == Len(text)
            order == InOrder(n, S)
<1>1. text \in Seq(Letters) /\ n \in Nat /\ text \in [1 .. n -> Letters]
  BY TextLen, LenProperties
<1>2. order \in Seq(S \cap 1 .. n)
  BY <1>1, InOrderType
<1>3. Len(order) \in Nat /\ DOMAIN order = 1 .. Len(order) /\ \A k \in 1 .. Len(order) : order[k] \in 1 .. n
  BY <1>2, LenProperties, ElementOfSeq
<1>4. Spell(text, S) = [k \in 1 .. Len(order) |-> text[order[k]]]
  BY <1>3 DEF Spell
<1>. HIDE DEF order, n
<1>5. [k \in 1 .. Len(order) |-> text[order[k]]] \in Seq(Letters)
  BY <1>1, <1>3
<1>. QED
  BY <1>4, <1>5, TextShape

LEMMA SpellNone == ASSUME NEW text \in Text PROVE Spell(text, {}) = <<>>
<1>1. InOrder(Len(text), {}) = <<>>
  BY TextLen, InOrderNone
<1>2. DOMAIN <<>> = {}
  OBVIOUS
<1>. QED
  BY <1>1, <1>2 DEF Spell

LEMMA SpellAdd ==
  ASSUME NEW text \in Text, NEW x \in 1 .. Len(text), NEW S \in SUBSET (1 .. x - 1)
  PROVE  Spell(text, S \cup {x}) = Append(Spell(text, S), text[x])
<1>. DEFINE n == Len(text)
            order == InOrder(n, S)
<1>1. n \in Nat
  BY TextLen
<1>2. order \in Seq(S \cap 1 .. n)
  BY <1>1, InOrderType
<1>3. order \in Seq(1 .. n)
  <2>. HIDE DEF order
  <2>. QED
    BY <1>2, SeqMonotonic
<1>4. InOrder(n, S \cup {x}) = Append(order, x)
  BY <1>1, InOrderAdd
<1>5. Spell(text, S) = Mapped(text, order) /\ Spell(text, S \cup {x}) = Mapped(text, Append(order, x))
  BY <1>4 DEF Spell, Mapped
<1>. DEFINE D == 1 .. n
<1>6. order \in Seq(D) /\ x \in D
  BY <1>3
<1>. HIDE DEF order, D
<1>. QED
  <2>1. Mapped(text, Append(order, x)) = Append(Mapped(text, order), text[x])
    BY <1>6, MapAppend
  <2>. QED
    BY <1>5, <2>1, Zenon

\* Only no positions spell nothing.
LEMMA SpellSome ==
  ASSUME NEW text \in Text, NEW S \in SUBSET (1 .. Len(text)), S # {}
  PROVE  Spell(text, S) # <<>>
<1>. DEFINE n == Len(text)
<1>1. n \in Nat
  BY TextLen
<1>0. \A i \in S : i \in 1 .. n
  OBVIOUS
<1>. HIDE DEF n
<1>2. PICK y \in {n - i : i \in S} : \A z \in {n - i : i \in S} : y <= z
  <2>1. {n - i : i \in S} \in SUBSET Nat /\ {n - i : i \in S} # {}
    <3>1. \A i \in S : n - i \in Nat
      BY <1>0, <1>1
    <3>2. PICK i \in S : TRUE
      OBVIOUS
    <3>. QED
      BY <3>1, <3>2
  <2>. QED
    BY <2>1, Least
<1>3. PICK x \in S : y = n - x
  BY <1>2
<1>4. \A i \in S : i <= x /\ i \in Nat /\ 1 <= i
  <2>. SUFFICES ASSUME NEW i \in S PROVE i <= x /\ i \in Nat /\ 1 <= i
    OBVIOUS
  <2>1. n - x <= n - i
    BY <1>2, <1>3
  <2>. QED
    BY <1>0, <1>1, <1>3, <2>1
<1>5. S \ {x} \in SUBSET (1 .. x - 1) /\ S = (S \ {x}) \cup {x} /\ x \in 1 .. Len(text)
  BY <1>3, <1>4
<1>6. Spell(text, S) = Append(Spell(text, S \ {x}), text[x])
  BY <1>5, SpellAdd
<1>7. Spell(text, S \ {x}) \in Seq(Letters) /\ text[x] \in Letters
  <2>1. Spell(text, S \ {x}) \in Text
    BY SpellType
  <2>. QED
    BY <1>3, <2>1, TextLen, ElementOfSeq
<1>8. Len(Spell(text, S)) = Len(Spell(text, S \ {x})) + 1 /\ Len(Spell(text, S \ {x})) \in Nat
  BY <1>6, <1>7, AppendProperties, LenProperties
<1>9. Len(<<>>) = 0
  BY EmptySeq
<1>. QED
  BY <1>8, <1>9

LEMMA TokensNone == ASSUME NEW text \in Text PROVE TokensAt(text, {}) = <<>>
<1>1. InOrder(Len(text), {}) = <<>>
  BY TextLen, InOrderNone
<1>2. DOMAIN <<>> = {}
  OBVIOUS
<1>. QED
  BY <1>1, <1>2 DEF TokensAt

\* A token that begins after all the others comes last.
LEMMA TokensAdd ==
  ASSUME NEW text \in Text, NEW x \in 1 .. Len(text), NEW S \in SUBSET (1 .. x - 1)
  PROVE  TokensAt(text, S \cup {x}) = Append(TokensAt(text, S), Spell(text, Group(text, x)))
<1>. DEFINE n == Len(text)
            f == [i \in 1 .. n |-> Spell(text, Group(text, i))]
            order == InOrder(n, S)
            longer == InOrder(n, S \cup {x})
<1>1. n \in Nat
  BY TextLen
<1>3. order \in Seq(1 .. n) /\ longer \in Seq(1 .. n)
  <2>1. order \in Seq(S \cap 1 .. n) /\ longer \in Seq((S \cup {x}) \cap 1 .. n)
    BY <1>1, InOrderType
  <2>. HIDE DEF order, longer
  <2>. QED
    BY <2>1, SeqMonotonic
<1>4. longer = Append(order, x)
  BY <1>1, InOrderAdd
<1>5. TokensAt(text, S) = Mapped(f, order)
  <2>1. \A k \in DOMAIN order : order[k] \in 1 .. n
    BY <1>3, LenProperties, ElementOfSeq
  <2>. QED
    BY <2>1 DEF TokensAt, Mapped
<1>6. TokensAt(text, S \cup {x}) = Mapped(f, longer)
  <2>1. \A k \in DOMAIN longer : longer[k] \in 1 .. n
    BY <1>3, LenProperties, ElementOfSeq
  <2>. QED
    BY <2>1 DEF TokensAt, Mapped
<1>7. f[x] = Spell(text, Group(text, x))
  OBVIOUS
<1>. HIDE DEF order, longer, f
<1>8. Mapped(f, longer) = Append(Mapped(f, order), f[x])
  <2>. DEFINE D == 1 .. n
  <2>1. order \in Seq(D) /\ x \in D
    BY <1>3
  <2>. HIDE DEF D
  <2>. QED
    BY <1>4, <2>1, MapAppend
<1>. QED
  BY <1>5, <1>6, <1>7, <1>8

\* Quotes before a character decide what it is.
LEMMA OddNext ==
  ASSUME NEW text \in Text, NEW m \in 0 .. Len(text) - 1
  PROVE  /\ Odd(text, m + 1) <=> IF text[m + 1] = Quote THEN ~Odd(text, m) ELSE Odd(text, m)
         /\ Quoted(text, m + 1) <=> text[m + 1] # Quote /\ Odd(text, m)
<1>. DEFINE Q(i) == {k \in 1 .. i : text[k] = Quote}
<1>1. m \in Nat /\ (m + 1) - 1 = m
  BY TextLen
<1>2. IsFiniteSet(Q(m)) /\ Cardinality(Q(m)) \in Nat
  <2>1. IsFiniteSet(1 .. m)
    BY <1>1, FS_Interval
  <2>2. IsFiniteSet(Q(m))
    BY <2>1, FS_Subset
  <2>. QED
    BY <2>2, FS_CardinalityType
<1>3. CASE text[m + 1] = Quote
  <2>1. Q(m + 1) = Q(m) \cup {m + 1} /\ m + 1 \notin Q(m)
    BY <1>1, <1>3
  <2>2. Cardinality(Q(m + 1)) = Cardinality(Q(m)) + 1
    <3>. HIDE DEF Q
    <3>. QED
      BY <1>2, <2>1, FS_AddElement
  <2>3. \A x \in Nat : ((x + 1) % 2 = 1) <=> ~(x % 2 = 1)
    OBVIOUS
  <2>4. (Cardinality(Q(m + 1)) % 2 = 1) <=> ~(Cardinality(Q(m)) % 2 = 1)
    <3>. HIDE DEF Q
    <3>. QED
      BY <1>2, <2>2, <2>3
  <2>. QED
    BY <1>1, <1>3, <2>4 DEF Odd, Quoted
<1>4. CASE text[m + 1] # Quote
  <2>1. Q(m + 1) = Q(m)
    BY <1>1, <1>4
  <2>. QED
    BY <1>1, <1>4, <2>1 DEF Odd, Quoted
<1>. QED
  BY <1>3, <1>4

LEMMA TogetherIs ==
  ASSUME NEW text, NEW i, NEW j
  PROVE  Together(text, i, j) <=> \A k \in i .. j : ~Breaks(text, k)
  BY DEF Together, Breaks

LEMMA KeptIn ==
  ASSUME NEW text \in Text
  PROVE  Kept(text) \subseteq 1 .. Len(text) /\ Starts(text) \subseteq Kept(text) /\ Len(text) \in Nat
  BY TextLen DEF Kept, Starts

LEMMA TogetherNext ==
  ASSUME NEW text, NEW m \in Nat, NEW i \in 1 .. m + 1
  PROVE  Together(text, i, m + 1) <=> Together(text, i, m) /\ ~Breaks(text, m + 1)
<1>1. \A k : k \in i .. m + 1 <=> k \in i .. m \/ k = m + 1
  OBVIOUS
<1>. QED
  BY <1>1, TogetherIs

\* What is pending begins with a start, after all that is complete.
LEMMA PendingStart ==
  ASSUME NEW text \in Text, NEW m \in 0 .. Len(text), Pending(text, m) # {}
  PROVE  \E p \in Pending(text, m) :
           /\ StartsTo(text, m) = Complete(text, m) \cup {p}
           /\ Complete(text, m) \in SUBSET (1 .. p - 1)
           /\ p \in 1 .. Len(text)
           /\ m = Len(text) \/ Breaks(text, m + 1) => Group(text, p) = Pending(text, m)
<1>. DEFINE H == Pending(text, m)
            n == Len(text)
<1>1. n \in Nat /\ m \in Nat /\ m <= n /\ Kept(text) \subseteq 1 .. n /\ Starts(text) \subseteq Kept(text)
  BY KeptIn
<1>2. ASSUME NEW i \in H PROVE i \in Kept(text) /\ i \in 1 .. m /\ Together(text, i, m)
  BY <1>1 DEF Pending
<1>. HIDE DEF H, n
<1>3. PICK p \in H : \A i \in H : p <= i
  <2>1. H # {} /\ H \in SUBSET Nat
    BY <1>1, <1>2 DEF H
  <2>. QED
    BY <2>1, Least
<1>4. p \in Kept(text) /\ p \in 1 .. m /\ p \in 1 .. n /\ Together(text, p, m)
  BY <1>1, <1>2
<1>5. \A k \in p .. m : ~Breaks(text, k)
  BY <1>4, TogetherIs
<1>6. ASSUME NEW i \in p .. m PROVE Together(text, p, i) /\ Together(text, i, m)
  BY <1>1, <1>4, <1>5, <1>6, TogetherIs
<1>7. p \in Starts(text)
  <2>. SUFFICES ASSUME NEW h \in Kept(text), h < p, Together(text, h, p) PROVE FALSE
    BY <1>4 DEF Starts
  <2>1. h \in Nat /\ h <= m
    BY <1>1, <1>4
  <2>2. Together(text, h, m)
    <3>1. \A k \in h .. m : k \in h .. p \/ k \in p .. m
      BY <1>1, <1>4, <2>1
    <3>. QED
      BY <1>5, <3>1, TogetherIs
  <2>3. h \in H
    BY <2>1, <2>2 DEF Pending, H
  <2>. QED
    BY <1>3, <1>4, <2>1, <2>3
<1>8. ASSUME NEW i \in StartsTo(text, m), i # p PROVE i < p /\ i \in Complete(text, m)
  <2>1. i \in Starts(text) /\ i \in Kept(text) /\ i \in 1 .. m
    BY <1>1 DEF StartsTo
  <2>2. ~(p < i)
    <3>. SUFFICES ASSUME p < i PROVE FALSE
      OBVIOUS
    <3>1. i \in p .. m
      BY <1>4, <2>1
    <3>2. Together(text, p, i)
      BY <1>6, <3>1
    <3>. QED
      BY <1>4, <2>1, <3>2 DEF Starts
  <2>3. i < p
    BY <1>4, <1>8, <2>1, <2>2
  <2>4. ~Together(text, i, m)
    <3>. SUFFICES ASSUME Together(text, i, m) PROVE FALSE
      OBVIOUS
    <3>1. i \in H
      BY <2>1 DEF Pending, H
    <3>. QED
      BY <1>3, <1>4, <2>1, <2>3, <3>1
  <2>. QED
    BY <2>3, <2>4 DEF Complete
<1>9. p \in StartsTo(text, m) /\ p \notin Complete(text, m)
  BY <1>4, <1>7 DEF StartsTo, Complete
<1>10. StartsTo(text, m) = Complete(text, m) \cup {p}
  BY <1>8, <1>9 DEF Complete
<1>11. Complete(text, m) \in SUBSET (1 .. p - 1)
  <2>. SUFFICES ASSUME NEW i \in Complete(text, m) PROVE i \in 1 .. p - 1
    OBVIOUS
  <2>1. i \in StartsTo(text, m) /\ i # p
    BY <1>9 DEF Complete
  <2>2. i \in 1 .. n /\ i < p
    BY <1>1, <1>8, <2>1 DEF StartsTo
  <2>. QED
    BY <1>4, <2>2
<1>12. ASSUME m = n \/ Breaks(text, m + 1) PROVE Group(text, p) = H
  <2>1. ASSUME NEW j \in Group(text, p) PROVE j \in H
    <3>1. CASE j = p
      BY <3>1
    <3>2. CASE j # p
      <4>1. j \in Kept(text) /\ p < j /\ Together(text, p, j) /\ j \in 1 .. n
        BY <1>1, <3>2 DEF Group
      <4>2. j <= m
        <5>. SUFFICES ASSUME m < j PROVE FALSE
          BY <1>1, <4>1
        <5>1. m # n /\ m + 1 \in p .. j
          BY <1>1, <1>4, <4>1
        <5>. QED
          BY <1>12, <4>1, <5>1, TogetherIs
      <4>3. j \in p .. m
        BY <1>4, <4>1, <4>2
      <4>. QED
        BY <1>6, <4>1, <4>2, <4>3 DEF Pending, H
    <3>. QED
      BY <3>1, <3>2
  <2>2. ASSUME NEW i \in H PROVE i \in Group(text, p)
    <3>1. i \in Kept(text) /\ i \in 1 .. m /\ p <= i
      BY <1>2, <1>3
    <3>2. i \in p .. m
      BY <1>4, <3>1
    <3>3. Together(text, p, i)
      BY <1>6, <3>2
    <3>4. i = p \/ p < i
      BY <1>4, <3>1
    <3>. QED
      BY <3>1, <3>3, <3>4 DEF Group
  <2>. QED
    BY <2>1, <2>2
<1>. QED
  BY <1>3, <1>4, <1>10, <1>11, <1>12 DEF H, n

LEMMA PendingNone ==
  ASSUME NEW text \in Text, NEW m \in 0 .. Len(text), Pending(text, m) = {}
  PROVE  StartsTo(text, m) = Complete(text, m)
  BY KeptIn DEF StartsTo, Complete, Pending

\* addToQueue where a token ends completes what is pending.
LEMMA QueuePending ==
  ASSUME NEW text \in Text, NEW m \in 0 .. Len(text), NEW t \in Scans,
         t.ss = Spell(text, Pending(text, m)), t.tokens = TokensAt(text, Complete(text, m)),
         m = Len(text) \/ Breaks(text, m + 1)
  PROVE  /\ AddToQueue(t).inString = t.inString /\ AddToQueue(t).ss = <<>>
         /\ AddToQueue(t).tokens = TokensAt(text, StartsTo(text, m))
<1>1. CASE Pending(text, m) = {}
  <2>1. t.ss = <<>>
    BY <1>1, SpellNone
  <2>. QED
    BY <1>1, <2>1, PendingNone DEF AddToQueue
<1>2. CASE Pending(text, m) # {}
  <2>1. PICK p \in Pending(text, m) :
          /\ StartsTo(text, m) = Complete(text, m) \cup {p}
          /\ Complete(text, m) \in SUBSET (1 .. p - 1)
          /\ p \in 1 .. Len(text)
          /\ Group(text, p) = Pending(text, m)
    BY <1>2, PendingStart
  <2>2. TokensAt(text, StartsTo(text, m)) = Append(t.tokens, t.ss)
    BY <2>1, TokensAdd
  <2>3. t.ss # <<>>
    <3>1. Pending(text, m) \in SUBSET (1 .. Len(text))
      BY KeptIn DEF Pending
    <3>. QED
      BY <1>2, <3>1, SpellSome
  <2>4. AddToQueue(t) = [inString |-> t.inString, ss |-> <<>>, tokens |-> Append(t.tokens, t.ss)]
    BY <2>3 DEF AddToQueue, Scans
  <2>. QED
    BY <2>2, <2>4
<1>. QED
  BY <1>1, <1>2

LEMMA BreakNext ==
  ASSUME NEW text \in Text, NEW m \in 0 .. Len(text) - 1, Breaks(text, m + 1)
  PROVE  /\ Pending(text, m + 1) = {} /\ Complete(text, m + 1) = StartsTo(text, m + 1)
         /\ m + 1 \notin Kept(text) => StartsTo(text, m + 1) = StartsTo(text, m)
         /\ m + 1 \in Kept(text) => /\ StartsTo(text, m + 1) = StartsTo(text, m) \cup {m + 1}
                                    /\ Group(text, m + 1) = {m + 1}
<1>1. Len(text) \in Nat /\ m \in Nat /\ Kept(text) \subseteq 1 .. Len(text) /\ Starts(text) \subseteq Kept(text)
  BY KeptIn
<1>2. ASSUME NEW i \in 1 .. m + 1, NEW j \in Nat, m + 1 <= j PROVE ~Together(text, i, j)
  <2>1. m + 1 \in i .. j
    BY <1>1, <1>2
  <2>. QED
    BY <2>1, TogetherIs
<1>3. ASSUME NEW i \in Kept(text), i <= m + 1 PROVE ~Together(text, i, m + 1)
  <2>1. i \in 1 .. m + 1 /\ m + 1 \in Nat /\ m + 1 <= m + 1
    BY <1>1, <1>3
  <2>. QED
    BY <1>2, <2>1
<1>4. Pending(text, m + 1) = {}
  BY <1>3 DEF Pending
<1>5. Complete(text, m + 1) = StartsTo(text, m + 1)
  BY <1>1, <1>3 DEF Complete, StartsTo
<1>6. \A i \in Nat : i <= m + 1 <=> i <= m \/ i = m + 1
  BY <1>1
<1>7. ASSUME m + 1 \notin Kept(text) PROVE StartsTo(text, m + 1) = StartsTo(text, m)
  BY <1>1, <1>6, <1>7 DEF StartsTo
<1>8. ASSUME m + 1 \in Kept(text)
      PROVE  StartsTo(text, m + 1) = StartsTo(text, m) \cup {m + 1} /\ Group(text, m + 1) = {m + 1}
  <2>1. m + 1 \in Starts(text)
    <3>1. \A h \in Kept(text) : h < m + 1 => h <= m + 1
      BY <1>1
    <3>. QED
      BY <1>3, <1>8, <3>1 DEF Starts
  <2>2. \A j \in Kept(text) : m + 1 < j => ~Together(text, m + 1, j)
    <3>1. m + 1 \in 1 .. m + 1 /\ \A j \in Kept(text) : m + 1 < j => j \in Nat /\ m + 1 <= j
      BY <1>1
    <3>. QED
      BY <1>2, <3>1
  <2>. QED
    BY <1>1, <1>6, <2>1, <2>2 DEF StartsTo, Group
<1>. QED
  BY <1>4, <1>5, <1>7, <1>8

LEMMA NoBreakNext ==
  ASSUME NEW text \in Text, NEW m \in 0 .. Len(text) - 1, ~Breaks(text, m + 1)
  PROVE  /\ Complete(text, m + 1) = Complete(text, m)
         /\ m + 1 \notin Kept(text) => Pending(text, m + 1) = Pending(text, m)
         /\ m + 1 \in Kept(text) => Pending(text, m + 1) = Pending(text, m) \cup {m + 1}
<1>1. Len(text) \in Nat /\ m \in Nat /\ Kept(text) \subseteq 1 .. Len(text) /\ Starts(text) \subseteq Kept(text)
  BY KeptIn
<1>2. \A i \in Nat : i <= m + 1 <=> i <= m \/ i = m + 1
  BY <1>1
<1>3. ASSUME NEW i \in Kept(text), i <= m + 1
      PROVE  Together(text, i, m + 1) <=> Together(text, i, m)
  <2>1. i \in 1 .. m + 1
    BY <1>1, <1>3
  <2>. QED
    BY <1>1, <2>1, TogetherNext
<1>4. Together(text, m + 1, m + 1)
  <2>1. \A k \in m + 1 .. m + 1 : k = m + 1
    BY <1>1
  <2>. QED
    BY <2>1, TogetherIs
<1>. QED
  BY <1>1, <1>2, <1>3, <1>4 DEF Complete, StartsTo, Pending

\* The characters the scan treats alike.
LEMMA CharsDiffer ==
  /\ Delimiters \cap {" ", NewLine} = {" "} /\ Delimiters \ {" ", NewLine} = Operators
  /\ Delimiters = Listed \ {NewLine} /\ Listed = Operators \cup Spaces /\ Spaces = {" ", NewLine}
  /\ Operators \cap Spaces = {} /\ {Quote, "$"} \cap Listed = {} /\ Quote # "$"
<1>1. Delimiters = {delimiters[1], delimiters[2], delimiters[3]}
  <2>1. 1 .. 3 = {1, 2, 3}
    OBVIOUS
  <2>. QED
    BY <2>1 DEF Delimiters
<1>2. Delimiters = {" ", "&", "|"}
  BY <1>1 DEF delimiters
<1>. QED
  BY <1>2 DEF Quote, NewLine, Operators, Spaces, Listed

\* A character that is collected.
LEMMA KeepNext ==
  ASSUME NEW text \in Text, NEW m \in 0 .. Len(text) - 1, NEW t \in Scans,
         t.ss = Spell(text, Pending(text, m)), t.tokens = TokensAt(text, Complete(text, m)),
         ~Breaks(text, m + 1), m + 1 \in Kept(text)
  PROVE  LET r == Keep(t, text[m + 1]) IN
         /\ r.inString = t.inString /\ r.ss = Spell(text, Pending(text, m + 1))
         /\ r.tokens = TokensAt(text, Complete(text, m + 1))
<1>1. Len(text) \in Nat /\ m \in Nat /\ m + 1 \in 1 .. Len(text) /\ Kept(text) \subseteq 1 .. Len(text)
  BY KeptIn
<1>2. Pending(text, m + 1) = Pending(text, m) \cup {m + 1} /\ Complete(text, m + 1) = Complete(text, m)
  BY NoBreakNext
<1>3. Pending(text, m) \in SUBSET (1 .. (m + 1) - 1)
  BY <1>1 DEF Pending
<1>4. Spell(text, Pending(text, m + 1)) = Append(t.ss, text[m + 1])
  BY <1>1, <1>2, <1>3, SpellAdd
<1>5. Keep(t, text[m + 1]) = [inString |-> t.inString, ss |-> Append(t.ss, text[m + 1]), tokens |-> t.tokens]
  BY <1>1, TextLen, ElementOfSeq, KeepIs
<1>. QED
  BY <1>2, <1>4, <1>5

\* An operator: the token before it ends, and it is one of its own.
LEMMA OperatorNext ==
  ASSUME NEW text \in Text, NEW m \in 0 .. Len(text) - 1, NEW t \in Scans,
         t.ss = Spell(text, Pending(text, m)), t.tokens = TokensAt(text, Complete(text, m)),
         Breaks(text, m + 1), m + 1 \in Kept(text)
  PROVE  LET r == AddToQueue(Keep(AddToQueue(t), text[m + 1])) IN
         /\ r.inString = t.inString /\ r.ss = Spell(text, Pending(text, m + 1))
         /\ r.tokens = TokensAt(text, Complete(text, m + 1))
<1>. DEFINE q == AddToQueue(t)
            k == Keep(q, text[m + 1])
            r == AddToQueue(k)
            one == <<text[m + 1]>>
<1>1. /\ Len(text) \in Nat /\ m \in Nat /\ m \in 0 .. Len(text) /\ m + 1 \in 1 .. Len(text)
      /\ Kept(text) \subseteq 1 .. Len(text) /\ Starts(text) \subseteq Kept(text) /\ text[m + 1] \in Letters
  BY KeptIn, TextLen, ElementOfSeq
<1>2. q.inString = t.inString /\ q.ss = <<>> /\ q.tokens = TokensAt(text, StartsTo(text, m)) /\ q \in Scans
  BY <1>1, QueuePending, AddToQueueType
<1>3. /\ Pending(text, m + 1) = {} /\ Complete(text, m + 1) = StartsTo(text, m + 1)
      /\ StartsTo(text, m + 1) = StartsTo(text, m) \cup {m + 1} /\ Group(text, m + 1) = {m + 1}
  BY BreakNext
<1>4. Spell(text, {m + 1}) = one
  <2>1. Spell(text, {} \cup {m + 1}) = Append(Spell(text, {}), text[m + 1])
    BY <1>1, SpellAdd
  <2>2. {} \cup {m + 1} = {m + 1} /\ Append(<<>>, text[m + 1]) = one
    OBVIOUS
  <2>. QED
    BY <2>1, <2>2, SpellNone
<1>5. StartsTo(text, m) \in SUBSET (1 .. (m + 1) - 1)
  BY <1>1 DEF StartsTo
<1>. HIDE DEF q, one
<1>6. TokensAt(text, Complete(text, m + 1)) = Append(q.tokens, one)
  <2>1. TokensAt(text, StartsTo(text, m) \cup {m + 1})
          = Append(TokensAt(text, StartsTo(text, m)), Spell(text, Group(text, m + 1)))
    BY <1>1, <1>5, TokensAdd
  <2>. QED
    BY <1>2, <1>3, <1>4, <2>1
<1>7. k = [inString |-> q.inString, ss |-> one, tokens |-> q.tokens]
  <2>1. \A c : Keep(q, c) = [inString |-> q.inString, ss |-> Append(q.ss, c), tokens |-> q.tokens]
    BY <1>2 DEF Keep, Scans
  <2>. QED
    BY <1>2, <2>1 DEF one
<1>8. one # <<>>
  BY DEF one
<1>. HIDE DEF k
<1>9. r = [inString |-> q.inString, ss |-> <<>>, tokens |-> Append(q.tokens, one)]
  BY <1>7, <1>8 DEF AddToQueue
<1>10. Spell(text, Pending(text, m + 1)) = <<>>
  BY <1>3, SpellNone
<1>. HIDE DEF r
<1>11. r.inString = t.inString /\ r.ss = <<>> /\ r.tokens = Append(q.tokens, one)
  BY <1>2, <1>9
<1>. QED
  BY <1>6, <1>10, <1>11 DEF r, k, q, one

\* A character that only ends a token.
LEMMA EndNext ==
  ASSUME NEW text \in Text, NEW m \in 0 .. Len(text) - 1, NEW t \in Scans,
         t.ss = Spell(text, Pending(text, m)), t.tokens = TokensAt(text, Complete(text, m)),
         Breaks(text, m + 1), m + 1 \notin Kept(text)
  PROVE  LET r == AddToQueue(t) IN
         /\ r.inString = t.inString /\ r.ss = Spell(text, Pending(text, m + 1))
         /\ r.tokens = TokensAt(text, Complete(text, m + 1))
<1>1. m \in 0 .. Len(text)
  BY KeptIn
<1>2. Spell(text, Pending(text, m + 1)) = <<>> /\ Complete(text, m + 1) = StartsTo(text, m)
  BY BreakNext, SpellNone
<1>. QED
  BY <1>1, <1>2, QueuePending

LEMMA ScanNext ==
  ASSUME NEW text \in Text, NEW m \in 0 .. Len(text) - 1, text[m + 1] # NewLine, ScanInv(text, m)
  PROVE  ScanInv(text, m + 1)
<1>. DEFINE t == Scan(text)[m]
            r == Scan(text)[m + 1]
            c == text[m + 1]
<1>1. /\ Len(text) \in Nat /\ m \in Nat /\ m \in 0 .. Len(text) /\ m + 1 \in 1 .. Len(text) /\ (m + 1) - 1 = m
      /\ DOMAIN text = 1 .. Len(text)
  BY TextLen
<1>2. t \in Scans /\ r = Consume(t, c)
  BY <1>1, ScanSteps
<1>3. (t.inString <=> Odd(text, m)) /\ t.ss = Spell(text, Pending(text, m)) /\ t.tokens = TokensAt(text, Complete(text, m))
  BY DEF ScanInv
<1>. HIDE DEF t, r
<1>4. t.inString \in BOOLEAN
  BY <1>2 DEF Scans
<1>5. /\ Odd(text, m + 1) <=> IF c = Quote THEN ~t.inString ELSE t.inString
      /\ Quoted(text, m + 1) <=> c # Quote /\ t.inString
  BY <1>3, OddNext
<1>6. Breaks(text, m + 1) <=> c = Quote \/ (~t.inString /\ c \in Delimiters)
  BY <1>5, CharsDiffer DEF Breaks
<1>7. m + 1 \in Kept(text) <=> c # Quote /\ (t.inString \/ c \notin {" ", "$"})
  BY <1>1, <1>5, CharsDiffer DEF Kept
<1>0. c # NewLine
  OBVIOUS
<1>8. SUFFICES /\ r.inString <=> IF c = Quote THEN ~t.inString ELSE t.inString
               /\ r.ss = Spell(text, Pending(text, m + 1))
               /\ r.tokens = TokensAt(text, Complete(text, m + 1))
  BY <1>5 DEF ScanInv, r
<1>. HIDE DEF c
<1>9. CASE c = Quote
  <2>. DEFINE u == [t EXCEPT !.inString = ~t.inString]
  <2>1. r = AddToQueue(u)
    <3>1. CASE t.inString
      <4>1. t.inString = TRUE
        BY <1>4, <3>1
      <4>2. u = [t EXCEPT !.inString = FALSE]
        BY <4>1
      <4>. QED
        BY <1>2, <1>9, <3>1, <4>2 DEF Consume
    <3>2. CASE ~t.inString
      <4>1. u = [t EXCEPT !.inString = TRUE]
        BY <3>2
      <4>. QED
        BY <1>2, <1>9, <3>2, <4>1, CharsDiffer DEF Consume
    <3>. QED
      BY <3>1, <3>2
  <2>2. u \in Scans /\ u.inString = ~t.inString /\ u.ss = t.ss /\ u.tokens = t.tokens
    BY <1>2, <1>4 DEF Scans
  <2>. HIDE DEF u
  <2>3. Breaks(text, m + 1) /\ m + 1 \notin Kept(text)
    BY <1>6, <1>7, <1>9
  <2>. QED
    BY <1>3, <1>9, <2>1, <2>2, <2>3, EndNext
<1>10. CASE c # Quote /\ t.inString
  <2>1. r = Keep(t, c)
    BY <1>2, <1>10 DEF Consume
  <2>2. ~Breaks(text, m + 1) /\ m + 1 \in Kept(text)
    BY <1>6, <1>7, <1>10
  <2>. QED
    BY <1>2, <1>3, <1>10, <2>1, <2>2, KeepNext DEF c
<1>11. CASE ~t.inString /\ c = "$"
  <2>1. r = t
    BY <1>2, <1>11, CharsDiffer DEF Consume
  <2>2. c # Quote /\ ~Breaks(text, m + 1) /\ m + 1 \notin Kept(text)
    BY <1>6, <1>7, <1>11, CharsDiffer
  <2>. QED
    BY <1>3, <2>1, <2>2, NoBreakNext
<1>12. CASE ~t.inString /\ c = " "
  <2>1. c # Quote /\ c # "$"
    BY <1>12, CharsDiffer
  <2>2. r = AddToQueue(t)
    BY <1>2, <1>12, <2>1, CharsDiffer DEF Consume
  <2>3. Breaks(text, m + 1) /\ m + 1 \notin Kept(text)
    BY <1>6, <1>7, <1>12, CharsDiffer
  <2>. QED
    BY <1>2, <1>3, <2>1, <2>2, <2>3, EndNext
<1>13. CASE ~t.inString /\ c \in Operators
  <2>1. c # Quote /\ c # "$" /\ c # " " /\ c \in Delimiters
    BY <1>13, CharsDiffer
  <2>2. r = AddToQueue(Keep(AddToQueue(t), c))
    BY <1>2, <1>13, <2>1, CharsDiffer DEF Consume
  <2>3. Breaks(text, m + 1) /\ m + 1 \in Kept(text)
    BY <1>6, <1>7, <1>13, <2>1
  <2>. QED
    BY <1>2, <1>3, <2>1, <2>2, <2>3, OperatorNext DEF c
<1>14. CASE ~t.inString /\ c # Quote /\ c # "$" /\ c \notin Delimiters
  <2>1. c # " "
    BY <1>14, CharsDiffer
  <2>2. r = Keep(t, c)
    BY <1>2, <1>14, <2>1 DEF Consume
  <2>3. ~Breaks(text, m + 1) /\ m + 1 \in Kept(text)
    BY <1>6, <1>7, <1>14, <2>1
  <2>. QED
    BY <1>2, <1>3, <1>14, <2>2, <2>3, KeepNext DEF c
<1>15. c \in Delimiters => c = " " \/ c \in Operators
  BY CharsDiffer
<1>. QED
  BY <1>9, <1>10, <1>11, <1>12, <1>13, <1>14, <1>15

LEMMA ScanFirst == ASSUME NEW text \in Text PROVE ScanInv(text, 0)
<1>1. Scan(text)[0] = [inString |-> FALSE, ss |-> <<>>, tokens |-> <<>>]
  BY ScanSteps
<1>2. ~Odd(text, 0)
  <2>1. {k \in 1 .. 0 : text[k] = Quote} = {}
    OBVIOUS
  <2>2. Cardinality({k \in 1 .. 0 : text[k] = Quote}) = 0
    BY <2>1, FS_EmptySet
  <2>. QED
    BY <2>2 DEF Odd
<1>3. Pending(text, 0) = {} /\ Complete(text, 0) = {}
  BY KeptIn DEF Pending, Complete, StartsTo
<1>4. Spell(text, Pending(text, 0)) = <<>> /\ TokensAt(text, Complete(text, 0)) = <<>>
  BY <1>3, SpellNone, TokensNone
<1>5. Scan(text)[0].inString = FALSE /\ Scan(text)[0].ss = <<>> /\ Scan(text)[0].tokens = <<>>
  BY <1>1
<1>. QED
  BY <1>2, <1>4, <1>5 DEF ScanInv

\* Texts without a newline.
Bodies == {text \in Text : \A k \in 1 .. Len(text) : text[k] # NewLine}

LEMMA ScanAlways == ASSUME NEW text \in Bodies PROVE ScanInv(text, Len(text))
<1>. DEFINE U == {m \in Nat : ScanInv(text, m)}
<1>0. text \in Text
  BY DEF Bodies
<1>1. Len(text) \in Nat
  BY <1>0, TextLen
<1>2. 0 \in U
  BY <1>0, ScanFirst
<1>3. \A m \in 0 .. Len(text) - 1 : m \in U => m + 1 \in U
  <2>1. ASSUME NEW m \in 0 .. Len(text) - 1, ScanInv(text, m) PROVE ScanInv(text, m + 1)
    <3>1. m + 1 \in 1 .. Len(text)
      BY <1>1
    <3>2. text[m + 1] # NewLine
      BY <3>1 DEF Bodies
    <3>. QED
      BY <1>0, <2>1, <3>2, ScanNext
  <2>. QED
    BY <1>1, <2>1
<1>4. \A m \in 0 .. Len(text) : m \in U
  <2>. HIDE DEF U
  <2>. QED
    BY <1>1, <1>2, <1>3, UpTo
<1>. QED
  BY <1>1, <1>4

\* tokenize computes what ReferenceTokens says, for every text without a newline.
LEMMA TokenizeCorrect == ASSUME NEW text \in Bodies PROVE Tokenize(text) = ReferenceTokens(text)
<1>. DEFINE n == Len(text)
            t == Scan(text)[n]
<1>1. text \in Text /\ n \in Nat /\ n \in 0 .. n
  BY TextLen DEF Bodies
<1>2. t \in Scans
  BY <1>1, ScanSteps
<1>3. t.ss = Spell(text, Pending(text, n)) /\ t.tokens = TokensAt(text, Complete(text, n))
  BY ScanAlways DEF ScanInv
<1>4. AddToQueue(t).tokens = TokensAt(text, StartsTo(text, n))
  BY <1>1, <1>2, <1>3, QueuePending
<1>5. StartsTo(text, n) = Starts(text)
  BY <1>1, KeptIn DEF StartsTo
<1>6. ReferenceTokens(text) = TokensAt(text, Starts(text))
  BY DEF ReferenceTokens, TokensAt
<1>. QED
  BY <1>4, <1>5, <1>6 DEF Tokenize

LEMMA ReferenceOfNothing == ReferenceTokens(<<>>) = <<>>
<1>1. <<>> \in Text /\ Len(<<>>) = 0
  BY TextShape, EmptySeq
<1>2. Starts(<<>>) = {}
  BY <1>1, KeptIn
<1>3. ReferenceTokens(<<>>) = TokensAt(<<>>, {})
  BY <1>2 DEF ReferenceTokens, TokensAt
<1>. QED
  BY <1>1, <1>3, TokensNone

\* The newline at the end of a line changes nothing before it.
LEMMA ScanBody ==
  ASSUME NEW body \in Text, NEW text \in Text, text = Append(body, NewLine)
  PROVE  Scan(text)[Len(body)] = Scan(body)[Len(body)]
<1>. DEFINE n == Len(body)
            U == {m \in Nat : m <= n => Scan(text)[m] = Scan(body)[m]}
<1>0. body \in Seq(Letters) /\ NewLine \in Letters
  BY TextShape DEF Letters
<1>1. /\ n \in Nat /\ Len(text) = n + 1
      /\ \A m \in 1 .. n : text[m] = body[m]
  BY <1>0, AppendProperties, LenProperties
<1>2. 0 \in U
  BY ScanSteps
<1>3. \A m \in 0 .. n - 1 : m \in U => m + 1 \in U
  <2>1. ASSUME NEW m \in 0 .. n - 1, Scan(text)[m] = Scan(body)[m]
        PROVE  Scan(text)[m + 1] = Scan(body)[m + 1]
    <3>1. m + 1 \in 1 .. n /\ m + 1 \in 1 .. Len(text) /\ (m + 1) - 1 = m
      BY <1>1
    <3>2. Scan(text)[m + 1] = Consume(Scan(text)[m], text[m + 1])
      BY <3>1, ScanSteps
    <3>3. Scan(body)[m + 1] = Consume(Scan(body)[m], body[m + 1])
      BY <3>1, ScanSteps
    <3>. QED
      BY <1>1, <2>1, <3>1, <3>2, <3>3
  <2>. QED
    BY <1>1, <2>1
<1>4. \A m \in 0 .. n : m \in U
  <2>. HIDE DEF U
  <2>. QED
    BY <1>1, <1>2, <1>3, UpTo
<1>. QED
  BY <1>1, <1>4

\* What taking away the last character and the last member does.
LEMMA EndOf ==
  ASSUME NEW S, NEW seq \in Seq(S), NEW e \in S
  PROVE  /\ Last(Append(seq, e)) = e /\ Front(Append(seq, e)) = seq
         /\ Len(Append(seq, e)) = Len(seq) + 1 /\ Len(seq) \in Nat
         /\ Append(seq, e) # <<>>
<1>1. /\ Len(seq) \in Nat /\ Len(Append(seq, e)) = Len(seq) + 1
      /\ Append(seq, e)[Len(seq) + 1] = e /\ Append(seq, e) \in Seq(S)
      /\ \A k \in 1 .. Len(seq) : Append(seq, e)[k] = seq[k]
  BY AppendProperties, LenProperties
<1>2. Last(Append(seq, e)) = e
  BY <1>1 DEF Last
<1>3. Front(Append(seq, e)) = seq
  BY <1>1 DEF Front
<1>4. Append(seq, e) # <<>>
  BY <1>1
<1>. QED
  BY <1>1, <1>2, <1>3, <1>4

\* The newline ends up at the end of the last token, or as a token of its own.
LEMMA NewLineKept ==
  ASSUME NEW body \in Text
  PROVE  LET toks == Tokenize(Append(body, NewLine))
         IN  Last(Last(toks)) = NewLine /\ Chomped(toks) = Tokenize(body)
<1>. DEFINE text == Append(body, NewLine)
            t == Scan(body)[Len(body)]
            u == Scan(text)[Len(text)]
            last == Append(t.ss, NewLine)
<1>1. NewLine \in Letters /\ body \in Seq(Letters)
  BY TextShape DEF Letters
<1>2. text \in Text /\ Len(text) = Len(body) + 1 /\ text[Len(body) + 1] = NewLine /\ Len(body) \in Nat
  BY <1>1, TextShape, AppendProperties, LenProperties
<1>3. t \in Scans
  <2>1. Len(body) \in 0 .. Len(body)
    BY <1>2
  <2>. QED
    BY <2>1, ScanSteps
<1>4. u = Consume(t, NewLine)
  <2>1. Len(text) \in 1 .. Len(text) /\ Len(text) - 1 = Len(body)
    BY <1>2
  <2>. HIDE DEF text
  <2>2. u = Consume(Scan(text)[Len(body)], NewLine)
    BY <1>2, <2>1, ScanSteps
  <2>3. Scan(text)[Len(body)] = t
    BY <1>2, ScanBody DEF text
  <2>. QED
    BY <2>2, <2>3
<1>. HIDE DEF t, u, text
<1>5. u = Keep(t, NewLine)
  <2>1. NewLine # Quote /\ NewLine # "$"
    BY CharsDiffer
  <2>2. NewLine \notin Delimiters
    BY CharsDiffer
  <2>3. t.inString \in BOOLEAN
    BY <1>3 DEF Scans
  <2>. QED
    BY <1>4, <2>1, <2>2, <2>3 DEF Consume
<1>6. u = [inString |-> t.inString, ss |-> last, tokens |-> t.tokens]
  BY <1>1, <1>3, <1>5, KeepIs
<1>7. t.ss \in Seq(Letters) /\ t.tokens \in Seq(Tokens)
  BY <1>3, TextShape DEF Scans
<1>8. /\ Last(last) = NewLine /\ Front(last) = t.ss /\ Len(last) = Len(t.ss) + 1
      /\ Len(t.ss) \in Nat /\ last # <<>>
  BY <1>1, <1>7, EndOf
<1>9. last \in Tokens
  <2>1. last \in Seq(Letters)
    BY <1>1, <1>7, AppendProperties
  <2>. QED
    BY <1>8, <2>1, TextShape DEF Tokens
<1>. HIDE DEF last
<1>10. Tokenize(text) = Append(t.tokens, last)
  <2>1. AddToQueue(u) = [u EXCEPT !.tokens = Append(@, u.ss), !.ss = <<>>]
    BY <1>6, <1>8 DEF AddToQueue
  <2>2. AddToQueue(u).tokens = Append(t.tokens, last)
    BY <1>6, <2>1
  <2>. QED
    BY <2>2 DEF Tokenize, u
<1>11. Last(Append(t.tokens, last)) = last /\ Front(Append(t.tokens, last)) = t.tokens
  BY <1>7, <1>9, EndOf
<1>12. Tokenize(body) = IF t.ss = <<>> THEN t.tokens ELSE Append(t.tokens, t.ss)
  <2>1. Tokenize(body) = AddToQueue(t).tokens
    BY DEF Tokenize, t
  <2>2. t.ss # <<>> => AddToQueue(t).tokens = Append(t.tokens, t.ss)
    BY <1>3 DEF AddToQueue, Scans
  <2>3. t.ss = <<>> => AddToQueue(t).tokens = t.tokens
    BY DEF AddToQueue
  <2>. QED
    BY <2>1, <2>2, <2>3
<1>13. Len(last) = 1 <=> t.ss = <<>>
  BY <1>7, <1>8, EmptySeq
<1>14. Chomped(Tokenize(text)) = Tokenize(body)
  BY <1>8, <1>10, <1>11, <1>12, <1>13 DEF Chomped
<1>. QED
  BY <1>8, <1>10, <1>11, <1>14 DEF text

\* What getline returns: a text without a newline, and one after it or not.
LEMMA LineIs ==
  ASSUME NEW text \in Lines
  PROVE  \E body \in Bodies : text = Append(body, NewLine) \/ (text = body /\ body # <<>>)
<1>1. PICK body \in SeqOf(Chars, MaxLine), end \in {<<NewLine>>, <<>>} : text = body \o end /\ text # <<>>
  BY DEF Lines
<1>2. body \in Seq(Chars)
  BY DEF SeqOf
<1>3. body \in Seq(Letters) /\ Len(body) \in Nat /\ \A k \in 1 .. Len(body) : body[k] \in Chars
  BY <1>2 DEF Letters
<1>4. NewLine \notin Chars
  BY DEF NewLine, Chars, Quote
<1>5. body \in Bodies
  BY <1>3, <1>4, TextShape DEF Bodies
<1>6. CASE end = <<NewLine>>
  <2>1. NewLine \in Letters
    BY DEF Letters
  <2>2. body \o <<NewLine>> = Append(body, NewLine)
    BY <1>3, <2>1
  <2>. QED
    BY <1>1, <1>5, <1>6, <2>2
<1>7. CASE end = <<>>
  <2>1. text = body
    BY <1>1, <1>2, <1>7, ConcatEmptySeq
  <2>. QED
    BY <1>1, <1>5, <2>1
<1>. QED
  BY <1>6, <1>7

\* Every line is split as ReferenceTokens says, but for its newline: quotes keep what
\* is between them together, operators stand alone, and nothing else is lost or
\* added; the newline is where a count of three delimiters leaves it
\* (token.cpp:8, 30).
THEOREM TokensAlwaysAsReference == Spec => []TokensAsReference
<1>1. line = <<>> /\ tokens = <<>> => TokensAsReference
  BY ReferenceOfNothing DEF TokensAsReference
<1>2. Init => TokensAsReference
  BY <1>1 DEF Init
<1>3. TokensAsReference /\ [Next]_vars => TokensAsReference'
  <2>. SUFFICES ASSUME TokensAsReference, [Next]_vars PROVE TokensAsReference'
    OBVIOUS
  <2>1. CASE ReadLine
    <3>1. line' \in Lines /\ tokens' = Tokenize(line')
      BY <2>1 DEF ReadLine
    <3>2. PICK body \in Bodies : line' = Append(body, NewLine) \/ (line' = body /\ body # <<>>)
      BY <3>1, LineIs
    <3>3. body \in Text /\ body \in Seq(Letters) /\ NewLine \in Letters /\ Len(body) \in Nat
      BY TextShape, TextLen DEF Bodies, Letters
    <3>4. Tokenize(body) = ReferenceTokens(body)
      BY TokenizeCorrect
    <3>5. CASE line' = Append(body, NewLine)
      <4>1. line' # <<>> /\ Last(line') = NewLine /\ Front(line') = body
        BY <3>3, <3>5, EndOf
      <4>2. Last(Last(tokens')) = NewLine /\ Chomped(tokens') = Tokenize(body)
        BY <3>1, <3>3, <3>5, NewLineKept
      <4>. QED
        BY <3>4, <4>1, <4>2 DEF TokensAsReference
    <3>6. CASE line' = body /\ body # <<>>
      <4>1. Len(body) \in 1 .. Len(body)
        BY <3>3, <3>6, EmptySeq
      <4>2. Last(line') # NewLine
        BY <3>6, <4>1 DEF Last, Bodies
      <4>. QED
        BY <3>1, <3>4, <3>6, <4>2 DEF TokensAsReference
    <3>. QED
      BY <3>2, <3>5, <3>6
  <2>2. CASE LineDone
    <3>1. line' = <<>> /\ tokens' = <<>>
      BY <2>2 DEF LineDone
    <3>. QED
      BY <3>1, ReferenceOfNothing DEF TokensAsReference
  <2>3. CASE UNCHANGED <<line, tokens>>
    BY <2>3 DEF TokensAsReference
  <2>. QED
    BY <2>1, <2>2, <2>3 DEF Next, EndOfInput, StartJob, StartJobFails, NullName, vars
<1>. QED
  BY <1>2, <1>3, PTL DEF Spec
=============================================================================

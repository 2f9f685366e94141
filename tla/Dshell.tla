-------------------------------- MODULE Dshell --------------------------------
(***************************************************************************)
(* dshell: a line is split into tokens (token.cpp), tokens are put         *)
(* together again into jobs at each "&" (command.cpp), and each job is     *)
(* started with popen (job.cpp, dshell.cpp).                               *)
(*                                                                         *)
(* A character is a string of length one; a text is a sequence of them.    *)
(* Lines do not depend on each other: what one started is forgotten when   *)
(* its tokens are freed.  dshell reads nothing back from what it started.  *)
(***************************************************************************)
EXTENDS Naturals, Sequences, FiniteSets, SequencesExt

CONSTANT MaxLine  \* bound on the length of a line, its newline not counted

ASSUME DshellAssumption == MaxLine \in Nat

Quote == "\""
NewLine == "\n"
Chars == {"a", "b", " ", "&", "|", "$", Quote}

\* What getline can return: a line, or the end of the input without a newline.
Lines ==
  {body \o end : body \in SeqOf(Chars, MaxLine), end \in {<<NewLine>>, <<>>}} \ {<<>>}

\* delimiters, as they are listed.
delimiters == <<" ", "&", "|", NewLine>>

\* Fault: delimiterCount is one less.
DelimitersTwo == {delimiters[k] : k \in 1 .. 2}

\* The first delimiterCount of them.
Delimiters == {delimiters[k] : k \in 1 .. 3}

-----------------------------------------------------------------------------
(* token.cpp.  t is the state of the scan: whether it is inside quotes, the *)
(* text collected, the tokens so far.                                      *)

\* Fault: an empty text becomes a token.
AddToQueueEmpty(t) == [t EXCEPT !.tokens = Append(@, t.ss), !.ss = <<>>]

\* addToQueue.
AddToQueue(t) ==
  IF t.ss = <<>> THEN t ELSE [t EXCEPT !.tokens = Append(@, t.ss), !.ss = <<>>]

Keep(t, c) == [t EXCEPT !.ss = Append(@, c)]

\* The body of tokenize's loop.  A dollar sign outside quotes is passed over.
Consume(t, c) ==
  CASE t.inString -> IF c = Quote THEN AddToQueue([t EXCEPT !.inString = FALSE]) ELSE Keep(t, c)
    [] ~t.inString /\ c = "$" -> t
    [] ~t.inString /\ c = Quote -> AddToQueue([t EXCEPT !.inString = TRUE])
    [] ~t.inString /\ c \in Delimiters \cap {" ", NewLine} -> AddToQueue(t)
    [] ~t.inString /\ c \in Delimiters \ {" ", NewLine} -> AddToQueue(Keep(AddToQueue(t), c))
    [] OTHER -> Keep(t, c)

\* tokenize's loop: the scan after each number of characters of a line.
Scan(text) ==
  LET scan[i \in 0 .. Len(text)] ==
        IF i = 0 THEN [inString |-> FALSE, ss |-> <<>>, tokens |-> <<>>]
        ELSE Consume(scan[i - 1], text[i])
  IN  scan

Tokenize(text) == AddToQueue(Scan(text)[Len(text)]).tokens

-----------------------------------------------------------------------------
(* command.cpp and job.cpp.                                                *)

\* A splitter is recognised by its text, so a quoted "&" is one too.
Splitter == <<"&">>

\* The body of handleCommand's loop.
Collect(s, tok) ==
  IF tok = Splitter THEN [jobs |-> Append(s.jobs, s.ss), ss |-> <<>>]
  ELSE [s EXCEPT !.ss = @ \o tok \o <<" ">>]

\* The loop after each number of tokens.
Splits(toks) ==
  LET split[i \in 0 .. Len(toks)] ==
        IF i = 0 THEN [jobs |-> <<>>, ss |-> <<>>] ELSE Collect(split[i - 1], toks[i])
  IN  split

\* A text for each splitter, and what is left.
Split(toks) == Splits(toks)[Len(toks)]

\* Fault: what is left after the last splitter becomes a job even if empty.
JobTextsEager(toks) == Append(Split(toks).jobs, Split(toks).ss)

\* Fault: what is left after the last splitter is forgotten.
JobTextsCut(toks) == Split(toks).jobs

\* What is left is a job unless it is empty.
JobTexts(toks) == Split(toks).jobs \o (IF Split(toks).ss = <<>> THEN <<>> ELSE <<Split(toks).ss>>)

\* What a pointer into a string that is gone may show instead of a text.
Garbage == <<"?">>

\* handleCommand copies each text through such a pointer.
Jobs(toks) ==
  LET texts == JobTexts(toks)
  IN  {[k \in DOMAIN texts |-> IF k \in lost THEN Garbage ELSE texts[k]] :
         lost \in SUBSET DOMAIN texts}

\* strtok's delimiters in jobFromString.
Blanks == {" ", NewLine}

\* The first word of the text goes from i to j.
IsFirstWord(text, i, j) ==
  /\ i <= j
  /\ \A k \in i .. j : text[k] \notin Blanks
  /\ \A k \in 1 .. i - 1 : text[k] \in Blanks
  /\ j < Len(text) => text[j + 1] \in Blanks

\* The first word of a text is the program's name; a set, empty if there is
\* no word.
JobName(text) ==
  LET positions == 1 .. Len(text)
  IN  {SubSeq(text, at[1], at[2]) :
         at \in {p \in positions \X positions : IsFirstWord(text, p[1], p[2])}}

-----------------------------------------------------------------------------
VARIABLES
  state,    \* "read" at getline, "start" in the loop over jobs, or how it ended
  line,     \* the last line read
  tokens,   \* its tokens
  jobs,     \* the jobs not started yet
  started,  \* the names of the jobs this line started
  failed    \* history: a job of this line did not complete successfully

vars == <<state, line, tokens, jobs, started, failed>>

Text == Seq(Chars \cup {NewLine, "?"})

TypeOK ==
  /\ state \in {"read", "start", "ended", "nullname", "nullstream"}
  /\ line \in Text /\ tokens \in Seq(Text \ {<<>>}) /\ jobs \in Seq(Text)
  /\ started \in Seq(Text \ {<<>>}) /\ failed \in BOOLEAN

Init ==
  /\ state = "read"
  /\ line = <<>> /\ tokens = <<>> /\ jobs = <<>> /\ started = <<>> /\ failed = FALSE

\* main: getline, tokenize, handleCommand.
ReadLine ==
  /\ state = "read"
  /\ line' \in Lines
  /\ tokens' = Tokenize(line')
  /\ jobs' \in Jobs(tokens')
  /\ state' = "start"
  /\ UNCHANGED <<started, failed>>

EndOfInput ==
  state = "read" /\ state' = "ended" /\ UNCHANGED <<line, tokens, jobs, started, failed>>

\* jobFromString and startProcess.  popen is given the name alone, and a stream
\* to write to, so that reading from it ends at once: nothing waits for the job
\* or asks how it ended.
StartJob ==
  /\ state = "start" /\ jobs # <<>>
  /\ \E name \in JobName(Head(jobs)) : started' = Append(started, name)
  /\ jobs' = Tail(jobs)
  /\ failed' \in {failed, TRUE}
  /\ UNCHANGED <<state, line, tokens>>

\* popen fails, as it does when no descriptor is left, for streams are never
\* closed; getline on the NULL stream ends dshell.
StartJobFails ==
  /\ state = "start" /\ jobs # <<>>
  /\ JobName(Head(jobs)) # {}
  /\ state' = "nullstream"
  /\ UNCHANGED <<line, tokens, jobs, started, failed>>

\* There is no word in the job, and strlen(NULL) ends dshell.
NullName ==
  /\ state = "start" /\ jobs # <<>>
  /\ JobName(Head(jobs)) = {} \/ Head(jobs) = Garbage
  /\ state' = "nullname"
  /\ UNCHANGED <<line, tokens, jobs, started, failed>>

\* The loop over the jobs ends and the tokens are freed.
LineDone ==
  /\ state = "start" /\ jobs = <<>>
  /\ state' = "read"
  /\ line' = <<>> /\ tokens' = <<>> /\ started' = <<>> /\ failed' = FALSE
  /\ UNCHANGED jobs

Next == ReadLine \/ EndOfInput \/ StartJob \/ StartJobFails \/ NullName \/ LineDone

Spec == Init /\ [][Next]_vars

-----------------------------------------------------------------------------
(* What a token is, without a scan.                                        *)

\* What the list of delimiters names: they end a token, and the operators among
\* them are tokens of their own (token.cpp:9, 66).
Operators == {"&", "|"}
Spaces == {" ", NewLine}
Listed == Operators \cup Spaces

Quoted(text, i) ==
  text[i] # Quote /\ Cardinality({k \in 1 .. i - 1 : text[k] = Quote}) % 2 = 1

\* The positions that show up in a token.
Kept(text) ==
  {i \in DOMAIN text : text[i] # Quote /\ (Quoted(text, i) \/ text[i] \notin Spaces \cup {"$"})}

\* Nothing from i to j ends a token.
Together(text, i, j) ==
  \A k \in i .. j : text[k] # Quote /\ (Quoted(text, k) \/ text[k] \notin Listed)

\* A sequence of members of S goes on with i if that is one.
Extended(seq, i, S) == IF i \in S THEN Append(seq, i) ELSE seq

\* The numbers from 1 to n that are in S, in order.
InOrder(n, S) ==
  LET upto[i \in 0 .. n] == IF i = 0 THEN <<>> ELSE Extended(upto[i - 1], i, S)
  IN  upto[n]

\* The characters at the positions in S.
Spell(text, S) ==
  LET at == InOrder(Len(text), S) IN [k \in DOMAIN at |-> text[at[k]]]

\* The positions of the token that begins at i.
Group(text, i) == {i} \cup {j \in Kept(text) : i < j /\ Together(text, i, j)}

\* The positions where a token begins.
Starts(text) == {i \in Kept(text) : \A h \in Kept(text) : h < i => ~Together(text, h, i)}

\* The tokens are the groups of positions that belong together, in order; an
\* operator is a token of its own.
ReferenceTokens(text) ==
  LET order == InOrder(Len(text), Starts(text))
  IN  [k \in DOMAIN order |-> Spell(text, Group(text, order[k]))]

\* Tokens without their last character, and without the last of them if that was
\* all of it.
Chomped(toks) ==
  LET last == Last(toks)
  IN  IF Len(last) = 1 THEN Front(toks) ELSE Append(Front(toks), Front(last))

\* tokenize splits what is typed before Enter as the definition above does
\* (token.cpp:23).  The newline, though it is in the list of delimiters, ends no
\* token: with a count of three (token.cpp:8) it is the last character of the last
\* token, or a token of its own, and jobFromString has to deal with it.
TokensAsReference ==
  IF line # <<>> /\ Last(line) = NewLine
  THEN /\ Last(Last(tokens)) = NewLine
       /\ Chomped(tokens) = ReferenceTokens(Front(line))
  ELSE tokens = ReferenceTokens(line)

-----------------------------------------------------------------------------
(* What the jobs of a line are, without collecting texts.                  *)

\* A token with something to run in it.
IsWord(tok) == tok # Splitter /\ \E k \in DOMAIN tok : tok[k] \notin Blanks

SplitterIn(toks, i, j) == \E h \in i .. j : toks[h] = Splitter

\* Every word up to n is followed by a splitter, so the job open there has none.
NoWordOpen(toks, n) == \A i \in 1 .. n : IsWord(toks[i]) => SplitterIn(toks, i, n)

\* Somewhere a job is asked for and there is no word: before a splitter, or in
\* what follows the last.
BlankJob(toks) ==
  LET n == Len(toks) IN
  \/ \E s \in 1 .. n : toks[s] = Splitter /\ NoWordOpen(toks, s - 1)
  \/ n > 0 /\ toks[n] # Splitter /\ NoWordOpen(toks, n)

\* A job's name is NULL only where a job without a word is asked for, "&" after
\* "&" or a line that is just Enter, and where a text was read after it was freed
\* (job.cpp:43).  dshell has other ways to end early: a popen that fails
\* (job.cpp:35), and what getline does to a buffer it is given with the wrong size
\* (dshell.cpp:43), of which this says nothing.
NullNameOnlyOnBlank == state = "nullname" => BlankJob(tokens) \/ Head(jobs) = Garbage

\* The first words of the jobs.
FirstWords(toks) == {i \in DOMAIN toks : IsWord(toks[i]) /\ NoWordOpen(toks, i - 1)}

\* The names of the jobs, in the order of the line.
ReferenceNames(toks) ==
  LET order == InOrder(Len(toks), FirstWords(toks))
  IN  [k \in DOMAIN order |-> CHOOSE name \in JobName(toks[order[k]]) : TRUE]

\* A line of words and "&" only.
PlainLine == \A i \in DOMAIN line : line[i] \notin {Quote, "|"}

\* When a line without quotes or "|" is done, and no job of it went wrong, each of
\* its jobs has been started, once and in order, under its own name unless its
\* text was lost (command.cpp:13).  The code does no more than that: it starts the
\* job after "&" whether or not the one before succeeded, "|" is one more word, and
\* a quoted name is cut at its first blank (token.cpp:12, 15, dshell.cpp:27).
EveryJobStarts ==
  /\ state = "start" /\ jobs = <<>>
  /\ PlainLine /\ ~failed
  /\ \A k \in DOMAIN started : started[k] # Garbage
  => started = ReferenceNames(tokens)
=============================================================================

-------------------------------- MODULE Shell --------------------------------
(***************************************************************************)
(* The shell the server starts on a tty (programs/shell/src/shell.c): it   *)
(* reads, and runs what one read returned as one command.  The prompt is   *)
(* output only and left out.                                               *)
(*                                                                         *)
(* A text is a sequence of lexemes: a command's name, a variable's name, a *)
(* piece of a path, a space, a newline.  chdir and getcwd are the system   *)
(* calls of VirtualProcesses; the server keeps a directory as it is given. *)
(***************************************************************************)
EXTENDS Naturals, Sequences, FiniteSets, SequencesExt

CONSTANTS
  MaxPath,  \* bound on the pieces of a path that is typed
  Nowhere   \* no value: a variable not set, a word not there

Slash == <<"/">>
Tilde == "~"
Pieces == {"/", Tilde, "h", "w"}
Lexemes == Pieces \cup {"bin", "cd", "export", "HOME", "PWD", "=", " ", "#", "\n"}

ASSUME ShellAssumption == MaxPath \in Nat /\ Nowhere \notin Seq(Lexemes)

Paths == SeqOf(Pieces, MaxPath) \ {<<>>}
Home == <<"/", "h">>

\* The directory of /bin/shell, where the server starts it.
BinDir == <<"/", "bin">>

-----------------------------------------------------------------------------
(* Paths.                                                                  *)

\* shellPathReduce's inner loops: the last slash of those that start at s.
LastSlash(p, s) ==
  IF p[s] # "/" THEN s
  ELSE CHOOSE t \in s .. Len(p) :
         (\A k \in s .. t : p[k] = "/") /\ (t = Len(p) \/ p[t + 1] # "/")

\* The slashes that start at s are made one.
Squeeze(p, s) ==
  IF s > Len(p) THEN p ELSE SubSeq(p, 1, s - 1) \o SubSeq(p, LastSlash(p, s), Len(p))

\* The path after each number of passes; it only gets shorter.
Sweep(p) ==
  LET sweep[s \in 0 .. Len(p)] == IF s = 0 THEN p ELSE Squeeze(sweep[s - 1], s) IN sweep

Collapse(p) == Sweep(p)[Len(p)]

\* Fault: the root loses its slash.
DropTrailingAny(p) == IF p # <<>> /\ Last(p) = "/" THEN Front(p) ELSE p

DropTrailing(p) == IF p \notin {<<>>, Slash} /\ Last(p) = "/" THEN Front(p) ELSE p

\* The path after each number of rounds.
Rounds(p) ==
  LET round[n \in 0 .. Len(p) + 1] == IF n = 0 THEN p ELSE DropTrailing(Collapse(round[n - 1]))
  IN  round

\* The loop ends after a round that leaves the length alone.
ShellPathReduce(p) ==
  LET last == CHOOSE n \in 1 .. Len(p) + 1 : Len(Rounds(p)[n]) = Len(Rounds(p)[n - 1])
  IN  Rounds(p)[last]

\* __wrap_getenv reads Denviron, which no one fills, while setenv is the C
\* library's own: whatever was set, there is no value.
Getenv(value) == Nowhere

\* A path beginning with a tilde has no absolute form without a home.
ShellPathAbsolute(value, path) ==
  CASE path = Nowhere -> Nowhere
    [] path # Nowhere /\ path[1] # Tilde -> ShellPathReduce(path)
    [] path # Nowhere /\ path[1] = Tilde /\ Getenv(value) = Nowhere -> Nowhere
    [] OTHER -> ShellPathReduce(Getenv(value) \o Slash \o Tail(path))

-----------------------------------------------------------------------------
(* What one read may return: a command, part of one, or more than one.     *)

Assignments ==
  {name \o value : name \in {<<"HOME", "=">>, <<"PWD", "=">>}, value \in {<<>>, Slash, Home}}

Arguments == {<<>>} \cup {<<" ">> \o arg : arg \in Paths \cup Assignments \cup {<<"PWD">>}}

Inputs ==
  {verb \o arg \o end :
     verb \in {<<"cd">>, <<"export">>, <<"h">>, <<" ">>, <<"\n">>, <<"#", "cd">>},
     arg \in Arguments,
     end \in {<<>>, <<"\n">>, <<" ">>, <<"\n", "cd", " ", "/", "\n">>, <<"#", "h", "\n">>}}

\* strtok_r: the n-th word between spaces, if there is one; a newline is no space.
Word(text, n) ==
  LET blank(i) == i \notin DOMAIN text \/ text[i] = " "
      words == {w \in (1 .. Len(text)) \X (1 .. Len(text)) :
                  /\ w[1] <= w[2] /\ blank(w[1] - 1) /\ blank(w[2] + 1)
                  /\ \A k \in w[1] .. w[2] : ~blank(k)
                  /\ Cardinality({k \in 1 .. w[1] - 1 : ~blank(k) /\ blank(k + 1)}) = n - 1}
  IN  IF words = {} THEN Nowhere
      ELSE CHOOSE word \in {SubSeq(text, w[1], w[2]) : w \in words} : TRUE

\* shellParseLine: what is before a "#", without the newline at its end.  For an
\* empty line the code looks at the byte before its buffer, to no effect but
\* clearing a newline there.
Stripped(text) ==
  LET end == CHOOSE i \in 0 .. Len(text) :
               (\A k \in 1 .. i : text[k] # "#") /\ (i = Len(text) \/ text[i + 1] = "#")
      cut == SubSeq(text, 1, end)
  IN  IF cut # <<>> /\ Last(cut) = "\n" THEN Front(cut) ELSE cut

\* What a read comes to.  More than one argument are ignored.
Commands ==
  {[name |-> Word(text, 1), argument |-> Word(text, 2)] : text \in {Stripped(t) : t \in Inputs}}

\* The arguments a command can be run with.
ArgumentsOf(name) == {c.argument : c \in {d \in Commands : d.name = name}}

-----------------------------------------------------------------------------
VARIABLES
  state,   \* "read", "ended" or "crashed"
  cwd,     \* the process's directory, kept by the server
  home,    \* HOME in the environment of the POSIX process, which setenv writes
  pwd,     \* PWD there, as far as it matters: "cwd" or "other"
  asked    \* history: what the cd that led to cwd asked for

vars == <<state, cwd, home, pwd, asked>>

\* What a word can be made of.
Texts == Seq(Lexemes \ {" ", "#"})

TypeOK ==
  /\ state \in {"read", "ended", "crashed"}
  /\ cwd \in Texts /\ asked \in Texts
  /\ home \in Texts \cup {Nowhere}
  /\ pwd \in {"cwd", "other"}

\* main opens the tty it was given, and shellRun sets PWD.
Init ==
  /\ state \in {"read", "ended"}
  /\ cwd = BinDir /\ asked = BinDir
  /\ home = Nowhere /\ pwd \in {"cwd", "other"}

\* The socket is closed or fails.
EndOfInput ==
  /\ state = "read"
  /\ state' = "ended"
  /\ UNCHANGED <<cwd, home, pwd, asked>>

\* The input loop goes on after a command, whichever it is.
Back == state = "read" /\ state' = "read"

\* An empty line, or a command that is not found.
Nothing ==
  /\ Back
  /\ \E command \in Commands : command.name \notin {<<"cd">>, <<"export">>}
  /\ UNCHANGED <<cwd, home, pwd, asked>>

\* Fault: a path that does not resolve is passed to chdir all the same.
CdUnresolved ==
  /\ Back
  /\ \E arg \in ArgumentsOf(<<"cd">>) \ {Nowhere} :
       cwd' = ShellPathAbsolute(home, arg) /\ asked' = arg
  /\ pwd' \in {"cwd", "other"}
  /\ UNCHANGED home

\* shellCd.  Memory may run out in shellPathAbsolute and in the system call,
\* which leaves everything as it was, and in setenv.
Cd ==
  /\ Back
  /\ \/ UNCHANGED <<cwd, asked, pwd>>
     \/ /\ \E arg \in ArgumentsOf(<<"cd">>) :
             LET path == ShellPathAbsolute(home, arg) IN
             path # Nowhere /\ cwd' = path /\ asked' = arg
        /\ pwd' \in {"cwd", "other"}
  /\ UNCHANGED home

\* shellExport.  Without an "=", or a name before it, nothing is set.
Export ==
  /\ Back
  /\ \/ UNCHANGED <<home, pwd>>
     \/ \E string \in ArgumentsOf(<<"export">>) \ {Nowhere} :
          LET value == SubSeq(string, 3, Len(string)) IN
          /\ Len(string) > 1 /\ string[2] = "="
          /\ \/ string[1] = "HOME" /\ home' = value /\ UNCHANGED pwd
             \/ /\ string[1] = "PWD"
                /\ pwd' = IF value = cwd THEN "cwd" ELSE "other"
                /\ UNCHANGED home
  /\ UNCHANGED <<cwd, asked>>

\* export without an argument: strchr(NULL).
ExportCrash ==
  /\ state = "read"
  /\ Nowhere \in ArgumentsOf(<<"export">>)
  /\ state' = "crashed"
  /\ UNCHANGED <<cwd, home, pwd, asked>>

Next == EndOfInput \/ Nothing \/ Cd \/ Export \/ ExportCrash

Spec == Init /\ [][Next]_vars

-----------------------------------------------------------------------------
(* What a reduced path is, without rewriting.                              *)

\* A slash after another, or one of those a path ends with.
Redundant(p, i) ==
  /\ i > 1 /\ p[i] = "/"
  /\ p[i - 1] = "/" \/ \A k \in i .. Len(p) : p[k] = "/"

Needed(p) == {i \in DOMAIN p : ~Redundant(p, i)}

\* How many members of S go up to i.
Rank(S, i) == Cardinality({j \in S : j <= i})

ReferenceReduce(p) ==
  [k \in 1 .. Cardinality(Needed(p)) |-> p[CHOOSE i \in Needed(p) : Rank(Needed(p), i) = k]]

\* After cd with an absolute path the directory is what was asked for, with
\* each run of slashes made one and none at the end, the root apart: the rewriting
\* in place loses nothing and leaves nothing (shell.c:143).  Of other paths nothing
\* is said: the code does not make a relative one absolute (shell.c:110), and finds
\* no home for a tilde (shell.c:205).
CwdAsAsked == asked[1] = "/" => cwd = ReferenceReduce(asked)
=============================================================================

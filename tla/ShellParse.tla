----------------------------- MODULE ShellParse -----------------------------
(***************************************************************************)
(* The shell's command parser (sh.c): gettoken, peek, the recursive        *)
(* descent over a line of text and nulterminate, which makes the words C   *)
(* strings in the line itself.  Positions count from 1; a word is the pair *)
(* <<q, eq>> of its first position and the one after it, and a character   *)
(* past the line is the NUL "".                                            *)
(***************************************************************************)
EXTENDS Integers, Sequences, FiniteSets, FiniteSetsExt, SequencesExt

CONSTANTS MAXARGS, MaxLine

ASSUME ShellAssumption == MAXARGS \in Nat \ {0} /\ MaxLine \in Nat

VARIABLE line        \* the text gets() has read so far

Symbols == {"<", "|", ">", "&", ";", "(", ")"}
Whitespace == {" "}
Letters == {"a"}

Char(b, s) == IF s <= Len(b) THEN b[s] ELSE ""
FirstFrom(b, s, Stops(_)) == Min({i \in s..Len(b) + 1 : i > Len(b) \/ Stops(b[i])})
Skip(b, s) == FirstFrom(b, s, LAMBDA c : c \notin Whitespace)

TokenTo(b, tok, q, eq) == [tok |-> tok, word |-> <<q, eq>>, s |-> Skip(b, eq)]
TokenFrom(b, q) ==
  CASE Char(b, q) = "" -> TokenTo(b, "", q, q)
    [] Char(b, q) = ">" /\ Char(b, q + 1) = ">" -> TokenTo(b, "+", q, q + 2)
    [] Char(b, q) \in Symbols /\ ~(Char(b, q) = ">" /\ Char(b, q + 1) = ">") -> TokenTo(b, b[q], q, q + 1)
    [] OTHER -> TokenTo(b, "a", q, FirstFrom(b, q, LAMBDA x : x \in Whitespace \cup Symbols))
gettoken(b, s) == TokenFrom(b, Skip(b, s))

peek(b, s, toks) == Char(b, Skip(b, s)) \in toks

execcmd(argv) == [type |-> "EXEC", argv |-> argv]
redircmd(cmd, r) == [type |-> "REDIR", cmd |-> cmd, file |-> r.file, fd |-> r.fd]
pipecmd(left, right) == [type |-> "PIPE", left |-> left, right |-> right]
listcmd(left, right) == [type |-> "LIST", left |-> left, right |-> right]
backcmd(cmd) == [type |-> "BACK", cmd |-> cmd]
Redirected(cmd, redirs) == FoldLeft(redircmd, cmd, redirs)

-----------------------------------------------------------------------------
(* Each parser takes the text and a position and gives the command and the *)
(* position after it, or panics (the shell's child exits).                 *)
SyntaxPanic == [ok |-> FALSE]
Parsed(cmd, s) == [ok |-> TRUE, cmd |-> cmd, s |-> s]
After(b, s) == gettoken(b, s).s

(* A redirection, its operator and its file name read.                     *)
Redir(op, file) == [file |-> file.word, fd |-> IF op.tok = "<" THEN 0 ELSE 1]
RECURSIVE parseredirs(_, _, _)
RedirRest(b, redirs, op, file) ==
  IF file.tok # "a" THEN SyntaxPanic ELSE parseredirs(b, Append(redirs, Redir(op, file)), file.s)
parseredirs(b, redirs, s) ==
  IF peek(b, s, {"<", ">"}) THEN RedirRest(b, redirs, gettoken(b, s), gettoken(b, After(b, s))) ELSE Parsed(redirs, s)

(* The words of a simple command, with redirections between them.          *)
RECURSIVE parseargs(_, _, _)
ArgsRest(b, argv, r, t) ==
  CASE t.tok = "" -> Parsed(Redirected(execcmd(argv), r.cmd), t.s)
    [] t.tok = "a" /\ Len(argv) + 1 < MAXARGS -> parseargs(b, Append(argv, t.word), parseredirs(b, r.cmd, t.s))
    [] OTHER -> SyntaxPanic
parseargs(b, argv, r) ==
  IF ~r.ok THEN SyntaxPanic
  ELSE IF peek(b, r.s, {"|", ")", "&", ";"}) THEN Parsed(Redirected(execcmd(argv), r.cmd), r.s)
  ELSE ArgsRest(b, argv, r, gettoken(b, r.s))

RECURSIVE parseline(_, _)
BlockRedirs(body, r) == IF r.ok THEN Parsed(Redirected(body, r.cmd), r.s) ELSE SyntaxPanic
BlockRest(b, body) ==
  IF body.ok /\ peek(b, body.s, {")"}) THEN BlockRedirs(body.cmd, parseredirs(b, <<>>, After(b, body.s)))
  ELSE SyntaxPanic
parseblock(b, s) == BlockRest(b, parseline(b, After(b, s)))

(* Mutant: no redirection before the first word.                           *)
parseexecWords(b, s) ==
  IF peek(b, s, {"("}) THEN parseblock(b, s) ELSE parseargs(b, <<>>, Parsed(<<>>, s))
parseexec(b, s) ==
  IF peek(b, s, {"("}) THEN parseblock(b, s) ELSE parseargs(b, <<>>, parseredirs(b, <<>>, s))

Joined(cmd(_, _), left, right) == IF right.ok THEN Parsed(cmd(left, right.cmd), right.s) ELSE SyntaxPanic

RECURSIVE parsepipe(_, _)
PipeRest(b, left) ==
  IF left.ok /\ peek(b, left.s, {"|"}) THEN Joined(pipecmd, left.cmd, parsepipe(b, After(b, left.s))) ELSE left
parsepipe(b, s) == PipeRest(b, parseexec(b, s))

(* The & signs after a pipeline.                                           *)
RECURSIVE parseback(_, _)
parseback(b, r) ==
  IF r.ok /\ peek(b, r.s, {"&"}) THEN parseback(b, Parsed(backcmd(r.cmd), After(b, r.s))) ELSE r

LineRest(b, left) ==
  IF left.ok /\ peek(b, left.s, {";"}) THEN Joined(listcmd, left.cmd, parseline(b, After(b, left.s))) ELSE left
parseline(b, s) == LineRest(b, parseback(b, parsepipe(b, s)))

(* nulterminate writes a NUL after every word of the tree; what a word     *)
(* denotes afterwards is the text up to the next NUL.                      *)
RECURSIVE Ends(_)
Ends(cmd) ==
  CASE cmd.type = "EXEC" -> {cmd.argv[i][2] : i \in DOMAIN cmd.argv}
    [] cmd.type = "REDIR" -> Ends(cmd.cmd) \cup {cmd.file[2]}
    [] cmd.type \in {"PIPE", "LIST"} -> Ends(cmd.left) \cup Ends(cmd.right)
    [] cmd.type = "BACK" -> Ends(cmd.cmd)
CString(b, ends, q) == <<q, Min({i \in q..Len(b) + 1 : i > Len(b) \/ i \in ends})>>
RECURSIVE Terminated(_, _, _)
Terminated(b, ends, cmd) ==
  CASE cmd.type = "EXEC" -> execcmd([i \in DOMAIN cmd.argv |-> CString(b, ends, cmd.argv[i][1])])
    [] cmd.type = "REDIR" -> redircmd(Terminated(b, ends, cmd.cmd), [file |-> CString(b, ends, cmd.file[1]), fd |-> cmd.fd])
    [] cmd.type = "PIPE" -> pipecmd(Terminated(b, ends, cmd.left), Terminated(b, ends, cmd.right))
    [] cmd.type = "LIST" -> listcmd(Terminated(b, ends, cmd.left), Terminated(b, ends, cmd.right))
    [] cmd.type = "BACK" -> backcmd(Terminated(b, ends, cmd.cmd))

(* What is left over is a syntax error.                                    *)
WholeLine(b, r) ==
  IF r.ok /\ Skip(b, r.s) = Len(b) + 1 THEN Parsed(Terminated(b, Ends(r.cmd), r.cmd), Len(b) + 1) ELSE SyntaxPanic
parsecmd(b) == WholeLine(b, parseline(b, 1))

-----------------------------------------------------------------------------
(* Any line comes about, one character after the other.                    *)
LineInit == line = <<>>
LineNext == Len(line) < MaxLine /\ \E c \in Symbols \cup Whitespace \cup Letters : line' = Append(line, c)

-----------------------------------------------------------------------------
(* The reference: the tokens of a text, and the trees the grammar          *)
(*   line -> pipe "&"* [";" line]   pipe -> block ["|" pipe]               *)
(*   block -> "(" line ")" redir*  |  (word | redir)*                      *)
(* derives from them, over every way to split them.                        *)
WordAt(b, i) == b[i] \in Letters
TokenStart(b, i) ==
  CASE WordAt(b, i) -> i = 1 \/ ~WordAt(b, i - 1)
    [] b[i] = ">" -> Cardinality({j \in 1..i - 1 : \A k \in j..i - 1 : b[k] = ">"}) % 2 = 0
    [] OTHER -> b[i] \notin Whitespace
Token(b, i) ==
  IF WordAt(b, i)
  THEN [tok |-> "a", word |-> <<i, 1 + Max({j \in i..Len(b) : \A k \in i..j : WordAt(b, k)})>>]
  ELSE [tok |-> IF b[i] = ">" /\ i < Len(b) /\ b[i + 1] = ">" THEN "+" ELSE b[i], word |-> <<>>]
Tokens(b) ==
  LET starts == SetToSortSeq({i \in DOMAIN b : TokenStart(b, i)}, <)
  IN [n \in DOMAIN starts |-> Token(b, starts[n])]

IsRedir(t, n) == t[n].tok \in {"<", ">", "+"}
RedirsOf(t) ==
  LET at == SetToSortSeq({n \in DOMAIN t : IsRedir(t, n)}, <)
  IN [k \in DOMAIN at |-> [file |-> t[at[k] + 1].word, fd |-> IF t[at[k]].tok = "<" THEN 0 ELSE 1]]
WellRedirected(t) == \A n \in DOMAIN t : IsRedir(t, n) => n < Len(t) /\ t[n + 1].tok = "a"
ArgsOf(t) ==
  LET at == SetToSortSeq({n \in DOMAIN t : t[n].tok = "a" /\ (n = 1 \/ ~IsRedir(t, n - 1))}, <)
  IN [k \in DOMAIN at |-> t[at[k]].word]

Before(t, n) == SubSeq(t, 1, n - 1)
Beyond(t, n) == SubSeq(t, n + 1, Len(t))
TokensAt(t, tok) == {n \in DOMAIN t : t[n].tok = tok}
Simple(t) ==
  IF (\A n \in DOMAIN t : IsRedir(t, n) \/ t[n].tok = "a") /\ WellRedirected(t) /\ Len(ArgsOf(t)) < MAXARGS
  THEN {Redirected(execcmd(ArgsOf(t)), RedirsOf(t))} ELSE {}

RECURSIVE LineTrees(_)
BlockTrees(t) ==
  IF t = <<>> \/ t[1].tok # "(" THEN Simple(t)
  ELSE UNION {{Redirected(c, RedirsOf(Beyond(t, n))) : c \in LineTrees(SubSeq(t, 2, n - 1))} :
                n \in {m \in TokensAt(t, ")") : LET r == Beyond(t, m) IN
                          WellRedirected(r) /\ Len(r) = 2 * Len(RedirsOf(r))}}
RECURSIVE PipeTrees(_)
PipeTrees(t) ==
  BlockTrees(t) \cup
  UNION {{pipecmd(l, r) : l \in BlockTrees(Before(t, n)), r \in PipeTrees(Beyond(t, n))} : n \in TokensAt(t, "|")}
RECURSIVE BackTrees(_)
BackTrees(t) ==
  PipeTrees(t) \cup
  IF t # <<>> /\ t[Len(t)].tok = "&" THEN {backcmd(c) : c \in BackTrees(Before(t, Len(t)))} ELSE {}
LineTrees(t) ==
  BackTrees(t) \cup
  UNION {{listcmd(l, r) : l \in BackTrees(Before(t, n)), r \in LineTrees(Beyond(t, n))} : n \in TokensAt(t, ";")}

Trees(r) == IF r.ok THEN {r.cmd} ELSE {}

(* The parser panics exactly on the texts the grammar does not derive, and *)
(* otherwise gives the one tree it derives, with every word terminated     *)
(* where it ends (parsecmd, parseline, parsepipe, parseexec, parseblock,   *)
(* parseredirs, gettoken, nulterminate).                                   *)
ParsedAsWritten == LineTrees(Tokens(line)) = Trees(parsecmd(line))
=============================================================================

------------------------------- MODULE Lexer -------------------------------
(***************************************************************************)
(* nbuFrontend::lexer: the loop that turns a file into tokens.             *)
(*                                                                         *)
(* A step is one turn of the loop: it reads the character at pos and may   *)
(* read on.  Characters are the members of Chars, one or two of each class *)
(* the code tells apart; "asm" stands for the three letters of the word,   *)
(* the only word the loop itself looks for.  A word and a token's value    *)
(* are the positions of their characters in the file.                      *)
(***************************************************************************)
EXTENDS Naturals, Sequences, FiniteSets

CONSTANT MaxLength   (* Bound: characters of a file.                       *)

ASSUME LexerAssumption == MaxLength \in Nat

Letters   == {"a", "asm"}
Digits    == {"1"}
Spaces    == {" ", "\n"}
Symbols   == {"=", ".", "{", "}"}      (* keys of SymboleTable             *)
Pairs     == {<<"=", "=">>}            (* keys of KeywordMap: two symbols  *)
Others    == {":", "?"}                (* neither, as "?" is nowhere in them *)
Chars     == Letters \cup Digits \cup Spaces \cup Symbols \cup Others

isalnum(c) == c \in Letters \cup Digits

VARIABLES
  file,      (* the characters                                             *)
  pos,       (* the position file.get reads next                           *)
  state,     (* "START", "TEXT" or "NUMBER"                                *)
  word,      (* positions of the word's characters                         *)
  tokens,
  line,
  finished

vars == <<file, pos, state, word, tokens, line, finished>>

c == file[pos]

-----------------------------------------------------------------------------
Token(type, at, ln) == [type |-> type, at |-> at, line |-> ln]

(* Newlines among the positions from a to b.                               *)
Newlines(a, b) == Cardinality({p \in a..b : file[p] = "\n"})

(* The line counter once c has been read.                                  *)
LineAfter == line + Newlines(pos, pos)

IsAsm(w) == Len(w) = 1 /\ file[w[1]] = "asm"

(* flush_token's token for a word that is not empty.                       *)
WordToken(ln) ==
  Token(IF state = "NUMBER"
        THEN IF \E i \in DOMAIN word : file[word[i]] = "." THEN "FLOAT" ELSE "INT"
        ELSE IF IsAsm(word) THEN "ASM" ELSE "IDENTIFIER",
        word, ln)

Flushed(ln) == IF word = <<>> THEN tokens ELSE Append(tokens, WordToken(ln))

(* Mutant: flush_token does not go back to START.                          *)
StateFlushedKept == state

(* flush_token leaves the state of an empty word.                          *)
StateFlushed == IF word = <<>> THEN state ELSE "START"

(* Mutant: the second character is always put back.                        *)
handle_symbole_unget(toks, ln) ==
  LET pair == pos < Len(file) /\ <<c, file[pos + 1]>> \in Pairs
  IN  /\ tokens' = Append(toks, Token("SYMBOL", IF pair THEN <<pos, pos + 1>> ELSE <<pos>>, ln))
      /\ pos' = pos + 1

(* handle_symbole, after the tokens toks.                                  *)
handle_symbole(toks, ln) ==
  LET pair == pos < Len(file) /\ <<c, file[pos + 1]>> \in Pairs
  IN  /\ tokens' = Append(toks, Token("SYMBOL", IF pair THEN <<pos, pos + 1>> ELSE <<pos>>, ln))
      /\ pos' = IF pair THEN pos + 2 ELSE pos + 1

-----------------------------------------------------------------------------
Init ==
  /\ file \in UNION {[1..n -> Chars] : n \in 0..MaxLength}
  /\ pos = 1
  /\ state = "START"
  /\ word = <<>>
  /\ tokens = <<>>
  /\ line = 1
  /\ finished = FALSE

Reading == ~finished /\ pos <= Len(file)

(* Every turn that reads just c and does not follow "asm".                 *)
ReadOne(newState, newWord, newTokens) ==
  /\ state' = newState
  /\ word' = newWord
  /\ tokens' = newTokens
  /\ line' = LineAfter
  /\ pos' = pos + 1
  /\ UNCHANGED <<file, finished>>

(* The state a word that starts with c is read in.                         *)
WordState == IF c \in Digits THEN "NUMBER" ELSE "TEXT"

StartSpace == Reading /\ state = "START" /\ c \in Spaces /\ ReadOne(state, word, tokens)

StartSymbol ==
  /\ Reading /\ state = "START" /\ c \in Symbols
  /\ handle_symbole(tokens, LineAfter)
  /\ line' = LineAfter
  /\ UNCHANGED <<file, state, word, finished>>

StartWord ==
  /\ Reading /\ state = "START" /\ c \notin Spaces \cup Symbols
  /\ ReadOne(WordState, <<pos>>, tokens)

(* The part of a word, in either state.                                    *)
ContinueWord ==
  /\ Reading
  /\ \/ state = "NUMBER" /\ c \in Digits \cup {"."}
     \/ state = "TEXT" /\ isalnum(c)
  /\ ReadOne(state, Append(word, pos), tokens)

(* The character after a word.                                             *)
EndsWord ==
  /\ Reading
  /\ \/ state = "NUMBER" /\ c \notin Digits \cup {"."}
     \/ state = "TEXT" /\ ~isalnum(c) /\ c # ":" /\ ~IsAsm(word)

EndWordSymbol ==
  /\ EndsWord /\ c \in Symbols
  /\ handle_symbole(Flushed(LineAfter), LineAfter)
  /\ state' = StateFlushed
  /\ word' = <<>>
  /\ line' = LineAfter
  /\ UNCHANGED <<file, finished>>

EndWordSpace ==
  EndsWord /\ c \in Spaces /\ ReadOne(StateFlushed, <<>>, Flushed(LineAfter))

(* Mutant: the character that ended the word is lost.                      *)
EndWordWordLost ==
  EndsWord /\ c \notin Symbols \cup Spaces /\ ReadOne("TEXT", <<>>, Flushed(LineAfter))

(* A word runs into another: a number into letters, say.                   *)
EndWordWord ==
  EndsWord /\ c \notin Symbols \cup Spaces /\ ReadOne("TEXT", <<pos>>, Flushed(LineAfter))

(* A colon after a word: a second one makes the token "::" and the loop    *)
(* expects a word; otherwise the colon is dropped.                         *)
DoubleColon ==
  /\ Reading /\ state = "TEXT" /\ c = ":"
  /\ pos < Len(file) /\ file[pos + 1] = ":"
  /\ tokens' = Append(Flushed(line), Token("DOUBLEDOT", <<pos, pos + 1>>, line))
  /\ state' = "TEXT"
  /\ word' = <<>>
  /\ pos' = pos + 2
  /\ UNCHANGED <<file, line, finished>>

(* Mutant: the colon is put back with the character after it.              *)
SingleColonPutBack ==
  /\ Reading /\ state = "TEXT" /\ c = ":"
  /\ ~(pos < Len(file) /\ file[pos + 1] = ":")
  /\ UNCHANGED vars

SingleColon ==
  /\ Reading /\ state = "TEXT" /\ c = ":"
  /\ ~(pos < Len(file) /\ file[pos + 1] = ":")
  /\ ReadOne(state, word, tokens)

-----------------------------------------------------------------------------
(***************************************************************************)
(* The word asm.  c, the character after it, is not looked at again; the   *)
(* next that is not a space should be the brace.                           *)
(***************************************************************************)
First(S, otherwise) == IF S = {} THEN otherwise ELSE CHOOSE p \in S : \A q \in S : p <= q

AfterAsm == Reading /\ state = "TEXT" /\ ~isalnum(c) /\ c # ":" /\ IsAsm(word)

Brace    == First({p \in pos+1..Len(file) : file[p] \notin Spaces}, Len(file) + 1)
EndBrace == First({p \in Brace+1..Len(file) : file[p] = "}"}, Len(file) + 1)

Span(a, b) == [i \in 1..(b - a + 1) |-> a + i - 1]

AsmToken == Append(tokens, Token("ASM", word, LineAfter))

(* Mutant: newlines between asm and its brace are not counted.             *)
AsmBodyUncounted ==
  LET l2 == LineAfter + Newlines(Brace + 1, EndBrace - 1)
  IN  /\ AfterAsm /\ Brace <= Len(file) /\ file[Brace] = "{"
      /\ tokens' = AsmToken \o
           << Token("SYMBOL", <<Brace>>, LineAfter),
              Token("ASM_INSTRUCTIONS", Span(Brace + 1, EndBrace - 1), l2),
              Token("SYMBOL", IF EndBrace <= Len(file) THEN <<EndBrace>> ELSE <<>>, l2) >>
      /\ line' = l2
      /\ state' = "START"
      /\ word' = <<>>
      /\ pos' = EndBrace + 1
      /\ UNCHANGED <<file, finished>>

(* Mutant: the character after the body is skipped with the brace.         *)
AsmBodySkips ==
  LET l1 == LineAfter + Newlines(pos + 1, Brace - 1)
      l2 == l1 + Newlines(Brace + 1, EndBrace - 1)
  IN  /\ AfterAsm /\ Brace <= Len(file) /\ file[Brace] = "{"
      /\ tokens' = AsmToken \o
           << Token("SYMBOL", <<Brace>>, l1),
              Token("ASM_INSTRUCTIONS", Span(Brace + 1, EndBrace - 1), l2),
              Token("SYMBOL", IF EndBrace <= Len(file) THEN <<EndBrace>> ELSE <<>>, l2) >>
      /\ line' = l2
      /\ state' = "START"
      /\ word' = <<>>
      /\ pos' = EndBrace + 2
      /\ UNCHANGED <<file, finished>>

(* What is between the braces is one token.  The closing one is emitted    *)
(* whether or not it was found.                                            *)
AsmBody ==
  LET l1 == LineAfter + Newlines(pos + 1, Brace - 1)
      l2 == l1 + Newlines(Brace + 1, EndBrace - 1)
  IN  /\ AfterAsm /\ Brace <= Len(file) /\ file[Brace] = "{"
      /\ tokens' = AsmToken \o
           << Token("SYMBOL", <<Brace>>, l1),
              Token("ASM_INSTRUCTIONS", Span(Brace + 1, EndBrace - 1), l2),
              Token("SYMBOL", IF EndBrace <= Len(file) THEN <<EndBrace>> ELSE <<>>, l2) >>
      /\ line' = l2
      /\ state' = "START"
      /\ word' = <<>>
      /\ pos' = EndBrace + 1
      /\ UNCHANGED <<file, finished>>

(* Another character, or only spaces up to the end of the file.            *)
AsmNoBody ==
  /\ AfterAsm /\ ~(Brace <= Len(file) /\ file[Brace] = "{")
  /\ tokens' = AsmToken
  /\ line' = LineAfter + Newlines(pos + 1, Brace - 1)
  /\ word' = <<>>
  /\ pos' = Brace + 1
  /\ UNCHANGED <<file, state, finished>>

(* The file ends right after c: next_c was never written, and what it      *)
(* holds may be the brace.                                                 *)
AsmUninitialised ==
  /\ AfterAsm /\ pos = Len(file)
  /\ tokens' = AsmToken \o << Token("SYMBOL", <<>>, LineAfter),
                              Token("ASM_INSTRUCTIONS", <<>>, LineAfter),
                              Token("SYMBOL", <<>>, LineAfter) >>
  /\ line' = LineAfter
  /\ state' = "START"
  /\ word' = <<>>
  /\ pos' = pos + 1
  /\ UNCHANGED <<file, finished>>

(* After the loop.                                                         *)
EndOfFile ==
  /\ ~finished /\ pos > Len(file)
  /\ tokens' = Append(Flushed(line), Token("EOFTOKEN", <<>>, line))
  /\ word' = <<>>
  /\ state' = StateFlushed
  /\ finished' = TRUE
  /\ UNCHANGED <<file, pos, line>>

Next ==
  \/ StartSpace
  \/ StartSymbol
  \/ StartWord
  \/ ContinueWord
  \/ EndWordSymbol
  \/ EndWordSpace
  \/ EndWordWord
  \/ DoubleColon
  \/ SingleColon
  \/ AsmBody
  \/ AsmNoBody
  \/ AsmUninitialised
  \/ EndOfFile

(* The loop runs as long as it can: one thread, no other call waits.       *)
Spec == Init /\ [][Next]_vars /\ WF_vars(Next)

-----------------------------------------------------------------------------
(***************************************************************************)
(* Properties.                                                             *)
(***************************************************************************)
TokenTypes == {"IDENTIFIER", "INT", "FLOAT", "ASM", "ASM_INSTRUCTIONS", "SYMBOL",
               "DOUBLEDOT", "EOFTOKEN"}

TypeOK ==
  /\ file \in Seq(Chars)
  /\ pos \in 1..Len(file)+2
  /\ state \in {"START", "TEXT", "NUMBER"}
  /\ word \in Seq(DOMAIN file)
  /\ tokens \in Seq([type : TokenTypes, at : Seq(DOMAIN file), line : 1..Len(file)+1])
  /\ line \in 1..Len(file)+1
  /\ finished \in BOOLEAN

(* The characters the tokens and the word are made of, in their order.     *)
Used ==
  LET value[i \in 0..Len(tokens)] ==
        IF i = 0 THEN <<>> ELSE value[i - 1] \o tokens[i].at
  IN  value[Len(tokens)] \o word

(* Tokens follow the order of the file and no character is in two of them, *)
(* although the loop puts characters back (handle_symbole, unget).         *)
EachCharacterOnce ==
  \A i, j \in DOMAIN Used : i < j => Used[i] < Used[j]

Plain == \A p \in DOMAIN file : file[p] \notin {":", "asm"}

(* In a file without colons and asm, the characters that end up in no      *)
(* token are the spaces (every branch of the loop).                        *)
OnlySpacesDropped ==
  Plain =>
    \A p \in 1..Len(file) :
      p < pos /\ file[p] \notin Spaces => \E i \in DOMAIN Used : Used[i] = p

(* In such a file a number is what starts with a digit, and an identifier  *)
(* does not: flush_token goes by the state, not by the characters.         *)
NumbersStartWithDigits ==
  Plain =>
    \A i \in DOMAIN tokens :
      tokens[i].type \in {"INT", "FLOAT", "IDENTIFIER"} =>
        (file[tokens[i].at[1]] \in Digits <=> tokens[i].type # "IDENTIFIER")

(* The line of a token is the one it ends on, or the next one if a newline *)
(* ends it: the counter is advanced before the token is made.  Error       *)
(* messages of the parser quote it.                                        *)
LinesRight ==
  \A i \in DOMAIN tokens : tokens[i].at # <<>> =>
    LET last == tokens[i].at[Len(tokens[i].at)]
        here == 1 + Newlines(1, last)
    IN  \/ tokens[i].line = here
        \/ /\ tokens[i].line = here + 1
           /\ last < Len(file) /\ file[last + 1] \in {"\n", ":"}

(* The loop ends, whatever the file: it never reads the same character     *)
(* twice and makes progress at the end of the file, where get and unget    *)
(* fail.                                                                   *)
Terminates == <>finished

=============================================================================

------------------------------ MODULE SqlLexer ------------------------------
(***************************************************************************)
(* The moo lexer compiled in getStatements.js, over abstract words.        *)
(*                                                                         *)
(* SQL text is a sequence of words (strings such as "select", "x", "(",    *)
(* ";", or a numeral) written with one space between consecutive words.    *)
(* Lex maps a word to the token moo produces for it; Tokenize produces the *)
(* token stream of a whole text, a whitespace token between words.  A      *)
(* token is a record:                                                      *)
(*   type  the moo rule that matched ("whitespace", "keyword", ...)        *)
(*   val   the token's value: lower-cased word, or "num" for a number      *)
(*   num   the integer of a number token, the width of a whitespace token  *)
(*   lvl   the parenthesis level, set when the statement appends it        *)
(*   ins   TRUE for a token the rewriter inserted (history field only)     *)
(***************************************************************************)
EXTENDS Integers, Sequences, SequencesExt

CONSTANTS
  Numeral,   \* function from numeral words to the integer they denote
  Keywords   \* the sql-limiter keyword table (lower case)

ASSUME Numeral \in [DOMAIN Numeral -> Nat]

NoLevel == -1

Tok(type, val, num) ==
  [type |-> type, val |-> val, num |-> num, lvl |-> NoLevel, ins |-> FALSE]

Punctuation ==
  [w \in {"(", ")", ",", ".", ";"} |->
     CASE w = "(" -> "lparen"  [] w = ")" -> "rparen"
       [] w = "," -> "comma"   [] w = "." -> "period"
       [] w = ";" -> "terminator"]

(* getStatements.js lexer rules: punctuation, number, terminator, and an   *)
(* identifier that is reclassified as keyword when it is in the table.     *)
Lex(w) ==
  IF w \in DOMAIN Punctuation THEN Tok(Punctuation[w], w, 0)
  ELSE IF w \in DOMAIN Numeral THEN Tok("number", "num", Numeral[w])
  ELSE IF w \in Keywords THEN Tok("keyword", w, 0)
  ELSE Tok("identifier", w, 0)

Space(width) == Tok("whitespace", " ", width)

IsBlank(t) == t.type \in {"whitespace", "comment"}

(* The token stream moo yields for the words joined by single spaces.      *)
Tokenize(words) ==
  [i \in 1 .. (2 * Len(words) - 1) |->
     IF i % 2 = 1 THEN Lex(words[(i + 1) \div 2]) ELSE Space(1)]

(* Serialising tokens and lexing the text again: moo's /[ \t]+/ rule      *)
(* merges the texts of adjacent whitespace tokens into one token.          *)
RECURSIVE Relex(_)
Relex(ts) ==
  IF Len(ts) < 2 THEN [i \in DOMAIN ts |-> [ts[i] EXCEPT !.lvl = NoLevel, !.ins = FALSE]]
  ELSE IF ts[1].type = "whitespace" /\ ts[2].type = "whitespace"
    THEN Relex(<<Space(ts[1].num + ts[2].num)>> \o Tail(Tail(ts)))
    ELSE <<[ts[1] EXCEPT !.lvl = NoLevel, !.ins = FALSE]>> \o Relex(Tail(ts))

(* The lexemes of a token stream: what remains once blanks are dropped.    *)
Lexemes(ts) ==
  LET nb == SelectSeq(ts, LAMBDA t : ~IsBlank(t))
  IN  [i \in DOMAIN nb |-> [type |-> nb[i].type, val |-> nb[i].val, num |-> nb[i].num]]

=============================================================================

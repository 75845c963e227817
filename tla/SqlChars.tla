------------------------------ MODULE SqlChars ------------------------------
(***************************************************************************)
(* The moo lexer of getStatements.js over characters, one lexer.next()     *)
(* call per step.                                                           *)
(*                                                                         *)
(* moo joins the rules, in the order they are listed, into one sticky      *)
(* regular expression with the m flag: at the current position the first   *)
(* rule (and the first alternative of a rule) that matches wins, not the   *)
(* longest match, and when nothing matches next() throws.  A text is a     *)
(* sequence of characters, each a short string ("sp" a space, "nl" a line *)
(* break, "bq" a backquote, "limit" the letters l-i-m-i-t); a token is   *)
(* its rule and its text.                                                  *)
(***************************************************************************)
EXTENDS Integers, Sequences, SequencesExt

CONSTANTS
  Texts,        \* the texts lexed
  Keywords      \* the keyword table, as character sequences (lower case)

Digits     == {"0", "1", "2", "3", "4", "5", "6", "7", "8", "9"}
\* "limit" and "select" stand for the runs of letters that spell them
Letters    == {"a", "s", "x", "_", "limit", "select"}
Punct      == [c \in {"(", ")", ",", "."} |->
                 CASE c = "(" -> "lparen" [] c = ")" -> "rparen"
                   [] c = "," -> "comma"  [] c = "." -> "period"]
\* /[<>~!@#$%^?&|`*\-{}+=:/\\[\]]+/ restricted to the characters modelled
OperatorChars == {"<", ">", "=", "*", "-", "/", "+", "bq", "[", "]"}
WordChars  == Digits \cup Letters

NoMatch == [type |-> "none", len |-> 0]
Rule(type, len) == [type |-> type, len |-> len]

(* The length of the run of characters of set s starting at p. *)
RunLen(t, p, s) ==
  LET ends == {q \in p .. Len(t) + 1 : q = Len(t) + 1 \/ t[q] \notin s}
  IN  (CHOOSE q \in ends : \A r \in ends : q <= r) - p

(* The first position at or after p holding c, Len(t) + 1 if none. *)
FirstAt(t, p, c) ==
  LET hits == {q \in p .. Len(t) : t[q] = c} \cup {Len(t) + 1}
  IN  CHOOSE q \in hits : \A r \in hits : q <= r

(* The end of the first "*" "/" at or after p, 0 if none. *)
BlockEnd(t, p) ==
  LET hits == {q \in p .. Len(t) - 1 : t[q] = "*" /\ t[q + 1] = "/"}
  IN  IF hits = {} THEN 0 ELSE (CHOOSE q \in hits : \A r \in hits : q <= r) + 1

At(t, p, s) == p + Len(s) - 1 <= Len(t) /\ SubSeq(t, p, p + Len(s) - 1) = s

(* whitespace: /[ \t]+/, /\r\n/, /\n/. *)
MatchWhitespace(t, p) ==
  IF t[p] = "sp" THEN Rule("whitespace", RunLen(t, p, {"sp"}))
  ELSE IF t[p] = "nl" THEN Rule("whitespace", 1)
  ELSE NoMatch

(* comment: /--.*?$/ up to the end of the line (m flag), and            *)
(* /\/\*[^]*?\*\// up to the first */ (no match when it is not closed).  *)
MatchComment(t, p) ==
  IF At(t, p, <<"-", "-">>) THEN Rule("comment", FirstAt(t, p, "nl") - p)
  ELSE IF At(t, p, <<"/", "*">>) /\ BlockEnd(t, p + 2) # 0
    THEN Rule("comment", BlockEnd(t, p + 2) - p + 1)
  ELSE NoMatch

(* Mutant: /0|[1-9]*/, which also matches the empty string. *)
MatchNumberStar(t, p) ==
  IF t[p] = "0" THEN Rule("number", 1) ELSE Rule("number", RunLen(t, p, Digits \ {"0"}))

(* number: /0|[1-9][0-9]*/: a leading 0 is a number of its own. *)
MatchNumber(t, p) ==
  IF t[p] = "0" THEN Rule("number", 1)
  ELSE IF t[p] \in Digits THEN Rule("number", 1 + RunLen(t, p + 1, Digits))
  ELSE NoMatch

(* quotedIdentifier: /".*?"/ (. stops at a line break); [..] and `..`    *)
(* likewise, though [ and ` left open are operator characters.           *)
MatchQuoted(t, p) ==
  IF t[p] = "\"" /\ FirstAt(t, p + 1, "\"") < FirstAt(t, p + 1, "nl")
    THEN Rule("quotedIdentifier", FirstAt(t, p + 1, "\"") - p + 1)
  ELSE IF t[p] = "[" /\ FirstAt(t, p + 1, "]") < FirstAt(t, p + 1, "nl")
    THEN Rule("quotedIdentifier", FirstAt(t, p + 1, "]") - p + 1)
  ELSE IF t[p] = "bq" /\ FirstAt(t, p + 1, "bq") < FirstAt(t, p + 1, "nl")
    THEN Rule("quotedIdentifier", FirstAt(t, p + 1, "bq") - p + 1)
  ELSE NoMatch

(* Mutant: a string must be closed on its own line. *)
MatchStringOneLine(t, p) ==
  IF t[p] = "'" /\ FirstAt(t, p + 1, "'") < FirstAt(t, p + 1, "nl")
    THEN Rule("string", FirstAt(t, p + 1, "'") - p + 1)
  ELSE NoMatch

(* string: a quote up to the next quote, across line breaks. *)
MatchString(t, p) ==
  IF t[p] = "'" /\ FirstAt(t, p + 1, "'") <= Len(t)
    THEN Rule("string", FirstAt(t, p + 1, "'") - p + 1)
  ELSE NoMatch

(* identifier: /(?:\w|[^\u0000-\u007F])+/, typed keyword when its lower- *)
(* cased text is in the table.                                           *)
MatchIdentifier(t, p) ==
  IF t[p] \in WordChars
    THEN LET n == RunLen(t, p, WordChars)
         IN  Rule(IF SubSeq(t, p, p + n - 1) \in Keywords THEN "keyword" ELSE "identifier", n)
  ELSE NoMatch

(* operator: a greedy run of special characters. *)
MatchOperator(t, p) ==
  IF t[p] \in OperatorChars THEN Rule("operator", RunLen(t, p, OperatorChars))
  ELSE NoMatch

MatchPunct(t, p) == IF t[p] \in DOMAIN Punct THEN Rule(Punct[t[p]], 1) ELSE NoMatch

MatchTerminator(t, p) == IF t[p] = ";" THEN Rule("terminator", 1) ELSE NoMatch

First(rules) ==
  LET hits == {i \in DOMAIN rules : rules[i] # NoMatch}
  IN  IF hits = {} THEN NoMatch ELSE rules[Min(hits)]

(* Mutant: the identifier rule is listed before the number rule. *)
MatchIdentifierFirst(t, p) ==
  First(<< MatchWhitespace(t, p), MatchComment(t, p), MatchPunct(t, p),
           MatchIdentifier(t, p), MatchNumber(t, p), MatchTerminator(t, p),
           MatchQuoted(t, p), MatchString(t, p), MatchOperator(t, p) >>)

(* The rules in the order of moo.compile's object. *)
Match(t, p) ==
  First(<< MatchWhitespace(t, p), MatchComment(t, p), MatchPunct(t, p),
           MatchNumber(t, p), MatchTerminator(t, p), MatchQuoted(t, p),
           MatchString(t, p), MatchIdentifier(t, p), MatchOperator(t, p) >>)

-----------------------------------------------------------------------------
VARIABLES
  text,     \* the text given to lexer.reset
  pos,      \* moo's offset, as a 1-based position
  tokens,   \* the tokens next() has returned: [type, text]
  status    \* "lexing", "done" (next() returned undefined) or "error"

vars == <<text, pos, tokens, status>>

Init ==
  /\ text \in Texts
  /\ pos = 1
  /\ tokens = <<>>
  /\ status = "lexing"

(* lexer.next() in the getStatements loop: the token at pos, or the end   *)
(* of input, or the "invalid syntax" error moo throws when no rule        *)
(* matches.                                                               *)
LexerNext ==
  /\ status = "lexing"
  /\ pos <= Len(text)
  /\ \E r \in {Match(text, pos)} :
       IF r = NoMatch
         THEN status' = "error" /\ UNCHANGED <<pos, tokens>>
         ELSE /\ tokens' = Append(tokens, [type |-> r.type, text |-> SubSeq(text, pos, pos + r.len - 1)])
              /\ pos' = pos + r.len
              /\ UNCHANGED status
  /\ UNCHANGED text

EndOfText ==
  /\ status = "lexing"
  /\ pos > Len(text)
  /\ status' = "done"
  /\ UNCHANGED <<text, pos, tokens>>

Next == LexerNext \/ EndOfText

Spec == Init /\ [][Next]_vars

-----------------------------------------------------------------------------
RuleTypes == {"whitespace", "comment", "number", "terminator", "quotedIdentifier",
              "string", "identifier", "keyword", "operator"} \cup Range(Punct)

TypeOK ==
  /\ text \in Seq(STRING)
  /\ pos \in 1 .. Len(text) + 1
  /\ \A k \in DOMAIN tokens : tokens[k].type \in RuleTypes /\ tokens[k].text # <<>>
  /\ status \in {"lexing", "done", "error"}

(* The lexer fails only where a string is opened and never closed, or a   *)
(* double-quoted identifier is not closed on its line: every other        *)
(* character starts a token of some rule of getStatements.js, so the      *)
(* "unparseable runs are operator tokens" of spec 4.1 holds for them.    *)
ErrorOnlyOnOpenQuote ==
  status = "error" =>
    \/ text[pos] = "'" /\ FirstAt(text, pos + 1, "'") > Len(text)
    \/ text[pos] = "\"" /\ FirstAt(text, pos + 1, "\"") >= FirstAt(text, pos + 1, "nl")

=============================================================================

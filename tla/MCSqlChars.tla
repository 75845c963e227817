----------------------------- MODULE MCSqlChars -----------------------------
(***************************************************************************)
(* The texts SqlChars lexes under TLC, the word-level lexer SqlLexer it   *)
(* is compared with, and the reading MariaDB gives the text limit()        *)
(* returns.                                                                 *)
(***************************************************************************)
EXTENDS SqlPipeline

(* Every text of up to four characters over these. *)
MCChars == {"sp", "nl", "-", "*", "/", "0", "1", "a", "'", "\"", ";"}

(* The words of the limiter's model, and the characters they are written *)
(* with.                                                                  *)
MCSpell == ("as" :> <<"a", "s">>) @@ ("x" :> <<"x">>) @@ ("1" :> <<"1">>)
           @@ ("10" :> <<"1", "0">>) @@ (";" :> <<";">>) @@ ("(" :> <<"(">>)
           @@ ("," :> <<",">>)
MCWordSeqs == UNION {[1 .. n -> DOMAIN MCSpell] : n \in 1 .. 3}

(* The words joined by single spaces, as Tokenize takes them to be. *)
Join(ws) == FoldLeft(LAMBDA acc, w : IF acc = <<>> THEN MCSpell[w] ELSE acc \o <<"sp">> \o MCSpell[w],
                     <<>>, ws)

(* SELECT x, up to four blanks, line breaks and operator characters, the  *)
(* word limit, up to three blanks and digits, and an optional closing of  *)
(* a block comment: the texts limit() is checked on.  "limit" and         *)
(* "select" are word characters of their own.                            *)
PipeHeads == UNION {[1 .. n -> {"sp", "nl", "-", "*", "/"}] : n \in 1 .. 4}
PipeTails == UNION {[1 .. n -> {"sp", "0", "3"}] : n \in 1 .. 3}
PipelineTexts ==
  {<<"select", "sp", "x">> \o h \o <<"limit">> \o t \o e :
     h \in PipeHeads, t \in PipeTails, e \in {<<>>, <<"*", "/">>}}
PipeLimit == 2

MCTexts == UNION {[1 .. n -> MCChars] : n \in 0 .. 4} \cup {Join(ws) : ws \in MCWordSeqs}
           \cup PipelineTexts
MCKeywords == {<<"a", "s">>, <<"select">>, <<"limit">>}

Words == INSTANCE SqlLexer WITH Numeral <- ("1" :> 1) @@ ("10" :> 10), Keywords <- {"as"}

(* On the texts the limiter's model writes, words joined by one space,    *)
(* moo yields exactly the tokens SqlLexer's Tokenize assigns: the same    *)
(* rule for every word and blank, the word's characters as its text, and *)
(* the numeral's value for a number.  This is what lets SqlLimiter feed    *)
(* word-level tokens to the getStatements loop.                            *)
WordsAgree ==
  status = "done" =>
    \A ws \in {v \in MCWordSeqs : Join(v) = text} :
      LET wt == Words!Tokenize(ws)
      IN  /\ Len(tokens) = Len(wt)
          /\ \A k \in DOMAIN wt :
               /\ tokens[k].type = wt[k].type
               /\ k % 2 = 1 => tokens[k].text = MCSpell[ws[(k + 1) \div 2]]
               /\ wt[k].type = "number" => Decimal(tokens[k].text) = wt[k].num

-----------------------------------------------------------------------------
(***************************************************************************)
(* MariaDB's lexical reading of a statement, as far as its row limit goes: *)
(* "--" opens a comment only before a blank or at the end, "/*" opens one  *)
(* up to "*/" (left open it is a syntax error), a quote opens a string,    *)
(* a run of word characters is one word and a number only when it is all   *)
(* digits (leading zeros included), and every other character stands      *)
(* alone.                                                                 *)
(***************************************************************************)
DbWord(w) ==
  [kind |-> IF \A i \in DOMAIN w : w[i] \in Digits THEN "number"
            ELSE IF w = <<"limit">> THEN "limit" ELSE "word",
   num  |-> IF \A i \in DOMAIN w : w[i] \in Digits THEN Decimal(w) ELSE 0]
DbError == [kind |-> "error", num |-> 0]
DbOther == [kind |-> "other", num |-> 0]

RECURSIVE DbScan(_)
DbScan(c) ==
  IF c = <<>> THEN <<>>
  ELSE LET rest(q) == SubSeq(c, q, Len(c)) IN
    IF At(c, 1, <<"-", "-">>) /\ (Len(c) = 2 \/ c[3] \in {"sp", "nl"})
      THEN DbScan(rest(FirstAt(c, 1, "nl")))
    ELSE IF At(c, 1, <<"/", "*">>)
      THEN IF BlockEnd(c, 3) = 0 THEN <<DbError>> ELSE DbScan(rest(BlockEnd(c, 3) + 1))
    ELSE IF c[1] = "'"
      THEN IF FirstAt(c, 2, "'") > Len(c) THEN <<DbError>> ELSE DbScan(rest(FirstAt(c, 2, "'") + 1))
    ELSE IF c[1] \in {"sp", "nl"} THEN DbScan(Tail(c))
    ELSE IF c[1] \in WordChars
      THEN <<DbWord(SubSeq(c, 1, RunLen(c, 1, WordChars)))>> \o DbScan(rest(RunLen(c, 1, WordChars) + 1))
    ELSE <<DbOther>> \o DbScan(Tail(c))

(* The rows the server returns at most: none when the text does not       *)
(* parse, the number after LIMIT, and NoRowLimit when there is no LIMIT.  *)
NoRowLimit == 1000
RowLimitOf(d) ==
  LET ls == {k \in DOMAIN d : d[k].kind = "limit"}
  IN  IF \E k \in DOMAIN d : d[k].kind = "error" THEN 0
      ELSE IF ls = {} THEN NoRowLimit
      ELSE IF Min(ls) < Len(d) /\ d[Min(ls) + 1].kind = "number" THEN d[Min(ls) + 1].num
      ELSE 0
DbRowLimit(c) == CHOOSE n \in {RowLimitOf(d) : d \in {DbScan(c)}} : TRUE

(* The two readings of getStatements.js' rules that MariaDB does not       *)
(* share: a number with a leading zero lexed as "0" and a second number    *)
(* (line 32), and an operator run that contains a comment opener (line    *)
(* 86).                                                                   *)
LeadingZero(tks) ==
  \E k \in 1 .. Len(tks) - 1 :
    tks[k].type = "number" /\ tks[k].text = <<"0">> /\ tks[k + 1].type = "number"
OperatorHidesComment(tks) ==
  \E k \in DOMAIN tks :
    /\ tks[k].type = "operator"
    /\ \E q \in 2 .. Len(tks[k].text) - 1 :
         At(tks[k].text, q, <<"-", "-">>) \/ At(tks[k].text, q, <<"/", "*">>)

=============================================================================

----------------------------- MODULE SqlStatement ---------------------------
(***************************************************************************)
(* The sql-limiter Statement class and token utilities that statement.js   *)
(* and offset.js import (sql-limiter/src/statement, token-utils,           *)
(* create-token).  That package is not part of src/, so these definitions  *)
(* follow spec.md sections 4.2-4.5.                                        *)
(*                                                                         *)
(* A statement is a record: its tokens, st (the index of its statement     *)
(* token, 0 while there is none), lvl (the running parenthesis level) and  *)
(* endReached.  Indices are 1-based positions in the token sequence; a     *)
(* splice point k means "after the first k tokens", which is the argument  *)
(* JavaScript's slice(0, k) takes.                                         *)
(***************************************************************************)
EXTENDS SqlLexer

EmptyStatement == [tokens |-> <<>>, st |-> 0, lvl |-> 0, endReached |-> FALSE]

(* Mutant: ")" lowers the level without the clamp at 0.                   *)
AppendTokenUnclamped(s, t) ==
  LET lvl == IF t.type = "rparen" THEN s.lvl - 1 ELSE s.lvl
      ts  == Append(s.tokens, [t EXCEPT !.lvl = lvl])
  IN  [tokens     |-> ts,
       lvl        |-> IF t.type = "lparen" THEN lvl + 1 ELSE lvl,
       st         |-> IF s.st = 0 /\ ~IsBlank(t) THEN Len(ts) ELSE s.st,
       endReached |-> t.type = "terminator" /\ lvl = 0]

(* Statement.appendToken (spec 4.2): "(" is appended and then raises the   *)
(* level; ")" lowers it, clamped at 0, and is appended at the lower level; *)
(* the first non-blank token becomes the statement token; a terminator at  *)
(* level 0 ends the statement.                                             *)
AppendToken(s, t) ==
  LET lvl   == IF t.type = "rparen" THEN IF s.lvl > 0 THEN s.lvl - 1 ELSE 0
               ELSE s.lvl
      ts    == Append(s.tokens, [t EXCEPT !.lvl = lvl])
  IN  [tokens     |-> ts,
       lvl        |-> IF t.type = "lparen" THEN lvl + 1 ELSE lvl,
       st         |-> IF s.st = 0 /\ ~IsBlank(t) THEN Len(ts) ELSE s.st,
       endReached |-> t.type = "terminator" /\ lvl = 0]

(* getStatements: the tokens fed one by one to the current Statement cur, *)
(* a fresh one after each ended statement, and the last pushed when it    *)
(* has tokens.                                                            *)
RECURSIVE Segment(_, _, _)
Segment(cur, stmts, ts) ==
  IF ts = <<>> THEN IF cur.tokens # <<>> THEN Append(stmts, cur) ELSE stmts
  ELSE CHOOSE r \in {IF n.endReached THEN Segment(EmptyStatement, Append(stmts, n), Tail(ts))
                     ELSE Segment(n, stmts, Tail(ts)) : n \in {AppendToken(cur, Head(ts))}} : TRUE
GetStatements(ts) == Segment(EmptyStatement, <<>>, ts)

IsKeyword(t, v) == t.type = "keyword" /\ t.val = v

(* The least and the greatest index of a set of token indices, 0 if none. *)
FirstOf(I) == IF I = {} THEN 0 ELSE Min(I)
LastOf(I)  == IF I = {} THEN 0 ELSE Max(I)

(* The callbacks offset.js and enforceLimit pass to findParenLevelToken:   *)
(* a keyword with the given value, or the terminator.                      *)
Matches(t, what) ==
  IF what = "terminator" THEN t.type = "terminator" ELSE IsKeyword(t, what)

(* Mutant: the search ignores the parenthesis level.                      *)
FindAnyLevelToken(ts, from, what) ==
  FirstOf({i \in from .. Len(ts) : Matches(ts[i], what)})

(* token-utils findParenLevelToken: the first token at or after `from`     *)
(* that is at the level of tokens[from] and matches `what`; 0 if none.     *)
FindParenLevelToken(ts, from, what) ==
  FirstOf({i \in from .. Len(ts) : ts[i].lvl = ts[from].lvl /\ Matches(ts[i], what)})

(* token-utils nextNonCommentNonWhitespace: index of the first non-blank   *)
(* token at or after `from` (at any level); 0 if none.                     *)
NextNonCommentNonWhitespace(ts, from) ==
  IF from > Len(ts) THEN 0
  ELSE FirstOf({i \in from .. Len(ts) : ~IsBlank(ts[i])})

(* token-utils findLimitInsertionIndex: the end of the statement's own     *)
(* tokens, i.e. just after the last non-blank, non-terminator token at the *)
(* target level (spec 4.4: never inside a nested parenthesis).             *)
FindLimitInsertionIndex(ts, lvl) ==
  LastOf({i \in DOMAIN ts : ts[i].lvl = lvl /\ ~IsBlank(ts[i]) /\ ts[i].type # "terminator"})

(* create-token: the tokens an insertion carries, at the level of the      *)
(* statement they are inserted into.                                       *)
NewToken(type, val, num, lvl) ==
  [type |-> type, val |-> val, num |-> num, lvl |-> lvl, ins |-> TRUE]
SingleSpace(lvl) == NewToken("whitespace", " ", 1, lvl)

(* Mutant: the created tokens carry no parenthesis level.                  *)
ClauseNoLevel(kw, n, lvl) ==
  <<SingleSpace(NoLevel), NewToken("keyword", kw, 0, NoLevel), SingleSpace(NoLevel),
    NewToken("number", "num", n, NoLevel)>>

Clause(kw, n, lvl) ==
  <<SingleSpace(lvl), NewToken("keyword", kw, 0, lvl), SingleSpace(lvl),
    NewToken("number", "num", n, lvl)>>
FetchClause(n, lvl) ==
  <<SingleSpace(lvl), NewToken("keyword", "fetch", 0, lvl),
    SingleSpace(lvl), NewToken("identifier", "first", 0, lvl),
    SingleSpace(lvl), NewToken("number", "num", n, lvl),
    SingleSpace(lvl), NewToken("keyword", "rows", 0, lvl),
    SingleSpace(lvl), NewToken("identifier", "only", 0, lvl)>>

Splice(ts, k, new) == SubSeq(ts, 1, k) \o new \o SubSeq(ts, k + 1, Len(ts))

(***************************************************************************)
(* Statement.enforceLimit (spec 4.4).  The result is a record with ok,     *)
(* err (the error kind when ok is FALSE) and the new tokens.               *)
(***************************************************************************)
Ok(ts)     == [ok |-> TRUE, err |-> "none", tokens |-> ts]
Fail(kind) == [ok |-> FALSE, err |-> kind, tokens |-> <<>>]

Lower(ts, i, n) ==
  IF ts[i].num > n THEN [ts EXCEPT ![i].num = n] ELSE ts

(* The index of the row-count operand of the own-level clause a strategy   *)
(* names, 0 when the clause is absent, -1 when it is malformed: LIMIT not  *)
(* followed by a number (or n, by a number), FETCH not followed by FIRST   *)
(* or NEXT and a number (spec 4.4, 7).                                     *)
RowCountOperand(ts, st, strategy) ==
  IF strategy = "limit" THEN
    LET l  == FindParenLevelToken(ts, st, "limit")
        n1 == NextNonCommentNonWhitespace(ts, l + 1)
        p  == NextNonCommentNonWhitespace(ts, n1 + 1)
        n2 == NextNonCommentNonWhitespace(ts, p + 1)
    IN  IF l = 0 THEN 0
        ELSE IF n1 = 0 \/ ts[n1].type # "number" THEN -1
        ELSE IF p # 0 /\ ts[p].type = "comma"
          THEN IF n2 # 0 /\ ts[n2].type = "number" THEN n2 ELSE -1
        ELSE n1
  ELSE
    LET f  == FindParenLevelToken(ts, st, "fetch")
        q  == NextNonCommentNonWhitespace(ts, f + 1)
        n  == IF q # 0 /\ ts[q].val \in {"first", "next"}
                THEN NextNonCommentNonWhitespace(ts, q + 1) ELSE 0
    IN  IF f = 0 THEN 0
        ELSE IF n = 0 \/ ts[n].type # "number" THEN -1
        ELSE n

(* Where a new clause goes: before an own-level OFFSET (spec 8, scenario   *)
(* 5) for a LIMIT, else before an own-level terminator, else at the end;   *)
(* in each case after the last own-level token that precedes that anchor.  *)
InsertionPoint(ts, st, strategy) ==
  LET lvl  == ts[st].lvl
      off  == FindParenLevelToken(ts, st, "offset")
      term == FindParenLevelToken(ts, st, "terminator")
      anchor == IF strategy = "limit" /\ off # 0 THEN off ELSE term
  IN  IF anchor = 0 THEN FindLimitInsertionIndex(ts, lvl)
      ELSE FindLimitInsertionIndex(SubSeq(ts, 1, anchor - 1), lvl)

(* The first strategy whose clause is present has its row count lowered;   *)
(* when none is present the first strategy's clause is inserted.  Only     *)
(* statements led by SELECT are touched.                                   *)
EnforceLimit(s, strategies, limitNumber) ==
  LET ts  == s.tokens
      st  == s.st
      ops == [i \in DOMAIN strategies |-> RowCountOperand(ts, st, strategies[i])]
      hit == FirstOf({i \in DOMAIN ops : ops[i] # 0})
      lvl == ts[st].lvl
      new == IF strategies[1] = "limit" THEN Clause("limit", limitNumber, lvl)
             ELSE FetchClause(limitNumber, lvl)
  IN  IF st = 0 \/ ~IsKeyword(ts[st], "select") THEN Ok(ts)
      ELSE IF hit # 0 /\ ops[hit] = -1 THEN Fail("MalformedLimit")
      ELSE IF hit # 0 THEN Ok(Lower(ts, ops[hit], limitNumber))
      ELSE Ok(Splice(ts, InsertionPoint(ts, st, strategies[1]), new))

=============================================================================

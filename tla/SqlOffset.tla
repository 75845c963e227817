------------------------------- MODULE SqlOffset ----------------------------
(***************************************************************************)
(* src/maxgui/src/utils/sqlLimiter/offset.js (has, add) and the            *)
(* enforceOffset method of statement.js.                                   *)
(*                                                                         *)
(* A thrown Error is a Fail record naming it; "TypeError" is the error     *)
(* JavaScript raises when has() reads .index of a null token.              *)
(***************************************************************************)
EXTENDS SqlStatement

(* Mutant: "LIMIT n OFFSET m" is not recognised as carrying an offset.     *)
OffsetHasNoOffsetForm(ts, st) ==
  LET lim  == FindParenLevelToken(ts, st, "limit")
      off  == FindParenLevelToken(ts, st, "offset")
      onum == NextNonCommentNonWhitespace(ts, off + 1)
      rows == NextNonCommentNonWhitespace(ts, onum + 1)
      n1   == NextNonCommentNonWhitespace(ts, lim + 1)
      cpo  == NextNonCommentNonWhitespace(ts, n1 + 1)
      n2   == NextNonCommentNonWhitespace(ts, cpo + 1)
      Found(i) == [ok |-> TRUE, err |-> "none", tok |-> i]
      Number(i) == i # 0 /\ ts[i].type = "number"
  IN  IF lim = 0 /\ off = 0 THEN Found(0)
      ELSE IF lim = 0 /\ ~Number(onum) THEN Fail("ExpectedNumberAfterOffset")
      ELSE IF lim = 0 /\ rows = 0 THEN Fail("ExpectedRowsAfterOffsetNumber")
      ELSE IF lim = 0 /\ ts[rows].val \in {"row", "rows"} THEN Found(onum)
      ELSE IF lim = 0 THEN Fail("TypeError")
      ELSE IF n1 = 0 THEN Fail("UnexpectedEndOfStatement")
      ELSE IF ~Number(n1) THEN Fail("ExpectedNumber")
      ELSE IF cpo # 0 /\ ts[cpo].type = "comma"
        THEN IF n2 = 0 THEN Fail("UnexpectedEndOfStatement")
             ELSE IF ~Number(n2) THEN Fail("ExpectedNumber")
             ELSE Found(n1)
      ELSE Found(0)

(* offset.has: the index of the token that carries an existing offset, 0   *)
(* when there is none, in the field tok of an Ok record.                   *)
OffsetHas(ts, st) ==
  LET lim  == FindParenLevelToken(ts, st, "limit")
      off  == FindParenLevelToken(ts, st, "offset")
      onum == NextNonCommentNonWhitespace(ts, off + 1)
      rows == NextNonCommentNonWhitespace(ts, onum + 1)
      n1   == NextNonCommentNonWhitespace(ts, lim + 1)
      cpo  == NextNonCommentNonWhitespace(ts, n1 + 1)
      n2   == NextNonCommentNonWhitespace(ts, cpo + 1)
      Found(i) == [ok |-> TRUE, err |-> "none", tok |-> i]
      Number(i) == i # 0 /\ ts[i].type = "number"
  IN  IF lim = 0 /\ off = 0 THEN Found(0)
      ELSE IF lim = 0 /\ ~Number(onum) THEN Fail("ExpectedNumberAfterOffset")
      ELSE IF lim = 0 /\ rows = 0 THEN Fail("ExpectedRowsAfterOffsetNumber")
      ELSE IF lim = 0 /\ ts[rows].val \in {"row", "rows"} THEN Found(onum)
      \* no LIMIT and no ROW/ROWS: control falls through to limitKeywordToken.index
      ELSE IF lim = 0 THEN Fail("TypeError")
      ELSE IF n1 = 0 THEN Fail("UnexpectedEndOfStatement")
      ELSE IF ~Number(n1) THEN Fail("ExpectedNumber")
      ELSE IF cpo # 0 /\ ts[cpo].type = "comma"
        THEN IF n2 = 0 THEN Fail("UnexpectedEndOfStatement")
             ELSE IF ~Number(n2) THEN Fail("ExpectedNumber")
             ELSE Found(n1)
      ELSE IF cpo # 0 /\ IsKeyword(ts[cpo], "offset")
        THEN IF n2 = 0 THEN Fail("UnexpectedEndOfStatement")
             ELSE IF ~Number(n2) THEN Fail("ExpectedNumber")
             ELSE Found(n2)
      ELSE Found(0)

(* Mutant: the first half ends before the number, slice(0, index).        *)
OffsetAddBeforeNumber(ts, st, lvl, n) ==
  LET lim  == FindParenLevelToken(ts, st, "limit")
      next == NextNonCommentNonWhitespace(ts, lim + 2)
      term == FindParenLevelToken(ts, st, "terminator")
      new  == Clause("offset", n, lvl)
  IN  IF lim # 0 /\ next = 0 THEN Fail("TypeError")
      ELSE IF lim # 0 THEN Ok(Splice(ts, next - 1, new))
      ELSE IF term # 0 THEN Ok(Splice(ts, term - 1, new))
      ELSE Ok(Splice(ts, FindLimitInsertionIndex(ts, lvl), new))

(* Mutant: the second half starts one token late, slice(index + 2).       *)
OffsetAddDropsNext(ts, st, lvl, n) ==
  LET lim  == FindParenLevelToken(ts, st, "limit")
      next == NextNonCommentNonWhitespace(ts, lim + 2)
      term == FindParenLevelToken(ts, st, "terminator")
      new  == Clause("offset", n, lvl)
  IN  IF lim # 0 /\ next = 0 THEN Fail("TypeError")
      ELSE IF lim # 0 THEN Ok(SubSeq(ts, 1, next) \o new \o SubSeq(ts, next + 2, Len(ts)))
      ELSE IF term # 0 THEN Ok(Splice(ts, term - 1, new))
      ELSE Ok(Splice(ts, FindLimitInsertionIndex(ts, lvl), new))

(* offset.add: " offset <n>" after the number that follows LIMIT, else     *)
(* just before the own-level terminator, else at the statement's end.      *)
OffsetAdd(ts, st, lvl, n) ==
  LET lim  == FindParenLevelToken(ts, st, "limit")
      next == NextNonCommentNonWhitespace(ts, lim + 2)
      term == FindParenLevelToken(ts, st, "terminator")
      new  == Clause("offset", n, lvl)
  IN  IF lim # 0 /\ next = 0 THEN Fail("TypeError")
      ELSE IF lim # 0 THEN Ok(Splice(ts, next, new))
      ELSE IF term # 0 THEN Ok(Splice(ts, term - 1, new))
      ELSE Ok(Splice(ts, FindLimitInsertionIndex(ts, lvl), new))

(* Statement.enforceOffset: SELECT statements without an offset get one.   *)
EnforceOffset(s, offsetNumber) ==
  LET st  == s.st
      has == OffsetHas(s.tokens, st)
  IN  IF st = 0 \/ s.tokens[st].val # "select" THEN Ok(s.tokens)
      ELSE IF ~has.ok THEN Fail(has.err)
      ELSE IF has.tok # 0 THEN Ok(s.tokens)
      ELSE OffsetAdd(s.tokens, st, s.tokens[st].lvl, offsetNumber)

=============================================================================

----------------------------- MODULE LimitContract --------------------------
(***************************************************************************)
(* What limit() of src/maxgui/src/utils/sqlLimiter/index.js promises its   *)
(* caller, stated over lexemes (tokens without blanks, see SqlLexer) and   *)
(* independently of how the code finds clauses.                            *)
(*                                                                         *)
(* A call takes SQL text and answers once, with an error or with text.     *)
(* The answer honours the request when                                     *)
(*  - it is an error only if some SELECT statement of the input is not one *)
(*    of the forms the clause grammar below accepts (spec 7);              *)
(*  - otherwise it has as many statements as the input; a statement not    *)
(*    led by SELECT is unchanged; and a well-formed SELECT is answered by  *)
(*    a well-formed SELECT whose row count is its own lowered to at most   *)
(*    LimitNumber (LimitNumber when it had none) and whose offset is its   *)
(*    own, or OffsetNumber when it had none (spec 4.4, 8);                 *)
(*  - arguments that break the contract (an empty strategy list) may be    *)
(*    answered by an error whatever the text.                              *)
(***************************************************************************)
EXTENDS Integers, Sequences, SequencesExt

CONSTANTS
  LimitNumber,    \* the row ceiling limit() enforces
  OffsetNumber,   \* the offset limit() enforces
  NoOffset        \* OffsetNumber when the caller passes no offset

VARIABLES
  sqlIn,          \* lexemes of the request's SQL text
  argsOk,         \* whether the other arguments meet limit()'s contract
  sqlOut          \* [status |-> "pending" | "error" | "done", text |-> lexemes]

None == -1

(* Statements of a lexeme sequence: split after each terminator at         *)
(* parenthesis depth 0 (depth clamped at 0, spec 4.2).                     *)
RECURSIVE SplitFrom(_, _, _, _)
SplitFrom(ls, depth, cur, acc) ==
  IF ls = <<>> THEN IF cur = <<>> THEN acc ELSE Append(acc, cur)
  ELSE LET l == Head(ls)
           d == CASE l.type = "lparen" -> depth + 1
                  [] l.type = "rparen" -> IF depth > 0 THEN depth - 1 ELSE 0
                  [] OTHER -> depth
       IN  IF l.type = "terminator" /\ d = 0
             THEN SplitFrom(Tail(ls), 0, <<>>, Append(acc, Append(cur, l)))
             ELSE SplitFrom(Tail(ls), d, Append(cur, l), acc)
Statements(ls) == SplitFrom(ls, 0, <<>>, <<>>)

(* The lexemes of a statement outside every parenthesis, terminator left   *)
(* out; the parentheses of the outermost groups are kept.                  *)
OwnLevel(s) ==
  LET Step(d, l) == CASE l.type = "lparen" -> d + 1
                      [] l.type = "rparen" -> IF d > 0 THEN d - 1 ELSE 0
                      [] OTHER -> d
      \* depth[i + 1] is the depth after the first i lexemes
      depth == FoldLeft(LAMBDA acc, l : Append(acc, Step(Last(acc), l)), <<0>>, s)
      own == SelectSeq([i \in 1 .. Len(s) |-> i], LAMBDA i :
                /\ s[i].type # "terminator"
                /\ \/ depth[i] = 0
                   \/ s[i].type = "rparen" /\ depth[i + 1] = 0)
  IN  [k \in DOMAIN own |-> s[own[k]]]

IsSelect(s) == s # <<>> /\ s[1].type = "keyword" /\ s[1].val = "select"

ClauseWord == {"limit", "offset", "fetch", "rows", "row"}

(* The row count and offset a clause tail denotes (None when absent), and  *)
(* whether the tail is one of the forms the MariaDB grammar, and the test  *)
(* "Only offset is defined", accept.                                       *)
TailMeaning(t) ==
  LET Wd(i, v) == i <= Len(t) /\ t[i].val = v
      Nm(i)    == i <= Len(t) /\ t[i].type = "number"
      Fetch(i) == Wd(i, "fetch") /\ Wd(i + 1, "first") /\ Nm(i + 2)
                  /\ Wd(i + 3, "rows") /\ Wd(i + 4, "only")
      M(r, o)  == [wf |-> TRUE, rows |-> r, off |-> o]
  IN  CASE Len(t) = 0 -> M(None, None)
        [] Wd(1, "limit") /\ Nm(2) /\ Len(t) = 2 -> M(t[2].num, None)
        [] Wd(1, "limit") /\ Nm(2) /\ Wd(3, ",") /\ Nm(4) /\ Len(t) = 4
             -> M(t[4].num, t[2].num)
        [] Wd(1, "limit") /\ Nm(2) /\ Wd(3, "offset") /\ Nm(4)
           /\ (Len(t) = 4 \/ (Len(t) = 5 /\ Wd(5, "rows")))
             -> M(t[2].num, t[4].num)
        [] Wd(1, "offset") /\ Nm(2) /\ Wd(3, "rows") /\ Len(t) = 3
             -> M(None, t[2].num)
        [] Wd(1, "offset") /\ Nm(2) /\ Wd(3, "rows") /\ Fetch(4) /\ Len(t) = 8
             -> M(t[6].num, t[2].num)
        [] Fetch(1) /\ Len(t) = 5 -> M(t[3].num, None)
        [] OTHER -> [wf |-> FALSE, rows |-> None, off |-> None]

(* A SELECT's meaning: its own-level lexemes after the leading clause-free *)
(* body are its clause tail.                                               *)
Meaning(s) ==
  LET own  == OwnLevel(s)
      kw   == LET I == {i \in DOMAIN own : own[i].val \in ClauseWord} IN IF I = {} THEN 0 ELSE Min(I)
      n    == IF kw = 0 THEN Len(own) ELSE kw - 1
  IN  TailMeaning(SubSeq(own, n + 1, Len(own)))

(* Every ")" closes an earlier "(" and every "(" is closed: the count of  *)
(* open parentheses never drops below 0 and ends at 0.                    *)
Balanced(s) ==
  LET open == FoldLeft(LAMBDA acc, l : Append(acc, Last(acc)
                 + (CASE l.type = "lparen" -> 1 [] l.type = "rparen" -> -1 [] OTHER -> 0)),
                 <<0>>, s)
  IN  /\ \A i \in DOMAIN open : open[i] >= 0
      /\ Last(open) = 0

WellFormed(s) == Balanced(s) /\ Meaning(s).wf

Expected(m) ==
  [wf   |-> TRUE,
   rows |-> IF m.rows = None \/ m.rows > LimitNumber THEN LimitNumber ELSE m.rows,
   off  |-> IF m.off # None \/ OffsetNumber = NoOffset THEN m.off ELSE OffsetNumber]

Honours(in, ok, out) ==
  LET a == Statements(in)
  IN  IF out.status = "error"
        THEN ~ok \/ \E i \in DOMAIN a : IsSelect(a[i]) /\ ~WellFormed(a[i])
        ELSE LET b == Statements(out.text)
             IN  /\ Len(b) = Len(a)
                 /\ \A i \in DOMAIN a :
                      IF ~IsSelect(a[i]) THEN b[i] = a[i]
                      ELSE WellFormed(a[i]) => Meaning(b[i]) = Expected(Meaning(a[i]))

-----------------------------------------------------------------------------
Init    == sqlOut = [status |-> "pending", text |-> <<>>]

Respond == /\ sqlOut.status = "pending"
           /\ sqlOut'.status # "pending"
           /\ Honours(sqlIn, argsOk, sqlOut')
           /\ UNCHANGED <<sqlIn, argsOk>>

Spec    == Init /\ [][Respond]_<<sqlIn, argsOk, sqlOut>>

=============================================================================

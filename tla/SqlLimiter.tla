------------------------------ MODULE SqlLimiter ----------------------------
(***************************************************************************)
(* One call of limit() (src/maxgui/src/utils/sqlLimiter/index.js): the     *)
(* argument checks, the getStatements loop that feeds moo's tokens to the  *)
(* current Statement and collects the statements, and the map that        *)
(* enforces limit and offset on each statement, serialises it and joins    *)
(* the results.  Any thrown error aborts the whole call.                   *)
(***************************************************************************)
EXTENDS SqlOffset

CONSTANTS
  Families,          \* pairs <<prefix, words>>: a request is the prefix
                     \* followed by a sequence of those words
  MaxWords,          \* the most words after the prefix
  StrategyInputs,    \* the limitStrategies arguments callers pass
  LimitNumber,
  OffsetNumber,
  NoOffset           \* OffsetNumber when no offset argument is passed

ASSUME MaxWords \in Nat /\ LimitNumber \in Nat
ASSUME OffsetNumber \in Nat \cup {NoOffset}

VARIABLES
  input,       \* the request's words (fixed for the call)
  strategies,  \* the lower-cased strategy list
  phase,       \* "check" | "lex" | "rewrite" | "done" | "error"
  pending,     \* tokens moo has still to yield
  cur,         \* the Statement being filled
  stmts,       \* the statements getStatements has pushed
  out,         \* the serialised statements, in order
  err,         \* the error that aborted the call, "none" otherwise
  ret          \* the tokens of the string limit() returns (<<>> until then)

vars == <<input, strategies, phase, pending, cur, stmts, out, err, ret>>

Requests == UNION {{f[1] \o w : w \in [1 .. n -> f[2]]} : f \in Families, n \in 0 .. MaxWords}

(* toString of each statement and join(''): the joined text as the        *)
(* caller's next lexer sees it, adjacent blanks merged.                    *)
Joined(o) == Relex(FlattenSeq(o))

Init ==
  /\ input \in Requests
  /\ strategies \in StrategyInputs
  /\ phase = "check"
  /\ pending = Tokenize(input)
  /\ cur = EmptyStatement
  /\ stmts = <<>>
  /\ out = <<>>
  /\ err = "none"
  /\ ret = <<>>

(* limit(): an empty strategy list is a contract violation.                *)
CheckArguments ==
  /\ phase = "check"
  /\ IF strategies = <<>>
       THEN phase' = "error" /\ err' = "LimitStrategiesEmpty"
       ELSE phase' = "lex" /\ UNCHANGED err
  /\ UNCHANGED <<input, strategies, pending, cur, stmts, out, ret>>

(* One iteration of the getStatements loop: lexer.next(), appendToken,     *)
(* and a fresh Statement once the current one has ended.                   *)
NextToken ==
  /\ phase = "lex"
  /\ pending # <<>>
  /\ LET s == AppendToken(cur, Head(pending))
     IN  IF s.endReached
           THEN stmts' = Append(stmts, s) /\ cur' = EmptyStatement
           ELSE cur' = s /\ UNCHANGED stmts
  /\ pending' = Tail(pending)
  /\ UNCHANGED <<input, strategies, phase, out, err, ret>>

(* The lexer is exhausted: the last statement is pushed if it has tokens.  *)
EndOfInput ==
  /\ phase = "lex"
  /\ pending = <<>>
  /\ stmts' = IF cur.tokens # <<>> THEN Append(stmts, cur) ELSE stmts
  /\ cur' = EmptyStatement
  /\ phase' = IF stmts' = <<>> THEN "done" ELSE "rewrite"
  /\ ret' = <<>>
  /\ UNCHANGED <<input, strategies, pending, out, err>>

(* The map callback: enforceLimit, then enforceOffset when an offset       *)
(* number is given, as an Ok or Fail record.  A throw of enforceLimit      *)
(* skips enforceOffset.  The result of enforceLimit is bound once (as lim) *)
(* and used by name.                                                       *)
Callback(s) ==
  CHOOSE r \in {IF OffsetNumber = NoOffset \/ ~lim.ok THEN lim
                ELSE EnforceOffset([s EXCEPT !.tokens = lim.tokens], OffsetNumber) :
                  lim \in {EnforceLimit(s, strategies, LimitNumber)}} : TRUE

(* One map callback, on the next statement; a throw aborts the call, and   *)
(* after the last statement the strings are joined and returned.           *)
RewriteStatement ==
  /\ phase = "rewrite"
  /\ \E r \in {Callback(stmts[Len(out) + 1])} :
       IF ~r.ok
         THEN /\ phase' = "error"
              /\ err' = r.err
              /\ UNCHANGED <<out, ret>>
         ELSE /\ out' = Append(out, r.tokens)
              /\ phase' = IF Len(out') = Len(stmts) THEN "done" ELSE "rewrite"
              /\ ret' = IF Len(out') = Len(stmts) THEN Joined(out') ELSE <<>>
              /\ UNCHANGED err
  /\ UNCHANGED <<input, strategies, pending, cur, stmts>>

Next == CheckArguments \/ NextToken \/ EndOfInput \/ RewriteStatement

Spec == Init /\ [][Next]_vars /\ WF_vars(Next)

-----------------------------------------------------------------------------
(* The whole call as one function of the text's tokens, built from the     *)
(* same steps as the actions: the answer of calling limit() again on the   *)
(* text a call returned.                                                   *)
LimitCall(ts) ==
  CHOOSE c \in {[ok   |-> \A i \in DOMAIN rs : rs[i].ok,
                 text |-> Joined([i \in DOMAIN rs |-> rs[i].tokens])] :
                rs \in {[i \in DOMAIN ss |-> Callback(ss[i])] :
                  ss \in {GetStatements(ts)}}} : TRUE

(* Refinement: the call answers as LimitContract allows.  The answer is    *)
(* pending until the call returns or throws.                               *)
Contract == INSTANCE LimitContract WITH
  sqlIn  <- Lexemes(Tokenize(input)),
  argsOk <- strategies # <<>>,
  sqlOut <- [status |-> IF phase \in {"done", "error"} THEN phase ELSE "pending",
             text   |-> Lexemes(ret)]

(* Every error limit() throws is one of its own diagnostics (spec 7: a     *)
(* malformed clause is reported by naming the construct), never a         *)
(* JavaScript TypeError from offset.has reading a null token.             *)
ErrorsDiagnosed == phase = "error" => err # "TypeError"

Token == [type : STRING, val : STRING, num : Nat, lvl : Nat \cup {NoLevel},
          ins : BOOLEAN]
StmtToken == [type : STRING, val : STRING, num : Nat, lvl : Nat, ins : BOOLEAN]
StatementRec == [tokens : Seq(StmtToken), st : Nat, lvl : Nat, endReached : BOOLEAN]

(* Every variable has its type; every token of a statement has a level.    *)
TypeOK ==
  /\ input \in Requests
  /\ phase \in {"check", "lex", "rewrite", "done", "error"}
  /\ pending \in Seq(Token)
  /\ cur \in StatementRec
  /\ stmts \in Seq(StatementRec)
  /\ out \in Seq(Seq(StmtToken))
  /\ Len(out) <= Len(stmts)
  /\ ret \in Seq(Token)

(* Splicing keeps the text: once the rewritten statements are joined, the  *)
(* tokens the rewriter did not insert are the request's tokens in order,   *)
(* with at most a number lowered to LimitNumber (offset.add slices around  *)
(* the number after LIMIT, the terminator, or the statement's end).        *)
OnlyClausesChange ==
  phase = "done" =>
    LET kept == SelectSeq(FlattenSeq(out), LAMBDA t : ~t.ins)
        orig == Tokenize(input)
    IN  /\ Len(kept) = Len(orig)
        /\ \A i \in DOMAIN orig :
             /\ kept[i].type = orig[i].type
             /\ kept[i].val = orig[i].val
             /\ \/ kept[i].num = orig[i].num
                \/ kept[i].type = "number" /\ kept[i].num = LimitNumber
                   /\ orig[i].num > LimitNumber

(* Enforcing is idempotent (spec 8): limit() applied to the text it        *)
(* returned succeeds and returns that text unchanged, so neither a second  *)
(* LIMIT nor a second OFFSET is added and no number moves again.  A        *)
(* statement that ends inside an unclosed "(" (its appendToken level is    *)
(* above 0) is left out: no clause can be placed at its own level there.   *)
(* A stray ")" is not left out; appendToken clamps it at level 0.          *)
Idempotent ==
  phase = "done" /\ (\A i \in DOMAIN stmts : stmts[i].lvl = 0)
    => LimitCall(ret) = [ok |-> TRUE, text |-> ret]

=============================================================================

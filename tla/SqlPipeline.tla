----------------------------- MODULE SqlPipeline ----------------------------
(***************************************************************************)
(* limit() over characters: the tokens SqlChars' moo lexer returns, with   *)
(* the value moo's rules give them, fed to the getStatements loop, each    *)
(* statement's enforceLimit, and toString's concatenation of token texts   *)
(* (spec 4.5).  No offset number is passed, so enforceOffset is not        *)
(* called.  A token keeps its characters (chars) for toString.            *)
(***************************************************************************)
EXTENDS SqlChars

Stmt == INSTANCE SqlStatement WITH Numeral <- <<>>, Keywords <- {}

(* The integer a digit sequence denotes. *)
RECURSIVE Decimal(_)
Decimal(ds) ==
  IF ds = <<>> THEN 0
  ELSE 10 * Decimal(Front(ds)) + CHOOSE d \in 0 .. 9 : ToString(d) = Last(ds)

(* String(n): the digits of a natural number. *)
RECURSIVE DecimalChars(_)
DecimalChars(n) ==
  IF n < 10 THEN <<ToString(n)>> ELSE DecimalChars(n \div 10) \o <<ToString(n % 10)>>

(* The token object moo builds: the rule as its type, the lower-cased     *)
(* text as an identifier's or keyword's value (a word of one symbol is    *)
(* that symbol, a longer one is no word the limiter looks for), and the   *)
(* numeric text as a number's value.                                      *)
MooToken(tk) ==
  [type  |-> tk.type,
   val   |-> CASE tk.type \in {"identifier", "keyword"} /\ Len(tk.text) = 1 -> tk.text[1]
                [] tk.type = "number" -> "num"
                [] OTHER -> "text",
   num   |-> IF tk.type = "number" THEN Decimal(tk.text) ELSE 0,
   lvl   |-> Stmt!NoLevel,
   ins   |-> FALSE,
   chars |-> tk.text]

TokenText(t) ==
  IF t.type = "number" THEN DecimalChars(t.num)
  ELSE IF t.ins THEN IF t.type = "whitespace" THEN <<"sp">> ELSE <<t.val>>
  ELSE t.chars

(* limit({sql, limitStrategies, limitNumber}) on the lexed text: ok is     *)
(* FALSE when some enforceLimit throws, else chars is the joined text.    *)
LimitText(tks, strategies, limitNumber) ==
  CHOOSE c \in {[ok    |-> \A i \in DOMAIN rs : rs[i].ok,
                 chars |-> FlattenSeq([i \in DOMAIN rs |->
                             FlattenSeq([j \in DOMAIN rs[i].tokens |-> TokenText(rs[i].tokens[j])])])] :
                rs \in {[i \in DOMAIN ss |-> Stmt!EnforceLimit(ss[i], strategies, limitNumber)] :
                  ss \in {Stmt!GetStatements([k \in DOMAIN tks |-> MooToken(tks[k])])}}} : TRUE

=============================================================================

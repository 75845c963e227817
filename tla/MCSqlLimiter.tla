---------------------------- MODULE MCSqlLimiter ----------------------------
(***************************************************************************)
(* Model values and properties for checking SqlLimiter with TLC.          *)
(***************************************************************************)
EXTENDS SqlLimiter

MCNumeral  == ("1" :> 1) @@ ("3" :> 3)
MCKeywords == {"select", "limit", "offset", "fetch", "rows", "row"}
MCSelectX  == <<"select", "x">>
MCSelect   == <<"select">>
MCDefaultStrategies == {<<"limit", "fetch">>}
MCStrategies == {<<"limit", "fetch">>, <<>>}
MCFetchStrategies == {<<"fetch">>}

(* The request families: clause tails after "select x", and sub-queries, *)
(* parentheses and several statements after "select"; and the FETCH and  *)
(* OFFSET ... ROWS tails of the error run, which passes the strategy list  *)
(* [fetch].                                                                *)
MCLimiterFamilies ==
  {<<MCSelectX, {"limit", "offset", "rows", ",", "1", "3"}>>,
   <<MCSelect, {"x", "(", ")", "select", "limit", "3", ";"}>>}
MCFetchFamilies == {<<MCSelectX, {"offset", "rows", "fetch", "first", "only", "1", "3"}>>}

(* limit() answers every request as LimitContract says: no error on a      *)
(* well-formed SELECT, every SELECT capped at LimitNumber rows, existing   *)
(* offsets kept and missing ones added, other statements untouched.        *)
(* This is about enforceLimit, offset.has/add and the statement loop       *)
(* together (index.js limit, statement.js enforceOffset, offset.js).       *)
ContractHonoured == Contract!Spec

=============================================================================

----------------------------- MODULE MaxScaleLogs -----------------------------
(***************************************************************************)
(* The log paging of the MaxScale Vuex module                              *)
(* (src/maxgui/src/store/modules/maxscale.js): fetchLatestLogs,            *)
(* fetchPrevLogs, the log-level filter, and the getters that build their   *)
(* request parameters.                                                      *)
(*                                                                         *)
(* The REST API (/maxscale/logs/entries, not part of the repository) is    *)
(* the environment: an append-only log whose entries are numbered 1, 2, .. *)
(* and have a level; a request returns the PageSize newest entries of the  *)
(* chosen levels, older than its page cursor if it has one, and a prev      *)
(* link whose cursor is the oldest entry returned when older ones exist.   *)
(*                                                                         *)
(* Both actions await the request; the request is a record in `pending`    *)
(* from the call to the answer.  The log view (outside src/) shows         *)
(* latest_logs and prepends each prev_logs page to what it shows; `view`   *)
(* and `viewLevels` are history variables recording that.                   *)
(***************************************************************************)
EXTENDS Integers, FiniteSets, SequencesExt

CONSTANTS
  Levels,        \* APP_CONFIG.MAXSCALE_LOG_LEVELS
  Source,        \* the log_source of the entries
  PageSize,      \* logs_page_size (100 in the code)
  MaxLog,        \* bound on the server's log
  MaxCalls,      \* bound on the fetches a behaviour makes
  MaxInFlight,   \* how many fetches the callers let run at once
  PrevNeedsLink, \* whether the callers call fetchPrevLogs only with a prev link
  Failures,      \* which requests may fail: "none", "prev" or "any"
  FilterChanges  \* whether the user changes the hidden log levels

ASSUME /\ PageSize \in Nat \ {0} /\ MaxInFlight \in Nat \ {0}
       /\ {PrevNeedsLink, FilterChanges} \subseteq BOOLEAN
       /\ Failures \in {"none", "prev", "any"}

(* null, '' and, for prev_log_link, the cursor of a prev link. *)
Null == -1
Empty == 0
NoPrev == Empty
(* A request without a page cursor. *)
NoCursor == 0

VARIABLES
  serverLog,     \* the server's log: the level of every entry
  latest,        \* latest_logs (the entries' numbers)
  prevLogs,      \* prev_logs
  prevLink,      \* prev_log_link
  logSource,     \* log_source
  hidden,        \* hidden_log_levels
  pending,       \* the requests awaited
  calls,         \* fetches made so far
  view,          \* history: what the log view shows, oldest first
  viewLevels,    \* history: the levels the view's pages were asked for
  lostRefetch    \* history: a fetchLatestLogs for other levels than the
                 \* view's failed, and no latest page has come since

vars == <<serverLog, latest, prevLogs, prevLink, logSource, hidden, pending, calls, view, viewLevels,
          lostRefetch>>

Init ==
  /\ serverLog \in UNION {[1 .. n -> Levels] : n \in 0 .. MaxLog}
  /\ latest = <<>>
  /\ prevLogs = <<>>
  /\ prevLink = Null
  /\ logSource = Null
  /\ hidden = {}
  /\ pending = {}
  /\ calls = 0
  /\ view = <<>>
  /\ viewLevels = Levels
  /\ lostRefetch = FALSE

-----------------------------------------------------------------------------
(* getChosenLogLevels and logsParams: the levels not hidden, no cursor. *)
GetChosenLogLevels == Levels \ hidden

LogsParams == [cursor |-> NoCursor, levels |-> GetChosenLogLevels]

(* Mutant: the link is matched without decodeURIComponent, so the        *)
(* encoded page%5Bcursor%5D never matches.                                 *)
PrevPageCursorParamUndecoded == NoCursor

(* prevPageCursorParam: getPageCursorParam(decodeURIComponent(link)).     *)
(* null decodes to "null" and '' to '', neither of which has a            *)
(* page[cursor], so both give '' and the request has no cursor.            *)
PrevPageCursorParam == IF prevLink > 0 THEN prevLink ELSE NoCursor

PrevLogsParams == [LogsParams EXCEPT !.cursor = PrevPageCursorParam]

(* The server's answer to a request with these parameters. *)
Matching(p) == {i \in DOMAIN serverLog : serverLog[i] \in p.levels /\ (p.cursor = NoCursor \/ i < p.cursor)}

PageOf(m) == {i \in m : Cardinality({j \in m : j > i}) < PageSize}

Reply(m) ==
  CHOOSE a \in {[data |-> SetToSortSeq(pg, <), prev |-> IF pg # {} /\ m # pg THEN Min(pg) ELSE NoPrev] :
                  pg \in {PageOf(m)}} : TRUE

Answer(p) == CHOOSE a \in {Reply(m) : m \in {Matching(p)}} : TRUE

-----------------------------------------------------------------------------
(* The server logs another entry. *)
AppendLog ==
  /\ Len(serverLog) < MaxLog
  /\ \E l \in Levels : serverLog' = Append(serverLog, l)
  /\ UNCHANGED <<latest, prevLogs, prevLink, logSource, hidden, pending, calls, view, viewLevels, lostRefetch>>

Call(kind, params) ==
  /\ calls < MaxCalls
  /\ Cardinality(pending) < MaxInFlight
  /\ pending' = pending \cup {[id |-> calls, kind |-> kind, params |-> params]}
  /\ calls' = calls + 1

(* fetchLatestLogs and fetchPrevLogs up to their await. *)
FetchLatestLogs ==
  /\ Call("latest", LogsParams)
  /\ UNCHANGED <<serverLog, latest, prevLogs, prevLink, logSource, hidden, view, viewLevels, lostRefetch>>

FetchPrevLogs ==
  /\ PrevNeedsLink => prevLink > 0
  /\ Call("prev", PrevLogsParams)
  /\ UNCHANGED <<serverLog, latest, prevLogs, prevLink, logSource, hidden, view, viewLevels, lostRefetch>>

(* SET_HIDDEN_LOG_LEVELS, after which the log view fetches the latest logs. *)
SetHiddenLogLevels ==
  /\ FilterChanges
  /\ \E h \in SUBSET Levels \ {hidden} :
       /\ hidden' = h
       /\ Call("latest", [cursor |-> NoCursor, levels |-> Levels \ h])
  /\ UNCHANGED <<serverLog, latest, prevLogs, prevLink, logSource, view, viewLevels, lostRefetch>>

(* Mutant: SET_LOG_SOURCE without its if: an empty page sets it to ''. *)
LatestLogsAnsweredEmptySource(r) ==
  /\ r.kind = "latest"
  /\ \E a \in {Answer(r.params)} :
       /\ latest' = a.data
       /\ logSource' = IF a.data # <<>> THEN Source ELSE Empty
       /\ prevLink' = a.prev
       /\ view' = a.data
       /\ viewLevels' = r.params.levels
  /\ lostRefetch' = FALSE
  /\ pending' = pending \ {r}
  /\ UNCHANGED <<serverLog, prevLogs, hidden, calls>>

(* fetchLatestLogs resumed: SET_LATEST_LOGS, SET_LOG_SOURCE when the page  *)
(* has an entry, SET_PREV_LOG_LINK.                                         *)
LatestLogsAnswered(r) ==
  /\ r.kind = "latest"
  /\ \E a \in {Answer(r.params)} :
       /\ latest' = a.data
       /\ logSource' = IF a.data # <<>> THEN Source ELSE logSource
       /\ prevLink' = a.prev
       /\ view' = a.data
       /\ viewLevels' = r.params.levels
  /\ lostRefetch' = FALSE
  /\ pending' = pending \ {r}
  /\ UNCHANGED <<serverLog, prevLogs, hidden, calls>>

(* Mutant: prev_log_link is not advanced after a prev page. *)
PrevLogsAnsweredKeepLink(r) ==
  /\ r.kind = "prev"
  /\ \E a \in {Answer(r.params)} :
       /\ prevLogs' = a.data
       /\ view' = a.data \o view
  /\ pending' = pending \ {r}
  /\ UNCHANGED <<serverLog, latest, prevLink, logSource, hidden, calls, viewLevels, lostRefetch>>

(* fetchPrevLogs resumed: SET_PREV_LOGS, SET_PREV_LOG_LINK. *)
PrevLogsAnswered(r) ==
  /\ r.kind = "prev"
  /\ \E a \in {Answer(r.params)} :
       /\ prevLogs' = a.data
       /\ prevLink' = a.prev
       /\ view' = a.data \o view
  /\ pending' = pending \ {r}
  /\ UNCHANGED <<serverLog, latest, logSource, hidden, calls, viewLevels, lostRefetch>>

(* The request failed: $helpers.to leaves res undefined and reading        *)
(* res.data throws before anything is committed.                            *)
RequestFailed(r) ==
  /\ Failures = "any" \/ (Failures = "prev" /\ r.kind = "prev")
  /\ pending' = pending \ {r}
  /\ lostRefetch' = (lostRefetch \/ (r.kind = "latest" /\ r.params.levels # viewLevels))
  /\ UNCHANGED <<serverLog, latest, prevLogs, prevLink, logSource, hidden, calls, view, viewLevels>>

Next ==
  \/ AppendLog \/ FetchLatestLogs \/ FetchPrevLogs \/ SetHiddenLogLevels
  \/ \E r \in pending : LatestLogsAnswered(r)
  \/ \E r \in pending : PrevLogsAnswered(r)
  \/ \E r \in pending : RequestFailed(r)

Spec == Init /\ [][Next]_vars

-----------------------------------------------------------------------------
Ids == 1 .. MaxLog

TypeOK ==
  /\ serverLog \in Seq(Levels) /\ Len(serverLog) <= MaxLog
  /\ latest \in Seq(Ids) /\ prevLogs \in Seq(Ids) /\ view \in Seq(Ids)
  /\ prevLink \in {Null, NoPrev} \cup Ids
  /\ logSource \in {Null, Source}
  /\ hidden \subseteq Levels /\ viewLevels \subseteq Levels
  /\ lostRefetch \in BOOLEAN
  /\ pending \subseteq [id : 0 .. MaxCalls - 1, kind : {"latest", "prev"},
                        params : [cursor : {NoCursor} \cup Ids, levels : SUBSET Levels]]
  /\ calls \in 0 .. MaxCalls

(* The log view shows, oldest first, every entry of its levels between    *)
(* the oldest and the newest it shows: pages applied by fetchLatestLogs    *)
(* and fetchPrevLogs neither repeat nor skip an entry.                      *)
ViewIsWindow ==
  view # <<>> =>
    view = SetToSortSeq({i \in view[1] .. view[Len(view)] : serverLog[i] \in viewLevels}, <)

(* prev_log_link continues the view: it is the cursor of the oldest entry *)
(* shown exactly when older entries of the view's levels exist, and '' or  *)
(* null otherwise, so the next fetchPrevLogs asks for the page before it.  *)
LinkContinuesView ==
  view # <<>> =>
    IF \E i \in 1 .. view[1] - 1 : serverLog[i] \in viewLevels
      THEN prevLink = view[1]
      ELSE prevLink \in {Null, NoPrev}

(* The paging is sound under every failure but one: the pages shown stay  *)
(* a window of their levels, and prev_log_link continues them, unless the *)
(* fetchLatestLogs that follows a change of hidden_log_levels failed.      *)
(* Then the view and prev_log_link still belong to the old levels while    *)
(* prevLogsParams asks for the new ones, and nothing repairs this before  *)
(* the next latest page (fetchLatestLogs reads res.data of a failed call). *)
WindowUnlessRefetchLost == ~lostRefetch => ViewIsWindow

LinkUnlessRefetchLost == ~lostRefetch => LinkContinuesView

=============================================================================

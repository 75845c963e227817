---------------------------- MODULE PersistedStore ----------------------------
(***************************************************************************)
(* The persisted Vuex module of the GUI (src/maxgui/src/store/persisted.js) *)
(* which keeps the query editor's history, snippets and preferences in     *)
(* local storage across logouts.                                            *)
(*                                                                         *)
(* Every mutation and action of the module is synchronous, so each action  *)
(* is one step.  A history entry is abstracted to its date (the day its    *)
(* query started) and its query type; the response text, connection name  *)
(* and clock time are formatting and are left out.  A snippet is its date. *)
(* Days are counted by an integer clock `today`; addDaysToNow(d) is        *)
(* today + d and daysDiff(t) is t - today.                                  *)
(***************************************************************************)
EXTENDS Integers, Sequences

CONSTANTS
  QueryTypes,   \* APP_CONFIG.QUERY_LOG_TYPES
  RouteGroups,  \* the keys of refresh_rate_by_route_group
  Rates,        \* refresh rates the settings offer
  DefaultRate,  \* APP_CONFIG.DEF_REFRESH_RATE_BY_GROUP's rate
  RowLimits,    \* row limits the query toolbar offers (10000 is the default)
  ExpiryDays,   \* the 30 of addDaysToNow(30)
  MaxDay,       \* bound on the day clock
  MaxEntries,   \* bound on the length of the history and of the snippets
  Undefined     \* an absent argument of a mutation (JavaScript undefined)

ASSUME ExpiryDays \in Nat \ {0} /\ MaxDay \in Nat /\ MaxEntries \in Nat

VARIABLES
  history,      \* query_history
  snippets,     \* query_snippets
  expired,      \* query_history_expired_time
  settings,     \* refresh_rate_by_route_group, query_row_limit, the two flags
  snackbar,     \* the root SET_SNACK_BAR_MESSAGE, "none" until one is shown
  today,        \* the day the GUI is used
  checkedOn     \* history: the day handleAutoClearQueryHistory last ran, or -1

vars == <<history, snippets, expired, settings, snackbar, today, checkedOn>>

Init ==
  /\ history = <<>>
  /\ snippets = <<>>
  /\ expired = ExpiryDays
  /\ settings = [rates |-> [g \in RouteGroups |-> DefaultRate], rowLimit |-> 10000,
                 confirm |-> 1, showSys |-> 1]
  /\ snackbar = "none"
  /\ today = 0
  /\ checkedOn = -1

-----------------------------------------------------------------------------
(* The list mutations UPDATE_QUERY_HISTORY / UPDATE_QUERY_SNIPPETS: a     *)
(* truthy idx deletes that entry, anything else prepends the payload.       *)
(* idx is a JavaScript index, i.e. entry idx + 1 of the sequence.            *)
Splice(s, idx) == [i \in 1 .. Len(s) - 1 |-> IF i <= idx THEN s[i] ELSE s[i + 1]]

UpdateQueryHistory(s, idx, payload) ==
  IF idx \notin {Undefined, 0} THEN Splice(s, idx) ELSE <<payload>> \o s

UpdateQuerySnippets(s, idx, payload) ==
  IF idx \notin {Undefined, 0} THEN Splice(s, idx) ELSE <<payload>> \o s

(* UPDATE_REFRESH_RATE_BY_ROUTE_GROUP, SET_QUERY_ROW_LIMIT, SET_QUERY_CONFIRM_FLAG. *)
SetPreference ==
  /\ \/ \E g \in RouteGroups, r \in Rates : settings' = [settings EXCEPT !.rates[g] = r]
     \/ \E l \in RowLimits : settings' = [settings EXCEPT !.rowLimit = l]
     \/ \E f \in {0, 1} : settings' = [settings EXCEPT !.confirm = f]
  /\ UNCHANGED <<history, snippets, expired, snackbar, today, checkedOn>>

SetQueryShowSysSchemasFlag ==
  /\ \E f \in {0, 1} : settings' = [settings EXCEPT !.showSys = f]
  /\ UNCHANGED <<history, snippets, expired, snackbar, today, checkedOn>>

(* The catch of pushQueryLog and pushToQuerySnippets. *)
ShowStorageError ==
  /\ snackbar' = "persistentStorage"
  /\ UNCHANGED <<history, snippets, expired, settings, today, checkedOn>>

(* pushQueryLog.  `res` is the query response: its data.data.attributes    *)
(* may be missing (the destructuring throws), may lack execution_time      *)
(* (toFixed throws) or results (the for-of throws).  dateFormat is outside  *)
(* src/ and may throw as well.  Any throw reaches the catch.                 *)
Responses == {"ok", "noAttributes", "noExecutionTime", "noResults"}

(* Mutant: the action record is committed without its dated wrapper. *)
PushQueryLogActionOnly ==
  /\ Len(history) < MaxEntries
  /\ \E res \in Responses, type \in QueryTypes, dateFormatThrows \in BOOLEAN :
       IF res = "ok" /\ ~dateFormatThrows
         THEN /\ history' = UpdateQueryHistory(history, Undefined, [type |-> type])
              /\ UNCHANGED <<snippets, expired, settings, snackbar, today, checkedOn>>
         ELSE ShowStorageError

PushQueryLog ==
  /\ Len(history) < MaxEntries
  /\ \E res \in Responses, type \in QueryTypes, dateFormatThrows \in BOOLEAN :
       IF res = "ok" /\ ~dateFormatThrows
         THEN /\ history' = UpdateQueryHistory(history, Undefined, [date |-> today, type |-> type])
              /\ UNCHANGED <<snippets, expired, settings, snackbar, today, checkedOn>>
         ELSE ShowStorageError

(* pushToQuerySnippets: the commit, or the catch when dateFormat throws. *)
PushToQuerySnippets ==
  /\ Len(snippets) < MaxEntries
  /\ \/ /\ snippets' = UpdateQuerySnippets(snippets, Undefined, today)
        /\ UNCHANGED <<history, expired, settings, snackbar, today, checkedOn>>
     \/ ShowStorageError

(* The editor's delete of one history entry or one snippet: the UPDATE_*   *)
(* mutation with an index and no payload.  MaxEntries also bounds the     *)
(* list a delete can grow.                                                  *)
DeleteQueryHistory ==
  /\ \E idx \in 0 .. Len(history) - 1 : history' = UpdateQueryHistory(history, idx, Undefined)
  /\ Len(history') <= MaxEntries
  /\ UNCHANGED <<snippets, expired, settings, snackbar, today, checkedOn>>

DeleteQuerySnippet ==
  /\ \E idx \in 0 .. Len(snippets) - 1 : snippets' = UpdateQuerySnippets(snippets, idx, Undefined)
  /\ Len(snippets') <= MaxEntries
  /\ UNCHANGED <<history, expired, settings, snackbar, today, checkedOn>>

(* SET_QUERY_HISTORY / SET_QUERY_SNIPPETS with []: the editor's clear-all. *)
ClearQueryHistory ==
  /\ history' = <<>>
  /\ UNCHANGED <<snippets, expired, settings, snackbar, today, checkedOn>>

ClearQuerySnippets ==
  /\ snippets' = <<>>
  /\ UNCHANGED <<history, expired, settings, snackbar, today, checkedOn>>

(* Mutant: the expiry test is daysDiff < 0. *)
HandleAutoClearQueryHistoryStrict ==
  /\ IF expired - today < 0
       THEN /\ history' = <<>>
            /\ expired' = today + ExpiryDays
       ELSE UNCHANGED <<history, expired>>
  /\ checkedOn' = today
  /\ UNCHANGED <<snippets, settings, snackbar, today>>

(* handleAutoClearQueryHistory, dispatched when the app starts. *)
HandleAutoClearQueryHistory ==
  /\ IF expired - today <= 0
       THEN /\ history' = <<>>
            /\ expired' = today + ExpiryDays
       ELSE UNCHANGED <<history, expired>>
  /\ checkedOn' = today
  /\ UNCHANGED <<snippets, settings, snackbar, today>>

(* A day passes. *)
NextDay ==
  /\ today < MaxDay
  /\ today' = today + 1
  /\ UNCHANGED <<history, snippets, expired, settings, snackbar, checkedOn>>

Next ==
  \/ SetPreference \/ SetQueryShowSysSchemasFlag \/ PushQueryLog \/ PushToQuerySnippets
  \/ DeleteQueryHistory \/ DeleteQuerySnippet \/ ClearQueryHistory \/ ClearQuerySnippets
  \/ HandleAutoClearQueryHistory \/ NextDay

Spec == Init /\ [][Next]_vars

-----------------------------------------------------------------------------
Entry == [date : 0 .. MaxDay, type : QueryTypes]

TypeOK ==
  /\ history \in Seq(Entry \cup {Undefined})
  /\ snippets \in Seq((0 .. MaxDay) \cup {Undefined})
  /\ expired \in Nat
  /\ settings \in [rates : [RouteGroups -> Rates], rowLimit : RowLimits,
                   confirm : {0, 1}, showSys : {0, 1}]
  /\ snackbar \in {"none", "persistentStorage"}
  /\ today \in 0 .. MaxDay
  /\ checkedOn \in -1 .. today

(* On the day handleAutoClearQueryHistory has run, no history entry is    *)
(* ExpiryDays old or older: its daysDiff <= 0 test and the expiry date it  *)
(* sets keep every entry younger.                                           *)
AutoClearRetains ==
  checkedOn = today =>
    \A i \in 1 .. Len(history) : history[i] = Undefined \/ today - history[i].date < ExpiryDays

(* The history and the snippets only hold what was pushed: deleting an    *)
(* entry by its index never puts an undefined entry into the list.          *)
NoUndefinedEntry ==
  \A i \in 1 .. Len(history) : history[i] # Undefined

=============================================================================

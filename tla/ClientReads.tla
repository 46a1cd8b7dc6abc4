------------------------------ MODULE ClientReads ------------------------------
(***************************************************************************)
(* The reads and commands of one browser tab: pending reads shared between *)
(* the parts of a page (shared/api/in-flight.ts), the requests that use    *)
(* them (http.ts), the session request the document starts before the      *)
(* program is loaded (initial-request.ts, session-bootstrap.js) and the    *)
(* load state of a page part (shared/lib/use-load-state.ts).               *)
(*                                                                         *)
(* The server is one row set with a version that every command increments  *)
(* and a session that every authentication command replaces; an answer is  *)
(* the version and the session it was computed under.  A step is one task  *)
(* of the event loop with the microtasks it queues.                        *)
(***************************************************************************)
EXTENDS Integers, FiniteSets

CONSTANTS
    View,         \* mounted or unmounted parts of a page that load data
    Key,          \* what may be loaded: path and headers
    SessionKey,   \* the key of GET /api/auth/me
    KeysOf,       \* the keys each view loads, one after the other
    NoKey,        \* key of a view that is not mounted
    Entry,        \* identities of pending reads
    NoEntry,
    Replacing,    \* views that show the answer of a command without reloading
    MaxCommands,  \* bound: commands the tab sends
    MaxAuth,      \* bound: authentication commands the tab sends
    MaxMoves,     \* bound: navigations and reloads
    MaxReload     \* bound: reloads of one view while it is mounted

ASSUME KeyAssumption == SessionKey \in Key /\ NoKey \notin Key
ASSUME EntryAssumption == NoEntry \notin Entry
ASSUME ViewAssumption == Replacing \subseteq View /\ KeysOf \in [View -> SUBSET Key]

VARIABLES
    server,    \* version of the data and the session of the cookie
    entry,     \* pending reads: activeReads is the set of those not free
    pending,   \* pendingReads: the entry that a new consumer of a key joins
    initial,   \* the request started by session-bootstrap.js
    view,      \* load state of each part of the page
    command,   \* the command each view has sent
    auth,      \* the authentication command the tab has sent
    spent,     \* what the user did so far: only for the bounds
    known      \* newest version and session a finished command told this tab

vars == <<server, entry, pending, initial, view, command, auth, spent, known>>

Free == [state |-> "free", key |-> NoKey, version |-> 0, session |-> 0]
NoResult == [key |-> NoKey, reload |-> 0, phase |-> "none", of |-> NoKey, version |-> 0]
Idle == [phase |-> "idle", of |-> NoKey, version |-> 0, onPage |-> FALSE]
Unmounted == [key |-> NoKey, reload |-> 0, effKey |-> NoKey, effReload |-> 0,
              entry |-> NoEntry, floor |-> 0, result |-> NoResult]

Init ==
    /\ server = [version |-> 0, session |-> 0]
    /\ entry = [e \in Entry |-> Free]
    /\ pending = [k \in Key |-> NoEntry]
    /\ initial \in {[state |-> s, version |-> 0, session |-> 0] : s \in {"sent", "gone"}}
    /\ view = [v \in View |-> Unmounted]
    /\ command = [v \in View |-> Idle]
    /\ auth = [phase |-> "idle", session |-> 0]
    /\ spent = [moves |-> 0, commands |-> 0, auth |-> 0]
    /\ known = [version |-> 0, session |-> 0]

-----------------------------------------------------------------------------
(* SHARED PENDING READS *)

activeReads == {e \in Entry : entry[e].state # "free"}
Consumers(views, e) == {v \in View : views[v].entry = e}

Live == {"queued", "sent", "answered"}
Aborted(e, by) == [e EXCEPT !.state = by, !.version = 0, !.session = 0]

IndexedAborted ==                                                       \* mutant
    [e \in Entry |-> IF \E k \in Key : pending[k] = e
                    THEN Aborted(entry[e], "revoked") ELSE entry[e]]

(* clearPendingReads: a later read joins nothing; an authentication command *)
(* also aborts every read, those detached earlier included.                 *)
AllAborted ==
    [e \in Entry |-> IF entry[e].state \in Live
                    THEN Aborted(entry[e], "revoked") ELSE entry[e]]
Cleared == [k \in Key |-> NoEntry]

IndexKept == pending                                                    \* mutant
(* requestJson clears once more before the caller gets the answer.          *)
ClearedByAnswer == Cleared

LeftByOne(views, e) == e # NoEntry                                      \* mutant

(* release and its microtask: a read that lost its last consumer is aborted *)
(* and leaves the index.                                                    *)
Orphan(views, e) == e # NoEntry /\ Consumers(views, e) = {}
EntriesAfterRelease(views, entries, e) ==
    IF Orphan(views, e) /\ entries[e].state \in Live
    THEN [entries EXCEPT ![e] = Aborted(@, "orphan")] ELSE entries
IndexAfterRelease(views, index, e) ==
    IF Orphan(views, e) THEN [k \in Key |-> IF index[k] = e THEN NoEntry ELSE index[k]] ELSE index

(* sharePendingRead: join the pending read of the key unless it was         *)
(* aborted, otherwise start one.                                            *)
Joinable(k) == pending[k] # NoEntry /\ entry[pending[k]].state \in Live
Joined(k) == IF Joinable(k) THEN pending[k] ELSE CHOOSE e \in Entry : e \notin activeReads

(* use-load-state.ts: the effect runs when the key or the reload counter    *)
(* changed since it last ran.  Its cleanup releases the previous read, then *)
(* the new one is joined in the same turn.                                  *)
EffectDueOnKey(v) == view[v].key # view[v].effKey                       \* mutant
EffectDue(v) == <<view[v].key, view[v].reload>> # <<view[v].effKey, view[v].effReload>>

Effect(v) ==
    LET old == view[v].entry
        k   == view[v].key
        ran == [view EXCEPT ![v].effKey = k, ![v].effReload = view[v].reload,
                            ![v].floor = known.version]
    IN
    /\ EffectDue(v)
    /\ \/ /\ k = NoKey
          /\ view' = [view EXCEPT ![v] = Unmounted]
          /\ command' = [command EXCEPT ![v].onPage = FALSE]
          /\ entry' = EntriesAfterRelease(view', entry, old)
          /\ pending' = IndexAfterRelease(view', pending, old)
       \/ /\ k # NoKey
          /\ Joinable(k) \/ activeReads # Entry
          /\ LET e == Joined(k)
                 started == IF Joinable(k) THEN entry
                            ELSE [entry EXCEPT ![e] = [Free EXCEPT !.state = "queued", !.key = k]]
             IN
             /\ view' = [ran EXCEPT ![v].entry = e]
             /\ entry' = EntriesAfterRelease(view', started, old)
             /\ pending' = IndexAfterRelease(view', [pending EXCEPT ![k] = e], old)
          /\ UNCHANGED command
    /\ UNCHANGED <<server, initial, auth, spent, known>>

(* sendJson: the queued load sends its request, unless it was aborted.  The *)
(* first request for the session takes over the one of the document, which  *)
(* the server may have answered long ago.                                   *)
Send(e) ==
    LET takes == entry[e].key = SessionKey /\ initial.state \in {"sent", "answered"}
    IN
    /\ entry[e].state = "queued"
    /\ \/ /\ takes
          /\ entry' = [entry EXCEPT ![e].state = initial.state,
                                    ![e].version = initial.version,
                                    ![e].session = initial.session]
          /\ initial' = [initial EXCEPT !.state = "gone"]
       \/ /\ ~ takes
          /\ entry' = [entry EXCEPT ![e].state = "sent"]
          /\ UNCHANGED initial
    /\ UNCHANGED <<server, pending, view, command, auth, spent, known>>

(* The document's own request is refused when it is older than 30 seconds.  *)
InitialExpires ==
    /\ initial.state \in {"sent", "answered"}
    /\ initial' = [initial EXCEPT !.state = "gone"]
    /\ UNCHANGED <<server, entry, pending, view, command, auth, spent, known>>

-----------------------------------------------------------------------------
(* THE SERVER AND THE NETWORK *)

ServerReads(e) ==
    /\ entry[e].state = "sent"
    /\ entry' = [entry EXCEPT ![e].state = "answered", ![e].version = server.version,
                              ![e].session = server.session]
    /\ UNCHANGED <<server, pending, initial, view, command, auth, spent, known>>

ServerReadsInitial ==
    /\ initial.state = "sent"
    /\ initial' = [state |-> "answered", version |-> server.version, session |-> server.session]
    /\ UNCHANGED <<server, entry, pending, view, command, auth, spent, known>>

-----------------------------------------------------------------------------
(* ANSWERS *)

ResultOfScreen(v, e, phase) ==                                          \* mutant
    [key |-> view[v].key, reload |-> view[v].reload, phase |-> phase,
     of |-> entry[e].key, version |-> entry[e].version]

Result(v, e, phase) ==
    [key |-> view[v].effKey, reload |-> view[v].effReload, phase |-> phase,
     of |-> entry[e].key,
     version |-> IF phase = "success" THEN entry[e].version ELSE 0]

(* The promise of the entry settles: it leaves both indexes, and every      *)
(* consumer whose effect is still active stores the outcome.                *)
Settle(e, phase) ==
    /\ entry' = [entry EXCEPT ![e] = Free]
    /\ pending' = [k \in Key |-> IF pending[k] = e THEN NoEntry ELSE pending[k]]
    /\ view' = [v \in View |->
                  IF view[v].entry = e
                  THEN [view[v] EXCEPT !.entry = NoEntry, !.result = Result(v, e, phase)]
                  ELSE view[v]]
    /\ UNCHANGED <<server, initial, command, auth, spent, known>>

Arrive(e) ==
    /\ entry[e].state = "answered"
    /\ Settle(e, "success")

(* The request failed or was refused, or its signal was aborted.            *)
Fail(e) ==
    /\ entry[e].state \in {"sent", "answered"}
    /\ Settle(e, "error")

AbortArrives(e) ==
    /\ entry[e].state \in {"orphan", "revoked"}
    /\ Settle(e, "error")

-----------------------------------------------------------------------------
(* WHAT THE USER DOES *)

(* use-load-state.ts: the result is the one of the rendered query.           *)
IsCurrent(v) ==
    /\ view[v].key # NoKey
    /\ view[v].result.phase # "none"
    /\ <<view[v].result.key, view[v].result.reload>> = <<view[v].key, view[v].reload>>

(* React flushes the effects of one change before it renders the next.       *)
Navigate(v, k) ==
    /\ k \in KeysOf[v] \cup {NoKey}
    /\ k # view[v].key
    /\ ~ EffectDue(v)
    /\ spent.moves < MaxMoves
    /\ spent' = [spent EXCEPT !.moves = @ + 1]
    /\ view' = [view EXCEPT ![v].key = k]
    /\ UNCHANGED <<server, entry, pending, initial, command, auth, known>>

Reload(v) ==
    /\ view[v].key # NoKey
    /\ ~ EffectDue(v)
    /\ view[v].reload < MaxReload
    /\ spent.moves < MaxMoves
    /\ spent' = [spent EXCEPT !.moves = @ + 1]
    /\ view' = [view EXCEPT ![v].reload = @ + 1]
    /\ UNCHANGED <<server, entry, pending, initial, command, auth, known>>

(* requestJson of a mutation: reads begun before it are shared no longer.    *)
(* A page shows its commands with the last success it loaded, also while it  *)
(* refreshes; the session was loaded before the page.                        *)
SendCommand(v) ==
    /\ view[v].key # NoKey
    /\ view[v].result.phase = "success"
    /\ initial.state = "gone"
    /\ command[v].phase = "idle"
    /\ spent.commands < MaxCommands
    /\ spent' = [spent EXCEPT !.commands = @ + 1]
    /\ command' = [command EXCEPT ![v] = [Idle EXCEPT !.phase = "sent", !.of = view[v].key,
                                                      !.onPage = TRUE]]
    /\ pending' = Cleared
    /\ UNCHANGED <<server, entry, initial, view, auth, known>>

ExecuteCommand(v) ==
    /\ command[v].phase = "sent"
    /\ server' = [server EXCEPT !.version = @ + 1]
    /\ command' = [command EXCEPT ![v].phase = "executed", ![v].version = server.version + 1]
    /\ UNCHANGED <<entry, pending, initial, view, auth, spent, known>>

(* The answer of a command: pendingReads is cleared again before the page    *)
(* goes on, which reloads, or replaces what it shows by the answer.          *)
AnswerCommand(v) ==
    /\ command[v].phase = "executed"
    /\ v \in Replacing \/ view[v].reload < MaxReload
    /\ pending' = ClearedByAnswer
    /\ command' = [command EXCEPT ![v] = Idle]
    /\ known' = [known EXCEPT !.version =
                   IF command[v].version > @ THEN command[v].version ELSE @]
    /\ view' =
         IF ~ command[v].onPage THEN view
         ELSE IF v \in Replacing
         THEN [view EXCEPT ![v].floor = command[v].version,
                           ![v].result = [key |-> view[v].effKey, reload |-> view[v].effReload,
                                          phase |-> "success", of |-> command[v].of,
                                          version |-> command[v].version]]
         ELSE [view EXCEPT ![v].reload = @ + 1]
    /\ UNCHANGED <<server, entry, initial, auth, spent>>

(* The command was refused or its answer lost: the page shows the error.     *)
RefuseCommand(v) ==
    /\ command[v].phase # "idle"
    /\ pending' = ClearedByAnswer
    /\ command' = [command EXCEPT ![v] = Idle]
    /\ UNCHANGED <<server, entry, initial, view, auth, spent, known>>

(* Login, logout and role switch: every read is aborted when the request is  *)
(* sent and again when it is answered, and the document's request discarded. *)
SendAuth ==
    /\ auth.phase = "idle"
    /\ spent.auth < MaxAuth
    /\ spent' = [spent EXCEPT !.auth = @ + 1]
    /\ auth' = [auth EXCEPT !.phase = "sent"]
    /\ initial' = [initial EXCEPT !.state = "gone"]
    /\ entry' = AllAborted
    /\ pending' = Cleared
    /\ UNCHANGED <<server, view, command, known>>

ExecuteAuth ==
    /\ auth.phase = "sent"
    /\ server' = [server EXCEPT !.session = @ + 1]
    /\ auth' = [phase |-> "executed", session |-> server.session + 1]
    /\ UNCHANGED <<entry, pending, initial, view, command, spent, known>>

AnswerAuth ==
    /\ auth.phase = "executed"
    /\ auth' = [auth EXCEPT !.phase = "idle"]
    /\ known' = [known EXCEPT !.session = auth.session]
    /\ entry' = AllAborted
    /\ pending' = ClearedByAnswer
    /\ UNCHANGED <<server, initial, view, command, spent>>

(* The authentication command was refused or failed.                         *)
RefuseAuth ==
    /\ auth.phase = "sent"
    /\ auth' = [auth EXCEPT !.phase = "idle"]
    /\ entry' = AllAborted
    /\ pending' = ClearedByAnswer
    /\ UNCHANGED <<server, initial, view, command, spent, known>>

Next ==
    \/ \E v \in View :
         \/ Effect(v) \/ Reload(v) \/ \E k \in Key \cup {NoKey} : Navigate(v, k)
         \/ SendCommand(v) \/ ExecuteCommand(v) \/ AnswerCommand(v) \/ RefuseCommand(v)
    \/ \E e \in Entry :
         Send(e) \/ ServerReads(e) \/ Arrive(e) \/ Fail(e) \/ AbortArrives(e)
    \/ InitialExpires \/ ServerReadsInitial
    \/ SendAuth \/ ExecuteAuth \/ AnswerAuth \/ RefuseAuth

Progress(e) == Send(e) \/ ServerReads(e) \/ Arrive(e) \/ AbortArrives(e)

(***************************************************************************)
(* React runs the effect of a change it rendered, the event loop runs what *)
(* is queued, and a request the browser sent is answered.  Users owe       *)
(* nothing, and a command may stay unanswered for ever.                    *)
(***************************************************************************)
Fairness == WF_vars(\E v \in View : Effect(v)) /\ WF_vars(\E e \in Entry : Progress(e))

Spec == Init /\ [][Next]_vars
FairSpec == Spec /\ Fairness

-----------------------------------------------------------------------------
EntryType ==
    [state : {"free", "queued", "sent", "answered", "orphan", "revoked"},
     key : Key \cup {NoKey}, version : Nat, session : Nat]
ResultType ==
    [key : Key \cup {NoKey}, reload : Nat, phase : {"none", "success", "error"},
     of : Key \cup {NoKey}, version : Nat]
ViewType ==
    [key : Key \cup {NoKey}, reload : Nat, effKey : Key \cup {NoKey}, effReload : Nat,
     entry : Entry \cup {NoEntry}, floor : Nat, result : ResultType]
CommandType ==
    [phase : {"idle", "sent", "executed"}, of : Key \cup {NoKey}, version : Nat, onPage : BOOLEAN]

(* What the variables hold. *)
TypeOK ==
    /\ server \in [version : Nat, session : Nat]
    /\ entry \in [Entry -> EntryType]
    /\ pending \in [Key -> Entry \cup {NoEntry}]
    /\ initial \in [state : {"sent", "answered", "gone"}, version : Nat, session : Nat]
    /\ view \in [View -> ViewType]
    /\ command \in [View -> CommandType]
    /\ auth \in [phase : {"idle", "sent", "executed"}, session : Nat]
    /\ spent \in [moves : Nat, commands : Nat, auth : Nat]
    /\ known \in [version : Nat, session : Nat]

(***************************************************************************)
(* "Pending requests only": what a read is shared with.  The read of a     *)
(* view loads the key of its effect, and a read that some view still waits *)
(* for is never aborted because another view left it (release in           *)
(* in-flight.ts), only by an authentication command.                       *)
(***************************************************************************)
WaitingReadAlive ==
    \A v \in View : view[v].entry # NoEntry =>
        LET e == entry[view[v].entry] IN
        /\ e.state \in Live \cup {"revoked"}
        /\ e.key = view[v].effKey

(***************************************************************************)
(* A read that began after a command was answered shows that command: it   *)
(* never joins a read that was sent before (both calls of                  *)
(* clearPendingReads in requestJson).  A page that replaces what it shows  *)
(* by the answer cannot promise it: a load in flight overwrites the answer.*)
(***************************************************************************)
AnsweredCommandsShown ==
    \A v \in View \ Replacing :
        IsCurrent(v) /\ ~ EffectDue(v) /\ view[v].entry = NoEntry
          /\ view[v].result.phase = "success" =>
            view[v].result.version >= view[v].floor

(***************************************************************************)
(* Once a login, logout or role switch was answered, nothing computed for  *)
(* an earlier session reaches a page, also not through the document's own  *)
(* request or a read detached from the index by a command.                 *)
(***************************************************************************)
NoOldSessionData ==
    \A v \in View :
        LET e == view[v].entry IN
        e # NoEntry /\ entry[e].state = "answered" => entry[e].session >= known.session

(***************************************************************************)
(* What a page shows as the answer to its query is the answer to that      *)
(* query: answers may arrive in any order, and late ones of earlier        *)
(* queries are kept apart by the key and reload of their own effect.       *)
(***************************************************************************)
ShownDataMatchesQuery ==
    \A v \in View :
        IsCurrent(v) /\ view[v].result.phase = "success" => view[v].result.of = view[v].key

(***************************************************************************)
(* No page loads for ever: each query of a mounted view is answered, shows *)
(* an error, or is given up by the user, whoever else shares the request.  *)
(***************************************************************************)
EveryLoadSettles ==
    \A v \in View : view[v].key # NoKey ~> IsCurrent(v) \/ view[v].key = NoKey
=============================================================================

--------------------------- MODULE ClientReadsProofs ---------------------------
(***************************************************************************)
(* Proofs about the shared reads of one tab, for every set of views, keys  *)
(* and pending reads and every number of commands: the reads a view waits  *)
(* for stay alive, and what a view shows is an answer to its own query,    *)
(* not older than the commands and the session the tab knows of.           *)
(***************************************************************************)
EXTENDS ClientReads, TLAPS

(* A view that waits or shows something has run the effect of a key it loads. *)
ShapeOf(v) ==
    /\ view[v].key \in KeysOf[v] \cup {NoKey}
    /\ view[v].effKey \in KeysOf[v] \cup {NoKey}
    /\ view[v].entry # NoEntry => view[v].effKey # NoKey
    /\ view[v].result.phase # "none" => view[v].effKey # NoKey
    /\ command[v].onPage => view[v].effKey # NoKey
    /\ command[v].onPage => command[v].of \in KeysOf[v]

ViewShape == \A v \in View : ShapeOf(v)

IndexNamesReads ==
    \A k \in Key : pending[k] # NoEntry =>
        entry[pending[k]].state # "free" /\ entry[pending[k]].key = k

ReadsInvariant == TypeOK /\ ViewShape /\ IndexNamesReads /\ WaitingReadAlive

-----------------------------------------------------------------------------
(***************************************************************************)
(* THE EFFECT OF A VIEW                                                    *)
(* What one effect does to each view, entry and key: at most one entry is  *)
(* started and at most one orphaned, which nobody waits for any more.      *)
(***************************************************************************)

LEMMA JoinedIsFresh ==
    ASSUME NEW k \in Key, ~ Joinable(k), activeReads # Entry
    PROVE  Joined(k) \in Entry /\ entry[Joined(k)].state = "free"
BY DEF Joined, activeReads

LEMMA JoinedIsIndexed ==
    ASSUME TypeOK, NEW k \in Key, Joinable(k)
    PROVE  Joined(k) \in Entry /\ Joined(k) = pending[k] /\ entry[Joined(k)].state \in Live
BY DEF Joined, Joinable, TypeOK

LEMMA Functions ==
    ASSUME TypeOK
    PROVE  /\ view = [v \in View |-> view[v]] /\ command = [v \in View |-> command[v]]
           /\ entry = [e \in Entry |-> entry[e]] /\ pending = [k \in Key |-> pending[k]]
BY DEF TypeOK

LEMMA ViewFields ==
    ASSUME TypeOK, NEW v \in View
    PROVE  view[v] = [key |-> view[v].key, reload |-> view[v].reload,
                      effKey |-> view[v].effKey, effReload |-> view[v].effReload,
                      entry |-> view[v].entry, floor |-> view[v].floor,
                      result |-> view[v].result]
BY DEF TypeOK, ViewType

LEMMA EffectOnViews ==
    ASSUME TypeOK, NEW v \in View, Effect(v), NEW w \in View
    PROVE  /\ w # v => view'[w] = view[w] /\ command'[w] = command[w]
           /\ view[v].key = NoKey =>
                view'[v] = Unmounted /\ command'[v] = [command[v] EXCEPT !.onPage = FALSE]
           /\ view[v].key # NoKey =>
                /\ view'[v] = [view[v] EXCEPT !.effKey = view[v].key, !.effReload = view[v].reload,
                                              !.floor = known.version,
                                              !.entry = Joined(view[v].key)]
                /\ command'[v] = command[v]
<1>1. view = [x \in View |-> view[x]] /\ command = [x \in View |-> command[x]]
  BY Functions
<1>2. CASE view[v].key = NoKey
  <2>1. /\ view' = [view EXCEPT ![v] = Unmounted]
        /\ command' = [command EXCEPT ![v].onPage = FALSE]
    BY <1>2 DEF Effect
  <2> QED
    BY <1>1, <1>2, <2>1
<1>3. CASE view[v].key # NoKey
  <2> DEFINE ran == [view EXCEPT ![v].effKey = view[v].key, ![v].effReload = view[v].reload,
                                 ![v].floor = known.version]
  <2>1. /\ view' = [ran EXCEPT ![v].entry = Joined(view[v].key)]
        /\ command' = command
    BY <1>3 DEF Effect
  <2>2. /\ ran[v] = [view[v] EXCEPT !.effKey = view[v].key, !.effReload = view[v].reload,
                                    !.floor = known.version]
        /\ \A x \in View : x # v => ran[x] = view[x]
        /\ ran = [x \in View |-> ran[x]]
    BY <1>1
  <2> HIDE DEF ran
  <2>3. /\ view'[v] = [ran[v] EXCEPT !.entry = Joined(view[v].key)]
        /\ \A x \in View : x # v => view'[x] = ran[x]
    BY <2>1, <2>2
  <2> QED
    BY <1>3, <2>1, <2>2, <2>3
<1> QED
  BY <1>2, <1>3

(* The entries before the cleanup, and the one the view leaves.             *)
Started(k) ==
    IF Joinable(k) THEN entry
    ELSE [entry EXCEPT ![Joined(k)] = [Free EXCEPT !.state = "queued", !.key = k]]

LEMMA EffectOnTables ==
    ASSUME NEW v \in View, Effect(v)
    PROVE  LET k == view[v].key
               old == view[v].entry
           IN
           /\ k = NoKey =>
                /\ entry' = EntriesAfterRelease(view', entry, old)
                /\ pending' = IndexAfterRelease(view', pending, old)
           /\ k # NoKey =>
                /\ Joinable(k) \/ activeReads # Entry
                /\ entry' = EntriesAfterRelease(view', Started(k), old)
                /\ pending' = IndexAfterRelease(view', [pending EXCEPT ![k] = Joined(k)], old)
           /\ UNCHANGED <<server, initial, auth, spent, known>>
BY DEF Effect, Started

LEMMA EffectOnEntries ==
    ASSUME TypeOK, NEW v \in View, Effect(v), NEW e \in Entry
    PROVE  \/ /\ entry'[e] = entry[e]
              /\ view[v].key # NoKey /\ e = Joined(view[v].key) => Joinable(view[v].key)
           \/ /\ entry'[e] = Aborted(entry[e], "orphan")
              /\ entry[e].state \in Live
              /\ \A w \in View : view'[w].entry # e
           \/ /\ view[v].key # NoKey /\ ~ Joinable(view[v].key) /\ activeReads # Entry
              /\ e = Joined(view[v].key)
              /\ entry'[e] = [Free EXCEPT !.state = "queued", !.key = view[v].key]
<1> DEFINE k == view[v].key
           old == view[v].entry
<1>1. entry = [x \in Entry |-> entry[x]]
  BY Functions
<1>2. CASE k = NoKey
  <2>1. entry' = EntriesAfterRelease(view', entry, old)
    BY <1>2, EffectOnTables
  <2> QED
    BY <1>1, <1>2, <2>1 DEF EntriesAfterRelease, Orphan, Consumers
<1>3. CASE k # NoKey
  <2>1. /\ entry' = EntriesAfterRelease(view', Started(k), old)
        /\ Joinable(k) \/ activeReads # Entry
    BY <1>3, EffectOnTables
  <2>2. view'[v].entry = Joined(k)
    BY <1>3, EffectOnViews, ViewFields
  <2>3. /\ Started(k) = [x \in Entry |-> Started(k)[x]]
        /\ e # Joined(k) \/ Joinable(k) => Started(k)[e] = entry[e]
        /\ e = Joined(k) /\ ~ Joinable(k) =>
             Started(k)[e] = [Free EXCEPT !.state = "queued", !.key = k]
    BY <1>1 DEF Started
  <2>4. \/ entry'[e] = Started(k)[e]
        \/ /\ e = old /\ Orphan(view', e) /\ Started(k)[e].state \in Live
           /\ entry'[e] = Aborted(Started(k)[e], "orphan")
    BY <2>1, <2>3 DEF EntriesAfterRelease
  <2>5. Orphan(view', e) => e # Joined(k) /\ \A w \in View : view'[w].entry # e
    BY <2>2 DEF Orphan, Consumers
  <2> QED
    BY <1>3, <2>1, <2>3, <2>4, <2>5
<1> QED
  BY <1>2, <1>3

LEMMA EffectOnIndex ==
    ASSUME TypeOK, NEW v \in View, Effect(v), NEW k \in Key
    PROVE  pending'[k] \in {NoEntry, pending[k]} \/ (k = view[v].key /\ pending'[k] = Joined(k))
<1> DEFINE at == view[v].key
           old == view[v].entry
<1>1. pending = [x \in Key |-> pending[x]]
  BY Functions
<1>2. CASE at = NoKey
  BY <1>1, <1>2, EffectOnTables DEF IndexAfterRelease
<1>3. CASE at # NoKey
  <2> DEFINE index == [pending EXCEPT ![at] = Joined(at)]
  <2>1. pending' = IndexAfterRelease(view', index, old)
    BY <1>3, EffectOnTables
  <2>2. pending'[k] = NoEntry \/ pending'[k] = index[k]
    BY <1>1, <2>1 DEF IndexAfterRelease
  <2> QED
    BY <1>1, <2>2
<1> QED
  BY <1>2, <1>3

LEMMA EffectFunctions ==
    ASSUME TypeOK, NEW v \in View, Effect(v)
    PROVE  /\ view' = [w \in View |-> view'[w]] /\ command' = [w \in View |-> command'[w]]
           /\ entry' = [e \in Entry |-> entry'[e]] /\ pending' = [k \in Key |-> pending'[k]]
<1> DEFINE k == view[v].key
           old == view[v].entry
<1>1. /\ view = [w \in View |-> view[w]] /\ command = [w \in View |-> command[w]]
      /\ entry = [e \in Entry |-> entry[e]] /\ pending = [x \in Key |-> pending[x]]
  BY Functions
<1>2. CASE k = NoKey
  <2>1. /\ view' = [view EXCEPT ![v] = Unmounted]
        /\ command' = [command EXCEPT ![v].onPage = FALSE]
        /\ entry' = EntriesAfterRelease(view', entry, old)
        /\ pending' = IndexAfterRelease(view', pending, old)
    BY <1>2 DEF Effect
  <2> QED
    BY <1>1, <2>1 DEF EntriesAfterRelease, IndexAfterRelease
<1>3. CASE k # NoKey
  <2> DEFINE index == [pending EXCEPT ![k] = Joined(k)]
  <2>1. /\ view' = [[view EXCEPT ![v].effKey = k, ![v].effReload = view[v].reload,
                                 ![v].floor = known.version] EXCEPT ![v].entry = Joined(k)]
        /\ command' = command
    BY <1>3 DEF Effect
  <2>2. /\ entry' = EntriesAfterRelease(view', Started(k), old)
        /\ pending' = IndexAfterRelease(view', index, old)
    BY <1>3, EffectOnTables
  <2>3. Started(k) = [e \in Entry |-> Started(k)[e]] /\ index = [x \in Key |-> index[x]]
    BY <1>1 DEF Started
  <2>4. view' = [w \in View |-> view'[w]] /\ command' = [w \in View |-> command'[w]]
    BY <1>1, <2>1
  <2>5. entry' = [e \in Entry |-> entry'[e]]
    BY <2>2, <2>3 DEF EntriesAfterRelease
  <2>6. pending' = [x \in Key |-> pending'[x]]
    BY <1>1, <2>2 DEF IndexAfterRelease
  <2> QED
    BY <2>4, <2>5, <2>6
<1> QED
  BY <1>2, <1>3

-----------------------------------------------------------------------------
(* TYPE CORRECTNESS *)

LEMMA InitTyped == Init => TypeOK
BY KeyAssumption DEF Init, TypeOK, Free, Unmounted, NoResult, Idle, EntryType, ResultType, ViewType, CommandType

LEMMA AbortedTyped ==
    ASSUME NEW x \in EntryType, NEW by \in {"orphan", "revoked"}
    PROVE  Aborted(x, by) \in EntryType
BY DEF Aborted, EntryType

LEMMA AllAbortedTyped ==
    ASSUME TypeOK
    PROVE  AllAborted \in [Entry -> EntryType] /\ Cleared \in [Key -> Entry \cup {NoEntry}]
<1>1. \A e \in Entry : entry[e] \in EntryType /\ Aborted(entry[e], "revoked") \in EntryType
  BY AbortedTyped DEF TypeOK
<1> QED
  BY <1>1 DEF AllAborted, Cleared

LEMMA EffectTyped ==
    ASSUME TypeOK, NEW v \in View, Effect(v)
    PROVE  TypeOK'
<1>1. \A w \in View : view[w] \in ViewType /\ command[w] \in CommandType
  BY DEF TypeOK
<1>2. \A w \in View : view'[w] \in ViewType /\ command'[w] \in CommandType
  <2> SUFFICES ASSUME NEW w \in View
               PROVE  view'[w] \in ViewType /\ command'[w] \in CommandType
    OBVIOUS
  <2>1. CASE w # v
    BY <1>1, <2>1, EffectOnViews
  <2>2. CASE w = v /\ view[v].key = NoKey
    <3>1. view'[v] = Unmounted /\ command'[v] = [command[v] EXCEPT !.onPage = FALSE]
      BY <2>2, EffectOnViews
    <3>2. Unmounted \in ViewType
      BY DEF Unmounted, NoResult, ViewType, ResultType
    <3> QED
      BY <1>1, <2>2, <3>1, <3>2 DEF CommandType
  <2>3. CASE w = v /\ view[v].key # NoKey
    <3> DEFINE k == view[v].key
    <3>1. k \in Key /\ known.version \in Nat /\ view[v] \in ViewType
      BY <1>1, <2>3 DEF ViewType, TypeOK
    <3>2. Joined(k) \in Entry
      BY <2>3, <3>1, EffectOnTables, JoinedIsFresh, JoinedIsIndexed
    <3>3. /\ view'[v] = [view[v] EXCEPT !.effKey = k, !.effReload = view[v].reload,
                                        !.floor = known.version, !.entry = Joined(k)]
          /\ command'[v] = command[v]
      BY <2>3, EffectOnViews
    <3>4. view'[v] \in ViewType
      BY <3>1, <3>2, <3>3 DEF ViewType
    <3> QED
      BY <1>1, <2>3, <3>3, <3>4
  <2> QED
    BY <2>1, <2>2, <2>3
<1>3. \A e \in Entry : entry'[e] \in EntryType
  <2> SUFFICES ASSUME NEW e \in Entry
               PROVE  entry'[e] \in EntryType
    OBVIOUS
  <2>1. entry[e] \in EntryType /\ Aborted(entry[e], "orphan") \in EntryType
    BY AbortedTyped DEF TypeOK
  <2>2. view[v].key \in Key \cup {NoKey}
    BY <1>1 DEF ViewType
  <2>3. [Free EXCEPT !.state = "queued", !.key = view[v].key] \in EntryType
    BY <2>2 DEF Free, EntryType
  <2> QED
    BY <2>1, <2>3, EffectOnEntries
<1>4. \A k \in Key : pending'[k] \in Entry \cup {NoEntry}
  <2> SUFFICES ASSUME NEW k \in Key
               PROVE  pending'[k] \in Entry \cup {NoEntry}
    OBVIOUS
  <2>1. pending[k] \in Entry \cup {NoEntry}
    BY DEF TypeOK
  <2>2. ASSUME k = view[v].key
        PROVE  Joined(k) \in Entry
    <3>1. k # NoKey
      BY KeyAssumption
    <3> QED
      BY <2>2, <3>1, EffectOnTables, JoinedIsFresh, JoinedIsIndexed
  <2> QED
    BY <2>1, <2>2, EffectOnIndex
<1>5. /\ view' \in [View -> ViewType] /\ command' \in [View -> CommandType]
      /\ entry' \in [Entry -> EntryType] /\ pending' \in [Key -> Entry \cup {NoEntry}]
  BY <1>2, <1>3, <1>4, EffectFunctions
<1>6. UNCHANGED <<server, initial, auth, spent, known>>
  BY EffectOnTables
<1> QED
  BY <1>5, <1>6 DEF TypeOK

LEMMA ResultTyped ==
    ASSUME TypeOK, NEW v \in View, NEW e \in Entry, NEW phase \in {"success", "error"}
    PROVE  Result(v, e, phase) \in ResultType
<1>1. view[v] \in ViewType /\ entry[e] \in EntryType
  BY DEF TypeOK
<1> QED
  BY <1>1 DEF Result, ResultType, ViewType, EntryType

LEMMA SettleTyped ==
    ASSUME TypeOK, NEW e \in Entry, NEW phase \in {"success", "error"}, Settle(e, phase)
    PROVE  TypeOK'
<1>1. Free \in EntryType
  BY DEF Free, EntryType
<1>2. entry' \in [Entry -> EntryType] /\ pending' \in [Key -> Entry \cup {NoEntry}]
  BY <1>1 DEF Settle, TypeOK
<1>3. \A v \in View : [view[v] EXCEPT !.entry = NoEntry, !.result = Result(v, e, phase)] \in ViewType
  <2> SUFFICES ASSUME NEW v \in View
               PROVE  [view[v] EXCEPT !.entry = NoEntry, !.result = Result(v, e, phase)] \in ViewType
    OBVIOUS
  <2>1. view[v] \in ViewType
    BY DEF TypeOK
  <2>2. Result(v, e, phase) \in ResultType
    BY ResultTyped
  <2> QED
    BY <2>1, <2>2 DEF ViewType
<1>4. view' \in [View -> ViewType]
  BY <1>3 DEF Settle, TypeOK
<1> QED
  BY <1>2, <1>4 DEF Settle, TypeOK

LEMMA SendTyped ==
    ASSUME TypeOK, NEW e \in Entry, Send(e)
    PROVE  TypeOK'
<1>1. entry' \in [Entry -> EntryType]
  <2>1. entry[e] \in EntryType /\ initial.version \in Nat /\ initial.session \in Nat
    BY DEF TypeOK
  <2>2. CASE entry' = [entry EXCEPT ![e].state = "sent"]
    <3>1. [entry[e] EXCEPT !.state = "sent"] \in EntryType
      BY <2>1 DEF EntryType
    <3> QED
      BY <2>2, <3>1 DEF TypeOK
  <2>3. CASE /\ initial.state \in {"sent", "answered"}
             /\ entry' = [entry EXCEPT ![e].state = initial.state, ![e].version = initial.version,
                                       ![e].session = initial.session]
    <3> DEFINE taken == [entry[e] EXCEPT !.state = initial.state, !.version = initial.version,
                                         !.session = initial.session]
    <3>1. taken \in EntryType
      BY <2>1, <2>3 DEF EntryType
    <3>2. entry' = [entry EXCEPT ![e] = taken]
      BY <2>3 DEF TypeOK
    <3> QED
      BY <3>1, <3>2 DEF TypeOK
  <2> QED
    BY <2>2, <2>3 DEF Send
<1>2. initial' \in [state : {"sent", "answered", "gone"}, version : Nat, session : Nat]
  BY DEF Send, TypeOK
<1> QED
  BY <1>1, <1>2 DEF Send, TypeOK

LEMMA ServerTyped ==
    ASSUME TypeOK, \/ \E e \in Entry : ServerReads(e)
                   \/ ServerReadsInitial \/ InitialExpires
    PROVE  TypeOK'
<1>1. ASSUME NEW e \in Entry, ServerReads(e)
      PROVE  TypeOK'
  <2> DEFINE answered == [entry[e] EXCEPT !.state = "answered", !.version = server.version,
                                          !.session = server.session]
  <2>1. answered \in EntryType
    <3>1. entry[e] \in EntryType /\ server.version \in Nat /\ server.session \in Nat
      BY DEF TypeOK
    <3> QED
      BY <3>1 DEF EntryType
  <2>2. entry' = [entry EXCEPT ![e] = answered]
    BY <1>1 DEF ServerReads, TypeOK
  <2>3. entry' \in [Entry -> EntryType]
    <3> HIDE DEF answered
    <3> QED
      BY <2>1, <2>2 DEF TypeOK
  <2> QED
    BY <1>1, <2>3 DEF ServerReads, TypeOK
<1>2. CASE ServerReadsInitial
  BY <1>2 DEF ServerReadsInitial, TypeOK
<1>3. CASE InitialExpires
  BY <1>3 DEF InitialExpires, TypeOK
<1> QED
  BY <1>1, <1>2, <1>3

LEMMA UserTyped ==
    ASSUME TypeOK, NEW v \in View,
           Reload(v) \/ (\E k \in Key \cup {NoKey} : Navigate(v, k)) \/ SendCommand(v)
    PROVE  TypeOK'
<1>1. view[v] \in ViewType /\ command[v] \in CommandType
  BY DEF TypeOK
<1>2. CASE Reload(v)
  <2>1. [view[v] EXCEPT !.reload = view[v].reload + 1] \in ViewType
    BY <1>1 DEF ViewType
  <2> QED
    BY <1>2, <2>1 DEF Reload, TypeOK
<1>3. ASSUME NEW k \in Key \cup {NoKey}, Navigate(v, k)
      PROVE  TypeOK'
  <2>1. [view[v] EXCEPT !.key = k] \in ViewType
    BY <1>1 DEF ViewType
  <2> QED
    BY <1>3, <2>1 DEF Navigate, TypeOK
<1>4. CASE SendCommand(v)
  <2>1. [Idle EXCEPT !.phase = "sent", !.of = view[v].key, !.onPage = TRUE] \in CommandType
    BY <1>1 DEF Idle, CommandType, ViewType
  <2> QED
    BY <1>4, <2>1 DEF SendCommand, TypeOK, Cleared
<1> QED
  BY <1>2, <1>3, <1>4

LEMMA AnswerTyped ==
    ASSUME TypeOK, NEW v \in View, ExecuteCommand(v) \/ AnswerCommand(v) \/ RefuseCommand(v)
    PROVE  TypeOK'
<1>1. view[v] \in ViewType /\ command[v] \in CommandType
  BY DEF TypeOK
<1>2. Idle \in CommandType
  BY DEF Idle, CommandType
<1>3. CASE ExecuteCommand(v)
  <2>1. [command[v] EXCEPT !.phase = "executed", !.version = server.version + 1] \in CommandType
    <3>1. server.version + 1 \in Nat
      BY DEF TypeOK
    <3> QED
      BY <1>1, <3>1 DEF CommandType
  <2>2. command' = [command EXCEPT ![v] = [command[v] EXCEPT !.phase = "executed",
                                                             !.version = server.version + 1]]
    BY <1>3 DEF ExecuteCommand, TypeOK
  <2> QED
    BY <1>3, <2>1, <2>2 DEF ExecuteCommand, TypeOK
<1>4. CASE AnswerCommand(v)
  <2>1. /\ command' \in [View -> CommandType]
        /\ pending' \in [Key -> Entry \cup {NoEntry}]
    BY <1>2, <1>4 DEF AnswerCommand, TypeOK, ClearedByAnswer, Cleared
  <2>2. known' \in [version : Nat, session : Nat]
    BY <1>1, <1>4 DEF AnswerCommand, TypeOK, CommandType
  <2>3. view' \in [View -> ViewType]
    <3> DEFINE replaced == [view[v] EXCEPT !.floor = command[v].version,
                              !.result = [key |-> view[v].effKey, reload |-> view[v].effReload,
                                          phase |-> "success", of |-> command[v].of,
                                          version |-> command[v].version]]
               reloaded == [view[v] EXCEPT !.reload = view[v].reload + 1]
    <3>1. replaced \in ViewType
      <4>1. [key |-> view[v].effKey, reload |-> view[v].effReload, phase |-> "success",
             of |-> command[v].of, version |-> command[v].version] \in ResultType
        BY <1>1 DEF ViewType, ResultType, CommandType
      <4> QED
        BY <1>1, <4>1 DEF ViewType, CommandType
    <3>3. reloaded \in ViewType
      BY <1>1 DEF ViewType
    <3>2. \/ view' = view
          \/ view' = [view EXCEPT ![v] = replaced]
          \/ view' = [view EXCEPT ![v] = reloaded]
      BY <1>4 DEF AnswerCommand, TypeOK
    <3> QED
      BY <3>1, <3>2, <3>3 DEF TypeOK
  <2> QED
    BY <1>4, <2>1, <2>2, <2>3 DEF AnswerCommand, TypeOK
<1>5. CASE RefuseCommand(v)
  BY <1>2, <1>5 DEF RefuseCommand, TypeOK, ClearedByAnswer, Cleared
<1> QED
  BY <1>3, <1>4, <1>5

LEMMA AuthTyped ==
    ASSUME TypeOK, SendAuth \/ ExecuteAuth \/ AnswerAuth \/ RefuseAuth
    PROVE  TypeOK'
<1>1. AllAborted \in [Entry -> EntryType] /\ Cleared \in [Key -> Entry \cup {NoEntry}]
  BY AllAbortedTyped
<1>2. CASE SendAuth
  BY <1>1, <1>2 DEF SendAuth, TypeOK
<1>3. CASE ExecuteAuth
  BY <1>3 DEF ExecuteAuth, TypeOK
<1>4. CASE AnswerAuth
  BY <1>1, <1>4 DEF AnswerAuth, ClearedByAnswer, TypeOK
<1>5. CASE RefuseAuth
  BY <1>1, <1>5 DEF RefuseAuth, ClearedByAnswer, TypeOK
<1> QED
  BY <1>2, <1>3, <1>4, <1>5

LEMMA StepTyped == TypeOK /\ [Next]_vars => TypeOK'
<1> SUFFICES ASSUME TypeOK, [Next]_vars
             PROVE  TypeOK'
  OBVIOUS
<1>1. CASE UNCHANGED vars
  BY <1>1 DEF vars, TypeOK
<1>2. ASSUME NEW e \in Entry, Arrive(e) \/ Fail(e) \/ AbortArrives(e)
      PROVE  TypeOK'
  BY <1>2, SettleTyped DEF Arrive, Fail, AbortArrives
<1> QED
  BY <1>1, <1>2, EffectTyped, SendTyped, ServerTyped, UserTyped, AnswerTyped, AuthTyped DEF Next

-----------------------------------------------------------------------------
(***************************************************************************)
(* WHO WAITS FOR WHAT                                                      *)
(* WaitingReadAlive is not inductive: a view may join what the index names,*)
(* so the index has to name reads of its own key (IndexNamesReads), and an *)
(* entry that is started must not be one somebody still names.             *)
(***************************************************************************)

(* What sending, answering and revoking leave of a read: its key, and that   *)
(* it is a read, alive or revoked.                                           *)
Remains(e) ==
    /\ entry'[e].key = entry[e].key
    /\ entry[e].state # "free" => entry'[e].state # "free"
    /\ entry[e].state \in Live \cup {"revoked"} => entry'[e].state \in Live \cup {"revoked"}

LEMMA AbortedFields ==
    ASSUME TypeOK, NEW e \in Entry, NEW by
    PROVE  Aborted(entry[e], by).key = entry[e].key /\ Aborted(entry[e], by).state = by
<1>1. entry[e] \in EntryType
  BY DEF TypeOK
<1> QED
  BY <1>1 DEF Aborted, EntryType

LEMMA SendOnEntries ==
    ASSUME TypeOK, NEW e \in Entry, Send(e), NEW f \in Entry
    PROVE  \/ f # e /\ entry'[f] = entry[f]
           \/ /\ f = e
              /\ entry[e].state = "queued" /\ entry'[e].key = entry[e].key
              /\ \/ entry'[e].state = "sent"
                 \/ /\ initial.state = "answered" /\ entry'[e].state = "answered"
                    /\ entry'[e].version = initial.version /\ entry'[e].session = initial.session
<1>1. entry = [x \in Entry |-> entry[x]] /\ entry[e] \in EntryType
  BY Functions DEF TypeOK
<1>2. CASE entry' = [entry EXCEPT ![e].state = "sent"]
  BY <1>1, <1>2 DEF Send, EntryType
<1>3. CASE /\ initial.state \in {"sent", "answered"}
           /\ entry' = [entry EXCEPT ![e].state = initial.state, ![e].version = initial.version,
                                     ![e].session = initial.session]
  <2>1. entry' = [entry EXCEPT ![e] = [entry[e] EXCEPT !.state = initial.state,
                       !.version = initial.version, !.session = initial.session]]
    BY <1>1, <1>3
  <2>2. f # e => entry'[f] = entry[f]
    BY <1>1, <2>1
  <2>3. entry'[e] = [entry[e] EXCEPT !.state = initial.state,
                       !.version = initial.version, !.session = initial.session]
    BY <1>1, <2>1
  <2>4. entry[e].state = "queued"
    BY DEF Send
  <2> QED
    BY <1>1, <1>3, <2>2, <2>3, <2>4 DEF EntryType
<1> QED
  BY <1>2, <1>3 DEF Send

LEMMA ServerReadsOnEntries ==
    ASSUME TypeOK, NEW e \in Entry, ServerReads(e), NEW f \in Entry
    PROVE  \/ f # e /\ entry'[f] = entry[f]
           \/ /\ f = e
              /\ entry[e].state = "sent" /\ entry'[e].key = entry[e].key
              /\ entry'[e].state = "answered"
              /\ entry'[e].version = server.version /\ entry'[e].session = server.session
<1>1. entry = [x \in Entry |-> entry[x]] /\ entry[e] \in EntryType
  BY Functions DEF TypeOK
<1>2. entry' = [entry EXCEPT ![e] = [entry[e] EXCEPT !.state = "answered",
                     !.version = server.version, !.session = server.session]]
  BY <1>1 DEF ServerReads
<1>3. f # e => entry'[f] = entry[f]
  BY <1>1, <1>2
<1>4. entry'[e] = [entry[e] EXCEPT !.state = "answered",
                     !.version = server.version, !.session = server.session]
  BY <1>1, <1>2
<1>5. entry[e].state = "sent"
  BY DEF ServerReads
<1> QED
  BY <1>1, <1>3, <1>4, <1>5 DEF EntryType

LEMMA ReadsRemain ==
    ASSUME TypeOK,
           \/ \E e \in Entry : Send(e) \/ ServerReads(e)
           \/ SendAuth \/ AnswerAuth \/ RefuseAuth
    PROVE  /\ \A e \in Entry : Remains(e)
           /\ \A k \in Key : pending'[k] \in {NoEntry, pending[k]}
           /\ UNCHANGED <<view, command>>
<1>1. ASSUME NEW e \in Entry, Send(e), NEW f \in Entry
      PROVE  Remains(f)
  BY <1>1, SendOnEntries DEF Remains, Live
<1>2. ASSUME NEW e \in Entry, ServerReads(e), NEW f \in Entry
      PROVE  Remains(f)
  BY <1>2, ServerReadsOnEntries DEF Remains, Live
<1>3. ASSUME entry' = AllAborted, NEW f \in Entry
      PROVE  Remains(f)
  <2>1. entry'[f] = IF entry[f].state \in Live THEN Aborted(entry[f], "revoked") ELSE entry[f]
    BY <1>3 DEF AllAborted
  <2>2. /\ Aborted(entry[f], "revoked").key = entry[f].key
        /\ Aborted(entry[f], "revoked").state = "revoked"
    BY AbortedFields
  <2> QED
    BY <2>1, <2>2 DEF Remains
<1>4. \A k \in Key : Cleared[k] = NoEntry
  BY DEF Cleared
<1> QED
  BY <1>1, <1>2, <1>3, <1>4
     DEF Send, ServerReads, SendAuth, AnswerAuth, RefuseAuth, ClearedByAnswer

LEMMA InitReads == Init => ReadsInvariant
<1> SUFFICES ASSUME Init
             PROVE  ViewShape /\ IndexNamesReads /\ WaitingReadAlive
  BY InitTyped DEF ReadsInvariant
<1> QED
  BY DEF Init, ViewShape, ShapeOf, IndexNamesReads, WaitingReadAlive, Unmounted, NoResult, Idle

(* A new or joined read has the key of the effect; a read that lost its last *)
(* consumer has no view that waits for it.                                   *)
LEMMA EffectReads ==
    ASSUME ReadsInvariant, NEW v \in View, Effect(v)
    PROVE  ReadsInvariant'
<1> USE DEF ReadsInvariant
<1> DEFINE k == view[v].key
<1>1. TypeOK'
  BY EffectTyped
<1>2. /\ k \in KeysOf[v] \cup {NoKey}
      /\ KeysOf[v] \subseteq Key
      /\ k # NoKey => k \in Key /\ Joined(k) \in Entry /\ Joined(k) # NoEntry
  <2>1. k \in KeysOf[v] \cup {NoKey} /\ KeysOf[v] \subseteq Key
    BY ViewAssumption DEF ViewShape, ShapeOf
  <2> QED
    BY <2>1, EffectOnTables, JoinedIsFresh, JoinedIsIndexed, EntryAssumption
<1>3. k # NoKey => /\ view'[v].key = k /\ view'[v].effKey = k /\ view'[v].entry = Joined(k)
                   /\ view'[v].result = view[v].result
                   /\ command'[v] = command[v]
  <2> SUFFICES ASSUME k # NoKey
               PROVE  /\ view'[v].key = k /\ view'[v].effKey = k /\ view'[v].entry = Joined(k)
                      /\ view'[v].result = view[v].result
                      /\ command'[v] = command[v]
    OBVIOUS
  <2>1. /\ view'[v] = [view[v] EXCEPT !.effKey = k, !.effReload = view[v].reload,
                                      !.floor = known.version, !.entry = Joined(k)]
        /\ command'[v] = command[v]
    BY EffectOnViews
  <2>2. view[v] \in ViewType
    BY DEF TypeOK
  <2> QED
    BY <2>1, <2>2 DEF ViewType
<1>4. k = NoKey => /\ view'[v].key = NoKey /\ view'[v].effKey = NoKey /\ view'[v].entry = NoEntry
                   /\ view'[v].result.phase = "none"
                   /\ ~ command'[v].onPage
  <2> SUFFICES ASSUME k = NoKey
               PROVE  /\ view'[v].key = NoKey /\ view'[v].effKey = NoKey
                      /\ view'[v].entry = NoEntry
                      /\ view'[v].result.phase = "none"
                      /\ ~ command'[v].onPage
    OBVIOUS
  <2>1. view'[v] = Unmounted /\ command'[v] = [command[v] EXCEPT !.onPage = FALSE]
    BY EffectOnViews
  <2>2. command[v] \in CommandType
    BY DEF TypeOK
  <2> QED
    BY <2>1, <2>2 DEF Unmounted, NoResult, CommandType
<1>5. \A w \in View : w # v => view'[w] = view[w] /\ command'[w] = command[w]
  BY EffectOnViews
<1>6. ViewShape'
  <2> SUFFICES ASSUME NEW w \in View
               PROVE  /\ view'[w].key \in KeysOf[w] \cup {NoKey}
                      /\ view'[w].effKey \in KeysOf[w] \cup {NoKey}
                      /\ view'[w].entry # NoEntry => view'[w].effKey # NoKey
                      /\ view'[w].result.phase # "none" => view'[w].effKey # NoKey
                      /\ command'[w].onPage => view'[w].effKey # NoKey
                      /\ command'[w].onPage => command'[w].of \in KeysOf[w]
    BY DEF ViewShape, ShapeOf
  <2> QED
    BY <1>2, <1>3, <1>4, <1>5 DEF ViewShape, ShapeOf
<1>7. \A x \in Key : pending[x] # NoEntry =>
        pending[x] \in Entry /\ entry[pending[x]].state # "free" /\ entry[pending[x]].key = x
  BY DEF IndexNamesReads, TypeOK
(* The read of the effect has the key it loads, and other reads keep theirs. *)
<1>8. \A e \in Entry : entry[e].state # "free" =>
        entry'[e].state # "free" /\ entry'[e].key = entry[e].key
  <2> SUFFICES ASSUME NEW e \in Entry, entry[e].state # "free"
               PROVE  entry'[e].state # "free" /\ entry'[e].key = entry[e].key
    OBVIOUS
  <2>1. Aborted(entry[e], "orphan").key = entry[e].key /\ Aborted(entry[e], "orphan").state = "orphan"
    BY AbortedFields
  <2> QED
    BY <1>2, <2>1, EffectOnEntries, JoinedIsFresh
<1>9. k # NoKey => entry'[Joined(k)].key = k /\ entry'[Joined(k)].state \in Live
  <2> SUFFICES ASSUME k # NoKey
               PROVE  entry'[Joined(k)].key = k /\ entry'[Joined(k)].state \in Live
    OBVIOUS
  <2>1. [Free EXCEPT !.state = "queued", !.key = k].key = k
        /\ [Free EXCEPT !.state = "queued", !.key = k].state \in Live
    BY DEF Free, Live
  <2>2. Joinable(k) => Joined(k) = pending[k] /\ entry[Joined(k)].state \in Live
                         /\ entry[Joined(k)].key = k
    BY <1>2, <1>7, JoinedIsIndexed, EntryAssumption
  <2> QED
    BY <1>2, <1>3, <2>1, <2>2, EffectOnEntries
<1>10. IndexNamesReads'
  <2> SUFFICES ASSUME NEW x \in Key, pending'[x] # NoEntry
               PROVE  entry'[pending'[x]].state # "free" /\ entry'[pending'[x]].key = x
    BY DEF IndexNamesReads
  <2>1. CASE pending'[x] = pending[x]
    BY <1>7, <1>8, <2>1
  <2>2. CASE x = k /\ pending'[x] = Joined(k)
    BY <1>9, <2>2, KeyAssumption DEF Live
  <2> QED
    BY <2>1, <2>2, EffectOnIndex
<1>11. WaitingReadAlive'
  <2> SUFFICES ASSUME NEW w \in View, view'[w].entry # NoEntry
               PROVE  /\ entry'[view'[w].entry].state \in Live \cup {"revoked"}
                      /\ entry'[view'[w].entry].key = view'[w].effKey
    BY DEF WaitingReadAlive
  <2>1. CASE w = v
    BY <1>3, <1>4, <1>9, <2>1
  <2>2. CASE w # v
    <3> DEFINE e == view[w].entry
    <3>1. view'[w] = view[w] /\ e \in Entry
          /\ entry[e].state \in Live \cup {"revoked"} /\ entry[e].key = view[w].effKey
      BY <1>5, <2>2 DEF WaitingReadAlive, TypeOK, ViewType
    <3>2. entry[e].state # "free"
      BY <3>1 DEF Live
    <3>3. entry'[e] = entry[e]
      BY <1>2, <3>1, <3>2, EffectOnEntries, JoinedIsFresh
    <3> QED
      BY <3>1, <3>3
  <2> QED
    BY <2>1, <2>2
<1> QED
  BY <1>1, <1>6, <1>10, <1>11

LEMMA RemainingReads ==
    ASSUME ReadsInvariant, TypeOK', \A e \in Entry : Remains(e),
           \A k \in Key : pending'[k] \in {NoEntry, pending[k]},
           UNCHANGED <<view, command>>
    PROVE  ReadsInvariant'
<1>1. ViewShape'
  BY DEF ReadsInvariant, ViewShape, ShapeOf
<1>2. IndexNamesReads'
  BY DEF ReadsInvariant, IndexNamesReads, Remains, TypeOK
<1>3. WaitingReadAlive'
  BY DEF ReadsInvariant, WaitingReadAlive, Remains, TypeOK, ViewType
<1> QED
  BY <1>1, <1>2, <1>3 DEF ReadsInvariant

LEMMA SettleOnViews ==
    ASSUME TypeOK, NEW e \in Entry, NEW phase, Settle(e, phase), NEW v \in View
    PROVE  /\ view[v].entry # e => view'[v] = view[v]
           /\ view[v].entry = e =>
                view'[v] = [view[v] EXCEPT !.entry = NoEntry, !.result = Result(v, e, phase)]
           /\ command'[v] = command[v]
BY DEF Settle

LEMMA SettleReads ==
    ASSUME ReadsInvariant, NEW e \in Entry, NEW phase \in {"success", "error"}, Settle(e, phase)
    PROVE  ReadsInvariant'
<1> USE DEF ReadsInvariant
<1>1. TypeOK'
  BY SettleTyped
<1>2. /\ \A f \in Entry : f # e => entry'[f] = entry[f]
      /\ \A k \in Key : pending'[k] = IF pending[k] = e THEN NoEntry ELSE pending[k]
  BY DEF Settle, TypeOK
<1>3. ASSUME NEW v \in View, view[v].entry = e
      PROVE  /\ view'[v].key = view[v].key /\ view'[v].effKey = view[v].effKey
             /\ view'[v].entry = NoEntry
  <2>1. view'[v] = [view[v] EXCEPT !.entry = NoEntry, !.result = Result(v, e, phase)]
    BY <1>3 DEF Settle
  <2>2. view[v] \in ViewType
    BY DEF TypeOK
  <2> QED
    BY <2>1, <2>2 DEF ViewType
<1>4. \A v \in View : (view[v].entry # e => view'[v] = view[v]) /\ command'[v] = command[v]
  BY SettleOnViews
<1>5. ViewShape'
  BY <1>3, <1>4, EntryAssumption DEF ViewShape, ShapeOf
<1>6. IndexNamesReads'
  BY <1>2 DEF IndexNamesReads, TypeOK
<1>7. WaitingReadAlive'
  BY <1>2, <1>3, <1>4 DEF WaitingReadAlive, TypeOK, ViewType
<1> QED
  BY <1>1, <1>5, <1>6, <1>7

(* Steps that leave entries, index and the effects of the views alone.       *)
LEMMA QuietReads ==
    ASSUME ReadsInvariant, TypeOK', ViewShape', UNCHANGED entry,
           \A k \in Key : pending'[k] \in {NoEntry, pending[k]},
           \A v \in View : view'[v].entry = view[v].entry /\ view'[v].effKey = view[v].effKey
    PROVE  ReadsInvariant'
<1>1. IndexNamesReads'
  BY DEF ReadsInvariant, IndexNamesReads
<1>2. WaitingReadAlive'
  BY DEF ReadsInvariant, WaitingReadAlive
<1> QED
  BY <1>1, <1>2 DEF ReadsInvariant

LEMMA UserReads ==
    ASSUME ReadsInvariant, NEW v \in View,
           Reload(v) \/ (\E k \in Key \cup {NoKey} : Navigate(v, k)) \/ SendCommand(v)
    PROVE  ReadsInvariant'
<1> USE DEF ReadsInvariant
<1>1. TypeOK'
  BY UserTyped
<1>2. view[v] \in ViewType /\ view = [w \in View |-> view[w]]
      /\ command = [w \in View |-> command[w]]
  BY Functions DEF TypeOK
<1>3. CASE Reload(v)
  <2>1. /\ view'[v] = [view[v] EXCEPT !.reload = view[v].reload + 1]
        /\ \A w \in View : w # v => view'[w] = view[w]
        /\ UNCHANGED <<entry, pending, command>>
    BY <1>2, <1>3 DEF Reload
  <2>2. /\ view'[v].key = view[v].key /\ view'[v].effKey = view[v].effKey
        /\ view'[v].entry = view[v].entry /\ view'[v].result = view[v].result
    BY <1>2, <2>1 DEF ViewType
  <2>3. ViewShape'
    <3>1. ASSUME NEW w \in View, w # v
          PROVE  ShapeOf(w)'
      BY <2>1, <3>1 DEF ViewShape, ShapeOf
    <3>2. ShapeOf(v)'
      BY <2>1, <2>2 DEF ViewShape, ShapeOf
    <3> QED
      BY <3>1, <3>2 DEF ViewShape
  <2> QED
    BY <1>1, <2>1, <2>2, <2>3, QuietReads
<1>4. ASSUME NEW k \in Key \cup {NoKey}, Navigate(v, k)
      PROVE  ReadsInvariant'
  <2>1. /\ view'[v] = [view[v] EXCEPT !.key = k]
        /\ \A w \in View : w # v => view'[w] = view[w]
        /\ k \in KeysOf[v] \cup {NoKey}
        /\ UNCHANGED <<entry, pending, command>>
    BY <1>2, <1>4 DEF Navigate
  <2>2. /\ view'[v].key = k /\ view'[v].effKey = view[v].effKey
        /\ view'[v].entry = view[v].entry /\ view'[v].result = view[v].result
    BY <1>2, <2>1 DEF ViewType
  <2>3. ViewShape'
    <3>1. ASSUME NEW w \in View, w # v
          PROVE  ShapeOf(w)'
      BY <2>1, <3>1 DEF ViewShape, ShapeOf
    <3>2. ShapeOf(v)'
      BY <2>1, <2>2 DEF ViewShape, ShapeOf
    <3> QED
      BY <3>1, <3>2 DEF ViewShape
  <2> QED
    BY <1>1, <2>1, <2>2, <2>3, QuietReads
<1>5. CASE SendCommand(v)
  <2>1. /\ command'[v] = [Idle EXCEPT !.phase = "sent", !.of = view[v].key, !.onPage = TRUE]
        /\ \A w \in View : w # v => command'[w] = command[w]
        /\ view[v].key # NoKey /\ view[v].result.phase = "success"
        /\ \A k \in Key : pending'[k] = NoEntry
        /\ UNCHANGED <<entry, view>>
    BY <1>2, <1>5 DEF SendCommand, Cleared
  <2>2. command'[v].of = view[v].key
    BY <2>1 DEF Idle
  <2>3. ViewShape'
    BY <2>1, <2>2 DEF ViewShape, ShapeOf
  <2> QED
    BY <1>1, <2>1, <2>3, QuietReads
<1> QED
  BY <1>3, <1>4, <1>5

(* What the answer of a command does to the view that sent it.               *)
LEMMA AnswerOnViews ==
    ASSUME TypeOK, NEW v \in View, AnswerCommand(v)
    PROVE  /\ \A w \in View : w # v => view'[w] = view[w] /\ command'[w] = command[w]
           /\ command'[v] = Idle /\ command[v].phase = "executed"
           /\ \A k \in Key : pending'[k] = NoEntry
           /\ UNCHANGED <<server, entry, initial, auth, spent>>
           /\ \/ ~ command[v].onPage /\ view'[v] = view[v]
              \/ /\ command[v].onPage /\ v \in Replacing
                 /\ view'[v] = [view[v] EXCEPT !.floor = command[v].version,
                      !.result = [key |-> view[v].effKey, reload |-> view[v].effReload,
                                  phase |-> "success", of |-> command[v].of,
                                  version |-> command[v].version]]
              \/ /\ command[v].onPage /\ v \notin Replacing
                 /\ view'[v] = [view[v] EXCEPT !.reload = view[v].reload + 1]
<1>1. view = [w \in View |-> view[w]] /\ command = [w \in View |-> command[w]]
  BY Functions
<1>2. /\ \A w \in View : w # v => command'[w] = command[w]
      /\ command'[v] = Idle /\ command[v].phase = "executed"
      /\ \A k \in Key : pending'[k] = NoEntry
      /\ UNCHANGED <<server, entry, initial, auth, spent>>
  BY <1>1 DEF AnswerCommand, ClearedByAnswer, Cleared
<1>3. CASE ~ command[v].onPage
  BY <1>1, <1>2, <1>3 DEF AnswerCommand
<1>4. CASE command[v].onPage /\ v \in Replacing
  <2> DEFINE replaced == [view[v] EXCEPT !.floor = command[v].version,
                !.result = [key |-> view[v].effKey, reload |-> view[v].effReload,
                            phase |-> "success", of |-> command[v].of,
                            version |-> command[v].version]]
  <2>1. view' = [view EXCEPT ![v] = replaced]
    BY <1>1, <1>4 DEF AnswerCommand
  <2>2. view'[v] = replaced /\ \A w \in View : w # v => view'[w] = view[w]
    <3> HIDE DEF replaced
    <3> QED
      BY <1>1, <2>1
  <2> QED
    BY <1>2, <1>4, <2>2
<1>5. CASE command[v].onPage /\ v \notin Replacing
  <2>1. view' = [view EXCEPT ![v] = [view[v] EXCEPT !.reload = view[v].reload + 1]]
    BY <1>1, <1>5 DEF AnswerCommand
  <2>2. /\ view'[v] = [view[v] EXCEPT !.reload = view[v].reload + 1]
        /\ \A w \in View : w # v => view'[w] = view[w]
    BY <1>1, <2>1
  <2> QED
    BY <1>2, <1>5, <2>2
<1> QED
  BY <1>3, <1>4, <1>5

LEMMA AnswerReads ==
    ASSUME ReadsInvariant, NEW v \in View,
           ExecuteCommand(v) \/ AnswerCommand(v) \/ RefuseCommand(v)
    PROVE  ReadsInvariant'
<1> USE DEF ReadsInvariant
<1>1. TypeOK'
  BY AnswerTyped
<1>2. view[v] \in ViewType /\ command[v] \in CommandType
      /\ command = [w \in View |-> command[w]]
  BY Functions DEF TypeOK
<1>3. Idle.onPage = FALSE
  BY DEF Idle
<1>4. CASE ExecuteCommand(v)
  <2>1. /\ command'[v].onPage = command[v].onPage /\ command'[v].of = command[v].of
        /\ \A w \in View : w # v => command'[w] = command[w]
        /\ UNCHANGED <<entry, pending, view>>
    BY <1>2, <1>4 DEF ExecuteCommand, CommandType
  <2>2. ViewShape'
    BY <2>1 DEF ViewShape, ShapeOf
  <2> QED
    BY <1>1, <2>1, <2>2, QuietReads
<1>5. CASE AnswerCommand(v)
  <2>1. /\ view'[v].key = view[v].key /\ view'[v].effKey = view[v].effKey
        /\ view'[v].entry = view[v].entry
        /\ view'[v].result = view[v].result \/ command[v].onPage
    <3>1. CASE view'[v] = view[v]
      BY <3>1
    <3>2. CASE /\ command[v].onPage
               /\ view'[v] = [view[v] EXCEPT !.floor = command[v].version,
                    !.result = [key |-> view[v].effKey, reload |-> view[v].effReload,
                                phase |-> "success", of |-> command[v].of,
                                version |-> command[v].version]]
      BY <1>2, <3>2 DEF ViewType
    <3>3. CASE view'[v] = [view[v] EXCEPT !.reload = view[v].reload + 1]
      BY <1>2, <3>3 DEF ViewType
    <3> QED
      BY <1>5, <3>1, <3>2, <3>3, AnswerOnViews
  <2>2. \A w \in View : w # v => view'[w] = view[w] /\ command'[w] = command[w]
    BY <1>5, AnswerOnViews
  <2>3. command'[v] = Idle
    BY <1>5, AnswerOnViews
  <2>4. ViewShape'
    BY <1>3, <2>1, <2>2, <2>3 DEF ViewShape, ShapeOf
  <2>5. UNCHANGED entry /\ \A k \in Key : pending'[k] = NoEntry
    BY <1>5, AnswerOnViews
  <2> QED
    BY <1>1, <2>1, <2>2, <2>4, <2>5, QuietReads
<1>6. CASE RefuseCommand(v)
  <2>1. /\ command'[v] = Idle
        /\ \A w \in View : w # v => command'[w] = command[w]
        /\ \A k \in Key : pending'[k] = NoEntry
        /\ UNCHANGED <<entry, view>>
    BY <1>2, <1>6 DEF RefuseCommand, ClearedByAnswer, Cleared
  <2>2. ViewShape'
    BY <1>3, <2>1 DEF ViewShape, ShapeOf
  <2> QED
    BY <1>1, <2>1, <2>2, QuietReads
<1> QED
  BY <1>4, <1>5, <1>6

LEMMA StepReads == ReadsInvariant /\ [Next]_vars => ReadsInvariant'
<1> SUFFICES ASSUME ReadsInvariant, [Next]_vars
             PROVE  ReadsInvariant'
  OBVIOUS
<1>1. TypeOK /\ TypeOK'
  BY StepTyped DEF ReadsInvariant
<1>2. CASE UNCHANGED vars
  BY <1>2 DEF vars, ReadsInvariant, TypeOK, ViewShape, ShapeOf, IndexNamesReads, WaitingReadAlive
<1>3. ASSUME NEW e \in Entry, Arrive(e) \/ Fail(e) \/ AbortArrives(e)
      PROVE  ReadsInvariant'
  BY <1>3, SettleReads DEF Arrive, Fail, AbortArrives
<1>4. CASE \/ \E e \in Entry : Send(e) \/ ServerReads(e)
           \/ SendAuth \/ AnswerAuth \/ RefuseAuth
  BY <1>1, <1>4, ReadsRemain, RemainingReads
<1>5. CASE InitialExpires \/ ServerReadsInitial \/ ExecuteAuth
  BY <1>1, <1>5 DEF InitialExpires, ServerReadsInitial, ExecuteAuth, ReadsInvariant, ViewShape, ShapeOf,
                    IndexNamesReads, WaitingReadAlive
<1> QED
  BY <1>2, <1>3, <1>4, <1>5, EffectReads, UserReads, AnswerReads DEF Next

(* Type correctness of the shared reads. *)
THEOREM ReadsTyped == Spec => []TypeOK
BY InitTyped, StepTyped, PTL DEF Spec

(* A read some view still waits for is never aborted by another view that    *)
(* leaves it (release in in-flight.ts).                                      *)
THEOREM WaitingReadsLive == Spec => []WaitingReadAlive
<1>1. ReadsInvariant => WaitingReadAlive
  BY DEF ReadsInvariant
<1> QED
  BY <1>1, InitReads, StepReads, PTL DEF Spec

-----------------------------------------------------------------------------
(* NOTHING FROM AN EARLIER SESSION *)

(* What the server has answered and the tab may still take is of the session *)
(* the tab knows or a later one.  The document's own request is gone before  *)
(* a session can be replaced.                                                *)
SessionsInvariant ==
    /\ TypeOK
    /\ known.session <= server.session
    /\ auth.phase = "executed" => auth.session <= server.session
    /\ auth.phase # "idle" => initial.state = "gone"
    /\ initial.state = "answered" => initial.session >= known.session
    /\ \A e \in Entry : entry[e].state = "answered" => entry[e].session >= known.session

LEMMA RevokedUnanswered ==
    ASSUME TypeOK, entry' = AllAborted, NEW e \in Entry
    PROVE  entry'[e].state # "answered"
<1>1. entry'[e] = IF entry[e].state \in Live THEN Aborted(entry[e], "revoked") ELSE entry[e]
  BY DEF AllAborted
<1>2. Aborted(entry[e], "revoked").state = "revoked"
  BY AbortedFields
<1> QED
  BY <1>1, <1>2 DEF Live

(* An entry that the effect of a view leaves answered was answered before.   *)
LEMMA EffectAnswersNothing ==
    ASSUME TypeOK, NEW v \in View, Effect(v), NEW e \in Entry, entry'[e].state = "answered"
    PROVE  entry'[e] = entry[e]
<1>1. Aborted(entry[e], "orphan").state # "answered"
  BY AbortedFields
<1>2. [Free EXCEPT !.state = "queued", !.key = view[v].key].state = "queued"
  BY DEF Free
<1> QED
  BY <1>1, <1>2, EffectOnEntries

LEMMA InitSessions == Init => SessionsInvariant
BY InitTyped DEF Init, SessionsInvariant, Free

LEMMA StepSessions == SessionsInvariant /\ [Next]_vars => SessionsInvariant'
<1> SUFFICES ASSUME SessionsInvariant, [Next]_vars
             PROVE  SessionsInvariant'
  OBVIOUS
<1>1. TypeOK /\ TypeOK'
  BY StepTyped DEF SessionsInvariant
<1>2. /\ server.session \in Nat /\ known.session \in Nat /\ auth.session \in Nat
      /\ initial.session \in Nat
      /\ \A e \in Entry : entry[e].session \in Nat
  BY <1>1 DEF TypeOK, EntryType
<1>3. CASE UNCHANGED <<server, entry, initial, auth, known>>
  BY <1>1, <1>3 DEF SessionsInvariant
<1>4. ASSUME NEW v \in View, Effect(v)
      PROVE  SessionsInvariant'
  <2>1. UNCHANGED <<server, initial, auth, known>>
    BY <1>4, EffectOnTables
  <2>2. \A e \in Entry : entry'[e].state = "answered" => entry'[e] = entry[e]
    BY <1>1, <1>4, EffectAnswersNothing
  <2> QED
    BY <1>1, <2>1, <2>2 DEF SessionsInvariant
<1>5. ASSUME NEW e \in Entry, Send(e)
      PROVE  SessionsInvariant'
  <2>1. /\ UNCHANGED <<server, auth, known>>
        /\ initial' = initial \/ initial'.state = "gone"
    BY <1>1, <1>5 DEF Send, TypeOK
  <2>2. \A f \in Entry : entry'[f].state = "answered" =>
          entry'[f] = entry[f] \/ (initial.state = "answered" /\ entry'[f].session = initial.session)
    BY <1>1, <1>5, SendOnEntries
  <2> QED
    BY <1>1, <2>1, <2>2 DEF SessionsInvariant
<1>6. ASSUME NEW e \in Entry, ServerReads(e)
      PROVE  SessionsInvariant'
  <2>1. UNCHANGED <<server, initial, auth, known>>
    BY <1>6 DEF ServerReads
  <2>2. \A f \in Entry : entry'[f] = entry[f] \/ entry'[f].session = server.session
    BY <1>1, <1>6, ServerReadsOnEntries
  <2> QED
    BY <1>1, <1>2, <2>1, <2>2 DEF SessionsInvariant
<1>7. ASSUME NEW e \in Entry, Arrive(e) \/ Fail(e) \/ AbortArrives(e)
      PROVE  SessionsInvariant'
  <2>1. UNCHANGED <<server, initial, auth, known>> /\ entry' = [entry EXCEPT ![e] = Free]
    BY <1>7 DEF Arrive, Fail, AbortArrives, Settle
  <2>2. \A f \in Entry : entry'[f] = entry[f] \/ entry'[f].state = "free"
    BY <1>1, <2>1 DEF Free, TypeOK
  <2> QED
    BY <1>1, <2>1, <2>2 DEF SessionsInvariant
<1>8. CASE InitialExpires
  BY <1>1, <1>8 DEF InitialExpires, SessionsInvariant, TypeOK
<1>9. CASE ServerReadsInitial
  BY <1>1, <1>2, <1>9 DEF ServerReadsInitial, SessionsInvariant
<1>10. ASSUME NEW v \in View, ExecuteCommand(v)
       PROVE  SessionsInvariant'
  <2>1. server'.session = server.session /\ UNCHANGED <<entry, initial, auth, known>>
    BY <1>1, <1>10 DEF ExecuteCommand, TypeOK
  <2> QED
    BY <1>1, <2>1 DEF SessionsInvariant
<1>11. ASSUME NEW v \in View, AnswerCommand(v)
       PROVE  SessionsInvariant'
  <2>1. known'.session = known.session /\ UNCHANGED <<server, entry, initial, auth>>
    BY <1>1, <1>11 DEF AnswerCommand, TypeOK
  <2> QED
    BY <1>1, <2>1 DEF SessionsInvariant
<1>12. CASE SendAuth \/ RefuseAuth
  <2>1. /\ \A e \in Entry : entry'[e].state # "answered"
        /\ UNCHANGED <<server, known>>
    BY <1>1, <1>12, RevokedUnanswered DEF SendAuth, RefuseAuth
  <2>2. /\ auth'.phase \in {"sent", "idle"}
        /\ initial'.state = "gone"
    BY <1>1, <1>12 DEF SendAuth, RefuseAuth, SessionsInvariant, TypeOK
  <2> QED
    BY <1>1, <2>1, <2>2 DEF SessionsInvariant
<1>13. CASE ExecuteAuth
  <2>1. /\ server'.session = server.session + 1 /\ auth'.session = server.session + 1
        /\ initial.state = "gone"
        /\ UNCHANGED <<entry, initial, known>>
    BY <1>1, <1>13 DEF ExecuteAuth, SessionsInvariant, TypeOK
  <2> QED
    BY <1>1, <1>2, <2>1 DEF SessionsInvariant
<1>14. CASE AnswerAuth
  <2>1. \A e \in Entry : entry'[e].state # "answered"
    BY <1>1, <1>14, RevokedUnanswered DEF AnswerAuth
  <2>2. /\ known'.session = auth.session /\ auth.session <= server.session
        /\ initial.state = "gone" /\ auth'.phase = "idle"
        /\ UNCHANGED <<server, initial>>
    BY <1>1, <1>14 DEF AnswerAuth, SessionsInvariant, TypeOK
  <2> QED
    BY <1>1, <2>1, <2>2 DEF SessionsInvariant
<1>15. ASSUME NEW v \in View,
              \/ Reload(v) \/ (\E k \in Key \cup {NoKey} : Navigate(v, k))
              \/ SendCommand(v) \/ RefuseCommand(v)
       PROVE  SessionsInvariant'
  BY <1>3, <1>15 DEF Reload, Navigate, SendCommand, RefuseCommand
<1> QED
  BY <1>3, <1>4, <1>5, <1>6, <1>7, <1>8, <1>9, <1>10, <1>11, <1>12, <1>13, <1>14, <1>15
     DEF Next, vars

(* Once a login, logout or switch of the role was answered, no view waits    *)
(* for an answer computed for an earlier session.                            *)
THEOREM SessionsAreKept == Spec => []NoOldSessionData
<1>1. SessionsInvariant => NoOldSessionData
  BY DEF SessionsInvariant, NoOldSessionData, TypeOK, ViewType
<1> QED
  BY <1>1, InitSessions, StepSessions, PTL DEF Spec

-----------------------------------------------------------------------------
(* COMMANDS ARE SHOWN *)

(* What the server may still know better than the tab.                       *)
CommandsFollow ==
    /\ known.version <= server.version
    /\ \A v \in View : command[v].phase = "executed" => command[v].version <= server.version
    /\ initial.state # "gone" =>
         known.version = 0 /\ \A v \in View : command[v].phase = "idle"
    /\ \A v \in View : view[v].floor <= known.version

(* A read that can still be joined began after every command the tab saw     *)
(* answered, because each answer empties the index.                          *)
IndexedReadsCurrent ==
    \A k \in Key : pending[k] # NoEntry /\ entry[pending[k]].state = "answered" =>
        entry[pending[k]].version >= known.version

CurrentView(v) ==
    /\ view[v].entry # NoEntry /\ entry[view[v].entry].state = "answered" =>
         entry[view[v].entry].version >= view[v].floor
    /\ view[v].entry = NoEntry /\ view[v].result.phase = "success" =>
         view[v].result.version >= view[v].floor

VersionsInvariant ==
    /\ ReadsInvariant
    /\ CommandsFollow
    /\ IndexedReadsCurrent
    /\ \A v \in View \ Replacing : CurrentView(v)

LEMMA InitVersions == Init => VersionsInvariant
BY InitReads DEF Init, VersionsInvariant, CommandsFollow, IndexedReadsCurrent, CurrentView,
                 Unmounted, NoResult, Idle, Free

LEMMA Numbers ==
    ASSUME TypeOK
    PROVE  /\ server.version \in Nat /\ known.version \in Nat /\ initial.version \in Nat
           /\ \A v \in View : /\ view[v].floor \in Nat /\ view[v].result.version \in Nat
                              /\ command[v].version \in Nat
                              /\ view[v].entry \in Entry \cup {NoEntry}
           /\ \A e \in Entry : entry[e].version \in Nat
           /\ \A k \in Key : pending[k] \in Entry \cup {NoEntry}
BY DEF TypeOK, ViewType, ResultType, EntryType, CommandType

(* Entries, index and views may change only so that no answer appears that   *)
(* is older than what the tab knows.                                         *)
LEMMA AnswersStayCurrent ==
    ASSUME VersionsInvariant, ReadsInvariant', CommandsFollow',
           UNCHANGED <<view, known>>,
           \A k \in Key : pending'[k] \in {NoEntry, pending[k]},
           \A e \in Entry : entry'[e].state = "answered" =>
               entry'[e] = entry[e] \/ entry'[e].version >= known.version
    PROVE  VersionsInvariant'
<1>1. TypeOK
  BY DEF VersionsInvariant, ReadsInvariant
<1>2. IndexedReadsCurrent'
  BY <1>1, Numbers DEF VersionsInvariant, IndexedReadsCurrent
<1>3. ASSUME NEW v \in View \ Replacing
      PROVE  CurrentView(v)'
  <2>1. /\ CurrentView(v) /\ view'[v] = view[v]
        /\ view[v].entry \in Entry \cup {NoEntry}
        /\ view[v].floor \in Nat /\ known.version \in Nat /\ view[v].floor <= known.version
    BY <1>1, Numbers DEF VersionsInvariant, CommandsFollow
  <2>2. ASSUME view[v].entry \in Entry
        PROVE  entry'[view[v].entry].version \in Nat
    BY <2>2 DEF ReadsInvariant, TypeOK, EntryType
  <2> QED
    BY <2>1, <2>2 DEF CurrentView
<1> QED
  BY <1>2, <1>3 DEF VersionsInvariant

LEMMA EffectVersions ==
    ASSUME VersionsInvariant, NEW v \in View, Effect(v)
    PROVE  VersionsInvariant'
<1> DEFINE k == view[v].key
<1>1. TypeOK /\ ReadsInvariant /\ ReadsInvariant' /\ KeysOf[v] \subseteq Key
      /\ k \in Key \cup {NoKey}
  BY EffectReads, ViewAssumption DEF VersionsInvariant, ReadsInvariant, TypeOK, ViewType
<1>2. UNCHANGED <<server, initial, auth, spent, known>>
  BY EffectOnTables
<1>3. \A w \in View : w # v => view'[w] = view[w] /\ command'[w] = command[w]
  BY <1>1, EffectOnViews
<1>4. k = NoKey => /\ view'[v].floor = 0 /\ view'[v].entry = NoEntry
                   /\ view'[v].result.phase = "none"
  <2>1. k = NoKey => view'[v] = Unmounted
    BY <1>1, EffectOnViews
  <2> QED
    BY <2>1 DEF Unmounted, NoResult
<1>5. k # NoKey => view'[v].floor = known.version /\ view'[v].entry = Joined(k)
  <2> SUFFICES ASSUME k # NoKey
               PROVE  view'[v].floor = known.version /\ view'[v].entry = Joined(k)
    OBVIOUS
  <2>1. view'[v] = [view[v] EXCEPT !.effKey = k, !.effReload = view[v].reload,
                                   !.floor = known.version, !.entry = Joined(k)]
    BY <1>1, EffectOnViews
  <2>2. view[v] \in ViewType
    BY <1>1 DEF TypeOK
  <2> QED
    BY <2>1, <2>2 DEF ViewType
<1>6. command'[v].phase = command[v].phase /\ command'[v].version = command[v].version
  <2>1. command[v] \in CommandType
    BY <1>1 DEF TypeOK
  <2>2. command'[v] = command[v] \/ command'[v] = [command[v] EXCEPT !.onPage = FALSE]
    BY <1>1, EffectOnViews
  <2> QED
    BY <2>1, <2>2 DEF CommandType
<1>7. CommandsFollow'
  <2>1. \A w \in View : command'[w].phase = command[w].phase
                        /\ command'[w].version = command[w].version
    BY <1>3, <1>6
  <2>2. \A w \in View : view'[w].floor <= known.version
    BY <1>1, <1>3, <1>4, <1>5, Numbers DEF VersionsInvariant, CommandsFollow
  <2> QED
    BY <1>2, <2>1, <2>2 DEF VersionsInvariant, CommandsFollow
<1>8. \A e \in Entry : entry'[e].state = "answered" => entry'[e] = entry[e]
  BY <1>1, EffectAnswersNothing
(* A joined read was in the index; a started one is not answered yet.        *)
<1>9. ASSUME k # NoKey, entry'[Joined(k)].state = "answered"
      PROVE  entry'[Joined(k)].version >= known.version
  <2>1. CASE Joinable(k)
    <3>1. Joined(k) \in Entry /\ Joined(k) = pending[k]
      BY <1>1, <1>9, <2>1, JoinedIsIndexed
    <3>2. entry[Joined(k)].version >= known.version
      BY <1>1, <1>8, <1>9, <3>1, EntryAssumption DEF VersionsInvariant, IndexedReadsCurrent
    <3> QED
      BY <1>8, <1>9, <3>1, <3>2
  <2>2. CASE ~ Joinable(k)
    <3>1. Joined(k) \in Entry /\ entry[Joined(k)].state = "free"
      BY <1>1, <1>9, <2>2, EffectOnTables, JoinedIsFresh
    <3> QED
      BY <1>8, <1>9, <3>1
  <2> QED
    BY <2>1, <2>2
<1>10. IndexedReadsCurrent'
  <2> SUFFICES ASSUME NEW x \in Key, pending'[x] # NoEntry,
                      entry'[pending'[x]].state = "answered"
               PROVE  entry'[pending'[x]].version >= known.version
    BY <1>2 DEF IndexedReadsCurrent
  <2>1. CASE pending'[x] = pending[x]
    <3>1. pending[x] \in Entry
      BY <1>1, <2>1, Numbers
    <3> QED
      BY <1>8, <2>1, <3>1 DEF VersionsInvariant, IndexedReadsCurrent
  <2>2. CASE x = k /\ pending'[x] = Joined(k)
    BY <1>9, <2>2, KeyAssumption
  <2> QED
    BY <1>1, <2>1, <2>2, EffectOnIndex
<1>11. ASSUME NEW w \in View \ Replacing
       PROVE  CurrentView(w)'
  <2>1. CASE w # v
    <3>1. view'[w] = view[w] /\ CurrentView(w) /\ view[w].entry \in Entry \cup {NoEntry}
      BY <1>1, <1>3, <2>1, Numbers DEF VersionsInvariant
    <3> QED
      BY <1>8, <3>1 DEF CurrentView
  <2>2. CASE w = v /\ k = NoKey
    BY <1>4, <2>2 DEF CurrentView
  <2>3. CASE w = v /\ k # NoKey
    <3>1. Joined(k) # NoEntry
      BY <1>1, <2>3, EffectOnTables, JoinedIsFresh, JoinedIsIndexed, EntryAssumption
    <3> QED
      BY <1>5, <1>9, <2>3, <3>1 DEF CurrentView
  <2> QED
    BY <2>1, <2>2, <2>3
<1> QED
  BY <1>1, <1>7, <1>10, <1>11 DEF VersionsInvariant

LEMMA SettleVersions ==
    ASSUME VersionsInvariant, NEW e \in Entry, Arrive(e) \/ Fail(e) \/ AbortArrives(e)
    PROVE  VersionsInvariant'
<1>1. PICK phase \in {"success", "error"} :
        Settle(e, phase) /\ (phase = "success" => entry[e].state = "answered")
  BY DEF Arrive, Fail, AbortArrives
<1>2. TypeOK /\ ReadsInvariant /\ ReadsInvariant'
  BY <1>1, SettleReads DEF VersionsInvariant, ReadsInvariant
<1>3. /\ UNCHANGED <<server, initial, command, known>>
      /\ \A f \in Entry : f # e => entry'[f] = entry[f]
      /\ \A k \in Key : pending'[k] \in {NoEntry, pending[k]} /\ pending'[k] # e
  BY <1>1, <1>2, EntryAssumption DEF Settle, TypeOK
<1>4. \A v \in View : view[v].entry # e => view'[v] = view[v]
  BY <1>1, <1>2, SettleOnViews
<1>5. ASSUME NEW v \in View, view[v].entry = e
      PROVE  /\ view'[v].floor = view[v].floor /\ view'[v].entry = NoEntry
             /\ view'[v].result.phase = phase
             /\ phase = "success" => view'[v].result.version = entry[e].version
  <2>1. view'[v] = [view[v] EXCEPT !.entry = NoEntry, !.result = Result(v, e, phase)]
    BY <1>1, <1>5 DEF Settle
  <2>2. view[v] \in ViewType
    BY <1>2 DEF TypeOK
  <2>3. /\ view'[v].floor = view[v].floor /\ view'[v].entry = NoEntry
        /\ view'[v].result = Result(v, e, phase)
    BY <2>1, <2>2 DEF ViewType
  <2> QED
    BY <2>3 DEF Result
<1>6. CommandsFollow'
  BY <1>3, <1>4, <1>5 DEF VersionsInvariant, CommandsFollow
<1>7. IndexedReadsCurrent'
  BY <1>2, <1>3, Numbers DEF VersionsInvariant, IndexedReadsCurrent
<1>8. ASSUME NEW v \in View \ Replacing
      PROVE  CurrentView(v)'
  <2>1. CurrentView(v) /\ view[v].entry \in Entry \cup {NoEntry}
    BY <1>2, Numbers DEF VersionsInvariant
  <2>2. CASE view[v].entry = e
    BY <1>1, <1>5, <2>1, <2>2, EntryAssumption DEF CurrentView
  <2>3. CASE view[v].entry # e
    BY <1>3, <1>4, <2>1, <2>3 DEF CurrentView
  <2> QED
    BY <2>2, <2>3
<1> QED
  BY <1>2, <1>6, <1>7, <1>8 DEF VersionsInvariant

(* The answer of a command empties the index and raises what the tab knows.  *)
LEMMA AnswerVersions ==
    ASSUME VersionsInvariant, NEW v \in View, AnswerCommand(v)
    PROVE  VersionsInvariant'
<1>1. TypeOK /\ ReadsInvariant /\ ReadsInvariant'
  BY AnswerReads DEF VersionsInvariant, ReadsInvariant
<1>2. /\ \A w \in View : w # v => view'[w] = view[w] /\ command'[w] = command[w]
      /\ command'[v].phase = "idle" /\ command[v].phase = "executed"
      /\ \A k \in Key : pending'[k] = NoEntry
      /\ UNCHANGED <<server, entry, initial>>
  <2>1. Idle.phase = "idle"
    BY DEF Idle
  <2> QED
    BY <1>1, <2>1, AnswerOnViews
<1>3. /\ known'.version >= known.version /\ known'.version >= command[v].version
      /\ known'.version <= server.version
  BY <1>1, <1>2, Numbers DEF AnswerCommand, VersionsInvariant, CommandsFollow, TypeOK
<1>4. /\ view'[v].floor \in {view[v].floor, command[v].version}
      /\ v \notin Replacing => /\ view'[v].floor = view[v].floor
                               /\ view'[v].entry = view[v].entry
                               /\ view'[v].result = view[v].result
  <2>1. view[v] \in ViewType
    BY <1>1 DEF TypeOK
  <2>2. CASE view'[v] = view[v]
    BY <2>2
  <2>3. CASE /\ v \in Replacing
             /\ view'[v] = [view[v] EXCEPT !.floor = command[v].version,
                    !.result = [key |-> view[v].effKey, reload |-> view[v].effReload,
                                phase |-> "success", of |-> command[v].of,
                                version |-> command[v].version]]
    BY <2>1, <2>3 DEF ViewType
  <2>4. CASE view'[v] = [view[v] EXCEPT !.reload = view[v].reload + 1]
    BY <2>1, <2>4 DEF ViewType
  <2> QED
    BY <1>1, <2>2, <2>3, <2>4, AnswerOnViews
<1>5. CommandsFollow'
  <2>1. initial.state = "gone"
    BY <1>2 DEF VersionsInvariant, CommandsFollow
  <2>2. \A w \in View : view'[w].floor <= known'.version
    <3>1. known'.version \in Nat
      BY <1>1 DEF ReadsInvariant, TypeOK
    <3> QED
      BY <1>1, <1>2, <1>3, <1>4, <3>1, Numbers DEF VersionsInvariant, CommandsFollow
  <2>3. \A w \in View : command'[w].phase = "executed" => command'[w].version <= server.version
    BY <1>2 DEF VersionsInvariant, CommandsFollow
  <2> QED
    BY <1>2, <1>3, <2>1, <2>2, <2>3 DEF CommandsFollow
<1>6. IndexedReadsCurrent'
  BY <1>2 DEF IndexedReadsCurrent
<1>7. ASSUME NEW w \in View \ Replacing
      PROVE  CurrentView(w)'
  BY <1>2, <1>4 DEF VersionsInvariant, CurrentView
<1> QED
  BY <1>1, <1>5, <1>6, <1>7 DEF VersionsInvariant

(* Steps of the user and of the server that show no view anything new.       *)
LEMMA QuietVersions ==
    ASSUME VersionsInvariant, ReadsInvariant', CommandsFollow', UNCHANGED <<entry, known>>,
           \A k \in Key : pending'[k] \in {NoEntry, pending[k]},
           \A v \in View : /\ view'[v].entry = view[v].entry
                           /\ view'[v].floor = view[v].floor
                           /\ view'[v].result = view[v].result
    PROVE  VersionsInvariant'
<1>1. IndexedReadsCurrent'
  BY DEF VersionsInvariant, IndexedReadsCurrent
<1>2. \A v \in View \ Replacing : CurrentView(v)'
  BY DEF VersionsInvariant, CurrentView
<1> QED
  BY <1>1, <1>2 DEF VersionsInvariant

LEMMA UserVersions ==
    ASSUME VersionsInvariant, NEW v \in View,
           \/ Reload(v) \/ (\E k \in Key \cup {NoKey} : Navigate(v, k))
           \/ SendCommand(v) \/ ExecuteCommand(v) \/ RefuseCommand(v)
    PROVE  VersionsInvariant'
<1>1. TypeOK /\ ReadsInvariant /\ ReadsInvariant'
  BY UserReads, AnswerReads DEF VersionsInvariant, ReadsInvariant
<1>2. /\ view[v] \in ViewType /\ command[v] \in CommandType
      /\ view = [w \in View |-> view[w]] /\ command = [w \in View |-> command[w]]
  BY <1>1, Functions DEF TypeOK
<1>3. \A w \in View : /\ view'[w].entry = view[w].entry /\ view'[w].floor = view[w].floor
                      /\ view'[w].result = view[w].result
  <2>1. CASE UNCHANGED view
    BY <2>1
  <2>2. CASE Reload(v)
    <3>1. /\ view'[v] = [view[v] EXCEPT !.reload = view[v].reload + 1]
          /\ \A w \in View : w # v => view'[w] = view[w]
      BY <1>2, <2>2 DEF Reload
    <3> QED
      BY <1>2, <3>1 DEF ViewType
  <2>3. ASSUME NEW k \in Key \cup {NoKey}, Navigate(v, k)
        PROVE  \A w \in View : /\ view'[w].entry = view[w].entry
                               /\ view'[w].floor = view[w].floor
                               /\ view'[w].result = view[w].result
    <3>1. /\ view'[v] = [view[v] EXCEPT !.key = k]
          /\ \A w \in View : w # v => view'[w] = view[w]
      BY <1>2, <2>3 DEF Navigate
    <3> QED
      BY <1>2, <3>1 DEF ViewType
  <2> QED
    BY <2>1, <2>2, <2>3 DEF SendCommand, ExecuteCommand, RefuseCommand
<1>4. /\ UNCHANGED <<entry, initial, known>>
      /\ \A k \in Key : pending'[k] \in {NoEntry, pending[k]}
  BY DEF Reload, Navigate, SendCommand, ExecuteCommand, RefuseCommand, ClearedByAnswer, Cleared
<1>5. CommandsFollow'
  <2>1. CASE UNCHANGED <<server, command>>
    BY <1>3, <1>4, <2>1 DEF VersionsInvariant, CommandsFollow
  <2>2. CASE SendCommand(v) \/ RefuseCommand(v)
    <3>1. /\ command'[v].phase \in {"idle", "sent"}
          /\ \A w \in View : w # v => command'[w] = command[w]
          /\ SendCommand(v) => initial.state = "gone"
          /\ RefuseCommand(v) => command'[v].phase = "idle"
          /\ UNCHANGED server
      <4>1. Idle.phase = "idle"
            /\ [Idle EXCEPT !.phase = "sent", !.of = view[v].key, !.onPage = TRUE].phase = "sent"
        BY DEF Idle
      <4>2. CASE SendCommand(v)
        <5>1. /\ command' = [command EXCEPT ![v] =
                               [Idle EXCEPT !.phase = "sent", !.of = view[v].key, !.onPage = TRUE]]
              /\ initial.state = "gone" /\ UNCHANGED server
              /\ command[v].phase = "idle"
          BY <4>2 DEF SendCommand
        <5>2. ~ RefuseCommand(v)
          BY <5>1 DEF RefuseCommand
        <5> QED
          BY <1>2, <4>1, <5>1, <5>2
      <4>3. CASE RefuseCommand(v)
        <5>1. command' = [command EXCEPT ![v] = Idle] /\ UNCHANGED server
              /\ ~ SendCommand(v)
          BY <4>3 DEF RefuseCommand, SendCommand
        <5> QED
          BY <1>2, <4>1, <5>1
      <4> QED
        BY <2>2, <4>2, <4>3
    <3> QED
      BY <1>3, <1>4, <2>2, <3>1 DEF VersionsInvariant, CommandsFollow
  <2>3. CASE ExecuteCommand(v)
    <3>1. /\ command[v].phase = "sent" /\ command'[v].version = server.version + 1
          /\ \A w \in View : w # v => command'[w] = command[w]
          /\ server'.version = server.version + 1
      BY <1>1, <1>2, <2>3 DEF ExecuteCommand, TypeOK, CommandType
    <3>2. initial.state = "gone"
      BY <3>1 DEF VersionsInvariant, CommandsFollow
    <3>3. /\ \A w \in View : command'[w].phase = "executed" => command'[w].version <= server'.version
          /\ known.version <= server'.version
      BY <1>1, <3>1, Numbers DEF VersionsInvariant, CommandsFollow
    <3> QED
      BY <1>3, <1>4, <3>2, <3>3 DEF VersionsInvariant, CommandsFollow
  <2> QED
    BY <2>1, <2>2, <2>3 DEF Reload, Navigate
<1> QED
  BY <1>1, <1>3, <1>4, <1>5, QuietVersions

LEMMA StepVersions == VersionsInvariant /\ [Next]_vars => VersionsInvariant'
<1> SUFFICES ASSUME VersionsInvariant, [Next]_vars
             PROVE  VersionsInvariant'
  OBVIOUS
<1>1. TypeOK /\ ReadsInvariant /\ ReadsInvariant'
  BY StepReads DEF VersionsInvariant, ReadsInvariant
<1>2. CASE UNCHANGED vars
  BY <1>1, <1>2 DEF vars, VersionsInvariant, CommandsFollow, IndexedReadsCurrent, CurrentView
<1>3. ASSUME UNCHANGED <<server, command, view, known>>,
             initial' = initial \/ initial'.state = "gone"
                \/ (initial.state # "gone" /\ initial'.state # "gone")
      PROVE  CommandsFollow'
  BY <1>3 DEF VersionsInvariant, CommandsFollow
<1>4. ASSUME NEW e \in Entry, Send(e)
      PROVE  VersionsInvariant'
  <2>1. /\ UNCHANGED <<server, command, view, known, pending>>
        /\ initial' = initial \/ initial'.state = "gone"
    BY <1>1, <1>4 DEF Send, TypeOK
  (* The document's request was sent before any command: nothing is known yet. *)
  <2>2. \A f \in Entry : entry'[f].state = "answered" =>
          entry'[f] = entry[f] \/ entry'[f].version >= known.version
    <3>1. initial.state = "answered" => initial.version >= known.version
      BY <1>1, Numbers DEF VersionsInvariant, CommandsFollow
    <3> QED
      BY <1>1, <1>4, <3>1, SendOnEntries
  <2> QED
    BY <1>1, <1>3, <2>1, <2>2, AnswersStayCurrent
<1>5. ASSUME NEW e \in Entry, ServerReads(e)
      PROVE  VersionsInvariant'
  <2>1. UNCHANGED <<server, initial, command, view, known, pending>>
    BY <1>5 DEF ServerReads
  <2>2. \A f \in Entry : entry'[f] = entry[f] \/ entry'[f].version >= known.version
    <3>1. server.version >= known.version
      BY <1>1, Numbers DEF VersionsInvariant, CommandsFollow
    <3> QED
      BY <1>1, <1>5, <3>1, ServerReadsOnEntries
  <2> QED
    BY <1>1, <1>3, <2>1, <2>2, AnswersStayCurrent
<1>6. CASE InitialExpires \/ ServerReadsInitial
  <2>1. /\ UNCHANGED <<server, command, view, known, pending, entry>>
        /\ initial'.state = "gone" \/ (initial.state # "gone" /\ initial'.state # "gone")
    BY <1>1, <1>6 DEF InitialExpires, ServerReadsInitial, TypeOK
  <2> QED
    BY <1>1, <1>3, <2>1, AnswersStayCurrent
<1>7. CASE SendAuth \/ RefuseAuth \/ AnswerAuth \/ ExecuteAuth
  <2>1. /\ UNCHANGED <<command, view>>
        /\ server'.version = server.version /\ known'.version = known.version
        /\ initial' = initial \/ initial'.state = "gone"
    BY <1>1, <1>7 DEF SendAuth, RefuseAuth, AnswerAuth, ExecuteAuth, TypeOK
  <2>2. CommandsFollow'
    BY <2>1 DEF VersionsInvariant, CommandsFollow
  <2>3. \A e \in Entry : entry'[e].state = "answered" => entry'[e] = entry[e]
    BY <1>1, <1>7, RevokedUnanswered DEF SendAuth, RefuseAuth, AnswerAuth, ExecuteAuth
  <2>4. \A k \in Key : pending'[k] \in {NoEntry, pending[k]}
    BY <1>7 DEF SendAuth, RefuseAuth, AnswerAuth, ExecuteAuth, ClearedByAnswer, Cleared
  <2>5. IndexedReadsCurrent'
    BY <1>1, <2>1, <2>3, <2>4, Numbers DEF VersionsInvariant, IndexedReadsCurrent
  <2>6. \A v \in View \ Replacing : CurrentView(v)'
    BY <1>1, <2>1, <2>3, Numbers DEF VersionsInvariant, CurrentView
  <2> QED
    BY <1>1, <2>2, <2>5, <2>6 DEF VersionsInvariant
<1> QED
  BY <1>2, <1>4, <1>5, <1>6, <1>7, EffectVersions, SettleVersions, AnswerVersions, UserVersions
     DEF Next

(* A view that reloads after its command shows that command, and every view  *)
(* shows the commands the tab knew of when it began to load                  *)
(* (clearPendingReads before and after a mutation).                          *)
THEOREM CommandsAreShown == Spec => []AnsweredCommandsShown
<1>1. VersionsInvariant => AnsweredCommandsShown
  BY DEF VersionsInvariant, CurrentView, AnsweredCommandsShown
<1> QED
  BY <1>1, InitVersions, StepVersions, PTL DEF Spec

-----------------------------------------------------------------------------
(* WHAT IS SHOWN IS WHAT WAS ASKED *)

(* A page that shows the answer of its command is about one record.          *)
OneRecordEach == \A v \in Replacing : \A k, l \in KeysOf[v] : k = l

ShownInvariant ==
    /\ ReadsInvariant
    /\ \A v \in View : view[v].result.phase # "none" => view[v].result.of = view[v].result.key

LEMMA InitShown == Init => ShownInvariant
BY InitReads DEF Init, ShownInvariant, Unmounted, NoResult

LEMMA StepShown ==
    ASSUME OneRecordEach
    PROVE  ShownInvariant /\ [Next]_vars => ShownInvariant'
<1> SUFFICES ASSUME ShownInvariant, [Next]_vars
             PROVE  ShownInvariant'
  OBVIOUS
<1>1. TypeOK /\ ReadsInvariant /\ ReadsInvariant' /\ view = [w \in View |-> view[w]]
  BY StepReads, Functions DEF ShownInvariant, ReadsInvariant
<1>2. ASSUME \A v \in View : view'[v].result \in {view[v].result, NoResult}
      PROVE  ShownInvariant'
  <2>1. NoResult.phase = "none"
    BY DEF NoResult
  <2> QED
    BY <1>1, <1>2, <2>1 DEF ShownInvariant
<1>3. CASE UNCHANGED view
  BY <1>2, <1>3
<1>4. ASSUME NEW v \in View, Effect(v)
      PROVE  ShownInvariant'
  <2>1. view[v] \in ViewType
    BY <1>1 DEF TypeOK
  <2>2. CASE view[v].key = NoKey
    <3>1. view'[v] = Unmounted
      BY <1>1, <1>4, <2>2, EffectOnViews
    <3>2. view'[v].result = NoResult
      BY <3>1 DEF Unmounted
    <3> QED
      BY <1>1, <1>2, <1>4, <3>2, EffectOnViews
  <2>3. CASE view[v].key # NoKey
    <3>1. view'[v] = [view[v] EXCEPT !.effKey = view[v].key, !.effReload = view[v].reload,
                                     !.floor = known.version, !.entry = Joined(view[v].key)]
      BY <1>1, <1>4, <2>3, EffectOnViews
    <3>2. view'[v].result = view[v].result
      BY <2>1, <3>1 DEF ViewType
    <3> QED
      BY <1>1, <1>2, <1>4, <3>2, EffectOnViews
  <2> QED
    BY <2>2, <2>3
<1>5. ASSUME NEW v \in View, Reload(v) \/ (\E k \in Key \cup {NoKey} : Navigate(v, k))
      PROVE  ShownInvariant'
  <2>1. view[v] \in ViewType
    BY <1>1 DEF TypeOK
  <2>2. PICK new : /\ view' = [view EXCEPT ![v] = new] /\ new.result = view[v].result
    <3>1. CASE Reload(v)
      <4>1. [view[v] EXCEPT !.reload = view[v].reload + 1].result = view[v].result
        BY <2>1 DEF ViewType
      <4> QED
        BY <3>1, <4>1 DEF Reload
    <3>2. ASSUME NEW k \in Key \cup {NoKey}, Navigate(v, k)
          PROVE  \E new : view' = [view EXCEPT ![v] = new] /\ new.result = view[v].result
      <4>1. [view[v] EXCEPT !.key = k].result = view[v].result
        BY <2>1 DEF ViewType
      <4> QED
        BY <3>2, <4>1 DEF Navigate
    <3> QED
      BY <1>5, <3>1, <3>2
  <2> QED
    BY <1>1, <1>2, <2>2
<1>6. ASSUME NEW v \in View, AnswerCommand(v)
      PROVE  ShownInvariant'
  <2>1. view[v] \in ViewType /\ ShapeOf(v)
    BY <1>1 DEF TypeOK, ReadsInvariant, ViewShape
  <2>2. CASE view'[v].result = view[v].result
    BY <1>1, <1>2, <1>6, <2>2, AnswerOnViews
  <2>3. CASE /\ command[v].onPage /\ v \in Replacing
             /\ view'[v].result = [key |-> view[v].effKey, reload |-> view[v].effReload,
                                   phase |-> "success", of |-> command[v].of,
                                   version |-> command[v].version]
    <3>1. command[v].of = view[v].effKey
      BY <2>1, <2>3 DEF OneRecordEach, ShapeOf
    <3>2. view'[v].result.of = view'[v].result.key
      BY <2>3, <3>1
    <3>3. \A w \in View : w # v => view'[w] = view[w]
      BY <1>1, <1>6, AnswerOnViews
    <3> QED
      BY <1>1, <3>2, <3>3 DEF ShownInvariant
  <2>4. \/ view'[v].result = view[v].result
        \/ /\ command[v].onPage /\ v \in Replacing
           /\ view'[v].result = [key |-> view[v].effKey, reload |-> view[v].effReload,
                                 phase |-> "success", of |-> command[v].of,
                                 version |-> command[v].version]
    <3>1. CASE /\ command[v].onPage /\ v \in Replacing
               /\ view'[v] = [view[v] EXCEPT !.floor = command[v].version,
                      !.result = [key |-> view[v].effKey, reload |-> view[v].effReload,
                                  phase |-> "success", of |-> command[v].of,
                                  version |-> command[v].version]]
      BY <2>1, <3>1 DEF ViewType
    <3>2. CASE view'[v] = [view[v] EXCEPT !.reload = view[v].reload + 1]
      BY <2>1, <3>2 DEF ViewType
    <3> QED
      BY <1>1, <1>6, <3>1, <3>2, AnswerOnViews
  <2> QED
    BY <2>2, <2>3, <2>4
(* The answer to a read is stored under the query of the effect that waits   *)
(* for it, whatever the view renders by then.                                *)
<1>7. ASSUME NEW e \in Entry, Arrive(e) \/ Fail(e) \/ AbortArrives(e)
      PROVE  ShownInvariant'
  <2>1. PICK phase \in {"success", "error"} : Settle(e, phase)
    BY <1>7 DEF Arrive, Fail, AbortArrives
  <2>2. ASSUME NEW v \in View, view[v].entry = e
        PROVE  view'[v].result.of = view'[v].result.key
    <3>1. view'[v] = [view[v] EXCEPT !.entry = NoEntry, !.result = Result(v, e, phase)]
      BY <2>1, <2>2 DEF Settle
    <3>2. view[v] \in ViewType
      BY <1>1 DEF TypeOK
    <3>3. view'[v].result = Result(v, e, phase)
      BY <3>1, <3>2 DEF ViewType
    <3>4. entry[e].key = view[v].effKey
      BY <1>1, <2>2, EntryAssumption DEF ReadsInvariant, WaitingReadAlive
    <3> QED
      BY <3>3, <3>4 DEF Result
  <2>3. \A v \in View : view[v].entry # e => view'[v] = view[v]
    BY <1>1, <2>1, SettleOnViews
  <2> QED
    BY <1>1, <2>2, <2>3 DEF ShownInvariant
<1>8. UNCHANGED view
      \/ (\E v \in View : \/ Effect(v) \/ Reload(v) \/ AnswerCommand(v)
                          \/ \E k \in Key \cup {NoKey} : Navigate(v, k))
      \/ (\E e \in Entry : Arrive(e) \/ Fail(e) \/ AbortArrives(e))
  BY DEF Next, vars, SendCommand, ExecuteCommand, RefuseCommand, Send, ServerReads,
         InitialExpires, ServerReadsInitial, SendAuth, ExecuteAuth, AnswerAuth, RefuseAuth
<1> QED
  BY <1>3, <1>4, <1>5, <1>6, <1>7, <1>8

(* Whatever order answers arrive in, a page shows an answer to the query it  *)
(* renders, if pages that replace what they show are about one record.       *)
THEOREM ShownIsAsked ==
    ASSUME OneRecordEach
    PROVE  Spec => []ShownDataMatchesQuery
<1>1. ShownInvariant => ShownDataMatchesQuery
  BY DEF ShownInvariant, ShownDataMatchesQuery, IsCurrent
<1>2. ShownInvariant /\ [Next]_vars => ShownInvariant'
  BY StepShown
<1> QED
  BY <1>1, <1>2, InitShown, PTL DEF Spec
=============================================================================

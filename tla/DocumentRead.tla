---------------------------- MODULE DocumentRead ----------------------------
(***************************************************************************)
(* How getDocument reads one document: the part of the vendored Firestore  *)
(* client under DocumentReference::GetDocument, which listens until it has *)
(* an event to answer with.  The event comes from a view of the cache, the *)
(* account's own writes, and what the watch stream has brought.            *)
(*                                                                         *)
(* The document is the set of the writes that made it: setData leaves its  *)
(* own write alone, updateData adds one.  Writes of this phone are         *)
(* numbered 1, 2, ..., those of other phones -1, -2, ...  A version, and   *)
(* the time of a snapshot, is a position in the server's log.              *)
(*                                                                         *)
(* FirestoreClient is the write path in detail; here the server takes the  *)
(* writes of the queue in order, and again when their results were lost.   *)
(* The account does not change.  The server sends a snapshot only when the *)
(* target is current, and never an existence filter, a reset or an error.  *)
(***************************************************************************)
EXTENDS Integers, FiniteSets, SequencesExt

CONSTANTS
  Missing,                  \* the contents of a document that does not exist
  kMaxWatchStreamFailures,  \* attempts before the client is offline (1)
  Blind,                    \* whether a document that was never read is updated
  OtherKinds,               \* the kinds of write other phones make
  Faults,                   \* subset of {"restart", "connectionLost", "credential"}
  MaxFaults,                \* bound on the faults in a behaviour
  MaxReads,                 \* bound on the calls of getDocument
  MaxWrites,                \* bound on the calls of setData and updateData
  MaxOthers                 \* bound on the writes of other phones

ASSUME ReadAssumption ==
  /\ kMaxWatchStreamFailures \in Nat \ {0} /\ Blind \in BOOLEAN
  /\ OtherKinds \subseteq {"set", "update"}
  /\ MaxReads \in Nat /\ MaxWrites \in Nat /\ MaxOthers \in Nat /\ MaxFaults \in Nat
  /\ \A value \in SUBSET ((-MaxOthers) .. MaxWrites) : value # Missing

VARIABLES
  log,         \* server: the document after each change
  serving,     \* server: version the target has been sent, 0 if it has none
  committedAt, \* history: version at which each own write was first applied
  dropped,     \* history: own writes refused, or lost with the app before they were queued
  made,        \* the kind of each own write, in the order of the calls
  reads,       \* the calls of getDocument, with what had happened before them
  answers,     \* the answers to them, in order
  gone,        \* reads up to this one were made before the last restart
  tasks,       \* the worker queue
  main,        \* events on the user executor
  queue,       \* LevelDB: own writes whose results are not in
  cache,       \* LevelDB: the remote document cache's entry
  saved,       \* LevelDB: the target's resume token and whether it has the document
  view,        \* the query's view, with its target data
  shown,       \* EventManager's view_snapshot for the query
  listeners,   \* the query's listeners
  waiting,     \* those that have not raised their initial event
  tracker,     \* OnlineStateTracker
  stream,      \* the watch stream: "off", "starting" (or backing off), "open"
  idle,        \* the idle timer of the stream is on
  requests,    \* what the client has sent on the stream
  responses,   \* what the server has sent on the stream
  target,      \* WatchChangeAggregator's state of the target
  update,      \* WatchChangeAggregator's pending document update
  results,     \* results of writes the client has not read
  faults       \* number of faults so far

server == <<log, serving, committedAt, dropped>>
app == <<made, reads, gone>>
disk == <<cache, saved>>
listening == <<view, shown, listeners, waiting>>
wire == <<requests, responses>>
net == <<tracker, stream, idle, wire, target, update>>
vars == <<server, app, answers, tasks, main, queue, disk, listening, net, results, faults>>

\* Something is still to be read: after the last answer no write and no fault
\* makes a difference to one.
ReadsToCome == Len(answers) < MaxReads

Fault(kind) ==
  /\ ReadsToCome
  /\ kind \in Faults /\ faults < MaxFaults /\ faults' = faults + 1

-----------------------------------------------------------------------------
(* Documents.                                                              *)

\* A patch leaves a document that does not exist alone.
AppliedTo(kind, id, value) ==
  CASE kind = "set"                       -> {id}
    [] kind = "update" /\ value = Missing -> Missing
    [] OTHER                              -> value \cup {id}

\* The document with own writes made on top of it.
Overlay(value, ids) ==
  LET after[i \in 0 .. Len(ids)] ==
        IF i = 0 THEN value ELSE AppliedTo(made[ids[i]], ids[i], after[i - 1])
  IN after[Len(ids)]

\* A cache entry: version 0 is no entry, no value a NoDocument, or, unsynced,
\* an UnknownDocument; an unsynced value has been made from a write's result.
Entry(version, value, unsynced) ==
  [version |-> version, value |-> value, unsynced |-> unsynced]
NoEntry == Entry(0, Missing, FALSE)

\* LocalDocumentsView::GetDocument: the queue's writes on top of the cache.
GetDocument(entry, rows) ==
  LET value == Overlay(entry.value, rows)
  IN [value |-> value,
      state |-> IF value = Missing THEN "none"
                ELSE IF rows # <<>> THEN "local"
                ELSE IF entry.unsynced THEN "committed" ELSE "synced"]

\* Mutant: the result of a write is not put into the cache.
ApplyBatchResultDropped(entry, w, version) == entry

\* LocalStore::ApplyBatchResult, unless the watch stream was faster.
ApplyBatchResult(entry, w, version) ==
  IF entry.version < version
    THEN Entry(version, AppliedTo(made[w], w, entry.value), TRUE)
    ELSE entry

\* LocalStore::ApplyRemoteEvent's test of a document the server has sent.
Accepts(entry, doc) ==
  \/ doc.version > entry.version
  \/ doc.version = entry.version /\ doc.version > 0 /\ entry.unsynced

-----------------------------------------------------------------------------
(* The view, and the events of its listeners.                              *)

NoView ==
  [open |-> FALSE, value |-> Missing, state |-> "none", mutated |-> FALSE, synced |-> FALSE,
   current |-> FALSE, limbo |-> FALSE, sync |-> "none", token |-> 0, since |-> 0]

NoSnapshot == [value |-> Missing, pending |-> FALSE, fromCache |-> TRUE, since |-> 0]

SnapshotOf(v) ==
  [value |-> v.value, pending |-> v.mutated, fromCache |-> v.sync = "local",
   since |-> IF v.sync = "local" THEN 0 ELSE v.since]

\* View::ComputeDocumentChanges: whether the document changes in the view.
\* The estimate made from a write's result is not shown.
Changes(v, doc) ==
  LET pending == doc.state = "local" \/ (v.mutated /\ doc.state = "committed")
      ShouldWaitForSyncedDocument == v.state = "local" /\ doc.state = "committed"
  IN IF v.value = Missing \/ doc.value = Missing THEN v.value # doc.value
     ELSE IF v.value = doc.value THEN v.mutated # pending
     ELSE ~ShouldWaitForSyncedDocument

WithDocument(v, doc) ==
  IF v.open /\ Changes(v, doc)
    THEN [v EXCEPT !.value = doc.value, !.state = doc.state, !.mutated = doc.state = "local"]
    ELSE v

\* View::ApplyTargetChange.
WithTargetChange(v, change) ==
  [v EXCEPT !.synced = @ \/ change.documents = "added", !.current = change.current]

\* View::ApplyChanges: a document the server has not sent is in limbo.
WithSyncState(v) ==
  LET limbo == IF v.current THEN ~v.synced /\ v.state \in {"committed", "synced"} ELSE v.limbo
  IN IF v.open
       THEN [v EXCEPT !.limbo = limbo,
                      !.sync = IF v.current /\ ~limbo THEN "synced" ELSE "local"]
       ELSE v

\* Mutant: the event waits for the server even when it cannot be reached.
ShouldRaiseInitialEventSynced(snapshot, online) == ~snapshot.fromCache

\* ShouldRaiseInitialEvent, with wait_for_sync_when_online.
ShouldRaiseInitialEvent(snapshot, online) == ~snapshot.fromCache \/ online = "offline"

\* The listeners in the order in which they were added.
InOrder(ready) ==
  LET n == Cardinality(ready)
  IN CHOOSE s \in [1 .. n -> ready] : \A i, j \in 1 .. n : i < j => s[i] < s[j]

RaiseInitialEvents(ready, snapshot, online) ==
  IF ready # {} /\ ShouldRaiseInitialEvent(snapshot, online)
    THEN /\ main' = main \o [i \in 1 .. Cardinality(ready) |->
                              [read |-> InOrder(ready)[i], snapshot |-> snapshot]]
         /\ waiting' = {}
    ELSE waiting' = ready /\ UNCHANGED main

\* OnViewSnapshots, if there is a snapshot, and HandleOnlineStateChange.
Publish(v, online) ==
  LET new == WithSyncState(v)
      changed == new.sync # view.sync \/ new.value # view.value \/ new.mutated # view.mutated
  IN /\ view' = new
     /\ shown' = IF changed THEN SnapshotOf(new) ELSE shown
     /\ RaiseInitialEvents(waiting, shown', online)

\* View::ApplyOnlineStateChange.
WithOnlineState(v, online) ==
  IF online = "offline" THEN [v EXCEPT !.current = FALSE] ELSE v

SetAndBroadcast(t) ==
  /\ tracker' = t
  /\ Publish(IF t.state # tracker.state THEN WithOnlineState(view, t.state) ELSE view, t.state)

-----------------------------------------------------------------------------
(* OnlineStateTracker.                                                     *)

\* Mutant: the timer stays on.
UpdateStateOnly(t, state) == [t EXCEPT !.state = state, !.failures = 0]

UpdateState(t, state) == [state |-> state, failures |-> 0, timer |-> FALSE]

NewTracker == [state |-> "unknown", failures |-> 0, timer |-> FALSE]

HandleWatchStreamStart(t) ==
  IF t.failures # 0 THEN t ELSE [t EXCEPT !.state = "unknown", !.timer = TRUE]

\* The count stops where it makes no difference any more.
HandleWatchStreamFailure(t) ==
  LET offline == t.failures + 1 >= kMaxWatchStreamFailures
  IN CASE t.state = "online" -> [t EXCEPT !.state = "unknown"]
       [] t.state # "online" /\ offline ->
            [state |-> "offline", failures |-> kMaxWatchStreamFailures, timer |-> FALSE]
       [] OTHER -> [t EXCEPT !.failures = @ + 1]

-----------------------------------------------------------------------------
(* The watch stream and WatchChangeAggregator.                             *)

NewTarget == [outstanding |-> 0, current |-> FALSE, documents |-> "none"]

\* Mutant: whatever the server sends is taken for the target listened to.
IsActiveTargetAlways(t) == view.open

\* A target whose requests have not all been answered takes no changes.
IsActiveTarget(t) == view.open /\ t.outstanding = 0

Watch(v) == [kind |-> "watch", token |-> v.token]
Unwatch == [kind |-> "unwatch"]

\* A new stream, or none: what was under way on the old one is lost.
Restarted(state) ==
  /\ stream' = state /\ idle' = FALSE
  /\ requests' = <<>> /\ responses' = <<>> /\ serving' = 0
  /\ target' = NewTarget /\ update' = NoEntry

\* Mutant: RecordPendingTargetRequest is forgotten.
SendUncounted(request) ==
  /\ requests' = Append(requests, request)
  /\ UNCHANGED target

Send(request) ==
  /\ requests' = Append(requests, request)
  /\ target' = [target EXCEPT !.outstanding = @ + 1]

-----------------------------------------------------------------------------
Init ==
  /\ log \in { <<Missing>>, <<{}>> } /\ serving = 0
  /\ committedAt = [w \in 1 .. MaxWrites |-> 0] /\ dropped = {}
  /\ made = <<>> /\ reads = <<>> /\ answers = <<>> /\ gone = 0
  /\ tasks = <<>> /\ main = <<>>
  /\ queue = <<>> /\ cache = NoEntry /\ saved = [token |-> 0, has |-> FALSE]
  /\ view = NoView /\ shown = NoSnapshot /\ listeners = {} /\ waiting = {}
  /\ tracker = NewTracker
  /\ stream = "off" /\ idle = FALSE /\ requests = <<>> /\ responses = <<>>
  /\ target = NewTarget /\ update = NoEntry
  /\ results = <<>> /\ faults = 0

\* The app is killed and started again: LevelDB stays.
Restart ==
  /\ Fault("restart")
  /\ gone' = Len(reads)
  /\ dropped' = dropped \cup { task.write : task \in { t \in ToSet(tasks) : t.kind = "write" } }
  /\ tasks' = <<>> /\ main' = <<>>
  /\ view' = NoView /\ shown' = NoSnapshot /\ listeners' = {} /\ waiting' = {}
  /\ tracker' = NewTracker
  /\ Restarted("off") /\ results' = <<>>
  /\ UNCHANGED <<log, committedAt, made, reads, answers, queue, disk>>

-----------------------------------------------------------------------------
(* The app, on the main queue.                                             *)

getDocument ==
  /\ Len(reads) < MaxReads
  /\ reads' = Append(reads, [mine |-> Len(made), after |-> Len(answers)])
  /\ tasks' = Append(tasks, [kind |-> "listen", read |-> Len(reads) + 1])
  /\ UNCHANGED <<server, made, gone, answers, main, queue, disk, listening, net, results, faults>>

\* This app updates a document only on screens that show it.
WriteData(kind) ==
  /\ ReadsToCome
  /\ Len(made) < MaxWrites
  /\ kind = "set" \/ Blind \/ \E i \in DOMAIN answers : answers[i].snapshot.value # Missing
  /\ made' = Append(made, kind)
  /\ tasks' = Append(tasks, [kind |-> "write", write |-> Len(made) + 1])
  /\ UNCHANGED <<server, reads, gone, answers, main, queue, disk, listening, net, results, faults>>

\* ListenOnce::OnEvent: the listener is removed, the caller gets the snapshot,
\* or, if there is no document in the cache, an error.
OnEvent ==
  /\ main # <<>> /\ main' = Tail(main)
  /\ tasks' = Append(tasks, [kind |-> "remove", read |-> Head(main).read])
  /\ answers' = Append(answers, Head(main))
  /\ UNCHANGED <<server, app, queue, disk, listening, net, results, faults>>

-----------------------------------------------------------------------------
(* The worker queue.                                                       *)

\* SyncEngine::Listen: a view of what LevelDB has.
InitialView ==
  WithDocument([NoView EXCEPT !.open = TRUE, !.synced = saved.has, !.token = saved.token,
                              !.since = Len(log)],
               GetDocument(cache, queue))

\* RemoteStore::Listen.
RemoteListen(v) ==
  CASE stream = "off" ->
         Restarted("starting") /\ tracker' = HandleWatchStreamStart(tracker)
    [] stream = "starting" ->
         UNCHANGED <<net, serving>>
    [] stream = "open" ->
         Send(Watch(v)) /\ idle' = FALSE /\ UNCHANGED <<tracker, stream, responses, update, serving>>

\* EventManager::AddQueryListener: another listener gets the last snapshot.
AddQueryListener(r) ==
  /\ listeners' = listeners \cup {r}
  /\ IF view.open
       THEN /\ RaiseInitialEvents(waiting \cup {r}, shown, tracker.state)
            /\ UNCHANGED <<view, shown, net, serving>>
       ELSE /\ view' = WithSyncState(InitialView)
            /\ shown' = SnapshotOf(view')
            /\ RaiseInitialEvents({r}, shown', tracker.state)
            /\ RemoteListen(view')
  /\ UNCHANGED <<queue, saved>>

\* RemoteStore::StopListening.
RemoteStopListening ==
  IF stream = "open"
    THEN /\ Send(Unwatch) /\ idle' = TRUE
         /\ UNCHANGED <<tracker, stream, responses, update>>
    ELSE tracker' = UpdateState(tracker, "unknown") /\ UNCHANGED <<stream, idle, wire, target, update>>

\* EventManager::RemoveQueryListener, SyncEngine::StopListening, ReleaseTarget.
RemoveQueryListener(r) ==
  /\ listeners' = listeners \ {r}
  /\ waiting' = waiting \ {r}
  /\ IF view.open /\ listeners' = {}
       THEN /\ view' = NoView /\ shown' = NoSnapshot
            /\ saved' = [saved EXCEPT !.token = view.token]
            /\ RemoteStopListening
       ELSE UNCHANGED <<view, shown, saved, net>>
  /\ UNCHANGED <<queue, main, serving>>

WriteMutations(w) ==
  /\ queue' = Append(queue, w)
  /\ Publish(WithDocument(view, GetDocument(cache, queue')), tracker.state)
  /\ UNCHANGED <<saved, listeners, net, serving>>

RunTask ==
  /\ tasks # <<>> /\ tasks' = Tail(tasks)
  /\ LET task == Head(tasks)
     IN CASE task.kind = "listen" -> AddQueryListener(task.read)
          [] task.kind = "remove" -> RemoveQueryListener(task.read)
          [] task.kind = "write"  -> WriteMutations(task.write)
  /\ UNCHANGED <<log, committedAt, dropped, app, answers, cache, results, faults>>

\* SyncEngine::HandleSuccessfulWrite and HandleRejectedWrite.
OnWriteResult ==
  /\ results # <<>> /\ results' = Tail(results)
  /\ queue' = Tail(queue)
  /\ LET result == Head(results)
     IN cache' = IF result.ok THEN ApplyBatchResult(cache, Head(queue), result.version) ELSE cache
  /\ Publish(WithDocument(view, GetDocument(cache', queue')), tracker.state)
  /\ UNCHANGED <<server, app, answers, tasks, saved, listeners, net, faults>>

OnlineStateTimeout ==
  /\ tracker.timer
  /\ SetAndBroadcast([tracker EXCEPT !.state = "offline", !.timer = FALSE])
  /\ UNCHANGED <<server, app, answers, tasks, queue, disk, listeners, stream, idle, wire, target,
                 update, results, faults>>
-----------------------------------------------------------------------------
(* The watch stream's callbacks, on the worker queue.                      *)

\* Mutant: the targets are not sent on a new stream.
OnWatchStreamOpenEmpty == UNCHANGED <<requests, target>>

OnWatchStreamOpen == IF view.open THEN Send(Watch(view)) ELSE UNCHANGED <<requests, target>>

StreamOpens ==
  /\ stream = "starting" /\ stream' = "open"
  /\ OnWatchStreamOpen
  /\ UNCHANGED <<server, app, answers, tasks, main, queue, disk, listening, tracker, idle,
                 responses, update, results, faults>>

\* OnWatchStreamClose with an error.
OnWatchStreamClose ==
  /\ IF view.open
       THEN /\ Restarted("starting")
            /\ SetAndBroadcast(HandleWatchStreamStart(HandleWatchStreamFailure(tracker)))
       ELSE Restarted("off") /\ SetAndBroadcast(UpdateState(tracker, "unknown"))
  /\ UNCHANGED <<log, committedAt, dropped, app, answers, tasks, queue, disk, listeners>>

\* An attempt to connect fails; it takes no fault to be out of reach for long.
\* In the code the stream is open as soon as its token is there, and most failed
\* attempts end one that is open and has not heard the server: here StreamOpens is
\* the connection made, so they end a starting one.  An open stream fails by a
\* fault only, below.  Either way it is the same callback that runs.
StreamFails == stream = "starting" /\ OnWatchStreamClose /\ UNCHANGED <<results, faults>>

\* The connection is lost that the watch and the write stream have in common.
\* A bound: here, and where the token changes, only while a read waits.
ConnectionLost ==
  /\ Fault("connectionLost") /\ stream = "open" /\ waiting # {}
  /\ OnWatchStreamClose /\ results' = <<>>

\* OnWatchStreamClose after the idle timer's Stop.
IdleTimeout ==
  /\ idle
  /\ Restarted("off") /\ SetAndBroadcast(UpdateState(tracker, "unknown"))
  /\ UNCHANGED <<log, committedAt, dropped, app, answers, tasks, queue, disk, listeners, results, faults>>

\* RemoteStore::HandleCredentialChange, for a new token of the same account.
\* With nothing to listen to it does what IdleTimeout and ConnectionLost do.
HandleCredentialChange ==
  /\ Fault("credential") /\ waiting # {}
  /\ Restarted("starting")
  /\ SetAndBroadcast(HandleWatchStreamStart(UpdateState(tracker, "unknown")))
  /\ results' = <<>>
  /\ UNCHANGED <<log, committedAt, dropped, app, answers, tasks, queue, disk, listeners>>

ClearPendingChanges(t) == IF t.outstanding = 0 THEN [t EXCEPT !.documents = "none"] ELSE t

\* HandleTargetChange and HandleDocumentChange, but for a snapshot's NoChange.
HandleChange(message) ==
  /\ CASE message.kind = "added" ->
            target' = ClearPendingChanges([target EXCEPT !.outstanding = @ - 1])
       [] message.kind = "removed" ->
            target' = IF target.outstanding = 1 THEN NewTarget
                      ELSE [target EXCEPT !.outstanding = @ - 1]
       [] message.kind = "current" ->
            target' = IF IsActiveTarget(target) THEN [target EXCEPT !.current = TRUE] ELSE target
       [] message.kind = "document" ->
            target' = IF IsActiveTarget(target)
                        THEN [target EXCEPT !.documents = IF view.synced THEN "modified" ELSE "added"]
                        ELSE target
  /\ update' = IF message.kind = "document" /\ IsActiveTarget(target) THEN message.doc ELSE update
  /\ Publish(view, "online")
  /\ UNCHANGED disk

\* CreateRemoteEvent makes up a NoDocument for a current target without one.
DocumentUpdate(version) ==
  IF IsActiveTarget(target) /\ target.current /\ update.version = 0 /\ ~view.synced
    THEN Entry(version, Missing, FALSE)
    ELSE update

\* RaiseWatchSnapshot, SyncEngine::ApplyRemoteEvent, LocalStore::ApplyRemoteEvent.
\* A resume token with nothing new is not always written to LevelDB.
RaiseWatchSnapshot(version) ==
  LET doc == DocumentUpdate(version)
      accepted == Accepts(cache, doc)
      active == IsActiveTarget(target)
      seen == IF accepted THEN WithDocument(view, GetDocument(cache', queue)) ELSE view
      mustPersist == view.token = 0 \/ target.documents # "none"
  IN /\ cache' = IF accepted THEN doc ELSE cache
     /\ saved' \in IF ~active THEN {saved}
                   ELSE { [token |-> t, has |-> saved.has \/ target.documents = "added"] :
                            t \in IF mustPersist THEN {version} ELSE {saved.token, version} }
     /\ Publish(IF active THEN [WithTargetChange(seen, target) EXCEPT !.token = version] ELSE seen,
                "online")
     /\ target' = IF active THEN [target EXCEPT !.documents = "none"] ELSE target
     /\ update' = NoEntry

OnWatchStreamChange ==
  /\ responses # <<>> /\ responses' = Tail(responses)
  /\ tracker' = UpdateState(tracker, "online")
  /\ LET message == Head(responses)
     IN IF message.kind = "snapshot" THEN RaiseWatchSnapshot(message.version) ELSE HandleChange(message)
  /\ UNCHANGED <<server, app, answers, tasks, queue, listeners, stream, idle, requests, results, faults>>

-----------------------------------------------------------------------------
(* The server.                                                             *)

Now == Len(log)

Message(kind) == <<[kind |-> kind]>>
DocumentMessage == <<[kind |-> "document", doc |-> Entry(Now, log[Now], FALSE)]>>
SnapshotMessage == <<[kind |-> "snapshot", version |-> Now]>>

\* A target is added: the document, if it has changed since the resume token.
ServerAnswers ==
  /\ stream = "open" /\ requests # <<>> /\ requests' = Tail(requests)
  /\ LET request == Head(requests)
     IN \/ /\ request.kind = "watch" /\ serving' = Now
           /\ responses' = responses \o Message("added")
                \o (IF log[Now] # Missing /\ Now > request.token THEN DocumentMessage ELSE <<>>)
                \o Message("current") \o SnapshotMessage
        \/ /\ request.kind = "unwatch" /\ serving' = 0
           /\ responses' = responses \o Message("removed")
  /\ UNCHANGED <<log, committedAt, dropped, app, answers, tasks, main, queue, disk, listening,
                 tracker, stream, idle, target, update, results, faults>>

\* The document has changed since.
ServerSends ==
  /\ serving \in 1 .. Now - 1 /\ serving' = Now
  /\ responses' = responses \o DocumentMessage \o SnapshotMessage
  /\ UNCHANGED <<log, committedAt, dropped, app, answers, tasks, main, queue, disk, listening,
                 tracker, stream, idle, requests, target, update, results, faults>>

\* The log after a write; one that changes nothing makes no new version.
Logged(kind, id) ==
  LET value == AppliedTo(kind, id, log[Now])
  IN IF value = log[Now] THEN log ELSE Append(log, value)

\* The next write of the queue; a refusal ends the stream it came on.
ServerWrites ==
  /\ Len(results) < Len(queue)
  /\ \A i \in DOMAIN results : results[i].ok
  /\ LET w == queue[Len(results) + 1]
         ok == made[w] = "set" \/ log[Now] # Missing
     IN /\ log' = IF ok THEN Logged(made[w], w) ELSE log
        /\ committedAt' = IF ok /\ committedAt[w] = 0 THEN [committedAt EXCEPT ![w] = Len(log')]
                          ELSE committedAt
        /\ dropped' = IF ok THEN dropped ELSE dropped \cup {w}
        /\ results' = Append(results, [ok |-> ok, version |-> Len(log')])
  /\ UNCHANGED <<serving, app, answers, tasks, main, queue, disk, listening, net, faults>>

OtherPhoneWrites(kind) ==
  LET others == { -n : n \in 1 .. MaxOthers }
      used == UNION { log[v] : v \in { v \in DOMAIN log : log[v] # Missing } }
  IN /\ ReadsToCome /\ others \ used # {}
     /\ kind = "set" \/ log[Now] # Missing
     /\ log' = Logged(kind, CHOOSE n \in others \ used : \A m \in others \ used : m <= n)
     /\ UNCHANGED <<serving, committedAt, dropped, app, answers, tasks, main, queue, disk,
                    listening, net, results, faults>>

Kinds == {"set", "update"}

Next ==
  \/ getDocument \/ (\E kind \in Kinds : WriteData(kind)) \/ OnEvent
  \/ RunTask \/ OnWriteResult \/ OnlineStateTimeout
  \/ StreamOpens \/ StreamFails \/ ConnectionLost \/ IdleTimeout \/ OnWatchStreamChange
  \/ HandleCredentialChange \/ Restart
  \/ ServerAnswers \/ ServerSends \/ ServerWrites
  \/ \E kind \in OtherKinds : OtherPhoneWrites(kind)

Spec == Init /\ [][Next]_vars

-----------------------------------------------------------------------------
Values == {Missing} \cup SUBSET ((-MaxOthers) .. MaxWrites)
Snapshots == [value : Values, pending : BOOLEAN, fromCache : BOOLEAN, since : Nat]
Documents == {"none", "added", "modified"}

Entries(from) == [version : from .. Now, value : Values, unsynced : BOOLEAN]

ServerTypes ==
  /\ log \in Seq(Values) \ {<<>>} /\ serving \in 0 .. Now
  /\ committedAt \in [1 .. MaxWrites -> 0 .. Now] /\ dropped \subseteq DOMAIN made
  /\ results \in Seq([ok : BOOLEAN, version : 1 .. Now]) /\ Len(results) <= Len(queue)

Events == [read : DOMAIN reads, snapshot : Snapshots]

Tasks == [kind : {"listen", "remove"}, read : DOMAIN reads]
         \cup [kind : {"write"}, write : DOMAIN made]

AppTypes ==
  /\ made \in Seq(Kinds) /\ Len(made) <= MaxWrites
  /\ reads \in Seq([mine : Nat, after : Nat]) /\ Len(reads) <= MaxReads
  /\ answers \in Seq(Events) /\ gone \in 0 .. Len(reads)
  /\ tasks \in Seq(Tasks) /\ main \in Seq(Events)

DiskTypes ==
  /\ queue \in Seq(DOMAIN made) /\ cache \in Entries(0)
  /\ saved \in [token : 0 .. Now, has : BOOLEAN]

Views ==
  [open : BOOLEAN, value : Values, state : {"none", "synced", "committed", "local"},
   mutated : BOOLEAN, synced : BOOLEAN, current : BOOLEAN, limbo : BOOLEAN,
   sync : {"none", "local", "synced"}, token : 0 .. Now, since : 0 .. Now]

ListenTypes ==
  /\ view \in Views /\ shown \in Snapshots
  /\ waiting \subseteq listeners /\ listeners \subseteq DOMAIN reads

WatchChanges ==
  [kind : {"added", "removed", "current"}]
  \cup [kind : {"document"}, doc : Entries(1)]
  \cup [kind : {"snapshot"}, version : 1 .. Now]

Trackers ==
  [state : {"unknown", "online", "offline"}, failures : 0 .. kMaxWatchStreamFailures,
   timer : BOOLEAN]

NetTypes ==
  /\ tracker \in Trackers /\ stream \in {"off", "starting", "open"} /\ idle \in BOOLEAN
  /\ requests \in Seq([kind : {"watch"}, token : 0 .. Now] \cup [kind : {"unwatch"}])
  /\ responses \in Seq(WatchChanges)
  /\ target \in [outstanding : Nat, current : BOOLEAN, documents : Documents]
  /\ update \in Entries(0)

TypeOK ==
  /\ ServerTypes /\ AppTypes /\ DiskTypes /\ ListenTypes /\ NetTypes
  /\ faults \in 0 .. MaxFaults

(***************************************************************************)
(* No HARD_ASSERT on the read path can fail: the online state's timer runs *)
(* in state Unknown only and never twice, a stream is not stopped while it *)
(* is needed, a document is announced as modified only to a view that has  *)
(* it.                                                                     *)
(***************************************************************************)
HardAssertsHold ==
  /\ tracker.timer => tracker.state = "unknown" /\ stream # "off"
  /\ tracker.state = "online" => tracker.failures = 0
  /\ idle => stream = "open" /\ ~view.open
  /\ IsActiveTarget(target) /\ target.documents = "modified" => view.synced

\* Why own write w need not be made on top of version v with the others: it was
\* dropped; the version has it, and it is before them; or results were lost, and
\* the server, sent it again after one of them, answered both with one version.
NotNeeded(w, v, ids) ==
  \/ w \in dropped
  \/ committedAt[w] \in 1 .. v /\ \A i \in DOMAIN ids : w < ids[i]
  \/ faults > 0 /\ committedAt[w] # 0 /\ \E i \in DOMAIN ids : ids[i] < w

\* The versions of the document that, with own writes made on top of them, are
\* what the answer shows: those made before the call, perhaps some after it.
Versions(answer) ==
  { v \in DOMAIN log : \E n \in 0 .. Len(made) : \E ids \in [1 .. n -> DOMAIN made] :
      /\ \A i, j \in 1 .. n : i < j => ids[i] < ids[j]
      /\ answer.snapshot.value = Overlay(log[v], ids)
      /\ \A w \in DOMAIN made \ { ids[i] : i \in 1 .. n } :
           w <= reads[answer.read].mine \/ (\E i \in 1 .. n : w < ids[i]) => NotNeeded(w, v, ids) }

(***************************************************************************)
(* An answer that calls itself neither cached nor pending is the document  *)
(* as it was on the server after the listen that serves it: no message for *)
(* an earlier listen, and no estimate made from a write's result, is taken *)
(* for it.                                                                 *)
(***************************************************************************)
SyncedReads ==
  \A i \in DOMAIN answers :
    LET snapshot == answers[i].snapshot
    IN ~snapshot.fromCache /\ ~snapshot.pending =>
         \E v \in snapshot.since .. Now : snapshot.value = log[v]

(***************************************************************************)
(* An answer that does not call itself cached is up-to-date server data    *)
(* under the phone's own writes, as FIRSnapshotMetadata says.              *)
(***************************************************************************)
UpToDateUnlessFromCache ==
  \A i \in DOMAIN answers :
    LET snapshot == answers[i].snapshot
    IN ~snapshot.fromCache => Versions(answers[i]) \cap (snapshot.since .. Now) # {}

\* The client is offline and has no document: ListenOnce makes it an error.
IsError(answer) == answer.snapshot.fromCache /\ answer.snapshot.value = Missing

(***************************************************************************)
(* Reads do not go back, over lost results, lost streams and restarts: an  *)
(* answer shows the own writes made before the call, but for one that was  *)
(* sent again after an earlier one it shows, and a version no older than   *)
(* one that an earlier answer must have come from; and there is no error   *)
(* once the document has been shown.                                       *)
(***************************************************************************)
MonotonicReads ==
  \A j \in DOMAIN answers :
    /\ IsError(answers[j]) \/ Versions(answers[j]) # {}
    /\ \A i \in 1 .. reads[answers[j].read].after :
         IF IsError(answers[j])
           THEN answers[i].snapshot.value = Missing
           ELSE IsError(answers[i]) \/
                \E v \in Versions(answers[i]), w \in Versions(answers[j]) : v <= w

Answered(r) == r <= gone \/ \E i \in DOMAIN answers : answers[i].read = r

(***************************************************************************)
(* No read is left waiting: one that has no answer, and was not cut off by *)
(* a restart, has its listener or its event under way; a listener that     *)
(* waits has the server's messages, the timer or an attempt to connect to  *)
(* wait for, and none waits while the client is offline.                   *)
(***************************************************************************)
NoReadLeftWaiting ==
  /\ \A r \in DOMAIN reads :
       \/ Answered(r) \/ r \in waiting
       \/ \E i \in DOMAIN tasks : tasks[i] = [kind |-> "listen", read |-> r]
       \/ \E i \in DOMAIN main : main[i].read = r
  /\ waiting # {} =>
       /\ tracker.state # "offline"
       /\ tasks # <<>> \/ requests # <<>> \/ responses # <<>> \/ tracker.timer \/ stream = "starting"
=============================================================================

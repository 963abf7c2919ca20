# AgriGuardian: verification project

TLA+ models of the iOS app under `src/AgriGuardian/AgriGuardian` and of the parts
of the Firestore client it rests on, vendored under
`src/AgriGuardian/Pods/FirebaseFirestore`; the TLC configurations that check them
on small instances; and theorems about them checked by TLAPS. Paths below are
relative to the first directory, those of the client to
`Pods/FirebaseFirestore/Firestore/core/src/firebase/firestore`. The rest of
`src/AgriGuardian` (the other pods, the Xcode project, empty test targets) is
third-party or generated and is not modelled.

AgriGuardian shows the owner of an all-terrain vehicle the rides recorded by a
Raspberry Pi on the vehicle. The app signs its user in with Google and Firebase,
keeps users, devices and rides as Cloud Firestore documents, finds the Pi over
Bluetooth Low Energy, and reads ride data from it in small datagrams.

## 1. Inventory

| component | code | state | operations |
|---|---|---|---|
| Datagram format | `Models/BLE/Datagram.swift`, `Message.swift` | none | `encoded`, `decode`, `Message.datagrams` |
| Message receiver | `Models/BLE/MessageReceiver.swift` | one `MessageBuilder` per key: bytes so far, indices still missing | `process(datagramData:)`, `insert`, `onComplete` |
| Peripheral transfer | `Controllers/PeripheralViewController.swift` | `datagrams`, `tempCharacteristic`, the Bluetooth connection | CoreBluetooth callbacks, `processDatagrams` |
| Session | `SceneDelegate`, `LoginViewController`, `MainTabBarController`, `HomeViewController`, `DevicesCollectionViewController`, `FirebaseManager` | Auth's user, the `users` and `devices` documents, the screen and its chain of loads | sign in and out, `checkUser`/`createUser`, `getUser` → `getDevices` → `getRides`, choice of a device |
| Ride organization | `FirebaseManager.organizeUserRides`, `Models/RideOrganization.swift` | the history: years, months, rides, totals | the loop over the sorted rides |
| Ride history tables | `Controllers/RideHistory/Yearly…`, `Monthly…` | `sectionIdx` | data source callbacks |
| Firestore client, writes | `core/sync_engine.cc`, `local/leveldb_mutation_queue.cc`, `remote/remote_store.cc`, `remote/stream.cc`; `FIRAuth.m` | each account's mutation queue, the pipeline, the write stream, Auth's token | a write, a change of account, the stream's callbacks and timers |
| Firestore client, reads | `api/document_reference.cc`, `core/event_manager.cc`, `core/view.cc`, `local/local_store.cc`, `remote/remote_event.cc`, `remote/online_state_tracker.cc` | the cache, the query's view and listeners, the watch stream, the online state | `getDocument`, the watch stream's callbacks, results of writes |
| Device registry | `AddDeviceViewController`, `ProfilesViewController`, `Models/Device.swift` | `devices` documents, `users.Devices` array | add, remove, `Device(data:)` |
| Pairing | `DevicesCollectionViewController`, `DeviceTableViewController`, `AddDeviceViewController` | the Pi found, its first answer, the form | discovery, read, Done/Cancel, ACK |
| Ride loading | `FirebaseManager.loadGPSData`, `Models/RideParameters.swift` | none | rides from documents and from CSV rows |
| Ride detail, map, graph; settings; delegate; cells | `Controllers/RideHistory/RideDetail…`, `RideMap…`, `Controllers/Settings`, `Views` | none of their own | layout |

How they interact. A `PeripheralViewController` feeds a new `MessageManager`
with the encoded datagrams it has kept, after every transfer. The session's
chain of loads ends by organizing the rides of the chosen device, and hands the
history to the tables. The choice of a device is a Firestore write that the next
load reads back. Pairing ends in a `devices` document, which the next load of
the devices finds. All callbacks run on the main queue: there is no data race,
but every callback may find a state other than the one its request left.

The client runs beside the main queue on a worker queue; calls go to it and
answers come back as tasks, so a write or a read is answered long after it was
made, and Auth's account, the network and the server have moved on.

What is hard, and what makes each component correct:

* *Receiver*: datagrams come in any order, twice, mixed with those of other
  messages, or too short. Each message must be delivered once, whole, and
  without a trap in `replaceSubrange`.
* *Peripheral transfer*: Bluetooth goes off in the middle; reads fail; the array
  of datagrams is never cleared. What is printed must be the message being
  transferred, the ACK must mean that all of it was read, `reconstructed!` must
  not be nil.
* *Session*: the writes are not awaited; the app is killed between two calls;
  reads fail; several people share a phone and one person has several. The home
  must be its user's own and show the device chosen last, a document must not be
  unwrapped where there is none nor created over one that exists.
* *Ride organization*: the order of the history rests on a sort far from the
  loops that need it; totals are kept beside the lists they sum up.

* *Client, writes*: accounts change, streams fail and tokens arrive late. A write
  must be applied for the account that made it, in order, never skipped, and
  answered in the end.
* *Client, reads*: the cache, the account's own writes and the watch stream are
  merged in any order. An answer that claims to be the server's must be, reads
  must not go back, none may wait for ever.

`PROJECT.json` lists every hazard at its line with the properties that cover it.

## 2. Modules

```
Datagram ── MessageManager ─┬─ MessageChannel ─┬─ MCMessageChannel
                            │      │           └─ MessageChannel_proofs (+ MessageManager_proofs)
                            │      └── implements MessageDelivery
                            ├─ PeripheralTransfer ─┬─ MCPeripheralTransfer
                            │                      └─ PeripheralTransfer_proofs
                            │                           (+ MessageManager_proofs)
                            └─ MessageManager_proofs
Firestore ── Session ─┬─ MCSession
                      └─ Session_proofs
FirestoreClient ─┬─ MCFirestoreClient
   │             └─ FirestoreClient_proofs
   └── implements WriteQueue
DocumentRead ── DocumentRead_proofs ── DocumentReadOrder_proofs
RideHistory ─┬─ MCRideHistory
             └─ RideHistory_proofs
```

**Datagram** is the wire format, byte by byte: key, offset and length of four
bytes each (truncated as the code truncates), payload; `EndIndex` and
`Subscript` are `Message.DatagramView`. `Radix` is the number of values of a
byte: 256 in the code, less in TLC's runs, any in the proofs.

**MessageManager** is a manager as a value. `process` is the whole of
`process(datagramData:)`, the nested `onComplete` included: `invalidDatagram`
where the code throws, `trap` where `Data.replaceSubrange` would end the app.

**MessageChannel** puts a manager behind a link. The sender takes a free key
(`Send`), the link delivers in any order (`Deliver`), repeats what has arrived
(`Repeat`) and delivers short frames (`ShortFrame`). Two things are assumed of
the link, both because the code would break without them: a message is not empty
(an empty one has no datagram, so nothing is ever sent), and no datagram is
repeated after its message has been completed (it would start a builder for a
message that is never completed).

**MessageDelivery** is the abstract promise: messages pending, messages
received. `MessageChannel!Delivery` maps the keys in use to `pending`.

**PeripheralTransfer** has one action for each CoreBluetooth callback of
`PeripheralViewController`; `Handle` and `processDatagrams` are the reading
loop. The Pi is external: it answers each read with the next frame, begins the
transfer anew with each connection, and takes an ACK as the end of a transfer.
The code ends a transfer at any key other than 0 (its comment speaks of key 6),
and so does the model. At this commit no storyboard creates the controller; the
model is of the class as it runs once it is created.

**Firestore** is the service as the app uses it, external: writes join a queue
per phone and account that outlives the app, the server applies a queue in
order, a write leaves the queue when its result is read, and a read answers with
the server's documents under the reader's own queue.

**Session** has one action for each tap, start or end of the app and completion
handler: `Launch` is `SceneDelegate`, `SignIn` and `checkUser` the login, then
`getUser`, `getDevices`, `getRides` are the tab bar's chain, `showDevices`,
`loadDevices`, `didSelectItem`, `closeMenu` the list of devices, `userLogout`
the dashboard's menu. A read is answered in one step, when its handler runs.
`tab[p].uid` is the uid the chain has captured. `Register` stands for
`AddDeviceViewController` having stored a device (of its own module later).
A write goes its way in two steps, `ServerApplies` and `WriteResult`; `sent[p]`
counts the writes between them, and goes back to 0 where the write stream ends
(`StreamRestarts`, the end of the app, a sign-in or a sign-out): those writes are
still in LevelDB and are applied once more, a `setData` over the document it has
made itself. `FirestoreClient` has this in detail; here the pipeline has no depth
limit, and a change of account and the end of its stream are one step.
Left out: a second sign-in while `checkUser` waits for the first, and accounts
with no verified address.

**FirestoreClient** is the path of a write in detail: the app's call and Auth's
notifications on the main queue, the tasks of the worker queue (`RunTask`), the
callbacks of the write stream, its back-off and idle timer, LevelDB's queues with
their batch numbers, and the server. `Stop` and `Close` are the stream's; what
was under way on it is lost. Assumed: the server reads no request of a stream
later than it learns of its end; gRPC delivers what was sent before the end; the
app writes for an account only after Auth has told it of the account. The
network is never disabled by the app, and the stream token, which the server
alone interprets, is left out. The server may end a stream for good at the
handshake too (`ServerRefuses`); only after it is the error the first batch's own
(`OwnError`). Auth's user may change from one account to another directly.

**WriteQueue** is what `FirestoreClient` promises: writes of an account join its
queue, the server applies or refuses the first, and only then is it answered.

**DocumentRead** is the path of `getDocument` for one document: the listener and
its initial event, the view, the local store's merge of cache and own writes,
the watch stream with `WatchChangeAggregator`, the online state. A document is
the set of writes that made it, a version a position in the server's log; a
write that changes nothing makes no version. The write path is abstract here:
results of the queue's writes, in order, perhaps lost and had again. The account
does not change. Left out: queries of several documents, existence filters,
target resets and errors (the server sends none), garbage collection, and the
listen that resolves limbo: a document in limbo is one the target has not named
before its first snapshot, and that snapshot settles it. Whether LevelDB gets a
resume token that alone has changed depends on the clock and is left open.
In the code a stream is open as soon as its token is there, so that most failed
attempts to connect end an open stream that has not heard the server. In the model
`StreamOpens` is the connection made and those attempts end a starting one
(`StreamFails`); the failure of an open stream is a bounded fault while a read
waits (`ConnectionLost`). Both run the whole of `OnWatchStreamClose` and leave the
same states.

**RideHistory** is `organizeUserRides`, a step for each iteration of the outer
loop; `Filed` is the inner loop, with the code's test of the year where the code
has it (at the creation of a month only). The calendar is `MonthsPerYear` months
of `DaysPerMonth` days: the code compares the formatters' strings, so only which
dates share a year and a month matters.

The operators marked *Mutant* are not used by any specification: each is a
plausible mistake in the definition after it, and the property it is listed
with in `PROJECT.json` fails when it is put in its place.

## 3. Runs

| run | instance | states | shows |
|---|---|---|---|
| `channel` | 2 keys, 2 messages each of 1 to 5 bytes, payload 2, 2 short frames, 4 messages sent | 5362 | `BuildersAgree`, `NothingLost`, `NoTrap`; implements `MessageDelivery`; every message arrives |
| `peripheral` | 2 transfers of 2 and 3 datagrams, 2 arrangements of the characteristics, Bluetooth off twice, a lost connection, a failed read | 16683 | while reads are sound: prints the current message, ACK only after all datagrams, no crash; each transfer Bluetooth interrupts is printed in the end |
| `peripheral_ack` | 1 transfer, 1 failed read | violation | finding 1 |
| `ride_history` | every subset of 9 rides over 3 years of 2 months of 2 days | 3728 | order, where each ride is filed, totals |
| `ride_history_year` | the same | violation | finding 2 |
| `session` | 1 phone, 2 users, 2 devices, 2 faults: kill, failed read, failed sign-out; 2 choices; streams restarted at will | 236058 | the home is its user's and shows the choice; a document is created only where there is none but the write's own; the choice is stored; no crash without a fault; a sign-in leads home |
| `session_phones` | 2 phones, 1 user, no fault | violation | finding 3 |
| `session_autologin` | 1 phone, 1 user, 1 kill | violation | finding 4 |
| `firestore` | 2 accounts, 3 writes, 2 changes of token, 2 faults, of any kind: kill, failed token, lost connection, a write or a handshake refused | 1589337 | each write is applied for its account; no `HARD_ASSERT` fails; implements `WriteQueue` |
| `firestore_answers` | 1 account, 2 writes, 2 faults | 173026 | a write is answered in the end |
| `reads` | 2 reads, 1 own write, 1 of another phone, 1 fault: kill, lost connection, new token | 1137014 | answers from the server are, reads do not go back, none is left waiting |
| `reads_cached` | the same with no fault, the other phone may update | violation | finding 5 |

Why the bounds are enough. *channel*: three datagrams give a first, a middle and
a short last one; the second key gives mixed messages; four messages let a key
be used again for a message of another length, which is what a builder left
behind would break. *peripheral*: the second transfer is longer than the first,
so that datagrams left from the first are too short for it; Bluetooth off twice
interrupts a transfer and its repetition, or the next one, and a connection lost
in between is taken up again. A failed read does more harm than finding 1 says: with it a
copy of a datagram is left over, and the message printed for the *second*
transfer may be made of bytes of both; `PrintsCurrentMessage` therefore holds
after a failed read for the first transfer only. *ride_history*: a ride is
misfiled as soon as two rides fall in one month of two years, and the third year
shows that all earlier years are hit; pairs of equal dates exercise the freedom of the
sort; two rides alike but for the id show that filing goes by ride.
*session*: two users in turn on one phone, with two devices to confuse, and two
faults, one to interrupt a sequence and one to interrupt its repetition; two
choices make a queue in which an older choice is sent again after a later one was
applied.
*firestore*: two accounts and two changes of token give a sign-in, a direct change
from one account to the other, a sign-out with writes queued, and a refreshed
token, each with the token of before on its way; a third change, which brings the
first account back, is left to the theorems of §5, which hold for any number.
Two faults of any kind let a stream that was lost or refused be lost or refused
again; three writes fill a pipeline of two. *reads*: with two reads the second meets what the first
left (view, resume token, a stream winding down), and one write of each side
gives every order of result, watch document and listen. What takes a second own
write, two results that are lost and had again, is the remark at the end of §4; the
theorems of §5 hold for any number. A connection is
lost, or the token changes, only while a read waits; a kill comes at any time.
The bounds in guards are `MaxMessages`, `MaxFaults`, `MaxChoices`, `MaxWrites`,
`MaxReads`, `MaxOthers` and those of `MCFirestoreClient.cfg`.

Fairness. `channel`: every frame on the link is delivered in the end, frame by
frame. `peripheral`: CoreBluetooth answers a request while the connection lasts
(one weak fairness for all callbacks, which the framework serves in turn), and
the Pi gets its ACK. `session`: Firestore answers a read in the end; no user has
to do anything. `Launch`, `ServerApplies`, `WriteResult`, `StreamRestarts` and
taps are not fair. `firestore_answers`: the
main and the worker queue run, timers fire, Auth answers a request for a token,
gRPC delivers or fails, the server reads and answers; faults, which are bounded,
are not fair. Nothing is assumed of `ride_history`, `firestore` and `reads`;
`NoReadLeftWaiting` is the safety half of "a read is answered": what waits
always has a message, a timer or an attempt to connect ahead of it.

Deadlock is checked in `channel`, where a short frame can always come. It is
not in the others: the loop of `ride_history` ends; in `peripheral` the
app may have crashed, or stalled after a fault the code does not handle; in
`session*` nothing runs on once the bounds are used up and the user leaves the
phone alone; nor does it in `firestore*` and `reads*` once all is answered and
the streams are idle.

## 4. Findings

1. `AckMeansAllReceived` (`peripheral_ack`). `processDatagrams` is commented
   "an AWK message is written to the pi to acknowledge that all datagrams have
   been recieved", but the ACK is written at the first datagram with a key
   other than 0, and the error of a failed read is ignored: the stale value is
   taken for the datagram that was lost.
2. `OnlyInItsYear` (`ride_history_year`). The inner loop, commented "iterate
   through months in ride year", visits the months of every year: a ride is
   filed, and counted, in that month of earlier years too. `FiledOnce` says
   exactly where rides are filed.
3. `CreatedOnlyIfMissing` (`session_phones`). With two phones, both find no
   document, and the second phone's `setData` still waits when the server has the
   first phone's document, which it replaces, a chosen device included. On one
   phone a `setData` is only ever sent again over the document it has made
   itself, and the later writes follow it (`ChoiceStored`).
4. `AutologinLeadsHome` (`session_autologin`). Killed between the sign-in and
   `createUser`, the app is signed in without a `users` document, and every
   later start ends on `data()!`. In `session`, `NoCrash` shows that it
   takes such a fault.
5. `UpToDateUnlessFromCache` (`reads_cached`). `FIRSnapshotMetadata.h` says
   `fromCache` is YES "if the snapshot was created from cached data rather than
   guaranteed up-to-date server data". When the account's own update is
   acknowledged, `ApplyBatchResult` puts an estimate into the cache: the update
   applied to the base it had. If another phone's update was applied in between,
   the watch stream's document is no newer than the estimate or older and is
   ignored, yet the target's CURRENT makes the view synced: `getDocument` answers
   with `fromCache` NO, a pending write and without the other update, stored
   before the read began. `SyncedReads` shows that it takes a pending write.
   `Blind` lets the app update a document it has never read; then a document that
   has always been there may be answered as missing, with `fromCache` NO. The app
   updates only what it shows, so the runs set it to FALSE.

No finding, but the reason for an exception in `MonotonicReads` (the last line of
`NotNeeded`), which the proof brought to light: an acknowledged own write can be in
neither the cache nor the queue. Two updates are applied, and the app is killed
before it reads their results. It sends them again; they change nothing now, and
both results carry the one version the document has, as "No-op writes will not change
the update_time" (`mutation.h`, line 61). `ApplyBatchResult` applies the
first to the old document and gives it that version; the second is not applied,
as the cached document is no older than its result, and is removed from the queue
like the first. A read that is answered offline, or before the watch stream has
brought the document, lacks it, though an earlier one may have shown it. TLC finds
such a cache after 21 steps when `reads` gets a second own write, none of another
phone and one kill; without a fault it
finds none.

## 5. Proofs

All for every value of the constants that the `ASSUME`s allow.

*MessageManager_proofs*: `RoundTrip`, `decode(encoded(d)) = d` with `Decodable`
for every datagram with a payload; lemmas on the cut of a message into datagrams
(they are disjoint and cover it: `PiecesDisjoint`, `PiecesCover`), on a builder
that takes one (`PieceInserted`, `NothingRemains`), and that a manager stays one
whatever bytes arrive (`ProcessTypes`). The next two modules rest on them.

*MessageChannel_proofs*: `TypeCorrect`, `BuildersCorrect`, `NothingIsLost`,
`NeverTraps` and `Refinement`. The inductive invariant is `TypeOK`,
`LinkAgrees` (every frame on the link is one of a message being sent),
`BuildersAgree`, `NothingLost` and `NoTrap`; `LinkAgrees` is the strengthening:
without it a frame of a message already received could meet a builder for its
key's next message. The argument: the datagrams of a message are disjoint and
cover it (`FramesDisjoint`, `FramesCover`), so delivering one strikes off
exactly the indices it brings (`CollectIncomplete`), and a builder is complete
exactly when its last frame leaves the link (`CollectComplete`). Refinement maps
that delivery to `Receive` and every other step of the link to a stutter.

*PeripheralTransfer_proofs*: `TypeCorrect`, `NeverCrashes` (`NoCrash`),
`AckedOnlyAfterAllRead` (`AckedAfterAllRead`) and `PrintedIsCurrent`
(`PrintsCurrentMessage`). The code never clears its array of datagrams and puts
it together from the first one again at each FYN, so the array alone does not
tell which frames are this connection's. The inductive invariant has

* `Linked`, `Discovery`, `OneRead`: what is under way belongs to a connection that
  starts the Pi's transfer anew; a service is asked for once; at most one read of
  the datagrams' characteristic is out, none before it is discovered or after FYN.
* `Values` and `First`: while the Pi has its first transfer, no read can find
  anything but its frames, FYN or text, not even the stale value of a failed one,
  so there is no other message a builder could be of.
* `Sound`, while reads are sound: the builder is of the current transfer's message,
  awaits that transfer's last frame, and is gone when an ACK is out; and `Run`,
  while the Pi's answers are being read: the builder awaits none of the frames
  read on this connection, is there between the first and the last, and the
  message is the last one received after it.

The step that could fail is the one that takes a frame: frames of an interrupted
transfer have been struck off already, so the builder is not new when the frames
come again, and the message must be whole with the last frame, not earlier and
not later. `LoyalStep` says what a frame does to a builder of its message;
`SoundTaken` puts it together from `Sound`, `Run` and the cut of the message.
`ManagerAfter` and `ReadableOf` are recursive functions; that they exist, are
unique and do one step for one element more (`ManagerOfOneMore`) is proved once
for both. TLC checked `IInv` with the constants of `peripheral` before it was
proved (16683 states).

*RideHistory_proofs*: `TypeCorrect`, `InCalendarOrder`, `MonthsListRidesInOrder`,
`FiledOnceAlways` and `TotalsAlwaysAgree`. For the first three the strengthening is
`Behind`: everything filed so far is dated no later than any ride to come, which
is what the sort gives the loops that only append. For the last two it is
`Complete`: each year has a month for each of its rides done (`HasMonthOf`), and
each month lists exactly the rides done of its name and of its year or later
(`Lists`), was opened by a ride of its year (`Opened`) and has their totals
(`SumsUp`). The step that could fail is the one that appends an empty month: it
is right to be empty only because no ride of a later year has come yet. The sums
of the community modules are folds over a set in an order that a `CHOOSE`
decides; `FoldedSums` shows that the order does not matter, so that one ride more
adds its own time (`TotalsOfAppend`). TLC checked `Complete` on the run's rides
before it was proved.

*Session_proofs*: `TypeCorrect` and `HomeIsOwnAlways` for any number of phones;
`CreatedOnceOnOnePhone` (`CreatedOnlyIfMissing`), `NoCrashOnOnePhone`,
`ChoiceShownOnOnePhone` (`HomeShowsChoice`) and `ChoiceStoredOnOnePhone` for a phone
that is the only one.

`HomeIsOwn` says nothing of a tab bar that is still loading, so it is not
inductive; the strengthening is `CallOnScreen` (a read under way belongs to the
screen that asked for it, so no answer of one user's chain arrives on the next
user's screen) and `TabIsOwn` (a tab bar shown is that of the account signed in,
before it is loaded too). `Register` gives a device an owner only once.

The four others say what a `users` document holds while its writes wait. With
two phones they are false, as the runs show for `CreatedOnlyIfMissing`
(`session_phones`), so they take `Phones = {p}`. Their inductive invariant is
`OneInv`, in four parts.

* `Kept`: the queue of a user begins with the creation of the document if the
  server has no document and the queue is not empty; it holds no other creation,
  and holds this one beside a document only if that is what made the document;
  once a user has chosen a device, what a read answers names that device.
* `Landed`: the writes applied on the stream are the first of the account's
  queue, and the document is what the last of them has left.
* `Exists`: the chain past `getUser` belongs to a user with a document, and until
  something fails, so does every account that is signed in and checked.
* `Carries`: the tab bar holds the choice from the answer of `getUser` on.

A read is `View`, the queued writes applied one after the other, a fold in an
order that a `CHOOSE` decides. `ViewIsLatest` says what it comes to where `Kept`
holds: the last write of the queue, or the server's document if the queue is
empty. So the server's going through the queue once more changes no answer
(`ServerAppliesKeeps`), and a row that goes leaves a later row, or is the one the
document shows, by `Landed` (`WriteResultKeeps`). They rest on an absence of a
least counterexample (`LeastNatural`). TLC checked `OneInv` with the constants of
`session` before it was proved (236058 states).

*FirestoreClient_proofs*: `TypeCorrect`, `OwnersOnly` (`CommittedAsOwner`),
`NoAssertFails` (`HardAssertsHold`) and `Refinement` (`WriteQueueSpec`), from one
inductive invariant, `IInv`, in four parts.

* `Down`: while the app is not running there is nothing but what is on disk.
* `RightUser`: Auth's user, the worker queue's and the stream's are three copies
  of one thing that disagree while news is under way. `AuthNews` says how: the
  last news in the main queue is of Auth's user, or there is none and the last
  news in the worker queue is, or there is none and the user is. `TokenUser` is
  what makes the stream right: a token that the stream can take, with no news
  before it, is for the worker queue's user. `WriteUser` and `WritesAscend` say
  the same of a write's task, and that tasks run in the order they were made.
* `Rows`: the rows of an account are of its own writes, in ascending order and
  below the next batch number (`RowsAreOwn`, `RowsAscend`); what the server has
  seen has been run and is its owner's (`ServerRun`); a handler waits for a row
  (`CallbackRows`), so no number is used twice while a handler waits for it.
* `StreamInv`: the pipeline is the beginning of the current user's queue
  (`PipelineRows`), a stream that is open is that user's, and on a ready stream
  the responses and after them the requests are the pipeline (`StreamReady`).

`OwnersOnly` then is a part of `ServerRun`: what the server reads next is a
request, so a batch of the pipeline, so a row of the stream's user, so that
user's own write. The proof never needs the comparison of token counters in
`RunMain`: the close count alone keeps a late token from the stream, since
a change of user closes it. The server may refuse a handshake, so an error for
good may find a stream with nothing sent on it (`StreamNotReady`); the proof needs
`OwnError` to ask for the handshake, or a batch would be dropped that the server
has not seen. `IInv` was checked by TLC before it was proved (two accounts, a
pipeline of one, two writes, two switches, two faults: 253553 states).
`Refinement` maps the task that writes a row to `Write`, the server's two steps
to `Commit` and `Refuse`, a response on a ready stream to `Acknowledge`, the end
of a stream with a write's own error to `Reject`, and all else to a stutter.

*DocumentRead_proofs*: `TypeCorrect`, `NoHardAssertFails` (`HardAssertsHold`),
`NoReadWaitsForNothing` (`NoReadLeftWaiting`) and `SyncedReadsAreTrue`
(`SyncedReads`); *DocumentReadOrder_proofs*: `ReadsDoNotGoBack`
(`MonotonicReads`). The inductive invariant of the first four, `AnswersInv`, is
made of

* `Typed`: the types, and what they rest on. The count of outstanding answers is
  exact (`WireInv`: the requests not read by the server, and the answers to others
  not read by the client), so `IsActiveTarget` means that no message on the stream
  is for an earlier listen; a view is open exactly while it has listeners.
* `ViewInv`: the view is what the cache and the queue make of the document, except
  that it keeps an own write where the cache has only the estimate made from its
  result; what is shown is the view.
* `ReadInv`: each read is answered, or has its listener or event under way, or
  waits; one waits only for a snapshot that is still cached, and never offline.
* `DataInv` and `StreamInv`: a document never goes away, the cache has what the log
  has or an estimate of a document that exists, documents on the stream are the
  log's, each followed by its snapshot, in the order of their versions, none older
  than what the cache has from the server.
* `TargetInv`: the cache is no older than the resume token (`Tokens`), and once the
  server has read the last request (`Heard`) the target is or will be current, and
  each snapshot of it brings a document unless the client has that version
  (`Answering`); unless the view has become current, one is under way.
* `CurrentInv`: a current view's cache is no older than the listen, and has no
  document that the server has not sent but as an estimate, over which the view
  is still pending.
* `SightInv` and `EventsInv`: the document of an update in the queue is in the
  cache or made by the first write of the queue, and each event is sound.

`NoReadWaitsForNothing` then is the argument that a listener which waits has the
stream to wait for: with nothing under way the view is current (`HeardView`), so
it is shown as the server's (`CurrentNotWaiting`), and `ReadInv` says that nobody
waits for that. The timer and the tasks, which the property names too, are not
needed for it: they only end a wait sooner. It holds for any `Blind`.
`SyncedReadsAreTrue`, like `ReadsDoNotGoBack`, assumes `Blind = FALSE`, and must:
with TRUE, TLC finds the document answered as missing that finding 5 speaks of. The step that needs it is
the result of a write: an update in the queue is of a document that was shown, so
its estimate is never one of nothing (`ResultVisible`), and then a current view
without a document and without writes is what the cache has from the server
(`SyncedView`). `Overlay` is a recursive function; that it exists, is unique and
keeps a document there (`OverlayThere`) is proved from the same absence of a least
counterexample. TLC checked the parts before they were proved (`SightInv` and
`EventsInv` with one read, two writes and one fault: 1069052 states). The proof
showed two things the model had left open: that `Missing` is no set of writes is
an assumption now, and `RemoveQueryListener` closes only a view that is open, as
the code does only for a query it has.

`ReadsDoNotGoBack` adds to that invariant

* `OrderInv`: own writes keep the order of the calls on their way from the tasks to
  the queue, and the listener of a read is added after the writes made before its
  call (`Turns`).
* `WriteInv`: what has become of each write. Its result is for a version that has it;
  one in neither the tasks nor the queue was dropped, or is in the cache's version
  and comes before those that are; one never applied is in no version; while no
  result is lost each is for a new version.
* `Bases`: there are versions c and v, v no later than c, such that the cache is made
  of c, the view of v, and no event can only be of a version after v. Made of a
  version (`MadeOf`, `CacheMadeOf`) means: it with own writes on top, in the order of
  the calls, and every other own write still to be written or not needed.
* `Goods`: each answer, and each event on its way to be one, is as `MonotonicReads`
  says after the answers before its call.

An answer may fit several versions; it is the pair c, v that makes one choice for
the whole behaviour. It moves forward only. The cache takes a document of the
stream, made of its own version; or the result of a write, whose write goes on
top of what c already has there; or ignores it (`CacheStep`). Ignoring is where the
proof of the property as it was first stated failed: it demanded every own write
made before the call, and the cache can lack one (the remark in §4). TLC, which had
checked one own write, found the counterexample with two, and the property now
says which write may be missing. The view takes the document of cache and queue,
of version c (`DocumentFromNow`), or keeps its own write over the estimate made
from it, of version v (`ViewFromStep`). An event is raised with what is shown, by a
listener whose turn comes after the writes before its call (`TurnPast`), so v is
one of its versions (`FromVersionsNow`), and every answer so far has one no later.
An error is raised only if there is no document in the view, and then none was
ever to be seen (`NothingThereNow`), so no answer had one.

`LeastNatural`, of a set of numbers, and `GreatestNatural`, of a bounded one, come
from the library's theorem on well-founded sets; the components have no module in
common, so each has its own. A proof by induction over numbers is stated with them
as the absence of a least counterexample, which the provers here can use where
they cannot use an induction theorem over predicates.

Assumptions: `None` and `Missing` are no user, device or document, nor `Missing` a
set of writes, `Radix > 1`, a
positive payload size, messages of 1 to `Radix^4 - 1` bytes, a calendar of
positive lengths, a pipeline of at least one write, bounds that are naturals. Of
the Pi (`TransferAssumption`, `PeripheralAssumption`): its messages have key 0 and
FYN another, its services name no characteristic twice and have at least one
each, and the other characteristics hold text that is no datagram with key 0. TLC
evaluates each in the runs that extend the module.

Only model-checked: liveness (`EveryMessageArrives`, `PrintedInTheEnd`,
`SignInLeadsHome`, `Answers`), which the prover does not reach. Every invariant
and action property of a passing run is stated by a theorem.

## 6. Not modelled, and the plan

Not modelled because there is nothing to check: layout, cells, the static
settings screens, formatting, alerts, MapKit and geocoding.

Not modelled because nothing reaches them at this commit: the device registry and
pairing. The scan in `DevicesCollectionViewController` (line 149) is commented
out, and `DeviceTableViewController` and `ProfilesViewController`, the other ways
to `AddDeviceViewController`, are in no storyboard. `Session!Register` stands for
a device stored by other means.

Of the vendored pods only what the app's calls of Firestore exercise and what can
go wrong between them is modelled: the write path and the read of one document.
gRPC, BoringSSL, LevelDB and the rest are libraries below it, taken for what they
promise.

Seen and left without a run: when the last listener goes while the watch stream
is still starting, `RemoteStore::StopListening` cancels the ten-second timer, and
a read that comes before the attempt has ended is without one.

Planned: `RideLoading`, with `Ride(data:)`, `loadGPSData` and the polyline of a
route as operators against reference definitions; and `RideTable`, the order of
the table's callbacks and `sectionIdx`.

-------------------------- MODULE FirestoreClient --------------------------
(***************************************************************************)
(* How the writes of the app reach the server: the part of the vendored    *)
(* Firestore client under SyncEngine::WriteMutations (mutation queue,      *)
(* write pipeline, write stream) and the part of Firebase Auth it asks for *)
(* tokens, on one phone that several accounts use in turn.                 *)
(*                                                                         *)
(* Three threads run: main (taps, Auth's notifications and callbacks),     *)
(* Auth's own queue, and the client's worker queue.  The network is never  *)
(* disabled by the app.  gRPC hands on what the server sent before the end *)
(* of a stream, then the end; what is under way when the client closes a   *)
(* stream, or the connection fails, is lost.                               *)
(***************************************************************************)
EXTENDS Integers, FiniteSets, SequencesExt

CONSTANTS
  Users,              \* accounts, by uid
  None,               \* nobody: the unauthenticated user
  kMaxPendingWrites,  \* batches sent before their results are in (10)
  Faults,             \* subset of {"kill", "tokenError", "connectionLost", "refused"}
  MaxFaults,          \* bound on the faults in a behaviour
  MaxWrites,          \* bound on the writes the app makes
  MaxSwitches         \* bound on sign-ins, sign-outs and refreshed tokens

ASSUME ClientAssumption ==
  /\ None \notin Users
  /\ kMaxPendingWrites \in Nat \ {0}
  /\ MaxWrites \in Nat /\ MaxFaults \in Nat /\ MaxSwitches \in Nat

VARIABLES
  running,      \* whether the app runs
  authUser,     \* FIRAuth._currentUser, kept in the keychain
  main,         \* blocks Auth has put on the main queue
  tokenCounter, \* FirebaseCredentialsProvider's token_counter
  tokens,       \* GetToken calls that Auth has not answered
  tasks,        \* the worker queue
  user,         \* SyncEngine's current_user_
  queue,        \* LevelDB: the rows of each account's mutation queue
  nextId,       \* LevelDbMutationQueue's next_batch_id_
  callbacks,    \* SyncEngine's mutation_callbacks_
  pipeline,     \* RemoteStore's write_pipeline_
  stream,       \* the write stream
  requests,     \* what the client has sent on the stream
  responses,    \* what the server has sent on the stream
  ended,        \* status with which the server has ended the stream, or "no"
  commits,      \* history: the writes the server applied, and for whom
  refused,      \* history: the writes the server refused
  ownerOf,      \* history: the account that made each write
  told,         \* history: what the handler of each write has been told
  switches,     \* number of changes of Auth's token so far
  faults        \* number of faults so far

auth == <<authUser, main, tokenCounter, switches>>
local == <<user, queue, nextId, callbacks>>
remote == <<pipeline, stream, requests>>
wire == <<responses, ended>>
server == <<commits, refused>>
vars == <<running, auth, tokens, tasks, local, remote, wire, server, ownerOf, told, faults>>

Accounts == Users \cup {None}
Writes == 1 .. MaxWrites

\* A row of the mutation queue: a MutationBatch of one write.
Batch == [id : Nat, write : Writes]

Fault(kind) == kind \in Faults /\ faults < MaxFaults /\ faults' = faults + 1

-----------------------------------------------------------------------------
(* The write stream.                                                       *)

States == {"initial", "starting", "open", "error", "backoff"}

Stream ==
  [state : States, handshake : BOOLEAN, user : Accounts, closeCount : Nat, idle : BOOLEAN]

NewStream ==
  [state |-> "initial", handshake |-> FALSE, user |-> None, closeCount |-> 0, idle |-> FALSE]

IsOpen(s) == s.state = "open"
IsStarted(s) == s.state \in {"starting", "backoff"} \/ IsOpen(s)

\* Close: every callback that waits for this stream is stale from now on.
Close(s, state) ==
  [s EXCEPT !.state = state, !.closeCount = @ + 1, !.handshake = FALSE, !.idle = FALSE]

Stop(s) == IF IsStarted(s) THEN Close(s, "initial") ELSE s

GetToken(s) ==
  tokens' = tokens \cup
    {[stage |-> "asked", user |-> None, counter |-> tokenCounter, closeCount |-> s.closeCount]}

\* Stream::Start: after an error, not at once.
Start(s) ==
  IF s.state = "error"
    THEN stream' = [s EXCEPT !.state = "backoff"] /\ UNCHANGED tokens
    ELSE stream' = [s EXCEPT !.state = "starting"] /\ GetToken(s)

\* Mutant: the stream is not started again after an error.
StartWriteStreamOnce(pipe, s) ==
  IF pipe = <<>> \/ s.state # "initial" THEN stream' = s /\ UNCHANGED tokens ELSE Start(s)

\* ShouldStartWriteStream, StartWriteStream.
StartWriteStream(pipe, s) ==
  IF pipe = <<>> \/ IsStarted(s) THEN stream' = s /\ UNCHANGED tokens ELSE Start(s)

\* An open stream with nothing to send gets its idle timer, which a write cancels.
MarkIdle(s) == IF IsOpen(s) THEN [s EXCEPT !.idle = TRUE] ELSE s

-----------------------------------------------------------------------------
(* The mutation queue and the pipeline.                                    *)

\* The next row's number, whoever's row the last one is.
LoadNextBatchId(rows) ==
  LET ids == {0} \cup UNION { { rows[u][i].id : i \in DOMAIN rows[u] } : u \in DOMAIN rows }
  IN 1 + CHOOSE n \in ids : \A m \in ids : m <= n

\* A row with a number that is in use is written over.
AddMutationBatch(rows, batch) ==
  IF \E i \in DOMAIN rows : rows[i].id = batch.id
    THEN [i \in DOMAIN rows |-> IF rows[i].id = batch.id THEN batch ELSE rows[i]]
    ELSE Append(rows, batch)

\* The row must be there, or a HARD_ASSERT ends the app.
RemoveMutationBatch(rows, batch) ==
  RemoveAt(rows, CHOOSE i \in DOMAIN rows : rows[i].id = batch.id)

\* The rows up to the last one in the pipeline.
Taken(pipe, rows) ==
  IF pipe = <<>> THEN 0
  ELSE Cardinality({ i \in DOMAIN rows : rows[i].id <= pipe[Len(pipe)].id })

\* Mutant: one batch too many.
FilledBeyond(pipe, rows) ==
  LET taken == Taken(pipe, rows)
      room == 1 + kMaxPendingWrites - Len(pipe)
      upTo == IF Len(rows) < taken + room THEN Len(rows) ELSE taken + room
  IN pipe \o SubSeq(rows, taken + 1, upTo)

\* FillWritePipeline's loop: the next rows, while there is room.
Filled(pipe, rows) ==
  LET taken == Taken(pipe, rows)
      room == kMaxPendingWrites - Len(pipe)
      upTo == IF Len(rows) < taken + room THEN Len(rows) ELSE taken + room
  IN pipe \o SubSeq(rows, taken + 1, upTo)

\* Mutant: the idle timer goes on when a batch is sent.
FillWritePipelineIdle(pipe, rows, s, sent) ==
  LET full == Filled(pipe, rows)
      new == SubSeq(full, Len(pipe) + 1, Len(full))
  IN /\ pipeline' = full
     /\ requests' = IF IsOpen(s) /\ s.handshake THEN sent \o new ELSE sent
     /\ StartWriteStream(full, IF full = <<>> THEN MarkIdle(s) ELSE s)

\* FillWritePipeline: new batches go out at once on a stream that is ready.
FillWritePipeline(pipe, rows, s, sent) ==
  LET full == Filled(pipe, rows)
      new == SubSeq(full, Len(pipe) + 1, Len(full))
      ready == IsOpen(s) /\ s.handshake
      marked == CASE full = <<>>           -> MarkIdle(s)
                  [] ready /\ new # <<>>   -> [s EXCEPT !.idle = FALSE]
                  [] OTHER                 -> s
  IN /\ pipeline' = full
     /\ requests' = IF ready THEN sent \o new ELSE sent
     /\ StartWriteStream(full, marked)

\* NotifyUser: writes from before the app's start have no callback.
NotifyUser(batch, answer) ==
  LET found == { c \in callbacks : c.user = user /\ c.id = batch.id }
  IN /\ callbacks' = callbacks \ found
     /\ told' = [w \in Writes |-> IF \E c \in found : c.write = w THEN answer ELSE told[w]]

\* HandleSuccessfulWrite, HandleRejectedWrite: the row goes, the user is told.
Settle(batch, answer) ==
  /\ NotifyUser(batch, answer)
  /\ queue' = [queue EXCEPT ![user] = RemoveMutationBatch(@, batch)]

-----------------------------------------------------------------------------
Init ==
  /\ running = FALSE /\ authUser = None /\ main = <<>> /\ tokenCounter = 0
  /\ tokens = {} /\ tasks = <<>>
  /\ user = None /\ queue = [u \in Accounts |-> <<>>] /\ nextId = 1 /\ callbacks = {}
  /\ pipeline = <<>> /\ stream = NewStream /\ requests = <<>>
  /\ responses = <<>> /\ ended = "no"
  /\ commits = {} /\ refused = {}
  /\ ownerOf = <<>> /\ told = [w \in Writes |-> "nothing"]
  /\ switches = 0 /\ faults = 0

Notify(u) == [kind |-> "notify", user |-> u]

\* The app starts. The provider reads Auth's user without waiting for Auth to
\* have loaded it; if Auth loads it later, or has just loaded it, it notifies.
Launch ==
  /\ ~running /\ running' = TRUE
  /\ \E late, notified \in BOOLEAN :
       LET u == IF late THEN None ELSE authUser
       IN /\ late => notified
          /\ main' = IF notified /\ authUser # None THEN <<Notify(authUser)>> ELSE <<>>
          /\ user' = u
          /\ nextId' = LoadNextBatchId(queue)
          /\ FillWritePipeline(<<>>, queue[u], NewStream, <<>>)
  /\ tokenCounter' = 0
  /\ UNCHANGED <<authUser, switches, tasks, queue, callbacks, wire, server, ownerOf, told, faults>>

\* The app ends; the keychain and LevelDB stay.
Kill ==
  /\ running /\ Fault("kill")
  /\ running' = FALSE
  /\ main' = <<>> /\ tokenCounter' = 0 /\ tokens' = {} /\ tasks' = <<>>
  /\ user' = None /\ nextId' = 1 /\ callbacks' = {}
  /\ pipeline' = <<>> /\ stream' = NewStream /\ requests' = <<>>
  /\ responses' = <<>> /\ ended' = "no"
  /\ UNCHANGED <<authUser, switches, queue, server, ownerOf, told>>

-----------------------------------------------------------------------------
(* Auth and the main queue.                                                *)

\* A sign-in, also over another account that a failed sign-out has left, a
\* sign-out, or a new token for the same account.
updateCurrentUser(u) ==
  /\ running /\ switches < MaxSwitches
  /\ u # None \/ authUser # None
  /\ authUser' = u
  /\ main' = Append(main, Notify(u))
  /\ switches' = switches + 1
  /\ UNCHANGED <<running, tokenCounter, tokens, tasks, local, remote, wire, server, ownerOf, told, faults>>

\* setData or updateData in a tap or in a callback, which come after Auth's
\* notification of the account that is signed in.
WriteData ==
  /\ running /\ Len(ownerOf) < MaxWrites
  /\ authUser # None /\ \A i \in DOMAIN main : main[i].kind # "notify"
  /\ ownerOf' = Append(ownerOf, authUser)
  /\ tasks' = Append(tasks, [kind |-> "write", write |-> Len(ownerOf) + 1])
  /\ UNCHANGED <<running, auth, tokens, local, remote, wire, server, told, faults>>

\* getTokenForcingRefresh on Auth's queue: from here on it is this user's token.
getToken(t) ==
  /\ t.stage = "asked"
  /\ tokens' = (tokens \ {t}) \cup {[t EXCEPT !.stage = "fetching", !.user = authUser]}
  /\ UNCHANGED <<running, auth, tasks, local, remote, wire, server, ownerOf, told, faults>>

\* Auth has, or cannot get, the token: its callback goes to the main queue.
TokenFetched(t) ==
  /\ t.stage = "fetching"
  /\ tokens' = tokens \ {t}
  /\ \E ok \in BOOLEAN :
       /\ IF ok THEN UNCHANGED faults ELSE t.user # None /\ Fault("tokenError")
       /\ main' = Append(main, [kind |-> "token", ok |-> ok, user |-> t.user,
                                counter |-> t.counter, closeCount |-> t.closeCount])
  /\ UNCHANGED <<running, authUser, tokenCounter, switches, tasks, local, remote, wire, server,
                 ownerOf, told>>

\* The next block of the main queue: the provider's observer, or its token
\* callback, which aborts if there was a notification since GetToken.
RunMain ==
  /\ main # <<>> /\ main' = Tail(main)
  /\ LET block == Head(main)
     IN IF block.kind = "notify"
          THEN /\ tokenCounter' = tokenCounter + 1
               /\ tasks' = Append(tasks, [kind |-> "credential", user |-> block.user])
          ELSE /\ tasks' = Append(tasks,
                    [kind |-> "token", ok |-> block.ok /\ block.counter = tokenCounter,
                     user |-> block.user, closeCount |-> block.closeCount])
               /\ UNCHANGED tokenCounter
  /\ UNCHANGED <<running, authUser, switches, tokens, local, remote, wire, server, ownerOf, told, faults>>

-----------------------------------------------------------------------------
(* The worker queue.                                                       *)

\* SyncEngine::WriteMutations.
WriteMutations(w) ==
  LET batch == [id |-> nextId, write |-> w]
      key == { c \in callbacks : c.user = user /\ c.id = nextId }
  IN /\ queue' = [queue EXCEPT ![user] = AddMutationBatch(@, batch)]
     /\ nextId' = nextId + 1
     /\ callbacks' = IF key # {} THEN callbacks
                     ELSE callbacks \cup {[user |-> user, id |-> nextId, write |-> w]}
     /\ FillWritePipeline(pipeline, queue'[user], stream, requests)
     /\ UNCHANGED <<user, wire, told>>

\* Mutant: the batches of the last user stay in the pipeline.
HandleCredentialChangeKeeping(u) ==
  /\ user' = u
  /\ nextId' = IF u # user THEN LoadNextBatchId(queue) ELSE nextId
  /\ FillWritePipeline(pipeline, queue[u], Stop(stream), <<>>)
  /\ responses' = <<>> /\ ended' = "no"
  /\ UNCHANGED <<queue, callbacks, told>>

\* SyncEngine::HandleCredentialChange: the other user's queue, and a new stream.
HandleCredentialChange(u) ==
  /\ user' = u
  /\ nextId' = IF u # user THEN LoadNextBatchId(queue) ELSE nextId
  /\ FillWritePipeline(<<>>, queue[u], Stop(stream), <<>>)
  /\ responses' = <<>> /\ ended' = "no"
  /\ UNCHANGED <<queue, callbacks, told>>

\* RequestCredentials' test of the close count.
Current(t) == t.closeCount = stream.closeCount

\* Stream::Close with an error that is not a write's own: the stream backs off.
CloseWithError ==
  /\ StartWriteStream(pipeline, Close(stream, "error"))
  /\ requests' = <<>> /\ responses' = <<>> /\ ended' = "no"
  /\ UNCHANGED <<pipeline, local, told>>

\* ResumeStartWithCredentials.
ResumeStart(t) ==
  CASE ~Current(t) ->
         UNCHANGED <<local, remote, tokens, wire, told>>
    [] Current(t) /\ ~t.ok -> CloseWithError
    [] OTHER ->
         /\ stream' = [stream EXCEPT !.state = "open", !.user = t.user]
         /\ requests' = <<[kind |-> "handshake"]>> /\ responses' = <<>> /\ ended' = "no"
         /\ UNCHANGED <<local, pipeline, tokens, told>>

RunTask ==
  /\ tasks # <<>> /\ tasks' = Tail(tasks)
  /\ LET task == Head(tasks)
     IN CASE task.kind = "write"      -> WriteMutations(task.write)
          [] task.kind = "credential" -> HandleCredentialChange(task.user)
          [] task.kind = "token"      -> ResumeStart(task)
  /\ UNCHANGED <<running, auth, server, ownerOf, faults>>

\* BackoffAndTryRestarting's timer.
BackoffElapsed ==
  /\ stream.state = "backoff"
  /\ StartWriteStream(pipeline, [stream EXCEPT !.state = "initial"])
  /\ UNCHANGED <<running, auth, tasks, local, pipeline, requests, wire, server, ownerOf, told, faults>>

\* MarkIdle's timer: the stream is stopped.
IdleTimeout ==
  /\ stream.idle
  /\ stream' = Stop(stream)
  /\ requests' = <<>> /\ responses' = <<>> /\ ended' = "no"
  /\ UNCHANGED <<running, auth, tokens, tasks, local, pipeline, server, ownerOf, told, faults>>

\* The pipeline is sent, again if it was on an earlier stream.
OnWriteStreamHandshakeComplete ==
  /\ stream' = [stream EXCEPT !.handshake = TRUE, !.idle = IF pipeline = <<>> THEN @ ELSE FALSE]
  /\ requests' = requests \o pipeline
  /\ UNCHANGED <<local, pipeline, tokens, told>>

\* A result carries no number: it is the pipeline's first batch's.
OnWriteStreamMutationResult ==
  /\ Settle(Head(pipeline), "ok")
  /\ FillWritePipeline(Tail(pipeline), queue'[user], stream, requests)
  /\ UNCHANGED <<user, nextId>>

\* OnStreamRead, NotifyStreamResponse: the first response answers the handshake.
OnStreamRead ==
  /\ responses # <<>> /\ responses' = Tail(responses)
  /\ IF stream.handshake THEN OnWriteStreamMutationResult ELSE OnWriteStreamHandshakeComplete
  /\ UNCHANGED <<running, auth, tasks, ended, server, ownerOf, faults>>

\* An error that is the first batch's own: it is given up, the next start is not delayed.
HandleWriteError ==
  /\ Settle(Head(pipeline), "error")
  /\ FillWritePipeline(Tail(pipeline), queue'[user], Close(stream, "initial"), <<>>)
  /\ responses' = <<>> /\ ended' = "no"
  /\ UNCHANGED <<user, nextId>>

\* Mutant: the error of a handshake is taken for the first batch's own.
OwnErrorEarly == ended = "permanent" /\ pipeline # <<>>

\* IsPermanentWriteError, after the handshake, with a batch to blame.
OwnError == ended = "permanent" /\ pipeline # <<>> /\ stream.handshake

\* OnStreamFinish, OnWriteStreamClose, once all responses have been read.
OnStreamFinish ==
  /\ ended # "no" /\ responses = <<>>
  /\ IF OwnError THEN HandleWriteError ELSE CloseWithError
  /\ UNCHANGED <<running, auth, tasks, server, ownerOf, faults>>

-----------------------------------------------------------------------------
(* The server, and the connection to it.                                   *)

ServerReads ==
  /\ requests # <<>> /\ ended = "no" /\ requests' = Tail(requests)

\* Security rules go by the token the stream was opened with.
ServerCommits ==
  /\ ServerReads
  /\ responses' = Append(responses, Head(requests))
  /\ commits' = IF "write" \in DOMAIN Head(requests)
                  THEN commits \cup {[write |-> Head(requests).write, user |-> stream.user]}
                  ELSE commits
  /\ UNCHANGED <<running, auth, tokens, tasks, local, pipeline, stream, ended, refused, ownerOf, told, faults>>

\* An error that is for good ends the stream, at the handshake or at a write.
ServerRefuses ==
  /\ ServerReads /\ Fault("refused")
  /\ refused' = IF "write" \in DOMAIN Head(requests)
                  THEN refused \cup {Head(requests).write}
                  ELSE refused
  /\ ended' = "permanent"
  /\ UNCHANGED <<running, auth, tokens, tasks, local, pipeline, stream, responses, commits, ownerOf, told>>

ConnectionLost ==
  /\ IsOpen(stream) /\ ended = "no" /\ Fault("connectionLost")
  /\ requests' = <<>> /\ responses' = <<>> /\ ended' = "transient"
  /\ UNCHANGED <<running, auth, tokens, tasks, local, pipeline, stream, server, ownerOf, told>>

Network == ServerCommits \/ ServerRefuses \/ ConnectionLost
Auth == \E t \in tokens : getToken(t) \/ TokenFetched(t)

Next ==
  \/ Launch \/ Kill \/ WriteData
  \/ \E u \in Accounts : updateCurrentUser(u)
  \/ Auth \/ RunMain \/ RunTask
  \/ BackoffElapsed \/ IdleTimeout \/ OnStreamRead \/ OnStreamFinish
  \/ Network

Spec == Init /\ [][Next]_vars

\* Every queue and timer runs, Auth answers, the server reads what it is sent.
Fairness ==
  /\ WF_vars(Auth) /\ WF_vars(RunMain) /\ WF_vars(RunTask)
  /\ WF_vars(BackoffElapsed) /\ WF_vars(OnStreamRead) /\ WF_vars(OnStreamFinish)
  /\ WF_vars(ServerCommits)

FairSpec == Spec /\ Fairness
-----------------------------------------------------------------------------
Request == Batch \cup [kind : {"handshake"}]

TypeOK ==
  /\ running \in BOOLEAN /\ authUser \in Accounts
  /\ main \in Seq([kind : {"notify"}, user : Accounts] \cup
                  [kind : {"token"}, ok : BOOLEAN, user : Accounts, counter : Nat, closeCount : Nat])
  /\ tokenCounter \in Nat
  /\ tokens \subseteq
       [stage : {"asked", "fetching"}, user : Accounts, counter : Nat, closeCount : Nat]
  /\ tasks \in Seq([kind : {"write"}, write : Writes] \cup [kind : {"credential"}, user : Accounts]
                   \cup [kind : {"token"}, ok : BOOLEAN, user : Accounts, closeCount : Nat])
  /\ user \in Accounts /\ queue \in [Accounts -> Seq(Batch)] /\ nextId \in Nat
  /\ callbacks \subseteq [user : Accounts, id : Nat, write : Writes]
  /\ pipeline \in Seq(Batch) /\ Len(pipeline) <= kMaxPendingWrites
  /\ stream \in Stream
  /\ requests \in Seq(Request) /\ responses \in Seq(Request)
  /\ ended \in {"no", "transient", "permanent"}
  /\ commits \subseteq [write : Writes, user : Accounts] /\ refused \subseteq Writes
  /\ ownerOf \in Seq(Users) /\ Len(ownerOf) <= MaxWrites
  /\ told \in [Writes -> {"nothing", "ok", "error"}]
  /\ switches \in 0 .. MaxSwitches /\ faults \in 0 .. MaxFaults

(***************************************************************************)
(* The server applies a write for the account that made it and for no      *)
(* other, however sign-ins, sign-outs, refreshed tokens, late answers of   *)
(* Auth and restarts of the stream interleave ("mutations are per-user").  *)
(***************************************************************************)
CommittedAsOwner == \A c \in commits : c.user = ownerOf[c.write]

(***************************************************************************)
(* No HARD_ASSERT on the write path can fail: a token that is taken finds  *)
(* its stream starting; a result belongs to the pipeline's first batch; a  *)
(* stream goes idle only with nothing to send; whatever is in the pipeline *)
(* has its row in the queue of the current user.                           *)
(***************************************************************************)
HardAssertsHold ==
  /\ \A i \in DOMAIN tasks :
       tasks[i].kind = "token" /\ Current(tasks[i]) => stream.state = "starting" \/ i > 1
  /\ responses # <<>> => IsStarted(stream)
  /\ responses # <<>> /\ stream.handshake => pipeline # <<>> /\ Head(responses) = Head(pipeline)
  /\ responses # <<>> /\ ~stream.handshake => Head(responses) = [kind |-> "handshake"]
  /\ stream.idle => IsOpen(stream) /\ pipeline = <<>>
  /\ \A i \in DOMAIN pipeline : \E j \in DOMAIN queue[user] : queue[user][j] = pipeline[i]

(***************************************************************************)
(* The client keeps what WriteQueue promises: nothing leaves an account's  *)
(* queue unanswered and in no other order, and no handler is told anything *)
(* but the server's answer to its own write.                               *)
(***************************************************************************)
Promise == INSTANCE WriteQueue WITH
  pending <- [u \in Users |-> [i \in DOMAIN queue[u] |-> queue[u][i].write]],
  committed <- { c.write : c \in commits }

WriteQueueSpec == Promise!Spec

(***************************************************************************)
(* A write whose account stays signed in is answered in the end, once the  *)
(* connection holds: no restart of the stream leaves it behind.            *)
(***************************************************************************)
Queued(w) == w \in DOMAIN ownerOf /\ \E i \in DOMAIN queue[ownerOf[w]] : queue[ownerOf[w]][i].write = w

Answers == \A w \in Writes :
  Queued(w) ~> ~Queued(w) \/ ~running \/ authUser # ownerOf[w]
=============================================================================

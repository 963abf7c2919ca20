----------------------- MODULE FirestoreClient_proofs -----------------------
(***************************************************************************)
(* On the write path of the Firestore client every write is applied for    *)
(* the account that made it, no HARD_ASSERT fails, and the client does     *)
(* what WriteQueue promises: for any number of accounts, writes, switches  *)
(* and faults, and any depth of the pipeline.                              *)
(***************************************************************************)
EXTENDS FirestoreClient, SequenceTheorems, FiniteSetTheorems, TLAPS

\* A bounded set of natural numbers has a greatest one.
LEMMA GreatestNatural ==
  ASSUME NEW S, S \subseteq Nat, S # {}, NEW bound \in Nat, \A m \in S : m <= bound
  PROVE  \E n \in S : \A m \in S : m <= n
<1> DEFINE More == { p \in Nat \X Nat : p[1] < p[2] }
           Rest == { bound - m : m \in S }
<1>1. IsWellFoundedOn(More, Nat)
  BY NatLessThanWellFounded DEF OpToRel
<1>2. \A m, n \in Nat : m < n => <<m, n>> \in More
  OBVIOUS
<1> HIDE DEF More
<1>3. Rest \subseteq Nat /\ Rest # {}
  <2>1. \A m \in S : bound - m \in Nat
    OBVIOUS
  <2>2. QED
    BY <2>1
<1>4. PICK r \in Rest : \A q \in Rest : ~ (<<q, r>> \in More)
  BY <1>1, <1>3, WFMin
<1>5. \A q \in Rest : ~ (q < r)
  BY <1>2, <1>3, <1>4
<1>6. PICK n \in S : r = bound - n
  OBVIOUS
<1>7. \A m \in S : ~ (bound - m < bound - n)
  BY <1>5, <1>6
<1>8. QED
  BY <1>7


-----------------------------------------------------------------------------
(* The inductive invariant.                                                *)

\* While the app does not run there is nothing but what is on disk.
Down == ~running =>
  /\ main = <<>> /\ tokens = {} /\ tasks = <<>> /\ tokenCounter = 0
  /\ nextId = 1 /\ user = None /\ callbacks = {}
  /\ pipeline = <<>> /\ stream = NewStream

\* Auth's user is what the worker queue's will be when all news has come.
NewsInMain(i) == i \in 1 .. Len(main) /\ main[i].kind = "notify"
NewsInTasks(i) == i \in 1 .. Len(tasks) /\ tasks[i].kind = "credential"

AuthNews == running =>
  /\ \A i : NewsInMain(i) /\ (\A j : NewsInMain(j) => j <= i) => main[i].user = authUser
  /\ (\A i : ~NewsInMain(i)) =>
       /\ \A i : NewsInTasks(i) /\ (\A j : NewsInTasks(j) => j <= i) => tasks[i].user = authUser
       /\ (\A i : ~NewsInTasks(i)) => user = authUser

\* Every token is of this or an earlier start of the stream.
TokenInMain(i) == i \in 1 .. Len(main) /\ main[i].kind = "token"
TokenInTasks(i) == i \in 1 .. Len(tasks) /\ tasks[i].kind = "token"

TokenAge ==
  /\ \A t \in tokens : t.closeCount <= stream.closeCount
  /\ \A i : TokenInMain(i) => main[i].closeCount <= stream.closeCount
  /\ \A i : TokenInTasks(i) => tasks[i].closeCount <= stream.closeCount

\* While a token the stream can take is under way it is the only one, and the
\* stream is starting.
OneToken ==
  /\ \A t \in tokens : Current(t) =>
       /\ stream.state = "starting"
       /\ \A s \in tokens : Current(s) => s = t
       /\ \A i : TokenInMain(i) => ~Current(main[i])
       /\ \A i : TokenInTasks(i) => ~Current(tasks[i])
  /\ \A i : TokenInMain(i) /\ Current(main[i]) =>
       /\ stream.state = "starting"
       /\ \A j : TokenInMain(j) /\ Current(main[j]) => j = i
       /\ \A j : TokenInTasks(j) => ~Current(tasks[j])
  /\ \A i : TokenInTasks(i) /\ Current(tasks[i]) =>
       /\ stream.state = "starting"
       /\ \A j : TokenInTasks(j) /\ Current(tasks[j]) => j = i

\* A token the stream can take, with no news before it, is for the worker
\* queue's user.
TokenUser ==
  /\ \A t \in tokens :
       /\ t.stage = "fetching" /\ Current(t)
       /\ \A j : ~NewsInMain(j)
       /\ \A j : ~NewsInTasks(j)
       => t.user = user
  /\ \A i :
       /\ TokenInMain(i) /\ Current(main[i])
       /\ \A j : NewsInMain(j) => j > i
       /\ \A j : ~NewsInTasks(j)
       => main[i].user = user
  /\ \A i :
       /\ TokenInTasks(i) /\ Current(tasks[i])
       /\ \A j : NewsInTasks(j) => j > i
       => tasks[i].user = user

\* A write runs for the account that made it: the news that comes last before
\* it is of that account.
WriteInTasks(i) == i \in 1 .. Len(tasks) /\ tasks[i].kind = "write"

WriteUser ==
  \A i : WriteInTasks(i) =>
    /\ tasks[i].write \in 1 .. Len(ownerOf)
    /\ (\A j : NewsInTasks(j) => j > i) => user = ownerOf[tasks[i].write]
    /\ \A j : NewsInTasks(j) /\ j < i /\ (\A k : NewsInTasks(k) => k <= j \/ k > i) =>
         tasks[j].user = ownerOf[tasks[i].write]

WritesAscend ==
  /\ nextId <= Len(ownerOf) + 1
  /\ \A i : WriteInTasks(i) => nextId <= tasks[i].write
  /\ \A i, j : WriteInTasks(i) /\ WriteInTasks(j) /\ i < j => tasks[i].write < tasks[j].write

\* A write that has been run.
Run(w) == w \in 1 .. Len(ownerOf) /\ \A i : WriteInTasks(i) => w < tasks[i].write

\* Rows are their account's own, in ascending order, below the next number.
Ascending(rows) == \A i, j \in 1 .. Len(rows) : i < j => rows[i].id < rows[j].id

RowsAreOwn ==
  \A u \in Accounts : \A i \in 1 .. Len(queue[u]) :
    LET row == queue[u][i]
    IN Run(row.write) /\ ownerOf[row.write] = u /\ row.id <= row.write

RowsAscend ==
  \A u \in Accounts :
    /\ Ascending(queue[u])
    /\ running => \A i \in 1 .. Len(queue[u]) : queue[u][i].id < nextId

\* What the server has seen has been run.
ServerRun ==
  /\ \A c \in commits : Run(c.write) /\ c.user = ownerOf[c.write]
  /\ \A w \in refused : Run(w)

\* A handler waits for a row.
CallbackRows ==
  \A c \in callbacks : \E i \in 1 .. Len(queue[c.user]) :
    queue[c.user][i].id = c.id /\ queue[c.user][i].write = c.write

\* The pipeline holds the first rows of the current user.
Prefix(pipe, rows) ==
  Len(pipe) <= Len(rows) /\ \A i \in 1 .. Len(pipe) : pipe[i] = rows[i]

PipelineRows == Prefix(pipeline, queue[user])

Handshake == [kind |-> "handshake"]

\* What a stream that is not, or not yet, ready has carried.
NotReady(sent, answers) ==
  /\ ~IsOpen(stream) =>
       sent = <<>> /\ answers = <<>> /\ ended = "no" /\ ~stream.handshake /\ ~stream.idle
  /\ IsOpen(stream) => stream.user = user
  /\ IsOpen(stream) /\ ~stream.handshake =>
       /\ ~stream.idle
       /\ \/ ended = "no" /\ answers = <<>> /\ sent = <<Handshake>>
          \/ ended = "no" /\ answers = <<Handshake>> /\ sent = <<>>
          \/ ended # "no" /\ answers = <<>>

\* On a ready one the responses, then the requests, are those of the pipeline.
Ready(pipe, sent, answers) == stream.handshake =>
  /\ stream.idle => pipe = <<>>
  /\ Prefix(answers, pipe)
  /\ \A i \in 1 .. Len(answers) : \E c \in commits : c.write = answers[i].write
  /\ ended = "no" =>
       /\ Len(pipe) = Len(answers) + Len(sent)
       /\ \A i \in 1 .. Len(sent) : sent[i] = pipe[Len(answers) + i]
  /\ ended = "transient" => answers = <<>>
  /\ ended = "permanent" =>
       Len(answers) < Len(pipe) /\ pipe[Len(answers) + 1].write \in refused

StreamNotReady == NotReady(requests, responses)
StreamReady == Ready(pipeline, requests, responses)

Tokens == TokenAge /\ OneToken /\ TokenUser
RightUser == AuthNews /\ Tokens /\ WriteUser /\ WritesAscend
Rows == RowsAreOwn /\ RowsAscend /\ ServerRun /\ CallbackRows
StreamInv == PipelineRows /\ StreamNotReady /\ StreamReady

IInv == TypeOK /\ Down /\ RightUser /\ Rows /\ StreamInv

-----------------------------------------------------------------------------
(* The stream.                                                             *)

Asked(count) ==
  [stage |-> "asked", user |-> None, counter |-> tokenCounter, closeCount |-> count]

\* What starting stream s, if it is not started, makes of it and of the tokens.
StartStep(s) ==
  /\ stream' \in Stream
  /\ stream'.closeCount = s.closeCount /\ stream'.handshake = s.handshake
  /\ stream'.user = s.user
  /\ \/ stream'.state = s.state /\ tokens' = tokens
     \/ ~IsStarted(s) /\ stream'.state = "backoff" /\ tokens' = tokens
     \/ ~IsStarted(s) /\ stream'.state = "starting" /\ tokens' = tokens \cup {Asked(s.closeCount)}

LEMMA StartWriteStreamSteps ==
  ASSUME NEW pipe, NEW s \in Stream, StartWriteStream(pipe, s)
  PROVE  StartStep(s) /\ stream'.idle = s.idle
<1>1. CASE pipe = <<>> \/ IsStarted(s)
  BY <1>1 DEF StartWriteStream, StartStep
<1>2. CASE ~(pipe = <<>> \/ IsStarted(s)) /\ s.state = "error"
  BY <1>2 DEF StartWriteStream, Start, StartStep, Stream, States
<1>3. CASE ~(pipe = <<>> \/ IsStarted(s)) /\ s.state # "error"
  BY <1>3 DEF StartWriteStream, Start, StartStep, Stream, States, GetToken, Asked
<1>4. QED
  BY <1>1, <1>2, <1>3

LEMMA CloseProperties ==
  ASSUME NEW s \in Stream, NEW state \in States
  PROVE  LET closed == Close(s, state)
         IN /\ closed \in Stream
            /\ closed.state = state /\ closed.closeCount = s.closeCount + 1
            /\ ~closed.handshake /\ ~closed.idle
<1> DEFINE a == [s EXCEPT !.state = state]
           b == [a EXCEPT !.closeCount = @ + 1]
           c == [b EXCEPT !.handshake = FALSE]
           closed == Close(s, state)
<1>1. closed = [c EXCEPT !.idle = FALSE]
  BY Zenon DEF Close
<1>2. a \in Stream /\ a.state = state /\ a.closeCount = s.closeCount
  BY DEF Stream
<1> HIDE DEF a
<1>3. b \in Stream /\ b.state = state /\ b.closeCount = s.closeCount + 1
  BY <1>2 DEF Stream
<1> HIDE DEF b
<1>4. c \in Stream /\ c.state = state /\ c.closeCount = s.closeCount + 1 /\ ~c.handshake
  BY <1>3 DEF Stream
<1> HIDE DEF c, closed
<1>5. /\ closed \in Stream /\ closed.state = state /\ closed.closeCount = s.closeCount + 1
      /\ ~closed.handshake /\ ~closed.idle
  BY <1>1, <1>4 DEF Stream
<1>6. QED
  BY <1>5 DEF closed

LEMMA StopProperties ==
  ASSUME NEW s \in Stream, s.handshake => IsOpen(s), s.idle => IsOpen(s)
  PROVE  LET stopped == Stop(s)
         IN /\ stopped \in Stream
            /\ ~IsStarted(stopped) /\ ~stopped.handshake /\ ~stopped.idle
            /\ \/ stopped.closeCount = s.closeCount + 1
               \/ stopped.closeCount = s.closeCount /\ ~IsStarted(s)
<1>1. CASE IsStarted(s)
  BY <1>1, CloseProperties DEF Stop, IsStarted, IsOpen, States
<1>2. CASE ~IsStarted(s)
  BY <1>2 DEF Stop, IsStarted, IsOpen
<1>3. QED
  BY <1>1, <1>2

-----------------------------------------------------------------------------
(* The pipeline.                                                           *)

LEMMA TakenPrefix ==
  ASSUME NEW rows \in Seq(Batch), Ascending(rows),
         NEW pipe \in Seq(Batch), Prefix(pipe, rows)
  PROVE  Taken(pipe, rows) = Len(pipe)
<1>1. CASE pipe = <<>>
  BY <1>1 DEF Taken
<1>2. CASE pipe # <<>>
  <2> DEFINE n == Len(pipe)
             S == { i \in DOMAIN rows : rows[i].id <= pipe[Len(pipe)].id }
  <2>1. n \in Nat \ {0} /\ n <= Len(rows) /\ pipe[n] = rows[n] /\ DOMAIN rows = 1 .. Len(rows)
    BY <1>2 DEF Prefix
  <2>2. \A i \in 1 .. Len(rows) : rows[i].id \in Nat
    <3>1. \A i \in 1 .. Len(rows) : rows[i] \in Batch
      BY ElementOfSeq
    <3>2. QED
      BY <3>1 DEF Batch
  <2>3. \A i \in 1 .. Len(rows) : rows[i].id <= rows[n].id <=> i <= n
    <3> SUFFICES ASSUME NEW i \in 1 .. Len(rows) PROVE rows[i].id <= rows[n].id <=> i <= n
      OBVIOUS
    <3>1. n \in 1 .. Len(rows)
      BY <2>1
    <3>2. i < n => rows[i].id < rows[n].id
      BY <3>1 DEF Ascending
    <3>3. n < i => rows[n].id < rows[i].id
      BY <3>1 DEF Ascending
    <3> HIDE DEF n
    <3>4. QED
      BY <2>1, <2>2, <3>1, <3>2, <3>3
  <2>4. S = 1 .. n
    BY <2>1, <2>3
  <2>5. Cardinality(1 .. n) = n
    <3> HIDE DEF n
    <3>1. QED
      BY <2>1, FS_Interval
  <2>6. QED
    BY <1>2, <2>4, <2>5 DEF Taken
<1>3. QED
  BY <1>1, <1>2

LEMMA FilledPrefix ==
  ASSUME NEW rows \in Seq(Batch), Ascending(rows),
         NEW pipe \in Seq(Batch), Prefix(pipe, rows), Len(pipe) <= kMaxPendingWrites
  PROVE  LET full == Filled(pipe, rows)
         IN /\ full \in Seq(Batch)
            /\ Prefix(full, rows) /\ Prefix(pipe, full)
            /\ Len(full) <= kMaxPendingWrites
            /\ rows # <<>> => full # <<>>
<1> DEFINE n == Len(pipe)
           upTo == IF Len(rows) < n + (kMaxPendingWrites - n)
                     THEN Len(rows) ELSE n + (kMaxPendingWrites - n)
           rest == SubSeq(rows, n + 1, upTo)
           full == pipe \o rest
<1>1. Filled(pipe, rows) = full
  BY TakenPrefix DEF Filled
<1>2. /\ n \in Nat /\ kMaxPendingWrites \in Nat \ {0} /\ Len(rows) \in Nat
      /\ n <= Len(rows) /\ n <= kMaxPendingWrites
  BY ClientAssumption DEF Prefix
<1>3. upTo \in Nat /\ n <= upTo /\ upTo <= Len(rows) /\ upTo <= kMaxPendingWrites
      /\ (Len(rows) # 0 => upTo # 0)
  BY <1>2
<1> HIDE DEF upTo
<1>4. /\ rest \in Seq(Batch) /\ Len(rest) = upTo - n
      /\ \A i \in 1 .. upTo - n : rest[i] = rows[n + i]
  BY <1>2, <1>3
<1> HIDE DEF rest
<1>5. /\ full \in Seq(Batch) /\ Len(full) = upTo
      /\ \A i \in 1 .. upTo : full[i] = IF i <= n THEN pipe[i] ELSE rest[i - n]
  BY <1>2, <1>3, <1>4
<1> HIDE DEF full
<1>6. \A i \in 1 .. upTo : full[i] = rows[i]
  <2> SUFFICES ASSUME NEW i \in 1 .. upTo PROVE full[i] = rows[i]
    OBVIOUS
  <2>1. CASE i <= n
    BY <1>2, <1>3, <1>5, <2>1 DEF Prefix
  <2>2. CASE i > n
    <3>1. i - n \in 1 .. upTo - n /\ n + (i - n) = i
      BY <1>2, <1>3, <2>2
    <3>2. full[i] = rest[i - n]
      BY <1>2, <1>5, <2>2
    <3>3. rest[i - n] = rows[i]
      BY <1>4, <3>1
    <3>4. QED
      BY <3>2, <3>3
  <2>3. QED
    BY <1>2, <1>3, <2>1, <2>2
<1>7. Prefix(full, rows) /\ Prefix(pipe, full)
  BY <1>2, <1>3, <1>5, <1>6 DEF Prefix
<1>8. rows # <<>> => full # <<>>
  BY <1>3, <1>5
<1>9. QED
  BY <1>1, <1>3, <1>5, <1>7, <1>8

\* What the stream has been sent: the batches that are new in the pipeline.
Sent(pipe, s, sent) ==
  IF s.handshake
    THEN /\ requests' \in Seq(Request)
         /\ Len(requests') = Len(sent) + (Len(pipeline') - Len(pipe))
         /\ \A i \in 1 .. Len(sent) : requests'[i] = sent[i]
         /\ \A i \in 1 .. Len(pipeline') - Len(pipe) :
              requests'[Len(sent) + i] = pipeline'[Len(pipe) + i]
    ELSE requests' = sent

LEMMA FillWritePipelineSteps ==
  ASSUME NEW rows \in Seq(Batch), Ascending(rows),
         NEW pipe \in Seq(Batch), Prefix(pipe, rows), Len(pipe) <= kMaxPendingWrites,
         NEW s \in Stream, s.handshake => IsOpen(s), NEW sent \in Seq(Request),
         FillWritePipeline(pipe, rows, s, sent)
  PROVE  /\ pipeline' \in Seq(Batch) /\ Len(pipeline') <= kMaxPendingWrites
         /\ Prefix(pipeline', rows) /\ Prefix(pipe, pipeline')
         /\ rows # <<>> => pipeline' # <<>>
         /\ StartStep(s)
         /\ stream'.idle => \/ IsOpen(s) /\ pipeline' = <<>>
                            \/ s.idle /\ (s.handshake => Len(pipeline') = Len(pipe))
         /\ Sent(pipe, s, sent)
<1> DEFINE full == Filled(pipe, rows)
           new == SubSeq(full, Len(pipe) + 1, Len(full))
           ready == IsOpen(s) /\ s.handshake
           marked == CASE full = <<>>           -> MarkIdle(s)
                       [] ready /\ new # <<>>   -> [s EXCEPT !.idle = FALSE]
                       [] OTHER                 -> s
<1>1. /\ pipeline' = full
      /\ requests' = IF ready THEN sent \o new ELSE sent
      /\ StartWriteStream(full, marked)
  BY DEF FillWritePipeline
<1>2. /\ full \in Seq(Batch)
      /\ Prefix(full, rows) /\ Prefix(pipe, full)
      /\ Len(full) <= kMaxPendingWrites
      /\ rows # <<>> => full # <<>>
  BY FilledPrefix
<1> HIDE DEF full
<1>3. /\ new \in Seq(Batch) /\ Len(new) = Len(full) - Len(pipe)
      /\ \A i \in 1 .. Len(full) - Len(pipe) : new[i] = full[Len(pipe) + i]
  BY <1>2 DEF Prefix
<1> HIDE DEF new
<1>4. /\ marked \in Stream
      /\ marked.state = s.state /\ marked.closeCount = s.closeCount
      /\ marked.handshake = s.handshake /\ marked.user = s.user
      /\ marked.idle => \/ IsOpen(s) /\ full = <<>>
                        \/ s.idle /\ (s.handshake => new = <<>>)
  <2>1. CASE full = <<>>
    BY <2>1 DEF MarkIdle, Stream
  <2>2. CASE full # <<>> /\ ready /\ new # <<>>
    BY <2>2 DEF Stream
  <2>3. CASE full # <<>> /\ ~(ready /\ new # <<>>)
    BY <2>3
  <2>4. QED
    BY <2>1, <2>2, <2>3
<1> HIDE DEF marked
<1>5. StartStep(marked) /\ stream'.idle = marked.idle
  BY <1>1, <1>4, StartWriteStreamSteps
<1>6. StartStep(s)
  BY <1>4, <1>5 DEF StartStep, IsStarted, IsOpen
<1>7. Len(new) = 0 <=> Len(full) = Len(pipe)
  BY <1>2, <1>3 DEF Prefix
<1>8. stream'.idle => \/ IsOpen(s) /\ pipeline' = <<>>
                      \/ s.idle /\ (s.handshake => Len(pipeline') = Len(pipe))
  BY <1>1, <1>3, <1>4, <1>5, <1>7
<1>9. Sent(pipe, s, sent)
  <2>1. CASE s.handshake
    <3>1. requests' = sent \o new
      BY <1>1, <2>1
    <3>2. new \in Seq(Request)
      BY <1>3 DEF Request
    <3>3. /\ requests' \in Seq(Request) /\ Len(requests') = Len(sent) + Len(new)
          /\ \A i \in 1 .. Len(sent) : requests'[i] = sent[i]
          /\ \A i \in 1 .. Len(new) : requests'[Len(sent) + i] = new[i]
      BY <3>1, <3>2
    <3>4. \A i \in 1 .. Len(new) : requests'[Len(sent) + i] = full[Len(pipe) + i]
      BY <1>3, <3>3
    <3>5. QED
      BY <1>1, <1>3, <2>1, <3>3, <3>4 DEF Sent
  <2>2. CASE ~s.handshake
    BY <1>1, <2>2 DEF Sent
  <2>3. QED
    BY <2>1, <2>2
<1>10. QED
  BY <1>1, <1>2, <1>6, <1>8, <1>9

-----------------------------------------------------------------------------
(* The rows.                                                               *)

\* The numbers of the rows are bounded by the number of writes made.
LEMMA LoadNextBatchIdProperties ==
  ASSUME TypeOK, RowsAreOwn
  PROVE  /\ LoadNextBatchId(queue) \in Nat
         /\ \A u \in Accounts : \A i \in 1 .. Len(queue[u]) :
              queue[u][i].id < LoadNextBatchId(queue)
         /\ \A i : WriteInTasks(i) => LoadNextBatchId(queue) <= tasks[i].write
         /\ LoadNextBatchId(queue) <= Len(ownerOf) + 1
<1> DEFINE ids == {0} \cup
             UNION { { queue[u][i].id : i \in DOMAIN queue[u] } : u \in DOMAIN queue }
           max == CHOOSE n \in ids : \A m \in ids : m <= n
           bound == Len(ownerOf)
<1>1. /\ bound \in Nat /\ queue \in [Accounts -> Seq(Batch)]
      /\ \A u \in Accounts : DOMAIN queue[u] = 1 .. Len(queue[u])
  BY DEF TypeOK
<1>2. \A u \in Accounts : \A i \in 1 .. Len(queue[u]) :
        /\ queue[u][i] \in Batch
        /\ queue[u][i].id <= queue[u][i].write
        /\ queue[u][i].write <= bound
        /\ \A j : WriteInTasks(j) => queue[u][i].write < tasks[j].write
  <2>1. \A u \in Accounts : \A i \in 1 .. Len(queue[u]) : queue[u][i] \in Batch
    BY <1>1, ElementOfSeq
  <2>2. QED
    BY <1>1, <2>1 DEF RowsAreOwn, Run
<1>3. /\ ids \subseteq Nat /\ 0 \in ids
      /\ \A m \in ids : m <= bound
      /\ \A m \in ids : m = 0 \/ \E u \in Accounts : \E i \in 1 .. Len(queue[u]) : m = queue[u][i].id
  <2>1. ASSUME NEW m \in ids
        PROVE  m = 0 \/ \E u \in Accounts : \E i \in 1 .. Len(queue[u]) : m = queue[u][i].id
    BY <1>1
  <2> HIDE DEF ids
  <2>2. ASSUME NEW m \in ids PROVE m \in Nat /\ m <= bound
    <3>1. CASE m = 0
      BY <1>1, <3>1
    <3>2. ASSUME NEW u \in Accounts, NEW i \in 1 .. Len(queue[u]), m = queue[u][i].id
          PROVE  m \in Nat /\ m <= bound
      <4>1. queue[u][i].id \in Nat /\ queue[u][i].write \in Nat
        BY <1>2 DEF Batch, Writes
      <4>2. QED
        BY <1>1, <1>2, <3>2, <4>1
    <3>3. QED
      BY <2>1, <3>1, <3>2
  <2>3. 0 \in ids
    BY DEF ids
  <2>4. QED
    BY <2>1, <2>2, <2>3
<1>4. \A u \in Accounts : \A i \in 1 .. Len(queue[u]) : queue[u][i].id \in ids
  BY <1>1
<1> HIDE DEF ids
<1>5. \E n \in ids : \A m \in ids : m <= n
  BY <1>1, <1>3, GreatestNatural
<1>6. max \in ids /\ \A m \in ids : m <= max
  BY <1>5
<1> HIDE DEF max
<1>7. LoadNextBatchId(queue) = 1 + max
  BY DEF LoadNextBatchId, max, ids
<1>8. LoadNextBatchId(queue) \in Nat
  BY <1>3, <1>6, <1>7
<1>9. \A u \in Accounts : \A i \in 1 .. Len(queue[u]) : queue[u][i].id < LoadNextBatchId(queue)
  <2>1. max \in Nat /\ \A m \in ids : m \in Nat /\ m < 1 + max
    BY <1>3, <1>6
  <2>2. QED
    BY <1>4, <1>7, <2>1
<1>10. ASSUME NEW j, WriteInTasks(j) PROVE LoadNextBatchId(queue) <= tasks[j].write
  <2>1. tasks[j].write \in Writes
    BY <1>10 DEF TypeOK, WriteInTasks
  <2>2. CASE max = 0
    BY <1>7, <2>1, <2>2 DEF Writes
  <2>3. CASE max # 0
    <3>1. PICK u \in Accounts : \E i \in 1 .. Len(queue[u]) : max = queue[u][i].id
      BY <1>3, <1>6, <2>3
    <3>2. PICK i \in 1 .. Len(queue[u]) : max = queue[u][i].id
      BY <3>1
    <3>3. max <= queue[u][i].write /\ queue[u][i].write < tasks[j].write
      BY <1>2, <1>10, <3>2
    <3>4. queue[u][i].write \in Nat /\ max \in Nat /\ tasks[j].write \in Nat
      BY <1>2, <1>3, <1>6, <2>1, <3>2 DEF Batch, Writes
    <3>5. QED
      BY <1>7, <3>3, <3>4
  <2>4. QED
    BY <2>2, <2>3
<1>11. LoadNextBatchId(queue) <= Len(ownerOf) + 1
  <2>1. max <= bound /\ max \in Nat
    BY <1>3, <1>6
  <2>2. QED
    BY <1>1, <1>7, <2>1
<1>12. QED
  BY <1>8, <1>9, <1>10, <1>11

-----------------------------------------------------------------------------
(* Steps of the worker queue, which take at most the first task.           *)

Shifted(k) ==
  /\ k \in 0 .. 1
  /\ Len(tasks') = Len(tasks) - k
  /\ \A i \in 1 .. Len(tasks') : tasks'[i] = tasks[i + k]

LEMMA TaskTypes ==
  ASSUME TypeOK
  PROVE  \A i \in 1 .. Len(tasks) :
           /\ tasks[i].kind \in {"write", "credential", "token"}
           /\ tasks[i].kind = "write" => tasks[i].write \in Writes
           /\ tasks[i].kind = "credential" => tasks[i].user \in Accounts
           /\ tasks[i].kind = "token" =>
                tasks[i].ok \in BOOLEAN /\ tasks[i].user \in Accounts /\ tasks[i].closeCount \in Nat
<1> DEFINE W == [kind : {"write"}, write : Writes]
           C == [kind : {"credential"}, user : Accounts]
           T == [kind : {"token"}, ok : BOOLEAN, user : Accounts, closeCount : Nat]
<1> SUFFICES ASSUME NEW i \in 1 .. Len(tasks), NEW x, x = tasks[i]
             PROVE  /\ x.kind \in {"write", "credential", "token"}
                    /\ x.kind = "write" => x.write \in Writes
                    /\ x.kind = "credential" => x.user \in Accounts
                    /\ x.kind = "token" =>
                         x.ok \in BOOLEAN /\ x.user \in Accounts /\ x.closeCount \in Nat
  OBVIOUS
<1>1. tasks \in Seq(W \cup C \cup T)
  BY DEF TypeOK
<1>2. x \in W \cup C \cup T
  <2> HIDE DEF W, C, T
  <2>1. QED
    BY <1>1, ElementOfSeq
<1>3. CASE x \in W
  BY <1>3
<1>4. CASE x \in C
  BY <1>4
<1>5. CASE x \in T
  BY <1>5
<1>6. QED
  BY <1>2, <1>3, <1>4, <1>5

LEMMA MainTypes ==
  ASSUME TypeOK
  PROVE  \A i \in 1 .. Len(main) :
           /\ main[i].kind \in {"notify", "token"}
           /\ main[i].kind = "notify" => main[i].user \in Accounts
           /\ main[i].kind = "token" =>
                /\ main[i].ok \in BOOLEAN /\ main[i].user \in Accounts
                /\ main[i].counter \in Nat /\ main[i].closeCount \in Nat
<1> DEFINE N == [kind : {"notify"}, user : Accounts]
           T == [kind : {"token"}, ok : BOOLEAN, user : Accounts, counter : Nat, closeCount : Nat]
<1> SUFFICES ASSUME NEW i \in 1 .. Len(main), NEW x, x = main[i]
             PROVE  /\ x.kind \in {"notify", "token"}
                    /\ x.kind = "notify" => x.user \in Accounts
                    /\ x.kind = "token" =>
                         /\ x.ok \in BOOLEAN /\ x.user \in Accounts
                         /\ x.counter \in Nat /\ x.closeCount \in Nat
  OBVIOUS
<1>1. main \in Seq(N \cup T)
  BY DEF TypeOK
<1>2. x \in N \cup T
  <2> HIDE DEF N, T
  <2>1. QED
    BY <1>1, ElementOfSeq
<1>3. CASE x \in N
  BY <1>3
<1>4. CASE x \in T
  BY <1>4
<1>5. QED
  BY <1>2, <1>3, <1>4

LEMMA ShiftedTail ==
  ASSUME TypeOK, tasks # <<>>, tasks' = Tail(tasks)
  PROVE  Shifted(1) /\ 1 \in 1 .. Len(tasks) /\ Head(tasks) = tasks[1]
  BY HeadTailProperties DEF TypeOK, Shifted

LEMMA ShiftedSame ==
  ASSUME TypeOK, tasks' = tasks
  PROVE  Shifted(0)
  BY DEF TypeOK, Shifted

LEMMA ShiftIndices ==
  ASSUME TypeOK, NEW k, Shifted(k)
  PROVE  /\ k \in {0, 1}
         /\ \A i : NewsInTasks(i)' =>
              i \in Nat \ {0} /\ NewsInTasks(i + k) /\ tasks'[i] = tasks[i + k]
         /\ \A i : TokenInTasks(i)' =>
              i \in Nat \ {0} /\ TokenInTasks(i + k) /\ tasks'[i] = tasks[i + k]
         /\ \A i : WriteInTasks(i)' =>
              i \in Nat \ {0} /\ WriteInTasks(i + k) /\ tasks'[i] = tasks[i + k]
         /\ \A j : NewsInTasks(j) =>
              j \in Nat \ {0} /\ (j > k => NewsInTasks(j - k)' /\ tasks'[j - k] = tasks[j])
<1> DEFINE n == Len(tasks)
<1>1. n \in Nat /\ k \in {0, 1} /\ Len(tasks') = n - k
      /\ \A i \in 1 .. n - k : tasks'[i] = tasks[i + k]
  BY DEF TypeOK, Shifted
<1> HIDE DEF n
<1>2. \A i \in 1 .. n - k : i \in Nat \ {0} /\ i + k \in 1 .. n
  BY <1>1
<1>3. ASSUME NEW j \in 1 .. n, j > k
      PROVE  j \in Nat \ {0} /\ j - k \in 1 .. n - k /\ tasks'[j - k] = tasks[j]
  <2>1. j - k \in 1 .. n - k /\ (j - k) + k = j
    BY <1>1, <1>3
  <2>2. QED
    BY <1>1, <2>1
<1>4. \A i : NewsInTasks(i)' =>
        i \in Nat \ {0} /\ NewsInTasks(i + k) /\ tasks'[i] = tasks[i + k]
  BY <1>1, <1>2 DEF NewsInTasks, n
<1>5. \A i : TokenInTasks(i)' =>
        i \in Nat \ {0} /\ TokenInTasks(i + k) /\ tasks'[i] = tasks[i + k]
  BY <1>1, <1>2 DEF TokenInTasks, n
<1>6. \A i : WriteInTasks(i)' =>
        i \in Nat \ {0} /\ WriteInTasks(i + k) /\ tasks'[i] = tasks[i + k]
  BY <1>1, <1>2 DEF WriteInTasks, n
<1>7. ASSUME NEW j, NewsInTasks(j)
      PROVE  j \in Nat \ {0} /\ (j > k => NewsInTasks(j - k)' /\ tasks'[j - k] = tasks[j])
  <2>1. j \in 1 .. n /\ tasks[j].kind = "credential"
    BY <1>7 DEF NewsInTasks, n
  <2>2. j \in Nat \ {0}
    BY <1>1, <2>1
  <2>3. ASSUME j > k PROVE NewsInTasks(j - k)' /\ tasks'[j - k] = tasks[j]
    <3>1. j - k \in 1 .. n - k /\ tasks'[j - k] = tasks[j]
      BY <1>3, <2>1, <2>3
    <3>2. QED
      BY <1>1, <2>1, <3>1 DEF NewsInTasks, n
  <2>4. QED
    BY <2>2, <2>3
<1>8. QED
  BY <1>1, <1>4, <1>5, <1>6, <1>7

\* What the worker queue's user becomes.
UserStep(k) ==
  IF k = 1 /\ tasks[1].kind = "credential" THEN user' = tasks[1].user ELSE user' = user

LEMMA WorkerAuthNews ==
  ASSUME TypeOK, AuthNews, running' = running, authUser' = authUser, main' = main,
         NEW k, Shifted(k), UserStep(k)
  PROVE  AuthNews'
<1> SUFFICES ASSUME running PROVE AuthNews'
  BY DEF AuthNews
<1>1. \A i : NewsInMain(i)' <=> NewsInMain(i)
  BY DEF NewsInMain
<1>2. \A i : NewsInMain(i)' /\ (\A j : NewsInMain(j)' => j <= i) => main'[i].user = authUser'
  BY <1>1 DEF AuthNews
<1>3. ASSUME \A i : ~NewsInMain(i)',
             NEW i, NewsInTasks(i)', \A j : NewsInTasks(j)' => j <= i
      PROVE  tasks'[i].user = authUser'
  <2>1. /\ i \in Nat \ {0} /\ k \in {0, 1}
        /\ NewsInTasks(i + k) /\ tasks'[i] = tasks[i + k]
    BY <1>3, ShiftIndices
  <2>2. ASSUME NEW j, NewsInTasks(j) PROVE j <= i + k
    <3>1. CASE j > k
      <4>1. j \in Nat /\ NewsInTasks(j - k)'
        BY <2>2, <3>1, ShiftIndices
      <4>2. j - k <= i
        BY <1>3, <4>1
      <4>3. QED
        BY <2>1, <4>1, <4>2
    <3>2. CASE ~(j > k)
      <4>1. j \in Nat
        BY <2>2, ShiftIndices
      <4>2. QED
        BY <2>1, <3>2, <4>1
    <3>3. QED
      BY <3>1, <3>2
  <2>3. tasks[i + k].user = authUser
    BY <1>1, <1>3, <2>1, <2>2 DEF AuthNews
  <2>4. QED
    BY <2>1, <2>3
<1>4. ASSUME \A i : ~NewsInMain(i)', \A i : ~NewsInTasks(i)'
      PROVE  user' = authUser'
  <2>1. k \in {0, 1} /\ \A j : NewsInTasks(j) => j = 1 /\ k = 1
    BY <1>4, ShiftIndices
  <2>2. CASE NewsInTasks(1)
    <3>1. k = 1 /\ tasks[1].user = authUser
      BY <1>1, <1>4, <2>1, <2>2 DEF AuthNews
    <3>2. QED
      BY <2>2, <3>1 DEF UserStep, NewsInTasks
  <2>3. CASE ~NewsInTasks(1)
    <3>1. user = authUser
      BY <1>1, <1>4, <2>1, <2>3 DEF AuthNews
    <3>2. ~(k = 1 /\ tasks[1].kind = "credential")
      BY <2>3, ShiftIndices DEF NewsInTasks, Shifted, TypeOK
    <3>3. QED
      BY <3>1, <3>2 DEF UserStep
  <2>4. QED
    BY <2>2, <2>3
<1>5. QED
  BY <1>2, <1>3, <1>4 DEF AuthNews

LEMMA WorkerWriteUser ==
  ASSUME TypeOK, WriteUser, ownerOf' = ownerOf, NEW k, Shifted(k), UserStep(k)
  PROVE  WriteUser'
<1> SUFFICES ASSUME NEW i, WriteInTasks(i)'
             PROVE  /\ tasks'[i].write \in 1 .. Len(ownerOf)
                    /\ (\A j : NewsInTasks(j)' => j > i) => user' = ownerOf[tasks'[i].write]
                    /\ \A j : NewsInTasks(j)' /\ j < i
                              /\ (\A l : NewsInTasks(l)' => l <= j \/ l > i) =>
                         tasks'[j].user = ownerOf[tasks'[i].write]
  BY DEF WriteUser
<1>1. /\ i \in Nat \ {0} /\ k \in {0, 1}
      /\ WriteInTasks(i + k) /\ tasks'[i] = tasks[i + k]
  BY ShiftIndices
<1>2. tasks'[i].write \in 1 .. Len(ownerOf)
  BY <1>1 DEF WriteUser
<1>3. ASSUME \A j : NewsInTasks(j)' => j > i
      PROVE  user' = ownerOf[tasks'[i].write]
  <2>1. ASSUME NEW j, NewsInTasks(j), j > k PROVE j > i + k
    <3>1. j \in Nat /\ NewsInTasks(j - k)'
      BY <2>1, ShiftIndices
    <3>2. QED
      BY <1>1, <1>3, <3>1
  <2>2. CASE k = 1 /\ tasks[1].kind = "credential"
    <3>1. NewsInTasks(1)
      BY <2>2, <1>1 DEF NewsInTasks, WriteInTasks
    <3>2. \A l : NewsInTasks(l) => l <= 1 \/ l > i + k
      <4> SUFFICES ASSUME NEW l, NewsInTasks(l) PROVE l <= 1 \/ l > i + k
        OBVIOUS
      <4>1. l \in Nat
        BY ShiftIndices
      <4>2. QED
        BY <2>1, <2>2, <4>1
    <3>3. 1 < i + k
      BY <1>1, <2>2
    <3>4. tasks[1].user = ownerOf[tasks[i + k].write]
      BY <1>1, <3>1, <3>2, <3>3 DEF WriteUser
    <3>5. QED
      BY <1>1, <2>2, <3>4 DEF UserStep
  <2>3. CASE ~(k = 1 /\ tasks[1].kind = "credential")
    <3>1. ASSUME NEW j, NewsInTasks(j) PROVE j > i + k
      <4>1. j \in Nat \ {0}
        BY <3>1, ShiftIndices
      <4>2. j > k
        BY <1>1, <2>3, <3>1, <4>1 DEF NewsInTasks
      <4>3. QED
        BY <2>1, <3>1, <4>2
    <3>2. user = ownerOf[tasks[i + k].write]
      BY <1>1, <3>1 DEF WriteUser
    <3>3. QED
      BY <1>1, <2>3, <3>2 DEF UserStep
  <2>4. QED
    BY <2>2, <2>3
<1>4. ASSUME NEW j, NewsInTasks(j)', j < i, \A l : NewsInTasks(l)' => l <= j \/ l > i
      PROVE  tasks'[j].user = ownerOf[tasks'[i].write]
  <2>1. j \in Nat \ {0} /\ NewsInTasks(j + k) /\ tasks'[j] = tasks[j + k]
    BY <1>4, ShiftIndices
  <2>2. ASSUME NEW l, NewsInTasks(l) PROVE l <= j + k \/ l > i + k
    <3>1. l \in Nat
      BY <2>2, ShiftIndices
    <3>2. CASE l > k
      <4>1. l - k <= j \/ l - k > i
        BY <1>4, <2>2, <3>2, ShiftIndices
      <4>2. QED
        BY <1>1, <2>1, <3>1, <4>1
    <3>3. CASE ~(l > k)
      BY <1>1, <2>1, <3>1, <3>3
    <3>4. QED
      BY <3>2, <3>3
  <2>3. j + k < i + k
    BY <1>1, <1>4, <2>1
  <2>4. tasks[j + k].user = ownerOf[tasks[i + k].write]
    BY <1>1, <2>1, <2>2, <2>3 DEF WriteUser
  <2>5. QED
    BY <1>1, <2>1, <2>4
<1>5. QED
  BY <1>2, <1>3, <1>4

-----------------------------------------------------------------------------
(* The tokens, in a step of the worker queue.                              *)

\* Nothing is done to the stream, nor to the user.
Quiet(k) ==
  /\ stream'.closeCount = stream.closeCount /\ stream'.state = stream.state
  /\ tokens' = tokens /\ user' = user
  /\ k = 1 => tasks[1].kind # "credential"

\* The stream can take no token that was under way; it may ask for another.
Fresh(k) ==
  /\ stream' \in Stream /\ stream'.closeCount >= stream.closeCount
  /\ \A t \in tokens : t.closeCount # stream'.closeCount
  /\ \A i : TokenInMain(i) => main[i].closeCount # stream'.closeCount
  /\ \A i : TokenInTasks(i) /\ i > k => tasks[i].closeCount # stream'.closeCount
  /\ \/ tokens' = tokens
     \/ tokens' = tokens \cup {Asked(stream'.closeCount)} /\ stream'.state = "starting"

LEMMA QuietTokens ==
  ASSUME TypeOK, Tokens, main' = main,
         NEW k, Shifted(k), Quiet(k)
  PROVE  Tokens'
<1>1. /\ stream'.closeCount = stream.closeCount /\ stream'.state = stream.state
      /\ tokens' = tokens /\ user' = user /\ k \in {0, 1}
  BY ShiftIndices DEF Quiet
<1>2. /\ \A i : TokenInMain(i)' <=> TokenInMain(i)
      /\ \A i : NewsInMain(i)' <=> NewsInMain(i)
  BY DEF TokenInMain, NewsInMain
<1>3. \A t : Current(t)' <=> Current(t)
  BY <1>1 DEF Current
<1>4. \A i : TokenInTasks(i)' =>
        i \in Nat \ {0} /\ TokenInTasks(i + k) /\ tasks'[i] = tasks[i + k]
  BY ShiftIndices
<1>5. ASSUME NEW j, NewsInTasks(j)
      PROVE  j \in Nat \ {0} /\ j > k /\ NewsInTasks(j - k)'
  <2>1. j \in Nat \ {0} /\ (j > k => NewsInTasks(j - k)')
    BY <1>5, ShiftIndices
  <2>2. k = 1 => j # 1
    BY <1>5 DEF Quiet, NewsInTasks
  <2>3. QED
    BY <1>1, <2>1, <2>2
<1>6. TokenAge'
  BY <1>1, <1>2, <1>4 DEF Tokens, TokenAge
<1>7. OneToken'
  <2>1. \A i : TokenInTasks(i)' /\ Current(tasks'[i]) =>
          /\ stream.state = "starting"
          /\ \A j : TokenInTasks(j)' /\ Current(tasks'[j]) => j = i
    <3> SUFFICES ASSUME NEW i, TokenInTasks(i)', Current(tasks'[i])
                 PROVE  /\ stream.state = "starting"
                        /\ \A j : TokenInTasks(j)' /\ Current(tasks'[j]) => j = i
      OBVIOUS
    <3>1. i \in Nat /\ TokenInTasks(i + k) /\ Current(tasks[i + k])
      BY <1>4
    <3>2. ASSUME NEW j, TokenInTasks(j)', Current(tasks'[j]) PROVE j = i
      <4>1. j \in Nat /\ TokenInTasks(j + k) /\ Current(tasks[j + k])
        BY <1>4, <3>2
      <4>2. j + k = i + k
        BY <3>1, <4>1 DEF Tokens, OneToken
      <4>3. QED
        BY <1>1, <3>1, <4>1, <4>2
    <3>3. QED
      BY <3>1, <3>2 DEF Tokens, OneToken
  <2>2. ASSUME \A j : TokenInTasks(j) => ~Current(tasks[j])
        PROVE  \A j : TokenInTasks(j)' => ~Current(tasks'[j])
    BY <1>4, <2>2
  <2>3. QED
    BY <1>1, <1>2, <1>3, <2>1, <2>2 DEF Tokens, OneToken
<1>8. TokenUser'
  <2>1. ASSUME NEW i, TokenInTasks(i)', Current(tasks'[i]),
               \A j : NewsInTasks(j)' => j > i
        PROVE  tasks'[i].user = user
    <3>1. i \in Nat /\ TokenInTasks(i + k) /\ Current(tasks[i + k])
      BY <1>4, <2>1
    <3>2. ASSUME NEW j, NewsInTasks(j) PROVE j > i + k
      <4>1. j \in Nat \ {0} /\ j - k > i
        BY <1>5, <2>1, <3>2
      <4>2. QED
        BY <1>1, <3>1, <4>1
    <3>3. QED
      BY <1>4, <2>1, <3>1, <3>2 DEF Tokens, TokenUser
  <2>2. (\A j : ~NewsInTasks(j)') => \A j : ~NewsInTasks(j)
    BY <1>5
  <2>3. QED
    BY <1>1, <1>2, <1>3, <2>1, <2>2 DEF Tokens, TokenUser
<1>9. QED
  BY <1>6, <1>7, <1>8 DEF Tokens

LEMMA FreshTokens ==
  ASSUME TypeOK, Tokens, main' = main,
         NEW k, Shifted(k), Fresh(k)
  PROVE  Tokens'
<1> DEFINE a == Asked(stream'.closeCount)
<1>1. /\ stream.closeCount \in Nat /\ stream'.closeCount \in Nat
      /\ stream'.closeCount >= stream.closeCount
  BY DEF TypeOK, Fresh, Stream
<1>2. /\ \A i : TokenInMain(i)' <=> TokenInMain(i)
      /\ \A i : TokenInMain(i) => main[i].closeCount # stream'.closeCount
  BY DEF TokenInMain, Fresh
<1>3. \A i : TokenInTasks(i)' =>
        /\ TokenInTasks(i + k) /\ tasks'[i] = tasks[i + k]
        /\ tasks'[i].closeCount # stream'.closeCount
  <2>1. ASSUME NEW i, TokenInTasks(i)'
        PROVE  TokenInTasks(i + k) /\ tasks'[i] = tasks[i + k] /\ i + k > k
    BY <2>1, ShiftIndices
  <2>2. QED
    BY <2>1 DEF Fresh
<1>4. \A t \in tokens' :
        \/ t \in tokens /\ t.closeCount # stream'.closeCount
        \/ t = a /\ stream'.state = "starting"
  BY DEF Fresh
<1>5. a.stage = "asked" /\ a.closeCount = stream'.closeCount
  BY DEF Asked
<1> HIDE DEF a
<1>6. TokenAge'
  <2>1. \A n \in Nat : n <= stream.closeCount => n <= stream'.closeCount
    BY <1>1
  <2>2. /\ \A t \in tokens : t.closeCount \in Nat
        /\ \A i : TokenInMain(i) => main[i].closeCount \in Nat
        /\ \A i : TokenInTasks(i) => tasks[i].closeCount \in Nat
    BY MainTypes, TaskTypes DEF TypeOK, TokenInMain, TokenInTasks
  <2>3. \A t \in tokens' : t.closeCount <= stream'.closeCount
    BY <1>1, <1>4, <1>5, <2>1, <2>2 DEF Tokens, TokenAge
  <2>4. /\ \A i : TokenInMain(i) => main[i].closeCount <= stream'.closeCount
        /\ \A i : TokenInTasks(i) => tasks[i].closeCount <= stream'.closeCount
    BY <2>1, <2>2 DEF Tokens, TokenAge
  <2>5. QED
    BY <1>2, <1>3, <2>3, <2>4 DEF TokenAge
<1>7. OneToken'
  BY <1>2, <1>3, <1>4 DEF OneToken, Current
<1>8. TokenUser'
  BY <1>2, <1>3, <1>4, <1>5 DEF TokenUser, Current
<1>9. QED
  BY <1>6, <1>7, <1>8 DEF Tokens

\* Why the stream can take no token: it has been closed, or was not starting,
\* or is taking the only one.
LEMMA ClosedIsFresh ==
  ASSUME TypeOK, TokenAge, NEW k,
         stream' \in Stream, stream'.closeCount > stream.closeCount,
         \/ tokens' = tokens
         \/ tokens' = tokens \cup {Asked(stream'.closeCount)} /\ stream'.state = "starting"
  PROVE  Fresh(k)
<1>1. stream.closeCount \in Nat /\ stream'.closeCount \in Nat
  BY DEF TypeOK, Stream
<1>2. \A n \in Nat : n <= stream.closeCount => n # stream'.closeCount
  BY <1>1
<1>3. /\ \A t \in tokens : t.closeCount \in Nat
      /\ \A i : TokenInMain(i) => main[i].closeCount \in Nat
      /\ \A i : TokenInTasks(i) => tasks[i].closeCount \in Nat
  BY MainTypes, TaskTypes DEF TypeOK, TokenInMain, TokenInTasks
<1>4. QED
  BY <1>1, <1>2, <1>3 DEF Fresh, TokenAge

LEMMA NotStartingIsFresh ==
  ASSUME TypeOK, OneToken, NEW k,
         stream' \in Stream, stream'.closeCount = stream.closeCount,
         stream.state # "starting",
         \/ tokens' = tokens
         \/ tokens' = tokens \cup {Asked(stream'.closeCount)} /\ stream'.state = "starting"
  PROVE  Fresh(k)
  BY DEF Fresh, OneToken, Current, TypeOK, Stream

LEMMA TakenIsFresh ==
  ASSUME TypeOK, OneToken,
         stream' \in Stream, stream'.closeCount = stream.closeCount,
         TokenInTasks(1), Current(tasks[1]), tokens' = tokens
  PROVE  Fresh(1)
<1>1. \A i : i > 1 => i # 1
  OBVIOUS
<1>2. /\ \A t \in tokens : ~Current(t)
      /\ \A i : TokenInMain(i) => ~Current(main[i])
      /\ \A i : TokenInTasks(i) /\ i # 1 => ~Current(tasks[i])
  BY DEF OneToken
<1>3. stream'.closeCount >= stream.closeCount
  BY DEF TypeOK, Stream
<1>4. QED
  BY <1>1, <1>2, <1>3 DEF Fresh, Current

-----------------------------------------------------------------------------
(* Steps of Auth and of the main queue.                                    *)

LEMMA MainAppended ==
  ASSUME TypeOK, NEW b, main' = Append(main, b), NEW n, n = Len(main)
  PROVE  /\ n \in Nat /\ \A i \in 1 .. n : i \in Nat /\ i < n + 1
         /\ \A i : i \in 1 .. Len(main') <=> i \in 1 .. n \/ i = n + 1
         /\ \A i \in 1 .. n : main'[i] = main[i]
         /\ main'[n + 1] = b
  BY DEF TypeOK

LEMMA TasksAppended ==
  ASSUME TypeOK, NEW b, tasks' = Append(tasks, b), NEW n, n = Len(tasks)
  PROVE  /\ n \in Nat /\ \A i \in 1 .. n : i \in Nat /\ i < n + 1
         /\ \A i : i \in 1 .. Len(tasks') <=> i \in 1 .. n \/ i = n + 1
         /\ \A i \in 1 .. n : tasks'[i] = tasks[i]
         /\ tasks'[n + 1] = b
  BY DEF TypeOK

LEMMA UpdateUserRight ==
  ASSUME TypeOK, RightUser, NEW u \in Accounts, updateCurrentUser(u)
  PROVE  RightUser'
<1> DEFINE n == Len(main)
<1>1. /\ main' = Append(main, Notify(u)) /\ authUser' = u
      /\ tokens' = tokens /\ tasks' = tasks /\ user' = user /\ stream' = stream
      /\ nextId' = nextId /\ ownerOf' = ownerOf
  BY DEF updateCurrentUser, local, remote
<1>2. /\ n \in Nat /\ \A i \in 1 .. n : i \in Nat /\ i < n + 1
      /\ \A i : i \in 1 .. Len(main') <=> i \in 1 .. n \/ i = n + 1
      /\ \A i \in 1 .. n : main'[i] = main[i]
      /\ main'[n + 1] = Notify(u)
  BY <1>1, MainAppended
<1>3. Notify(u).kind = "notify" /\ Notify(u).user = u
  BY DEF Notify
<1>4. \A i : NewsInMain(i)' <=> NewsInMain(i) \/ i = n + 1
  BY <1>2, <1>3 DEF NewsInMain
<1>5. \A i : /\ TokenInMain(i)' <=> TokenInMain(i)
             /\ TokenInMain(i) => main'[i] = main[i]
  BY <1>2, <1>3 DEF TokenInMain
<1>6. \A i : /\ NewsInTasks(i)' <=> NewsInTasks(i)
             /\ TokenInTasks(i)' <=> TokenInTasks(i)
             /\ WriteInTasks(i)' <=> WriteInTasks(i)
  BY <1>1 DEF NewsInTasks, TokenInTasks, WriteInTasks
<1>7. \A t : Current(t)' <=> Current(t)
  BY <1>1 DEF Current
<1>8. AuthNews'
  <2>1. ASSUME NEW i, NewsInMain(i)', \A j : NewsInMain(j)' => j <= i
        PROVE  main'[i].user = u
    <3>1. n + 1 <= i /\ i \in 1 .. Len(main')
      BY <1>4, <2>1 DEF NewsInMain
    <3>2. i = n + 1
      BY <1>2, <3>1
    <3>3. QED
      BY <1>2, <1>3, <3>2
  <2>2. QED
    BY <1>1, <1>4, <2>1 DEF AuthNews
<1>9. TokenAge' /\ OneToken'
  BY <1>1, <1>5, <1>6, <1>7 DEF RightUser, Tokens, TokenAge, OneToken
<1>10. TokenUser'
  BY <1>1, <1>4, <1>5, <1>6, <1>7 DEF RightUser, Tokens, TokenUser
<1>11. WriteUser' /\ WritesAscend'
  BY <1>1, <1>6 DEF RightUser, WriteUser, WritesAscend
<1>12. QED
  BY <1>8, <1>9, <1>10, <1>11 DEF RightUser, Tokens

LEMMA WriteDataRight ==
  ASSUME TypeOK, RightUser, WriteData
  PROVE  RightUser'
<1> DEFINE n == Len(tasks)
           w == Len(ownerOf) + 1
           b == [kind |-> "write", write |-> w]
<1>1. /\ main' = main /\ authUser' = authUser /\ tokens' = tokens /\ user' = user
      /\ stream' = stream /\ nextId' = nextId /\ running' = running /\ running
      /\ authUser # None /\ \A i : ~NewsInMain(i)
      /\ ownerOf' = Append(ownerOf, authUser)
      /\ tasks' = Append(tasks, b)
  BY DEF WriteData, auth, local, remote, NewsInMain, TypeOK
<1>2. /\ n \in Nat /\ \A i \in 1 .. n : i \in Nat /\ i < n + 1
      /\ \A i : i \in 1 .. Len(tasks') <=> i \in 1 .. n \/ i = n + 1
      /\ \A i \in 1 .. n : tasks'[i] = tasks[i]
      /\ tasks'[n + 1] = b
  BY <1>1, TasksAppended
<1>3. /\ Len(ownerOf) \in Nat /\ w \in Nat /\ w = Len(ownerOf) + 1 /\ Len(ownerOf') = w
      /\ \A i \in 1 .. Len(ownerOf) : ownerOf'[i] = ownerOf[i] /\ i \in 1 .. w /\ i < w
      /\ ownerOf'[w] = authUser /\ w \in 1 .. w
  BY <1>1 DEF TypeOK
<1> HIDE DEF w
<1>4. b.kind = "write" /\ b.write = w
  OBVIOUS
<1> HIDE DEF b, n
<1>5. \A i : /\ NewsInMain(i)' <=> NewsInMain(i)
             /\ TokenInMain(i)' <=> TokenInMain(i)
  BY <1>1 DEF NewsInMain, TokenInMain
<1>6. \A i : /\ NewsInTasks(i)' <=> NewsInTasks(i)
             /\ NewsInTasks(i) => tasks'[i] = tasks[i] /\ i \in Nat /\ i < n + 1
             /\ TokenInTasks(i)' <=> TokenInTasks(i)
             /\ TokenInTasks(i) => tasks'[i] = tasks[i]
             /\ WriteInTasks(i)' <=> WriteInTasks(i) \/ i = n + 1
             /\ WriteInTasks(i) => tasks'[i] = tasks[i] /\ i \in Nat /\ i < n + 1
  BY <1>2, <1>4 DEF NewsInTasks, TokenInTasks, WriteInTasks, n
<1>7. \A t : Current(t)' <=> Current(t)
  BY <1>1 DEF Current
<1>8. AuthNews'
  BY <1>1, <1>5, <1>6 DEF RightUser, AuthNews
<1>9. TokenAge' /\ OneToken'
  BY <1>1, <1>5, <1>6, <1>7 DEF RightUser, Tokens, TokenAge, OneToken
<1>10. TokenUser'
  BY <1>1, <1>5, <1>6, <1>7 DEF RightUser, Tokens, TokenUser
<1>11. WriteUser'
  <2>1. ASSUME NEW i, WriteInTasks(i)
        PROVE  /\ tasks'[i].write \in 1 .. Len(ownerOf')
               /\ (\A j : NewsInTasks(j) => j > i) => user = ownerOf'[tasks'[i].write]
               /\ \A j : NewsInTasks(j) /\ j < i /\ (\A k : NewsInTasks(k) => k <= j \/ k > i) =>
                    tasks'[j].user = ownerOf'[tasks'[i].write]
    <3>1. tasks'[i] = tasks[i] /\ tasks[i].write \in 1 .. Len(ownerOf)
      BY <1>6, <2>1 DEF RightUser, WriteUser
    <3>2. ownerOf'[tasks'[i].write] = ownerOf[tasks[i].write]
      BY <1>3, <3>1
    <3>3. QED
      BY <1>3, <1>6, <2>1, <3>1, <3>2 DEF RightUser, WriteUser
  <2>2. tasks'[n + 1].write = w /\ w \in 1 .. Len(ownerOf') /\ ownerOf'[w] = authUser
    BY <1>2, <1>3, <1>4
  <2>3. (\A j : NewsInTasks(j) => j > n + 1) => user = authUser
    <3>1. \A j : NewsInTasks(j) => ~(j > n + 1)
      BY <1>2, <1>6
    <3>2. QED
      BY <1>1, <3>1 DEF RightUser, AuthNews
  <2>4. ASSUME NEW j, NewsInTasks(j), \A k : NewsInTasks(k) => k <= j \/ k > n + 1
        PROVE  tasks'[j].user = authUser
    <3>1. \A k : NewsInTasks(k) => k <= j
      BY <1>2, <1>6, <2>4
    <3>2. tasks[j].user = authUser
      BY <1>1, <2>4, <3>1 DEF RightUser, AuthNews
    <3>3. QED
      BY <1>6, <2>4, <3>2
  <2>5. QED
    BY <1>1, <1>6, <2>1, <2>2, <2>3, <2>4 DEF WriteUser
<1>12. WritesAscend'
  <2>1. nextId <= w /\ nextId <= w + 1
    BY <1>3 DEF RightUser, WritesAscend, TypeOK
  <2>2. ASSUME NEW i, WriteInTasks(i) PROVE tasks[i].write < w
    BY <1>3, <2>2 DEF RightUser, WriteUser
  <2>3. \A i : WriteInTasks(i)' => nextId <= tasks'[i].write
    BY <1>2, <1>4, <1>6, <2>1 DEF RightUser, WritesAscend
  <2>4. ASSUME NEW i, NEW j, WriteInTasks(i)', WriteInTasks(j)', i < j
        PROVE  tasks'[i].write < tasks'[j].write
    <3>1. i # n + 1
      BY <1>2, <1>6, <2>4
    <3>2. CASE j = n + 1
      BY <1>2, <1>4, <1>6, <2>2, <2>4, <3>1, <3>2
    <3>3. CASE j # n + 1
      BY <1>6, <2>4, <3>1, <3>3 DEF RightUser, WritesAscend
    <3>4. QED
      BY <3>2, <3>3
  <2>5. QED
    BY <1>1, <1>3, <2>1, <2>3, <2>4 DEF WritesAscend
<1>13. QED
  BY <1>8, <1>9, <1>10, <1>11, <1>12 DEF RightUser, Tokens

LEMMA GetTokenRight ==
  ASSUME TypeOK, Down, RightUser, NEW t \in tokens, getToken(t)
  PROVE  RightUser'
<1> DEFINE g == [t EXCEPT !.stage = "fetching", !.user = authUser]
<1>1. /\ main' = main /\ authUser' = authUser /\ tasks' = tasks /\ user' = user
      /\ stream' = stream /\ nextId' = nextId /\ running' = running /\ ownerOf' = ownerOf
      /\ tokens' = (tokens \ {t}) \cup {g}
  BY DEF getToken, auth, local, remote
<1>2. g.closeCount = t.closeCount /\ g.user = authUser
  <2>1. t \in [stage : {"asked", "fetching"}, user : Accounts, counter : Nat, closeCount : Nat]
    BY DEF TypeOK
  <2>2. QED
    BY <2>1
<1> HIDE DEF g
<1>3. running
  BY DEF Down
<1>4. \A i : /\ NewsInMain(i)' <=> NewsInMain(i)
             /\ TokenInMain(i)' <=> TokenInMain(i)
             /\ NewsInTasks(i)' <=> NewsInTasks(i)
             /\ TokenInTasks(i)' <=> TokenInTasks(i)
             /\ WriteInTasks(i)' <=> WriteInTasks(i)
  BY <1>1 DEF NewsInMain, TokenInMain, NewsInTasks, TokenInTasks, WriteInTasks
<1>5. \A s : Current(s)' <=> Current(s)
  BY <1>1 DEF Current
<1>6. AuthNews' /\ WriteUser' /\ WritesAscend'
  BY <1>1, <1>4 DEF RightUser, AuthNews, WriteUser, WritesAscend
<1>7. TokenAge' /\ OneToken'
  BY <1>1, <1>2, <1>4, <1>5 DEF RightUser, Tokens, TokenAge, OneToken, Current
<1>8. TokenUser'
  <2>1. (\A j : ~NewsInMain(j)) /\ (\A j : ~NewsInTasks(j)) => authUser = user
    BY <1>3 DEF RightUser, AuthNews
  <2>2. QED
    BY <1>1, <1>2, <1>4, <1>5, <2>1 DEF RightUser, Tokens, TokenUser
<1>9. QED
  BY <1>6, <1>7, <1>8 DEF RightUser, Tokens

LEMMA TokenFetchedRight ==
  ASSUME TypeOK, RightUser, NEW t \in tokens, TokenFetched(t)
  PROVE  RightUser'
<1> DEFINE n == Len(main)
<1>1. PICK ok \in BOOLEAN :
        main' = Append(main, [kind |-> "token", ok |-> ok, user |-> t.user,
                              counter |-> t.counter, closeCount |-> t.closeCount])
  BY DEF TokenFetched
<1> DEFINE b == [kind |-> "token", ok |-> ok, user |-> t.user,
                 counter |-> t.counter, closeCount |-> t.closeCount]
<1>2. /\ authUser' = authUser /\ tasks' = tasks /\ user' = user
      /\ stream' = stream /\ nextId' = nextId /\ running' = running /\ ownerOf' = ownerOf
      /\ tokens' = tokens \ {t} /\ t.stage = "fetching"
  BY DEF TokenFetched, local, remote
<1>3. /\ n \in Nat /\ \A i \in 1 .. n : i \in Nat /\ i < n + 1
      /\ \A i : i \in 1 .. Len(main') <=> i \in 1 .. n \/ i = n + 1
      /\ \A i \in 1 .. n : main'[i] = main[i]
      /\ main'[n + 1] = b
  BY <1>1, MainAppended
<1>4. b.kind = "token" /\ b.user = t.user /\ b.closeCount = t.closeCount
  OBVIOUS
<1> HIDE DEF b, n
<1>5. \A i : /\ NewsInMain(i)' <=> NewsInMain(i)
             /\ NewsInMain(i) => main'[i] = main[i] /\ i \in Nat /\ i < n + 1
             /\ TokenInMain(i)' <=> TokenInMain(i) \/ i = n + 1
             /\ TokenInMain(i) => main'[i] = main[i] /\ i # n + 1
  BY <1>3, <1>4 DEF NewsInMain, TokenInMain, n
<1>6. \A i : /\ NewsInTasks(i)' <=> NewsInTasks(i)
             /\ TokenInTasks(i)' <=> TokenInTasks(i)
             /\ WriteInTasks(i)' <=> WriteInTasks(i)
  BY <1>2 DEF NewsInTasks, TokenInTasks, WriteInTasks
<1>7. \A s : Current(s)' <=> Current(s)
  BY <1>2 DEF Current
<1>8. Current(b) <=> Current(t)
  BY <1>4 DEF Current
<1>9. AuthNews' /\ WriteUser' /\ WritesAscend'
  BY <1>2, <1>5, <1>6 DEF RightUser, AuthNews, WriteUser, WritesAscend
<1>10. TokenAge'
  BY <1>2, <1>3, <1>4, <1>5, <1>6 DEF RightUser, Tokens, TokenAge
<1>11. OneToken'
  BY <1>2, <1>3, <1>5, <1>6, <1>7, <1>8 DEF RightUser, Tokens, OneToken
<1>12. TokenUser'
  <2>1. ASSUME Current(b), \A j : NewsInMain(j) => j > n + 1, \A j : ~NewsInTasks(j)
        PROVE  b.user = user
    <3>1. \A j : ~NewsInMain(j)
      BY <1>3, <1>5, <2>1
    <3>2. QED
      BY <1>2, <1>4, <1>8, <2>1, <3>1 DEF RightUser, Tokens, TokenUser
  <2>2. QED
    BY <1>2, <1>3, <1>5, <1>6, <1>7, <2>1 DEF RightUser, Tokens, TokenUser
<1>13. QED
  BY <1>9, <1>10, <1>11, <1>12 DEF RightUser, Tokens

\* The first block of the main queue becomes the last task.
LEMMA MainToTasks ==
  ASSUME TypeOK, main # <<>>, main' = Tail(main), NEW b, tasks' = Append(tasks, b),
         NEW n, n = Len(tasks)
  PROVE  /\ 1 \in 1 .. Len(main) /\ Head(main) = main[1]
         /\ \A i : i \in 1 .. Len(main') <=> i \in Nat \ {0} /\ i + 1 \in 1 .. Len(main)
         /\ \A i \in 1 .. Len(main') : main'[i] = main[i + 1]
         /\ \A i \in 1 .. Len(main) :
              i \in Nat \ {0} /\ (i # 1 => i - 1 \in 1 .. Len(main') /\ main'[i - 1] = main[i])
         /\ n \in Nat /\ \A i \in 1 .. n : i \in Nat /\ i < n + 1
         /\ \A i : i \in 1 .. Len(tasks') <=> i \in 1 .. n \/ i = n + 1
         /\ \A i \in 1 .. n : tasks'[i] = tasks[i]
         /\ tasks'[n + 1] = b
<1> DEFINE m == Len(main)
<1>1. /\ m \in Nat \ {0} /\ Head(main) = main[1] /\ Len(main') = m - 1
      /\ \A i \in 1 .. m - 1 : main'[i] = main[i + 1]
  BY HeadTailProperties DEF TypeOK
<1> HIDE DEF m
<1>2. \A i : i \in 1 .. m - 1 <=> i \in Nat \ {0} /\ i + 1 \in 1 .. m
  BY <1>1
<1>3. ASSUME NEW i \in 1 .. m
      PROVE  i \in Nat \ {0} /\ (i # 1 => i - 1 \in 1 .. m - 1 /\ main'[i - 1] = main[i])
  <2>1. i # 1 => i - 1 \in 1 .. m - 1 /\ (i - 1) + 1 = i
    BY <1>1
  <2>2. QED
    BY <1>1, <2>1
<1>4. QED
  BY <1>1, <1>2, <1>3, TasksAppended DEF m

LEMMA RunMainRight ==
  ASSUME TypeOK, RightUser, RunMain
  PROVE  RightUser'
<1> DEFINE n == Len(tasks)
           h == main[1]
           b == IF h.kind = "notify"
                  THEN [kind |-> "credential", user |-> h.user]
                  ELSE [kind |-> "token", ok |-> h.ok /\ h.counter = tokenCounter,
                        user |-> h.user, closeCount |-> h.closeCount]
<1>1. /\ authUser' = authUser /\ tokens' = tokens /\ user' = user
      /\ stream' = stream /\ nextId' = nextId /\ running' = running /\ ownerOf' = ownerOf
      /\ main # <<>> /\ main' = Tail(main)
  BY DEF RunMain, local, remote
<1>2. Head(main) = main[1]
  BY <1>1, HeadTailProperties DEF TypeOK
<1>3. tasks' = Append(tasks, b)
  BY <1>2 DEF RunMain
<1>4. /\ b.user = h.user
      /\ h.kind = "notify" => b.kind = "credential"
      /\ h.kind # "notify" => b.kind = "token" /\ b.closeCount = h.closeCount
  OBVIOUS
<1> HIDE DEF b
<1>5. /\ 1 \in 1 .. Len(main)
      /\ \A i : i \in 1 .. Len(main') <=> i \in Nat \ {0} /\ i + 1 \in 1 .. Len(main)
      /\ \A i \in 1 .. Len(main') : main'[i] = main[i + 1]
      /\ \A i \in 1 .. Len(main) :
           i \in Nat \ {0} /\ (i # 1 => i - 1 \in 1 .. Len(main') /\ main'[i - 1] = main[i])
      /\ n \in Nat /\ \A i \in 1 .. n : i \in Nat /\ i < n + 1
      /\ \A i : i \in 1 .. Len(tasks') <=> i \in 1 .. n \/ i = n + 1
      /\ \A i \in 1 .. n : tasks'[i] = tasks[i]
      /\ tasks'[n + 1] = b
  BY <1>1, <1>3, MainToTasks
<1> HIDE DEF n
<1>6. h.kind \in {"notify", "token"}
  BY <1>5, MainTypes
<1>7. \A i : /\ NewsInMain(i)' => i \in Nat \ {0} /\ NewsInMain(i + 1) /\ main'[i] = main[i + 1]
             /\ NewsInMain(i) => i \in Nat \ {0} /\ (i # 1 => NewsInMain(i - 1)' /\ main'[i - 1] = main[i])
             /\ TokenInMain(i)' => i \in Nat \ {0} /\ TokenInMain(i + 1) /\ main'[i] = main[i + 1]
  <2>1. \A i : NewsInMain(i)' => i \in Nat \ {0} /\ NewsInMain(i + 1) /\ main'[i] = main[i + 1]
    BY <1>5 DEF NewsInMain
  <2>2. ASSUME NEW i, NewsInMain(i)
        PROVE  i \in Nat \ {0} /\ (i # 1 => NewsInMain(i - 1)' /\ main'[i - 1] = main[i])
    <3>1. i \in 1 .. Len(main) /\ main[i].kind = "notify"
      BY <2>2 DEF NewsInMain
    <3>2. i \in Nat \ {0} /\ (i # 1 => i - 1 \in 1 .. Len(main') /\ main'[i - 1] = main[i])
      BY <1>5, <3>1
    <3>3. ASSUME i # 1 PROVE NewsInMain(i - 1)'
      BY Zenon, <3>1, <3>2, <3>3 DEF NewsInMain
    <3>4. QED
      BY Zenon, <3>2, <3>3
  <2>3. \A i : TokenInMain(i)' => i \in Nat \ {0} /\ TokenInMain(i + 1) /\ main'[i] = main[i + 1]
    BY <1>5 DEF TokenInMain
  <2>4. QED
    BY <2>1, <2>2, <2>3
<1>8. /\ NewsInMain(1) <=> h.kind = "notify"
      /\ TokenInMain(1) <=> h.kind = "token"
  BY <1>5 DEF NewsInMain, TokenInMain
<1>9. \A i : /\ WriteInTasks(i)' <=> WriteInTasks(i)
             /\ WriteInTasks(i) => tasks'[i] = tasks[i] /\ i \in Nat /\ i < n + 1
  BY <1>4, <1>5, <1>6 DEF WriteInTasks, n
<1>10. \A i : /\ NewsInTasks(i)' <=> NewsInTasks(i) \/ (i = n + 1 /\ NewsInMain(1))
              /\ NewsInTasks(i) => tasks'[i] = tasks[i] /\ i \in Nat /\ i < n + 1
  BY <1>4, <1>5, <1>6, <1>8 DEF NewsInTasks, n
<1>11. \A i : /\ TokenInTasks(i)' <=> TokenInTasks(i) \/ (i = n + 1 /\ TokenInMain(1))
              /\ TokenInTasks(i) => tasks'[i] = tasks[i] /\ i \in Nat /\ i < n + 1
  BY <1>4, <1>5, <1>6, <1>8 DEF TokenInTasks, n
<1>12. \A t : Current(t)' <=> Current(t)
  BY <1>1 DEF Current
<1>13. TokenInMain(1) => (Current(b) <=> Current(main[1]))
  BY <1>4, <1>6, <1>8 DEF Current
<1>14. AuthNews'
  <2> SUFFICES ASSUME running PROVE AuthNews'
    BY <1>1 DEF AuthNews
  <2>1. ASSUME NEW i, NewsInMain(i)', \A j : NewsInMain(j)' => j <= i
        PROVE  main'[i].user = authUser
    <3>1. i \in Nat \ {0} /\ NewsInMain(i + 1) /\ main'[i] = main[i + 1]
      BY <1>7, <2>1
    <3>2. ASSUME NEW j, NewsInMain(j) PROVE j <= i + 1
      <4>1. j \in Nat /\ (j = 1 \/ j - 1 <= i)
        BY <1>7, <2>1, <3>2
      <4>2. QED
        BY <3>1, <4>1
    <3>3. QED
      BY <3>1, <3>2 DEF RightUser, AuthNews
  <2>2. CASE NewsInMain(1)
    <3>1. ASSUME \A i : ~NewsInMain(i)' PROVE h.user = authUser
      <4>1. \A j : NewsInMain(j) => j = 1
        BY <1>7, <3>1
      <4>2. QED
        BY <2>2, <4>1 DEF RightUser, AuthNews
    <3>2. \A i : NewsInTasks(i)' /\ (\A j : NewsInTasks(j)' => j <= i) => i = n + 1
      BY <1>5, <1>10, <2>2
    <3>3. \A i : i = n + 1 => NewsInTasks(i)'
      BY <1>10, <2>2
    <3>4. tasks'[n + 1].user = h.user
      BY <1>4, <1>5
    <3>5. QED
      BY <1>1, <2>1, <3>1, <3>2, <3>3, <3>4 DEF AuthNews
  <2>3. CASE ~NewsInMain(1)
    <3>1. (\A i : ~NewsInMain(i)') => \A i : ~NewsInMain(i)
      BY <1>7, <2>3
    <3>2. QED
      BY <1>1, <1>10, <2>1, <2>3, <3>1 DEF RightUser, AuthNews
  <2>4. QED
    BY <2>2, <2>3
<1>15. TokenAge'
  <2>1. TokenInMain(1) => b.closeCount <= stream.closeCount
    BY <1>4, <1>8 DEF RightUser, Tokens, TokenAge
  <2>2. \A i : TokenInTasks(i)' => tasks'[i].closeCount <= stream.closeCount
    BY <1>5, <1>11, <2>1 DEF RightUser, Tokens, TokenAge
  <2>3. \A i : TokenInMain(i)' => main'[i].closeCount <= stream.closeCount
    BY <1>7 DEF RightUser, Tokens, TokenAge
  <2>4. QED
    BY <1>1, <2>2, <2>3 DEF RightUser, Tokens, TokenAge
<1>16. OneToken'
  <2>1. \A t \in tokens : Current(t) =>
          /\ stream.state = "starting"
          /\ \A s \in tokens : Current(s) => s = t
          /\ \A i : TokenInMain(i) => ~Current(main[i])
          /\ \A i : TokenInTasks(i)' => ~Current(tasks'[i])
    BY <1>5, <1>11, <1>13 DEF RightUser, Tokens, OneToken
  <2>2. ASSUME NEW i, TokenInMain(i)', Current(main'[i])
        PROVE  /\ stream.state = "starting"
               /\ \A j : TokenInMain(j)' /\ Current(main'[j]) => j = i
               /\ \A j : TokenInTasks(j)' => ~Current(tasks'[j])
    <3>1. i \in Nat \ {0} /\ TokenInMain(i + 1) /\ Current(main[i + 1])
      BY <1>7, <2>2
    <3>2. /\ stream.state = "starting"
          /\ \A j : TokenInMain(j) /\ Current(main[j]) => j = i + 1
          /\ \A j : TokenInTasks(j) => ~Current(tasks[j])
      BY <3>1 DEF RightUser, Tokens, OneToken
    <3>3. ASSUME NEW j, TokenInMain(j)', Current(main'[j]) PROVE j = i
      <4>1. j \in Nat \ {0} /\ j + 1 = i + 1
        BY <1>7, <3>2, <3>3
      <4>2. QED
        BY <3>1, <4>1
    <3>4. ~(TokenInMain(1) /\ Current(main[1]))
      BY <3>1, <3>2
    <3>5. QED
      BY <1>5, <1>11, <1>13, <3>2, <3>3, <3>4
  <2>3. ASSUME NEW i, TokenInTasks(i)', Current(tasks'[i])
        PROVE  /\ stream.state = "starting"
               /\ \A j : TokenInTasks(j)' /\ Current(tasks'[j]) => j = i
    <3>1. CASE i = n + 1
      <4>1. TokenInMain(1) /\ Current(main[1])
        BY <1>5, <1>11, <1>13, <2>3, <3>1
      <4>2. stream.state = "starting" /\ \A j : TokenInTasks(j) => ~Current(tasks[j])
        BY <4>1 DEF RightUser, Tokens, OneToken
      <4>3. QED
        BY <1>11, <3>1, <4>2
    <3>2. CASE i # n + 1
      <4>1. TokenInTasks(i) /\ Current(tasks[i])
        BY <1>11, <2>3, <3>2
      <4>2. /\ stream.state = "starting"
            /\ \A j : TokenInTasks(j) /\ Current(tasks[j]) => j = i
            /\ ~(TokenInMain(1) /\ Current(main[1]))
        BY <4>1 DEF RightUser, Tokens, OneToken
      <4>3. QED
        BY <1>5, <1>11, <1>13, <4>2
    <3>3. QED
      BY <3>1, <3>2
  <2>4. \A i : TokenInMain(i)' => TokenInMain(i + 1) /\ main'[i] = main[i + 1]
    BY <1>7
  <2>5. QED
    BY <1>1, <1>12, <2>1, <2>2, <2>3, <2>4 DEF OneToken
<1>17. TokenUser'
  <2>1. ASSUME NEW t \in tokens, t.stage = "fetching", Current(t),
               \A j : ~NewsInMain(j)', \A j : ~NewsInTasks(j)'
        PROVE  t.user = user
    <3>1. (\A j : ~NewsInMain(j)) /\ (\A j : ~NewsInTasks(j))
      BY <1>7, <1>10, <2>1
    <3>2. QED
      BY <2>1, <3>1 DEF RightUser, Tokens, TokenUser
  <2>2. ASSUME NEW i, TokenInMain(i)', Current(main'[i]),
               \A j : NewsInMain(j)' => j > i, \A j : ~NewsInTasks(j)'
        PROVE  main'[i].user = user
    <3>1. i \in Nat \ {0} /\ TokenInMain(i + 1) /\ Current(main[i + 1]) /\ main'[i] = main[i + 1]
      BY <1>7, <2>2
    <3>2. (\A j : ~NewsInTasks(j)) /\ ~NewsInMain(1)
      BY <1>10, <2>2
    <3>3. ASSUME NEW j, NewsInMain(j) PROVE j > i + 1
      <4>1. j \in Nat /\ j - 1 > i
        BY <1>7, <2>2, <3>2, <3>3
      <4>2. QED
        BY <3>1, <4>1
    <3>4. QED
      BY <3>1, <3>2, <3>3 DEF RightUser, Tokens, TokenUser
  <2>3. ASSUME NEW i, TokenInTasks(i)', Current(tasks'[i]), \A j : NewsInTasks(j)' => j > i
        PROVE  tasks'[i].user = user
    <3>1. CASE i = n + 1
      <4>1. TokenInMain(1) /\ Current(main[1]) /\ tasks'[i].user = main[1].user
        BY <1>4, <1>5, <1>11, <1>13, <2>3, <3>1
      <4>2. \A j : ~NewsInTasks(j)
        BY <1>5, <1>10, <2>3, <3>1
      <4>3. \A j : NewsInMain(j) => j > 1
        <5>1. \A j \in Nat \ {0} : j # 1 => j > 1
          OBVIOUS
        <5>2. \A j : NewsInMain(j) => j \in Nat \ {0} /\ j # 1
          BY <1>7, <1>8, <4>1 DEF TokenInMain, NewsInMain
        <5>3. QED
          BY <5>1, <5>2
      <4>4. QED
        BY <4>1, <4>2, <4>3 DEF RightUser, Tokens, TokenUser
    <3>2. CASE i # n + 1
      <4>1. TokenInTasks(i) /\ Current(tasks[i]) /\ tasks'[i] = tasks[i]
        BY <1>11, <2>3, <3>2
      <4>2. QED
        BY <1>10, <2>3, <4>1 DEF RightUser, Tokens, TokenUser
    <3>3. QED
      BY <3>1, <3>2
  <2>4. QED
    BY <1>1, <1>12, <2>1, <2>2, <2>3 DEF TokenUser
<1>18. WriteUser'
  <2>1. ASSUME NEW i, WriteInTasks(i) PROVE i \in Nat /\ i < n + 1 /\ ~(n + 1 < i)
    BY <1>5, <1>9, <2>1
  <2>2. QED
    BY <1>1, <1>9, <1>10, <2>1 DEF RightUser, WriteUser
<1>19. WritesAscend'
  BY <1>1, <1>9 DEF RightUser, WritesAscend
<1>20. QED
  BY <1>14, <1>15, <1>16, <1>17, <1>18, <1>19 DEF RightUser, Tokens

LEMMA LaunchRight ==
  ASSUME TypeOK, Down, RightUser, RowsAreOwn, RowsAscend, Launch
  PROVE  RightUser'
<1>1. /\ ~running /\ running' /\ tokens = {} /\ tasks' = <<>>
      /\ authUser' = authUser /\ ownerOf' = ownerOf
      /\ nextId' = LoadNextBatchId(queue)
  BY DEF Launch, Down
<1>2. PICK late \in BOOLEAN, notified \in BOOLEAN :
        LET u == IF late THEN None ELSE authUser
        IN /\ late => notified
           /\ main' = IF notified /\ authUser # None THEN <<Notify(authUser)>> ELSE <<>>
           /\ user' = u
           /\ FillWritePipeline(<<>>, queue[u], NewStream, <<>>)
  BY DEF Launch
<1>3. \A i : ~NewsInTasks(i)' /\ ~TokenInTasks(i)' /\ ~WriteInTasks(i)'
  BY <1>1 DEF NewsInTasks, TokenInTasks, WriteInTasks
<1>4. \A i : ~TokenInMain(i)'
  BY <1>2 DEF TokenInMain, Notify
<1>5. AuthNews'
  <2>1. CASE notified /\ authUser # None
    <3>1. main' = <<Notify(authUser)>> /\ \A i : NewsInMain(i)' <=> i = 1
      BY <1>2, <2>1 DEF NewsInMain, Notify
    <3>2. main'[1].user = authUser
      BY <3>1 DEF Notify
    <3>3. QED
      BY <1>1, <3>1, <3>2 DEF AuthNews
  <2>2. CASE ~(notified /\ authUser # None)
    <3>1. user' = authUser /\ \A i : ~NewsInMain(i)'
      BY <1>2, <2>2 DEF NewsInMain
    <3>2. QED
      BY <1>1, <1>3, <3>1 DEF AuthNews
  <2>3. QED
    BY <2>1, <2>2
<1>6. Tokens'
  <2>1. StartStep(NewStream)
    <3> DEFINE u == IF late THEN None ELSE authUser
    <3>1. /\ queue[u] \in Seq(Batch) /\ Ascending(queue[u]) /\ Prefix(<<>>, queue[u])
          /\ <<>> \in Seq(Batch) /\ Len(<<>>) <= kMaxPendingWrites
      BY ClientAssumption DEF TypeOK, RowsAscend, Accounts, Prefix
    <3>2. NewStream \in Stream /\ ~NewStream.handshake /\ <<>> \in Seq(Request)
      BY DEF NewStream, Stream, States, Accounts
    <3>3. FillWritePipeline(<<>>, queue[u], NewStream, <<>>)
      BY <1>2
    <3> HIDE DEF u
    <3>4. QED
      BY <3>1, <3>2, <3>3, FillWritePipelineSteps
  <2>2. /\ stream'.closeCount = 0
        /\ \/ tokens' = {}
           \/ tokens' = {Asked(0)} /\ stream'.state = "starting"
    BY <1>1, <2>1 DEF StartStep, NewStream
  <2>3. Asked(0).closeCount = 0 /\ Asked(0).stage = "asked"
    BY DEF Asked
  <2>4. QED
    BY <1>3, <1>4, <2>2, <2>3 DEF Tokens, TokenAge, OneToken, TokenUser
<1>7. nextId' <= Len(ownerOf') + 1
  BY <1>1, LoadNextBatchIdProperties
<1>8. WriteUser' /\ WritesAscend'
  BY <1>3, <1>7 DEF WriteUser, WritesAscend
<1>9. QED
  BY <1>5, <1>6, <1>8 DEF RightUser

LEMMA KillRight ==
  ASSUME TypeOK, Kill
  PROVE  RightUser'
<1>1. /\ ~running' /\ main' = <<>> /\ tokens' = {} /\ tasks' = <<>> /\ nextId' = 1
      /\ ownerOf' = ownerOf
  BY DEF Kill
<1>2. \A i : ~NewsInTasks(i)' /\ ~TokenInTasks(i)' /\ ~WriteInTasks(i)' /\ ~TokenInMain(i)'
  BY <1>1 DEF NewsInTasks, TokenInTasks, WriteInTasks, TokenInMain
<1>3. nextId' <= Len(ownerOf') + 1
  BY <1>1 DEF TypeOK
<1>4. QED
  BY <1>1, <1>2, <1>3
     DEF RightUser, AuthNews, Tokens, TokenAge, OneToken, TokenUser, WriteUser, WritesAscend

\* A step of the worker queue keeps all that, if the numbers go on.
LEMMA WorkerRight ==
  ASSUME TypeOK, RightUser, running' = running, authUser' = authUser, main' = main,
         ownerOf' = ownerOf, NEW k, Shifted(k), UserStep(k), Quiet(k) \/ Fresh(k),
         nextId' <= Len(ownerOf) + 1, \A i : WriteInTasks(i)' => nextId' <= tasks'[i].write
  PROVE  RightUser'
<1>1. AuthNews'
  BY WorkerAuthNews DEF RightUser
<1>2. Tokens'
  BY QuietTokens, FreshTokens DEF RightUser
<1>3. WriteUser'
  BY WorkerWriteUser DEF RightUser
<1>4. WritesAscend'
  <2>1. ASSUME NEW i, NEW j, WriteInTasks(i)', WriteInTasks(j)', i < j
        PROVE  tasks'[i].write < tasks'[j].write
    <3>1. /\ i \in Nat /\ j \in Nat /\ k \in {0, 1}
          /\ WriteInTasks(i + k) /\ tasks'[i] = tasks[i + k]
          /\ WriteInTasks(j + k) /\ tasks'[j] = tasks[j + k]
      BY <2>1, ShiftIndices
    <3>2. i + k < j + k
      BY <2>1, <3>1
    <3>3. QED
      BY <3>1, <3>2 DEF RightUser, WritesAscend
  <2>2. QED
    BY <2>1 DEF WritesAscend
<1>5. QED
  BY <1>1, <1>2, <1>3, <1>4 DEF RightUser

\* What has been run stays so, and stays its account's.
LEMMA RunGrows ==
  ASSUME TypeOK, WriteUser,
         \/ ownerOf' = ownerOf
         \/ \E u : ownerOf' = Append(ownerOf, u),
         \A i : WriteInTasks(i)' =>
           \/ \E j : WriteInTasks(j) /\ tasks'[i].write = tasks[j].write
           \/ tasks'[i].write = Len(ownerOf) + 1
  PROVE  \A w : Run(w) => Run(w)' /\ ownerOf'[w] = ownerOf[w]
<1> SUFFICES ASSUME NEW w, Run(w) PROVE Run(w)' /\ ownerOf'[w] = ownerOf[w]
  OBVIOUS
<1>1. w \in 1 .. Len(ownerOf) /\ \A i : WriteInTasks(i) => w < tasks[i].write
  BY DEF Run
<1>2. w \in 1 .. Len(ownerOf') /\ ownerOf'[w] = ownerOf[w] /\ w < Len(ownerOf) + 1
  BY <1>1 DEF TypeOK
<1>3. \A i : WriteInTasks(i)' => w < tasks'[i].write
  BY <1>1, <1>2
<1>4. QED
  BY <1>2, <1>3 DEF Run

-----------------------------------------------------------------------------
(* The rows, what the server has of them, and who waits for them.          *)

LEMMA WritesAreNat == \A w \in Writes : w \in Nat
  BY DEF Writes

LEMMA WorkerRunGrows ==
  ASSUME TypeOK, WriteUser, ownerOf' = ownerOf, NEW k, Shifted(k)
  PROVE  \A w : Run(w) => Run(w)' /\ ownerOf'[w] = ownerOf[w]
<1>1. \A i : WriteInTasks(i)' => \E j : WriteInTasks(j) /\ tasks'[i].write = tasks[j].write
  BY ShiftIndices
<1>2. QED
  BY <1>1, RunGrows

\* A step that leaves the rows alone.
LEMMA RowsKept ==
  ASSUME Rows, queue' = queue, commits' = commits, refused' = refused,
         callbacks' \subseteq callbacks,
         \A w : Run(w) => Run(w)' /\ ownerOf'[w] = ownerOf[w],
         running' => \A u \in Accounts : \A i \in 1 .. Len(queue[u]) : queue[u][i].id < nextId'
  PROVE  Rows'
<1>1. RowsAreOwn'
  BY DEF Rows, RowsAreOwn
<1>2. RowsAscend'
  BY DEF Rows, RowsAscend
<1>3. ServerRun'
  BY DEF Rows, ServerRun
<1>4. CallbackRows'
  BY DEF Rows, CallbackRows
<1>5. QED
  BY <1>1, <1>2, <1>3, <1>4 DEF Rows

\* A row goes after the last one of the current user.
LEMMA RowAdded ==
  ASSUME TypeOK, RightUser, Rows, running, tasks # <<>>, tasks[1].kind = "write",
         NEW w, w = tasks[1].write,
         tasks' = Tail(tasks), ownerOf' = ownerOf, commits' = commits, refused' = refused,
         NEW batch, batch = [id |-> nextId, write |-> w],
         queue' = [queue EXCEPT ![user] = AddMutationBatch(@, batch)],
         nextId' = nextId + 1,
         NEW key, key = { c \in callbacks : c.user = user /\ c.id = nextId },
         callbacks' = IF key # {} THEN callbacks
                      ELSE callbacks \cup {[user |-> user, id |-> nextId, write |-> w]}
  PROVE  /\ w \in Writes /\ ownerOf[w] = user /\ nextId <= w
         /\ \A i : WriteInTasks(i)' => nextId' <= tasks'[i].write
         /\ nextId' <= Len(ownerOf) + 1
         /\ batch \in Batch /\ queue' = [queue EXCEPT ![user] = Append(@, batch)]
         /\ queue'[user] = Append(queue[user], batch)
         /\ key = {}
         /\ Rows'
<1> DEFINE rows == queue[user]
           n == Len(rows)
<1>1. Shifted(1) /\ 1 \in 1 .. Len(tasks)
  BY ShiftedTail
<1>2. WriteInTasks(1)
  BY <1>1 DEF WriteInTasks
<1>3. /\ w \in Writes /\ w \in 1 .. Len(ownerOf) /\ ownerOf[w] = user /\ nextId <= w
  <2>1. \A j : NewsInTasks(j) => j > 1
    <3>1. \A j \in Nat \ {0} : j # 1 => j > 1
      OBVIOUS
    <3>2. \A j : NewsInTasks(j) => j \in Nat \ {0} /\ j # 1
      BY DEF NewsInTasks
    <3>3. QED
      BY <3>1, <3>2
  <2>2. w \in Writes
    BY <1>1, TaskTypes
  <2>3. QED
    BY <1>2, <2>1, <2>2 DEF RightUser, WriteUser, WritesAscend
<1>4. \A i : WriteInTasks(i)' => w < tasks'[i].write
  <2>1. ASSUME NEW i, WriteInTasks(i)' PROVE w < tasks'[i].write
    <3>1. i \in Nat \ {0} /\ WriteInTasks(i + 1) /\ tasks'[i] = tasks[i + 1]
      BY <1>1, <2>1, ShiftIndices
    <3>2. 1 < i + 1
      BY <3>1
    <3>3. QED
      BY <1>2, <3>1, <3>2 DEF RightUser, WritesAscend
  <2>2. QED
    BY <2>1
<1>5. Run(w)'
  BY <1>3, <1>4 DEF Run
<1>6. nextId \in Nat /\ w \in Nat /\ Len(ownerOf) \in Nat
  BY <1>3 DEF TypeOK
<1>7. \A i : WriteInTasks(i)' => nextId' <= tasks'[i].write
  <2>1. ASSUME NEW i, WriteInTasks(i)' PROVE nextId' <= tasks'[i].write
    <3>1. WriteInTasks(i + 1) /\ tasks'[i] = tasks[i + 1]
      BY <1>1, <2>1, ShiftIndices
    <3>2. tasks[i + 1].write \in Writes
      BY <3>1, TaskTypes DEF WriteInTasks
    <3>3. PICK x : x = tasks'[i].write
      OBVIOUS
    <3>4. w < x
      BY <1>4, <2>1, <3>3
    <3>5. x \in Nat
      BY Zenon, <3>1, <3>2, <3>3, WritesAreNat
    <3>6. nextId' <= x
      BY <1>3, <1>6, <3>4, <3>5
    <3>7. QED
      BY <3>3, <3>6
  <2>2. QED
    BY <2>1
<1>8. nextId' <= Len(ownerOf) + 1
  BY <1>3, <1>6
<1>9. /\ user \in Accounts /\ rows \in Seq(Batch) /\ n \in Nat /\ DOMAIN rows = 1 .. n
      /\ \A i \in 1 .. n : rows[i].id < nextId /\ rows[i].id \in Nat
  <2>1. user \in Accounts /\ rows \in Seq(Batch) /\ n \in Nat /\ DOMAIN rows = 1 .. n
    BY DEF TypeOK
  <2>2. \A i \in 1 .. n : rows[i] \in Batch
    BY <2>1, ElementOfSeq
  <2>3. \A i \in 1 .. n : rows[i].id \in Nat
    BY <2>2 DEF Batch
  <2>4. QED
    BY <2>1, <2>3 DEF Rows, RowsAscend
<1>10. batch \in Batch /\ batch.id = nextId /\ batch.write = w
  BY <1>3, <1>6 DEF Batch
<1> HIDE DEF rows
<1>11. AddMutationBatch(rows, batch) = Append(rows, batch)
  <2>1. \A i \in 1 .. n : rows[i].id # nextId
    BY <1>6, <1>9
  <2>2. QED
    BY <1>9, <1>10, <2>1 DEF AddMutationBatch
<1>12. /\ queue' = [queue EXCEPT ![user] = Append(@, batch)]
       /\ queue'[user] = Append(rows, batch)
       /\ \A u \in Accounts : u # user => queue'[u] = queue[u]
  BY <1>9, <1>11 DEF TypeOK, rows
<1>13. /\ Len(queue'[user]) = n + 1
       /\ \A i \in 1 .. n : queue'[user][i] = rows[i]
       /\ queue'[user][n + 1] = batch
       /\ \A i \in 1 .. n + 1 : i \in 1 .. n \/ i = n + 1
       /\ \A i \in 1 .. n : i \in 1 .. n + 1
  BY <1>9, <1>12
<1>14. key = {}
  <2> SUFFICES ASSUME NEW c \in key PROVE FALSE
    OBVIOUS
  <2>1. \E i \in 1 .. n : rows[i].id = nextId
    BY DEF Rows, CallbackRows, rows
  <2>2. QED
    BY <1>6, <1>9, <2>1
<1>15. \A v : Run(v) => Run(v)' /\ ownerOf'[v] = ownerOf[v]
  BY <1>1, WorkerRunGrows DEF RightUser
<1>16. RowsAreOwn'
  <2> SUFFICES ASSUME NEW u \in Accounts, NEW i \in 1 .. Len(queue'[u]),
                      NEW row, row = queue'[u][i]
               PROVE  Run(row.write)' /\ ownerOf'[row.write] = u /\ row.id <= row.write
    BY DEF RowsAreOwn
  <2>1. CASE u = user /\ i = n + 1
    BY <1>3, <1>5, <1>10, <1>13, <2>1
  <2>2. CASE u = user /\ i # n + 1
    <3>1. i \in 1 .. n /\ row = queue[user][i]
      BY <1>13, <2>2 DEF rows
    <3>2. QED
      BY <1>9, <1>15, <2>2, <3>1 DEF Rows, RowsAreOwn, rows
  <2>3. CASE u # user
    <3>1. i \in 1 .. Len(queue[u]) /\ row = queue[u][i]
      BY <1>12, <2>3
    <3>2. QED
      BY <1>15, <3>1 DEF Rows, RowsAreOwn
  <2>4. QED
    BY <2>1, <2>2, <2>3
<1>17. RowsAscend'
  <2>1. \A i, j \in 1 .. n + 1 : i < j => queue'[user][i].id < queue'[user][j].id
    <3> SUFFICES ASSUME NEW i \in 1 .. n + 1, NEW j \in 1 .. n + 1, i < j
                 PROVE  queue'[user][i].id < queue'[user][j].id
      OBVIOUS
    <3>1. i \in 1 .. n
      BY <1>9
    <3>2. CASE j = n + 1
      BY <1>9, <1>10, <1>13, <3>1, <3>2
    <3>3. CASE j \in 1 .. n
      BY <1>13, <3>1, <3>3 DEF Rows, RowsAscend, Ascending, rows, TypeOK
    <3>4. QED
      BY <1>13, <3>2, <3>3
  <2>2. \A i \in 1 .. n + 1 : queue'[user][i].id < nextId'
    BY <1>6, <1>9, <1>10, <1>13
  <2>3. \A u \in Accounts \ {user} : \A i \in 1 .. Len(queue[u]) : queue[u][i].id < nextId'
    <3> SUFFICES ASSUME NEW u \in Accounts, NEW i \in 1 .. Len(queue[u])
                 PROVE  queue[u][i].id < nextId'
      OBVIOUS
    <3>1. queue[u][i].id < nextId /\ queue[u] \in Seq(Batch)
      BY DEF Rows, RowsAscend, TypeOK
    <3>2. queue[u][i] \in Batch
      BY <3>1, ElementOfSeq
    <3>3. queue[u][i].id \in Nat
      BY <3>2 DEF Batch
    <3>4. QED
      BY <1>6, <3>1, <3>3
  <2>4. QED
    BY <1>12, <1>13, <2>1, <2>2, <2>3 DEF Rows, RowsAscend, Ascending
<1>18. ServerRun'
  BY <1>15 DEF Rows, ServerRun
<1>19. CallbackRows'
  <2>1. ASSUME NEW c \in callbacks
        PROVE  \E i \in 1 .. Len(queue'[c.user]) :
                 queue'[c.user][i].id = c.id /\ queue'[c.user][i].write = c.write
    <3>1. PICK i \in 1 .. Len(queue[c.user]) :
            queue[c.user][i].id = c.id /\ queue[c.user][i].write = c.write
      BY DEF Rows, CallbackRows
    <3>2. c.user \in Accounts
      BY DEF TypeOK
    <3>3. CASE c.user = user
      BY <1>13, <3>1, <3>3 DEF rows
    <3>4. CASE c.user # user
      BY <1>12, <3>1, <3>2, <3>4
    <3>5. QED
      BY <3>3, <3>4
  <2>2. ASSUME NEW c, c = [user |-> user, id |-> nextId, write |-> w]
        PROVE  \E i \in 1 .. Len(queue'[c.user]) :
                 queue'[c.user][i].id = c.id /\ queue'[c.user][i].write = c.write
    <3>1. n + 1 \in 1 .. n + 1 /\ c.user = user /\ c.id = nextId /\ c.write = w
      BY <1>9, <2>2
    <3>2. QED
      BY <1>10, <1>13, <3>1
  <2>3. callbacks' = callbacks \cup {[user |-> user, id |-> nextId, write |-> w]}
    BY <1>14
  <2>4. QED
    BY <2>1, <2>2, <2>3 DEF CallbackRows
<1>20. QED
  BY <1>3, <1>7, <1>8, <1>10, <1>12, <1>14, <1>16, <1>17, <1>18, <1>19 DEF Rows, rows

\* The row of the first batch of the pipeline goes, and its handler is told.
LEMMA RowRemoved ==
  ASSUME TypeOK, RightUser, Rows, PipelineRows, pipeline # <<>>,
         NEW answer \in {"ok", "error"}, Settle(Head(pipeline), answer),
         running' = running, tasks' = tasks, ownerOf' = ownerOf, nextId' = nextId,
         commits' = commits, refused' = refused
  PROVE  /\ queue[user] # <<>> /\ Head(queue[user]) = pipeline[1]
         /\ Head(pipeline) = pipeline[1] /\ pipeline[1] \in Batch
         /\ queue' = [queue EXCEPT ![user] = Tail(@)] /\ queue'[user] = Tail(queue[user])
         /\ queue' \in [Accounts -> Seq(Batch)]
         /\ callbacks' \subseteq callbacks
         /\ told' \in [Writes -> {"nothing", "ok", "error"}]
         /\ \A w \in Writes : told'[w] = told[w] \/ (w = pipeline[1].write /\ told'[w] = answer)
         /\ Tail(pipeline) \in Seq(Batch) /\ Len(Tail(pipeline)) = Len(pipeline) - 1
         /\ \A i \in 1 .. Len(pipeline) - 1 : Tail(pipeline)[i] = pipeline[i + 1]
         /\ Prefix(Tail(pipeline), queue'[user])
         /\ Rows'
<1> DEFINE rows == queue[user]
           n == Len(rows)
           batch == Head(pipeline)
           found == { c \in callbacks : c.user = user /\ c.id = batch.id }
<1>1. /\ callbacks' = callbacks \ found
      /\ told' = [w \in Writes |-> IF \E c \in found : c.write = w THEN answer ELSE told[w]]
      /\ queue' = [queue EXCEPT ![user] = RemoveMutationBatch(@, batch)]
  BY DEF Settle, NotifyUser
<1>2. user \in Accounts /\ queue \in [Accounts -> Seq(Batch)] /\ rows \in Seq(Batch)
  BY DEF TypeOK
<1>3. /\ n \in Nat \ {0} /\ DOMAIN rows = 1 .. n
      /\ batch = pipeline[1] /\ rows[1] = batch /\ Head(rows) = batch /\ rows # <<>>
      /\ pipeline[1] \in Batch /\ pipeline \in Seq(Batch) /\ Len(pipeline) \in Nat \ {0}
      /\ Len(pipeline) <= n /\ 1 \in 1 .. n
  <2>1. /\ pipeline \in Seq(Batch) /\ Len(pipeline) \in Nat \ {0} /\ batch = pipeline[1]
        /\ 1 \in 1 .. Len(pipeline)
    BY HeadTailProperties DEF TypeOK
  <2>2. pipeline[1] \in Batch
    BY <2>1, ElementOfSeq
  <2>3. Len(pipeline) <= n /\ rows[1] = pipeline[1] /\ n \in Nat /\ DOMAIN rows = 1 .. n
    BY <1>2, <2>1 DEF PipelineRows, Prefix
  <2> HIDE DEF rows, batch
  <2>4. n # 0 /\ 1 \in 1 .. n
    BY <2>1, <2>3
  <2>5. rows # <<>> /\ Head(rows) = rows[1]
    BY <1>2, <2>4
  <2>6. QED
    BY <2>1, <2>2, <2>3, <2>4, <2>5
<1> HIDE DEF rows, batch
<1>4. /\ \A i \in 1 .. n : rows[i].id \in Nat
      /\ \A i, j \in 1 .. n : i < j => rows[i].id < rows[j].id
  <2>1. \A i \in 1 .. n : rows[i] \in Batch
    BY <1>2, ElementOfSeq
  <2>2. QED
    BY <1>2, <2>1 DEF Batch, Rows, RowsAscend, Ascending, rows
<1>5. \A i \in 1 .. n : rows[i].id = batch.id => i = 1
  <2> SUFFICES ASSUME NEW i \in 1 .. n, rows[i].id = batch.id, i # 1 PROVE FALSE
    OBVIOUS
  <2>1. 1 < i
    BY <1>3
  <2>2. rows[1].id < rows[i].id /\ rows[1].id \in Nat
    BY <1>3, <1>4, <2>1
  <2>3. QED
    BY <1>3, <2>2
<1>6. RemoveMutationBatch(rows, batch) = Tail(rows)
  <2> DEFINE first == CHOOSE i \in DOMAIN rows : rows[i].id = batch.id
  <2>1. first = 1
    BY <1>3, <1>5
  <2>2. RemoveAt(rows, 1) = Tail(rows)
    <3>1. RemoveAt(rows, 1) = SubSeq(rows, 1, 0) \o SubSeq(rows, 2, Len(rows))
      BY DEF RemoveAt
    <3>2. SubSeq(rows, 1, 0) = <<>>
      BY <1>2
    <3>3. SubSeq(rows, 2, Len(rows)) = Tail(rows)
      BY <1>2, <1>3
    <3>4. QED
      BY <1>2, <1>3, <3>1, <3>2, <3>3
  <2>3. QED
    BY <2>1, <2>2 DEF RemoveMutationBatch
<1>7. /\ queue' = [queue EXCEPT ![user] = Tail(@)]
      /\ queue'[user] = Tail(rows)
      /\ queue' \in [Accounts -> Seq(Batch)]
      /\ \A u \in Accounts : u # user => queue'[u] = queue[u]
  <2>1. queue' = [queue EXCEPT ![user] = Tail(@)]
    BY <1>1, <1>6 DEF rows
  <2>2. Tail(rows) \in Seq(Batch)
    BY <1>2, <1>3
  <2>3. QED
    BY <1>2, <2>1, <2>2 DEF rows
<1>8. /\ Len(queue'[user]) = n - 1
      /\ \A i \in 1 .. n - 1 : queue'[user][i] = rows[i + 1]
  <2>1. Len(Tail(rows)) = n - 1 /\ \A i \in 1 .. n - 1 : Tail(rows)[i] = rows[i + 1]
    BY <1>2, <1>3
  <2>2. QED
    BY <1>7, <2>1
<1>9. \A i \in 1 .. n - 1 : i + 1 \in 1 .. n
  BY <1>3
<1>10. \A w : Run(w) => Run(w)' /\ ownerOf'[w] = ownerOf[w]
  BY ShiftedSame, WorkerRunGrows DEF RightUser
<1>11. RowsAreOwn'
  <2> SUFFICES ASSUME NEW u \in Accounts, NEW i \in 1 .. Len(queue'[u]),
                      NEW row, row = queue'[u][i]
               PROVE  Run(row.write)' /\ ownerOf'[row.write] = u /\ row.id <= row.write
    BY DEF RowsAreOwn
  <2>1. \E j \in 1 .. Len(queue[u]) : row = queue[u][j]
    BY <1>7, <1>8, <1>9 DEF rows
  <2>2. QED
    BY <1>10, <2>1 DEF Rows, RowsAreOwn
<1>12. RowsAscend'
  <2>1. \A i, j \in 1 .. n - 1 : i < j => queue'[user][i].id < queue'[user][j].id
    <3> SUFFICES ASSUME NEW i \in 1 .. n - 1, NEW j \in 1 .. n - 1, i < j
                 PROVE  queue'[user][i].id < queue'[user][j].id
      OBVIOUS
    <3>1. i + 1 < j + 1
      BY <1>3
    <3>2. QED
      BY <1>4, <1>8, <1>9, <3>1
  <2>2. running => \A i \in 1 .. n - 1 : queue'[user][i].id < nextId
    BY <1>2, <1>8, <1>9 DEF Rows, RowsAscend, rows
  <2>3. QED
    BY <1>7, <1>8, <2>1, <2>2 DEF Rows, RowsAscend, Ascending
<1>13. ServerRun'
  BY <1>10 DEF Rows, ServerRun
<1>14. CallbackRows'
  <2>1. ASSUME NEW c \in callbacks'
        PROVE  \E i \in 1 .. Len(queue'[c.user]) :
                 queue'[c.user][i].id = c.id /\ queue'[c.user][i].write = c.write
    <3>1. c \in callbacks /\ ~(c.user = user /\ c.id = batch.id) /\ c.user \in Accounts
      BY <1>1 DEF TypeOK
    <3>2. PICK i \in 1 .. Len(queue[c.user]) :
            queue[c.user][i].id = c.id /\ queue[c.user][i].write = c.write
      BY <3>1 DEF Rows, CallbackRows
    <3>3. CASE c.user = user
      <4>1. i \in 1 .. n /\ i # 1
        BY <1>3, <3>1, <3>2, <3>3 DEF rows
      <4>2. i - 1 \in 1 .. n - 1 /\ (i - 1) + 1 = i
        BY <1>3, <4>1
      <4>3. queue'[user][i - 1] = rows[i]
        BY <1>8, <4>2
      <4>4. QED
        BY <1>8, <3>2, <3>3, <4>2, <4>3 DEF rows
    <3>4. CASE c.user # user
      BY <1>7, <3>1, <3>2, <3>4
    <3>5. QED
      BY <3>3, <3>4
  <2>2. QED
    BY <2>1 DEF CallbackRows
<1>15. \A w \in Writes : told'[w] = told[w] \/ (w = pipeline[1].write /\ told'[w] = answer)
  <2>1. \A c \in found : c.write = pipeline[1].write
    BY <1>3, <1>5 DEF Rows, CallbackRows, rows
  <2>2. QED
    BY <1>1, <2>1
<1>16. told' \in [Writes -> {"nothing", "ok", "error"}]
  BY <1>1 DEF TypeOK
<1>17. /\ Tail(pipeline) \in Seq(Batch) /\ Len(Tail(pipeline)) = Len(pipeline) - 1
       /\ \A i \in 1 .. Len(pipeline) - 1 : Tail(pipeline)[i] = pipeline[i + 1]
  BY <1>3
<1>18. Prefix(Tail(pipeline), queue'[user])
  <2>1. Len(pipeline) - 1 <= n - 1
    BY <1>3
  <2>2. ASSUME NEW i \in 1 .. Len(pipeline) - 1 PROVE Tail(pipeline)[i] = queue'[user][i]
    <3>1. i \in 1 .. n - 1 /\ i + 1 \in 1 .. Len(pipeline)
      BY <1>3
    <3>2. pipeline[i + 1] = rows[i + 1]
      BY <3>1 DEF PipelineRows, Prefix, rows
    <3>3. QED
      BY <1>8, <1>17, <3>1, <3>2
  <2>3. QED
    BY <1>8, <1>17, <2>1, <2>2 DEF Prefix
<1>19. Rows'
  BY <1>11, <1>12, <1>13, <1>14 DEF Rows
<1>20. QED
  BY <1>1, <1>3, <1>7, <1>15, <1>16, <1>17, <1>18, <1>19 DEF rows, batch

-----------------------------------------------------------------------------
(* Types, and the stream, in a step of the worker queue.                   *)

Task ==
  [kind : {"write"}, write : Writes] \cup [kind : {"credential"}, user : Accounts]
  \cup [kind : {"token"}, ok : BOOLEAN, user : Accounts, closeCount : Nat]

Token == [stage : {"asked", "fetching"}, user : Accounts, counter : Nat, closeCount : Nat]

\* What a step of the worker queue leaves alone.
WorkerFrame ==
  /\ running' = running /\ authUser' = authUser /\ main' = main
  /\ tokenCounter' = tokenCounter /\ switches' = switches /\ ownerOf' = ownerOf

LEMMA WorkerType ==
  ASSUME TypeOK, WorkerFrame, NEW k, Shifted(k), tasks' = tasks \/ tasks' = Tail(tasks),
         faults' \in 0 .. MaxFaults, StartStep(stream) \/ \E s \in Stream : StartStep(s),
         user' \in Accounts, queue' \in [Accounts -> Seq(Batch)], nextId' \in Nat,
         callbacks' \subseteq [user : Accounts, id : Nat, write : Writes],
         pipeline' \in Seq(Batch), Len(pipeline') <= kMaxPendingWrites,
         requests' \in Seq(Request), responses' \in Seq(Request),
         ended' \in {"no", "transient", "permanent"},
         commits' \subseteq [write : Writes, user : Accounts], refused' \subseteq Writes,
         told' \in [Writes -> {"nothing", "ok", "error"}]
  PROVE  TypeOK'
<1>1. tokens' \subseteq Token
  <2>1. PICK s \in Stream : StartStep(s)
    BY DEF TypeOK
  <2>2. Asked(s.closeCount) \in Token
    BY <2>1 DEF Asked, Token, Stream, TypeOK, Accounts
  <2>3. tokens \subseteq Token
    BY DEF TypeOK, Token
  <2>4. QED
    BY <2>1, <2>2, <2>3 DEF StartStep
<1>2. tasks' \in Seq(Task)
  <2>1. tasks \in Seq(Task)
    BY DEF TypeOK, Task
  <2>2. CASE tasks' = Tail(tasks) /\ tasks # <<>>
    BY <2>1, <2>2
  <2>3. CASE tasks' = tasks
    BY <2>1, <2>3
  <2>4. CASE tasks = <<>> /\ tasks' # tasks
    BY <2>1, <2>4, ShiftIndices DEF Shifted
  <2>5. QED
    BY <2>2, <2>3, <2>4
<1>3. stream' \in Stream
  BY DEF StartStep
<1>4. QED
  BY <1>1, <1>2, <1>3 DEF TypeOK, WorkerFrame, Token, Task

\* A stream that is not started, or may be asked to, has carried nothing.
LEMMA NothingCarried ==
  ASSUME NEW s, StartStep(s), ~IsOpen(s), ~s.handshake, ~stream'.idle,
         requests' = <<>>, responses' = <<>>, ended' = "no"
  PROVE  StreamNotReady' /\ StreamReady'
<1>1. ~IsOpen(stream)' /\ ~stream'.handshake
  BY DEF StartStep, IsStarted, IsOpen
<1>2. QED
  BY <1>1 DEF StreamNotReady, StreamReady, NotReady, Ready

\* What has been carried, and is sent, still fits when the pipeline has been filled.
LEMMA FillKeepsReady ==
  ASSUME TypeOK,
         NEW pipe \in Seq(Batch), NEW answers \in Seq(Request),
         NotReady(requests, answers), Ready(pipe, requests, answers),
         pipeline' \in Seq(Batch), Prefix(pipe, pipeline'),
         stream.handshake \/ pipeline' # <<>>,
         StartStep(stream),
         stream'.idle => \/ IsOpen(stream) /\ pipeline' = <<>>
                         \/ stream.idle /\ (stream.handshake => Len(pipeline') = Len(pipe)),
         Sent(pipe, stream, requests),
         responses' = answers, ended' = ended, user' = user,
         commits' = commits, refused' = refused
  PROVE  StreamNotReady' /\ StreamReady' /\ requests' \in Seq(Request)
<1>0. requests' \in Seq(Request)
  BY DEF Sent, TypeOK
<1>1. CASE ~IsOpen(stream)
  <2>1. requests' = <<>> /\ responses' = <<>> /\ ended' = "no" /\ ~stream.handshake /\ ~stream'.idle
    BY <1>1 DEF NotReady, Sent
  <2>2. QED
    BY <1>0, <1>1, <2>1, NothingCarried
<1>2. CASE IsOpen(stream) /\ ~stream.handshake
  <2>1. IsOpen(stream)' /\ ~stream'.handshake /\ stream'.user = stream.user
    BY <1>2 DEF StartStep, IsOpen, IsStarted
  <2>2. requests' = requests
    BY <1>2 DEF Sent
  <2>3. ~stream'.idle
    BY <1>2 DEF NotReady
  <2>4. StreamReady'
    BY <2>1 DEF StreamReady, Ready
  <2>5. StreamNotReady'
    BY <1>2, <2>1, <2>2, <2>3 DEF StreamNotReady, NotReady
  <2>6. QED
    BY <1>0, <2>4, <2>5
<1>3. CASE IsOpen(stream) /\ stream.handshake
  <2>1. IsOpen(stream)' /\ stream'.handshake /\ stream'.user = stream.user
    BY <1>3 DEF StartStep, IsOpen, IsStarted
  <2>2. StreamNotReady'
    BY <1>3, <2>1 DEF StreamNotReady, NotReady
  <2> DEFINE a == Len(answers)
             m == Len(requests)
             p == Len(pipe)
             q == Len(pipeline')
  <2>3. /\ a \in Nat /\ m \in Nat /\ p \in Nat /\ q \in Nat
        /\ a <= p /\ p <= q
        /\ \A i \in 1 .. a : answers[i] = pipe[i]
        /\ \A i \in 1 .. p : pipe[i] = pipeline'[i]
    BY <1>3 DEF TypeOK, Ready, Prefix
  <2>4. /\ Len(requests') = m + (q - p)
        /\ \A i \in 1 .. m : requests'[i] = requests[i]
        /\ \A i \in 1 .. q - p : requests'[m + i] = pipeline'[p + i]
    BY <1>3 DEF Sent
  <2> HIDE DEF a, m, p, q
  <2>5. Prefix(answers, pipeline')
    <3>1. a <= q /\ \A i \in 1 .. a : i \in 1 .. p
      BY <2>3
    <3>2. a <= q /\ \A i \in 1 .. a : answers[i] = pipeline'[i]
      BY <2>3, <3>1
    <3>3. QED
      BY <3>2 DEF Prefix, a, q
  <2>6. stream'.idle => pipeline' = <<>>
    <3>1. stream.idle /\ Len(pipeline') = Len(pipe) => pipeline' = <<>>
      BY <1>3 DEF Ready
    <3>2. QED
      BY <1>3, <3>1
  <2>7. ASSUME ended = "no"
        PROVE  /\ q = a + Len(requests')
               /\ \A i \in 1 .. Len(requests') : requests'[i] = pipeline'[a + i]
    <3>1. p = a + m /\ \A i \in 1 .. m : requests[i] = pipe[a + i]
      BY <1>3, <2>7 DEF Ready, a, m, p
    <3>2. q = a + Len(requests')
      BY <2>3, <2>4, <3>1
    <3>3. ASSUME NEW i \in 1 .. Len(requests') PROVE requests'[i] = pipeline'[a + i]
      <4>1. CASE i <= m
        <5>1. i \in 1 .. m /\ a + i \in 1 .. p
          BY <2>3, <2>4, <3>1, <3>3, <4>1
        <5>2. QED
          BY <2>3, <2>4, <3>1, <5>1
      <4>2. CASE i > m
        <5>1. i - m \in 1 .. q - p /\ m + (i - m) = i /\ p + (i - m) = a + i
          BY <2>3, <2>4, <3>1, <3>3, <4>2
        <5>2. requests'[m + (i - m)] = pipeline'[p + (i - m)]
          BY <2>4, <5>1
        <5>3. QED
          BY <5>1, <5>2
      <4>3. QED
        BY <2>3, <2>4, <3>3, <4>1, <4>2
    <3>4. QED
      BY <3>2, <3>3
  <2>8. ended = "permanent" => a < q /\ pipeline'[a + 1].write \in refused
    <3>1. ended = "permanent" => a < p /\ pipe[a + 1].write \in refused
      BY <1>3 DEF Ready, a, p
    <3>2. a < p => a < q /\ a + 1 \in 1 .. p
      BY <2>3
    <3>3. QED
      BY <2>3, <3>1, <3>2
  <2>9. /\ \A i \in 1 .. a : \E c \in commits : c.write = answers[i].write
        /\ ended = "transient" => answers = <<>>
    BY <1>3 DEF Ready, a
  <2>10. StreamReady'
    BY <2>5, <2>6, <2>7, <2>8, <2>9 DEF StreamReady, Ready, a, q
  <2>11. QED
    BY <1>0, <2>2, <2>10
<1>4. QED
  BY <1>1, <1>2, <1>3

-----------------------------------------------------------------------------
(* The steps of the worker queue.                                          *)

Untouched == commits' = commits /\ refused' = refused /\ ownerOf' = ownerOf

LEMMA StreamFacts ==
  ASSUME IInv
  PROVE  /\ stream \in Stream /\ stream.closeCount \in Nat
         /\ stream.handshake => IsOpen(stream)
         /\ stream.idle => IsOpen(stream)
         /\ user \in Accounts /\ queue[user] \in Seq(Batch) /\ Ascending(queue[user])
         /\ tasks = <<>> \/ running
         /\ ~IsStarted(stream) => ~IsOpen(stream) /\ stream.state # "starting"
  BY DEF IInv, TypeOK, Stream, StreamInv, StreamNotReady, NotReady, Rows, RowsAscend, Down,
         IsStarted, IsOpen

LEMMA WriteMutationsStep ==
  ASSUME IInv, tasks # <<>>, tasks' = Tail(tasks), tasks[1].kind = "write",
         WriteMutations(tasks[1].write), WorkerFrame, Untouched, faults' = faults
  PROVE  IInv'
<1> DEFINE w == tasks[1].write
           batch == [id |-> nextId, write |-> w]
           key == { c \in callbacks : c.user = user /\ c.id = nextId }
<1>0. TypeOK /\ Down /\ RightUser /\ Rows /\ StreamInv /\ Shifted(1)
  BY ShiftedTail DEF IInv
<1>1. /\ queue' = [queue EXCEPT ![user] = AddMutationBatch(@, batch)]
      /\ nextId' = nextId + 1
      /\ callbacks' = IF key # {} THEN callbacks
                      ELSE callbacks \cup {[user |-> user, id |-> nextId, write |-> w]}
      /\ FillWritePipeline(pipeline, queue'[user], stream, requests)
      /\ user' = user /\ responses' = responses /\ ended' = ended /\ told' = told
  BY DEF WriteMutations, wire
<1>2. running
  BY StreamFacts
<1>3. /\ w \in Writes /\ ownerOf[w] = user /\ nextId <= w
      /\ \A i : WriteInTasks(i)' => nextId' <= tasks'[i].write
      /\ nextId' <= Len(ownerOf) + 1
      /\ batch \in Batch /\ queue' = [queue EXCEPT ![user] = Append(@, batch)]
      /\ queue'[user] = Append(queue[user], batch)
      /\ key = {}
      /\ Rows'
  BY <1>0, <1>1, <1>2, RowAdded DEF WorkerFrame, Untouched
<1> HIDE DEF batch, key
<1>4. /\ queue[user] \in Seq(Batch) /\ user \in Accounts /\ stream \in Stream
      /\ pipeline \in Seq(Batch) /\ requests \in Seq(Request) /\ responses \in Seq(Request)
      /\ Len(pipeline) <= kMaxPendingWrites
      /\ stream.handshake => IsOpen(stream)
  BY <1>0, StreamFacts DEF TypeOK
<1>5. queue'[user] \in Seq(Batch) /\ queue'[user] # <<>> /\ queue' \in [Accounts -> Seq(Batch)]
  <2>1. Append(queue[user], batch) \in Seq(Batch) /\ Append(queue[user], batch) # <<>>
    <3>1. \A rows \in Seq(Batch) :
            /\ Append(rows, batch) \in Seq(Batch)
            /\ Len(Append(rows, batch)) = Len(rows) + 1 /\ Len(rows) \in Nat
      BY <1>3
    <3>2. \A rows \in Seq(Batch) : Append(rows, batch) # <<>>
      <4>1. \A n \in Nat : n + 1 # 0
        OBVIOUS
      <4>2. Len(<<>>) = 0
        OBVIOUS
      <4>3. QED
        BY <3>1, <4>1, <4>2
    <3>3. QED
      BY <1>4, <3>1, <3>2
  <2>2. QED
    BY <1>0, <1>3, <2>1 DEF TypeOK
<1>6. Ascending(queue'[user])
  BY <1>1, <1>3, <1>4 DEF Rows, RowsAscend, Ascending
<1>7. Prefix(pipeline, queue'[user])
  <2>1. Prefix(pipeline, queue[user])
    BY <1>0 DEF StreamInv, PipelineRows
  <2>2. Prefix(pipeline, Append(queue[user], batch))
    BY <1>3, <1>4, <2>1 DEF Prefix
  <2>3. QED
    BY <1>3, <2>2
<1>8. /\ pipeline' \in Seq(Batch) /\ Len(pipeline') <= kMaxPendingWrites
      /\ Prefix(pipeline', queue'[user]) /\ Prefix(pipeline, pipeline')
      /\ pipeline' # <<>>
      /\ StartStep(stream)
      /\ stream'.idle => \/ IsOpen(stream) /\ pipeline' = <<>>
                         \/ stream.idle /\ (stream.handshake => Len(pipeline') = Len(pipeline))
      /\ Sent(pipeline, stream, requests)
  <2> DEFINE rows == queue'[user]
  <2> HIDE DEF rows
  <2>1. /\ rows \in Seq(Batch) /\ Ascending(rows) /\ Prefix(pipeline, rows)
        /\ FillWritePipeline(pipeline, rows, stream, requests) /\ rows # <<>>
    BY <1>1, <1>5, <1>6, <1>7 DEF rows
  <2>2. /\ pipeline' \in Seq(Batch) /\ Len(pipeline') <= kMaxPendingWrites
        /\ Prefix(pipeline', rows) /\ Prefix(pipeline, pipeline')
        /\ pipeline' # <<>>
        /\ StartStep(stream)
        /\ stream'.idle => \/ IsOpen(stream) /\ pipeline' = <<>>
                           \/ stream.idle /\ (stream.handshake => Len(pipeline') = Len(pipeline))
        /\ Sent(pipeline, stream, requests)
    BY <1>4, <2>1, FillWritePipelineSteps
  <2>3. QED
    BY <2>2 DEF rows
<1>9. StreamNotReady' /\ StreamReady' /\ requests' \in Seq(Request)
  <2>1. NotReady(requests, responses) /\ Ready(pipeline, requests, responses)
    BY <1>0 DEF StreamInv, StreamNotReady, StreamReady
  <2>2. QED
    BY <1>0, <1>1, <1>4, <1>8, <2>1, FillKeepsReady DEF Untouched
<1>10. TypeOK'
  <2>1. /\ nextId' \in Nat /\ callbacks' \subseteq [user : Accounts, id : Nat, write : Writes]
        /\ told' \in [Writes -> {"nothing", "ok", "error"}]
        /\ ended' \in {"no", "transient", "permanent"} /\ faults' \in 0 .. MaxFaults
        /\ commits' \subseteq [write : Writes, user : Accounts] /\ refused' \subseteq Writes
    <3>1. nextId' \in Nat
      BY <1>0, <1>1 DEF TypeOK
    <3>2. callbacks' \subseteq [user : Accounts, id : Nat, write : Writes]
      BY <1>0, <1>1, <1>3, <1>4 DEF TypeOK
    <3>3. told' \in [Writes -> {"nothing", "ok", "error"}]
      BY <1>0, <1>1 DEF TypeOK
    <3>4. /\ ended' \in {"no", "transient", "permanent"} /\ faults' \in 0 .. MaxFaults
          /\ commits' \subseteq [write : Writes, user : Accounts] /\ refused' \subseteq Writes
      BY Zenon, <1>0, <1>1 DEF TypeOK, Untouched
    <3>5. QED
      BY <3>1, <3>2, <3>3, <3>4
  <2>2. user' \in Accounts /\ responses' \in Seq(Request)
    BY <1>1, <1>4
  <2>3. QED
    BY <1>0, <1>5, <1>8, <1>9, <2>1, <2>2, WorkerType
<1>11. RightUser'
  <2>1. UserStep(1)
    BY <1>1 DEF UserStep
  <2>2. Quiet(1) \/ Fresh(1)
    <3>1. CASE stream'.state = stream.state /\ tokens' = tokens
      BY <1>1, <1>8, <3>1 DEF Quiet, StartStep
    <3>2. CASE ~(stream'.state = stream.state /\ tokens' = tokens)
      <4>1. /\ ~IsStarted(stream) /\ stream' \in Stream /\ stream'.closeCount = stream.closeCount
            /\ \/ tokens' = tokens
               \/ tokens' = tokens \cup {Asked(stream'.closeCount)} /\ stream'.state = "starting"
        BY <1>8, <3>2 DEF StartStep
      <4>2. QED
        BY <1>0, <4>1, StreamFacts, NotStartingIsFresh DEF RightUser, Tokens
    <3>3. QED
      BY <3>1, <3>2
  <2>3. QED
    BY <1>0, <1>3, <2>1, <2>2, WorkerRight DEF WorkerFrame
<1>12. Down' /\ PipelineRows'
  BY <1>1, <1>2, <1>8 DEF Down, PipelineRows, WorkerFrame
<1>13. QED
  BY <1>3, <1>9, <1>10, <1>11, <1>12 DEF IInv, StreamInv

LEMMA HandleCredentialChangeStep ==
  ASSUME IInv, tasks # <<>>, tasks' = Tail(tasks), tasks[1].kind = "credential",
         HandleCredentialChange(tasks[1].user), WorkerFrame, Untouched, faults' = faults
  PROVE  IInv'
<1> DEFINE u == tasks[1].user
           s == Stop(stream)
<1>0. TypeOK /\ Down /\ RightUser /\ Rows /\ StreamInv /\ Shifted(1) /\ running
  BY ShiftedTail, StreamFacts DEF IInv
<1>1. /\ user' = u
      /\ nextId' = IF u # user THEN LoadNextBatchId(queue) ELSE nextId
      /\ FillWritePipeline(<<>>, queue[u], s, <<>>)
      /\ responses' = <<>> /\ ended' = "no"
      /\ queue' = queue /\ callbacks' = callbacks /\ told' = told
  BY DEF HandleCredentialChange
<1>2. u \in Accounts
  BY <1>0, ShiftedTail, TaskTypes
<1>3. /\ s \in Stream /\ ~IsStarted(s) /\ ~s.handshake /\ ~s.idle /\ ~IsOpen(s)
      /\ \/ s.closeCount = stream.closeCount + 1
         \/ s.closeCount = stream.closeCount /\ ~IsStarted(stream)
  BY StreamFacts, StopProperties DEF IsStarted
<1> HIDE DEF s, u
<1>4. /\ queue[u] \in Seq(Batch) /\ Ascending(queue[u]) /\ Prefix(<<>>, queue[u])
      /\ <<>> \in Seq(Batch) /\ Len(<<>>) <= kMaxPendingWrites /\ <<>> \in Seq(Request)
  BY <1>0, <1>2, ClientAssumption DEF TypeOK, Rows, RowsAscend, Prefix
<1>5. /\ pipeline' \in Seq(Batch) /\ Len(pipeline') <= kMaxPendingWrites
      /\ Prefix(pipeline', queue[u])
      /\ StartStep(s) /\ ~stream'.idle /\ requests' = <<>>
  BY <1>1, <1>3, <1>4, FillWritePipelineSteps DEF Sent
<1>6. StreamNotReady' /\ StreamReady'
  BY <1>1, <1>3, <1>5, NothingCarried
<1>7. /\ nextId' \in Nat /\ nextId' <= Len(ownerOf) + 1
      /\ \A v \in Accounts : \A i \in 1 .. Len(queue[v]) : queue[v][i].id < nextId'
      /\ \A i : WriteInTasks(i)' => nextId' <= tasks'[i].write
  <2>1. /\ nextId' \in Nat /\ nextId' <= Len(ownerOf) + 1
        /\ \A v \in Accounts : \A i \in 1 .. Len(queue[v]) : queue[v][i].id < nextId'
        /\ \A i : WriteInTasks(i) => nextId' <= tasks[i].write
    <3>1. CASE u # user
      BY <1>0, <1>1, <3>1, LoadNextBatchIdProperties DEF Rows
    <3>2. CASE u = user
      BY <1>0, <1>1, <3>2 DEF RightUser, WritesAscend, Rows, RowsAscend, TypeOK
    <3>3. QED
      BY <3>1, <3>2
  <2>2. \A i : WriteInTasks(i)' => WriteInTasks(i + 1) /\ tasks'[i] = tasks[i + 1]
    BY <1>0, ShiftIndices
  <2>3. QED
    BY <2>1, <2>2
<1>8. TypeOK'
  <2>1. /\ callbacks' \subseteq [user : Accounts, id : Nat, write : Writes]
        /\ told' \in [Writes -> {"nothing", "ok", "error"}] /\ queue' \in [Accounts -> Seq(Batch)]
        /\ ended' \in {"no", "transient", "permanent"} /\ faults' \in 0 .. MaxFaults
        /\ commits' \subseteq [write : Writes, user : Accounts] /\ refused' \subseteq Writes
    BY <1>0, <1>1 DEF TypeOK, Untouched
  <2>2. user' \in Accounts /\ responses' \in Seq(Request) /\ requests' \in Seq(Request)
    BY <1>1, <1>2, <1>4, <1>5
  <2>3. QED
    BY <1>0, <1>3, <1>5, <1>7, <2>1, <2>2, WorkerType
<1>9. RightUser'
  <2>1. UserStep(1)
    BY <1>1 DEF UserStep, u
  <2>2. /\ stream' \in Stream /\ stream'.closeCount = s.closeCount
        /\ \/ tokens' = tokens
           \/ tokens' = tokens \cup {Asked(stream'.closeCount)} /\ stream'.state = "starting"
    BY <1>5 DEF StartStep
  <2>3. CASE s.closeCount = stream.closeCount + 1
    <3>1. stream'.closeCount > stream.closeCount
      BY <2>2, <2>3, StreamFacts
    <3>2. Fresh(1)
      BY <1>0, <2>2, <3>1, ClosedIsFresh DEF RightUser, Tokens
    <3>3. QED
      BY <1>0, <1>7, <2>1, <3>2, WorkerRight DEF WorkerFrame, Untouched
  <2>4. CASE s.closeCount = stream.closeCount /\ ~IsStarted(stream)
    <3>1. Fresh(1)
      BY <1>0, <2>2, <2>4, StreamFacts, NotStartingIsFresh DEF RightUser, Tokens
    <3>2. QED
      BY <1>0, <1>7, <2>1, <3>1, WorkerRight DEF WorkerFrame, Untouched
  <2>5. QED
    BY <1>3, <2>3, <2>4
<1>10. Rows'
  <2>1. \A w : Run(w) => Run(w)' /\ ownerOf'[w] = ownerOf[w]
    BY <1>0, WorkerRunGrows DEF RightUser, Untouched
  <2>2. QED
    BY <1>0, <1>1, <1>7, <2>1, RowsKept DEF Untouched
<1>11. Down' /\ PipelineRows'
  BY <1>0, <1>1, <1>5 DEF Down, PipelineRows, WorkerFrame
<1>12. QED
  BY <1>6, <1>8, <1>9, <1>10, <1>11 DEF IInv, StreamInv

\* A stream that fails starts again, and nothing else changes.
LEMMA CloseWithErrorStep ==
  ASSUME IInv, running, NEW k, Shifted(k), tasks' = tasks \/ tasks' = Tail(tasks),
         k = 1 => tasks[1].kind # "credential",
         CloseWithError, WorkerFrame, Untouched, faults' = faults
  PROVE  IInv'
<1> DEFINE s == Close(stream, "error")
<1>0. TypeOK /\ Down /\ RightUser /\ Rows /\ StreamInv
  BY DEF IInv
<1>1. /\ StartWriteStream(pipeline, s)
      /\ requests' = <<>> /\ responses' = <<>> /\ ended' = "no"
      /\ pipeline' = pipeline /\ user' = user /\ queue' = queue /\ nextId' = nextId
      /\ callbacks' = callbacks /\ told' = told
  BY DEF CloseWithError, local
<1>2. /\ s \in Stream /\ s.state = "error" /\ s.closeCount = stream.closeCount + 1
      /\ ~s.handshake /\ ~s.idle
  BY StreamFacts, CloseProperties DEF States
<1> HIDE DEF s
<1>3. StartStep(s) /\ ~stream'.idle /\ ~IsOpen(s)
  BY <1>1, <1>2, StartWriteStreamSteps DEF IsOpen
<1>4. StreamNotReady' /\ StreamReady'
  BY <1>1, <1>2, <1>3, NothingCarried
<1>5. TypeOK'
  <2>1. /\ callbacks' \subseteq [user : Accounts, id : Nat, write : Writes]
        /\ told' \in [Writes -> {"nothing", "ok", "error"}] /\ queue' \in [Accounts -> Seq(Batch)]
        /\ ended' \in {"no", "transient", "permanent"} /\ faults' \in 0 .. MaxFaults
        /\ commits' \subseteq [write : Writes, user : Accounts] /\ refused' \subseteq Writes
        /\ user' \in Accounts /\ nextId' \in Nat
        /\ pipeline' \in Seq(Batch) /\ Len(pipeline') <= kMaxPendingWrites
    BY <1>0, <1>1 DEF TypeOK, Untouched
  <2>2. responses' \in Seq(Request) /\ requests' \in Seq(Request)
    BY <1>1
  <2>3. QED
    BY <1>0, <1>2, <1>3, <2>1, <2>2, WorkerType
<1>6. \A i : WriteInTasks(i)' => nextId' <= tasks'[i].write
  BY <1>0, <1>1, ShiftIndices DEF RightUser, WritesAscend
<1>7. RightUser'
  <2>1. UserStep(k)
    BY <1>1 DEF UserStep
  <2>2. /\ stream' \in Stream /\ stream'.closeCount = stream.closeCount + 1
        /\ \/ tokens' = tokens
           \/ tokens' = tokens \cup {Asked(stream'.closeCount)} /\ stream'.state = "starting"
    BY <1>2, <1>3 DEF StartStep
  <2>3. Fresh(k)
    <3>1. stream'.closeCount > stream.closeCount
      BY <2>2, StreamFacts
    <3>2. QED
      BY <1>0, <2>2, <3>1, ClosedIsFresh DEF RightUser, Tokens
  <2>4. nextId' <= Len(ownerOf) + 1
    BY <1>0, <1>1 DEF RightUser, WritesAscend
  <2>5. QED
    BY <1>0, <1>6, <2>1, <2>3, <2>4, WorkerRight DEF WorkerFrame, Untouched
<1>8. Rows'
  <2>1. \A w : Run(w) => Run(w)' /\ ownerOf'[w] = ownerOf[w]
    BY <1>0, WorkerRunGrows DEF RightUser, Untouched
  <2>2. \A u \in Accounts : \A i \in 1 .. Len(queue[u]) : queue[u][i].id < nextId'
    BY <1>0, <1>1 DEF Rows, RowsAscend
  <2>3. QED
    BY <1>0, <1>1, <2>1, <2>2, RowsKept DEF Untouched
<1>9. Down' /\ PipelineRows'
  BY <1>0, <1>1 DEF Down, StreamInv, PipelineRows, WorkerFrame
<1>10. QED
  BY <1>4, <1>5, <1>7, <1>8, <1>9 DEF IInv, StreamInv

\* A step that leaves user, rows, numbers and pipeline alone.
LEMMA LocalKept ==
  ASSUME IInv, WorkerFrame, NEW k, Shifted(k), k = 1 => tasks[1].kind # "credential",
         Quiet(k) \/ Fresh(k),
         user' = user, queue' = queue, nextId' = nextId, callbacks' = callbacks,
         pipeline' = pipeline, running
  PROVE  /\ RightUser' /\ Down' /\ PipelineRows'
         /\ \A w : Run(w) => Run(w)' /\ ownerOf'[w] = ownerOf[w]
         /\ Untouched => Rows'
<1>0. TypeOK /\ Down /\ RightUser /\ Rows /\ StreamInv
  BY DEF IInv
<1>1. \A i : WriteInTasks(i)' => nextId' <= tasks'[i].write
  BY <1>0, ShiftIndices DEF RightUser, WritesAscend
<1>2. RightUser'
  <2>1. UserStep(k)
    BY DEF UserStep
  <2>2. nextId' <= Len(ownerOf) + 1
    BY <1>0 DEF RightUser, WritesAscend
  <2>3. QED
    BY <1>0, <1>1, <2>1, <2>2, WorkerRight DEF WorkerFrame
<1>3. \A w : Run(w) => Run(w)' /\ ownerOf'[w] = ownerOf[w]
  BY <1>0, WorkerRunGrows DEF RightUser, WorkerFrame
<1>4. Untouched => Rows'
  <2>1. \A u \in Accounts : \A i \in 1 .. Len(queue[u]) : queue[u][i].id < nextId'
    BY <1>0 DEF Rows, RowsAscend
  <2>2. QED
    BY <1>0, <1>3, <2>1, RowsKept DEF Untouched
<1>5. Down' /\ PipelineRows'
  BY <1>0 DEF Down, StreamInv, PipelineRows, WorkerFrame
<1>6. QED
  BY <1>2, <1>3, <1>4, <1>5

\* And the types of it.
LEMMA LocalType ==
  ASSUME TypeOK, WorkerFrame, NEW k, Shifted(k), tasks' = tasks \/ tasks' = Tail(tasks),
         faults' \in 0 .. MaxFaults,
         user' = user, queue' = queue, nextId' = nextId, callbacks' = callbacks,
         pipeline' = pipeline, told' = told,
         NEW s \in Stream, StartStep(s),
         requests' \in Seq(Request), responses' \in Seq(Request),
         ended' \in {"no", "transient", "permanent"},
         commits' \subseteq [write : Writes, user : Accounts], refused' \subseteq Writes
  PROVE  TypeOK'
<1>1. /\ callbacks' \subseteq [user : Accounts, id : Nat, write : Writes]
      /\ told' \in [Writes -> {"nothing", "ok", "error"}] /\ queue' \in [Accounts -> Seq(Batch)]
      /\ user' \in Accounts /\ nextId' \in Nat
      /\ pipeline' \in Seq(Batch) /\ Len(pipeline') <= kMaxPendingWrites
  BY DEF TypeOK
<1>2. QED
  BY <1>1, WorkerType

LEMMA SameStream ==
  ASSUME TypeOK, stream' = stream, tokens' = tokens
  PROVE  StartStep(stream)
  BY DEF StartStep, TypeOK

LEMMA ResumeStartStep ==
  ASSUME IInv, tasks # <<>>, tasks' = Tail(tasks), tasks[1].kind = "token",
         ResumeStart(tasks[1]), WorkerFrame, Untouched, faults' = faults
  PROVE  IInv'
<1> DEFINE t == tasks[1]
<1>0. TypeOK /\ Down /\ RightUser /\ Rows /\ StreamInv /\ Shifted(1) /\ running
  BY ShiftedTail, StreamFacts DEF IInv
<1>1. TokenInTasks(1) /\ t.kind # "credential" /\ t.ok \in BOOLEAN /\ t.user \in Accounts
  BY <1>0, ShiftedTail, TaskTypes DEF TokenInTasks
<1>2. faults' \in 0 .. MaxFaults /\ commits' \subseteq [write : Writes, user : Accounts]
      /\ refused' \subseteq Writes
  BY <1>0 DEF TypeOK, Untouched
<1> HIDE DEF t
<1>3. CASE ~Current(t)
  <2>1. UNCHANGED <<local, remote, tokens, wire, told>>
    BY <1>3 DEF ResumeStart, t
  <2>2. /\ user' = user /\ queue' = queue /\ nextId' = nextId /\ callbacks' = callbacks
        /\ pipeline' = pipeline /\ stream' = stream /\ requests' = requests
        /\ responses' = responses /\ ended' = ended /\ tokens' = tokens /\ told' = told
    BY <2>1 DEF local, remote, wire
  <2>3. Quiet(1)
    BY <1>1, <2>2 DEF Quiet, t
  <2>4. RightUser' /\ Down' /\ PipelineRows' /\ Rows'
    BY <1>0, <1>1, <2>2, <2>3, LocalKept DEF t
  <2>5. TypeOK'
    <3>1. requests' \in Seq(Request) /\ responses' \in Seq(Request)
          /\ ended' \in {"no", "transient", "permanent"} /\ stream \in Stream
      BY <1>0, <2>2 DEF TypeOK
    <3>2. QED
      BY <1>0, <1>2, <2>2, <3>1, LocalType, SameStream
  <2>6. StreamNotReady' /\ StreamReady'
    BY <1>0, <2>2 DEF StreamInv, StreamNotReady, StreamReady, NotReady, Ready, Untouched, IsOpen
  <2>7. QED
    BY <2>4, <2>5, <2>6 DEF IInv, StreamInv
<1>4. CASE Current(t) /\ ~t.ok
  BY <1>0, <1>1, <1>4, CloseWithErrorStep DEF ResumeStart, t
<1>5. CASE Current(t) /\ t.ok
  <2>1. /\ stream' = [stream EXCEPT !.state = "open", !.user = t.user]
        /\ requests' = <<Handshake>> /\ responses' = <<>> /\ ended' = "no"
        /\ UNCHANGED <<local, pipeline, tokens, told>>
    BY <1>5 DEF ResumeStart, t, Handshake
  <2>2. /\ user' = user /\ queue' = queue /\ nextId' = nextId /\ callbacks' = callbacks
        /\ pipeline' = pipeline /\ tokens' = tokens /\ told' = told
    BY <2>1 DEF local
  <2>3. stream.state = "starting" /\ t.user = user
    <3>1. \A j : NewsInTasks(j) => j > 1
      <4>1. \A j \in Nat \ {0} : j # 1 => j > 1
        OBVIOUS
      <4>2. \A j : NewsInTasks(j) => j \in Nat \ {0} /\ j # 1
        BY <1>1 DEF NewsInTasks, t
      <4>3. QED
        BY <4>1, <4>2
    <3>2. QED
      BY <1>0, <1>1, <1>5, <3>1 DEF RightUser, Tokens, OneToken, TokenUser, t
  <2>4. /\ stream' \in Stream /\ stream'.state = "open" /\ stream'.user = user
        /\ stream'.closeCount = stream.closeCount /\ ~stream'.handshake /\ ~stream'.idle
    <3>1. ~stream.handshake /\ ~stream.idle
      BY <2>3, StreamFacts DEF IsOpen
    <3>2. QED
      BY <1>1, <2>1, <2>3, <3>1, StreamFacts DEF Stream, States
  <2>5. Fresh(1)
    BY <1>0, <1>1, <1>5, <2>2, <2>4, TakenIsFresh DEF RightUser, Tokens, t
  <2>6. RightUser' /\ Down' /\ PipelineRows' /\ Rows'
    BY <1>0, <1>1, <2>2, <2>5, LocalKept DEF t
  <2>7. TypeOK'
    <3>1. requests' \in Seq(Request) /\ responses' \in Seq(Request)
          /\ ended' \in {"no", "transient", "permanent"}
      <4>1. Handshake \in Request
        BY DEF Handshake, Request
      <4>2. QED
        BY <2>1, <4>1
    <3>2. StartStep(stream')
      BY <2>2, <2>4 DEF StartStep
    <3>3. QED
      BY <1>0, <1>2, <2>2, <2>4, <3>1, <3>2, WorkerType, LocalType
  <2>8. StreamNotReady' /\ StreamReady'
    BY <2>1, <2>2, <2>4 DEF StreamNotReady, StreamReady, NotReady, Ready, IsOpen, Handshake
  <2>9. QED
    BY <2>6, <2>7, <2>8 DEF IInv, StreamInv
<1>6. QED
  BY <1>1, <1>3, <1>4, <1>5

LEMMA RunTaskStep ==
  ASSUME IInv, RunTask
  PROVE  IInv'
<1>1. /\ tasks # <<>> /\ tasks' = Tail(tasks) /\ WorkerFrame /\ Untouched /\ faults' = faults
  BY DEF RunTask, WorkerFrame, Untouched, auth, server
<1>2. Head(tasks) = tasks[1] /\ tasks[1].kind \in {"write", "credential", "token"}
  BY <1>1, ShiftedTail, TaskTypes DEF IInv
<1>3. CASE tasks[1].kind = "write"
  BY <1>1, <1>2, <1>3, WriteMutationsStep DEF RunTask
<1>4. CASE tasks[1].kind = "credential"
  BY <1>1, <1>2, <1>4, HandleCredentialChangeStep DEF RunTask
<1>5. CASE tasks[1].kind = "token"
  BY <1>1, <1>2, <1>5, ResumeStartStep DEF RunTask
<1>6. QED
  BY <1>2, <1>3, <1>4, <1>5

LEMMA BackoffElapsedStep ==
  ASSUME IInv, BackoffElapsed
  PROVE  IInv'
<1> DEFINE s == [stream EXCEPT !.state = "initial"]
<1>0. TypeOK /\ Down /\ RightUser /\ Rows /\ StreamInv
  BY DEF IInv
<1>1. /\ stream.state = "backoff" /\ StartWriteStream(pipeline, s)
      /\ WorkerFrame /\ Untouched /\ tasks' = tasks /\ faults' = faults
      /\ user' = user /\ queue' = queue /\ nextId' = nextId /\ callbacks' = callbacks
      /\ pipeline' = pipeline /\ requests' = requests /\ responses' = responses
      /\ ended' = ended /\ told' = told
  BY DEF BackoffElapsed, WorkerFrame, Untouched, auth, local, wire, server
<1>2. running
  BY <1>0, <1>1 DEF Down, NewStream
<1>3. ~stream.handshake /\ ~stream.idle /\ ~IsOpen(stream)
  BY <1>1, StreamFacts DEF IsOpen
<1>4. /\ s \in Stream /\ s.state = "initial" /\ s.closeCount = stream.closeCount
      /\ ~s.handshake /\ ~s.idle
  BY <1>3, StreamFacts DEF Stream, States
<1> HIDE DEF s
<1>5. StartStep(s) /\ ~stream'.idle /\ ~IsOpen(s)
  BY <1>1, <1>4, StartWriteStreamSteps DEF IsOpen
<1>6. requests' = <<>> /\ responses' = <<>> /\ ended' = "no"
  BY <1>0, <1>1, <1>3 DEF StreamInv, StreamNotReady, NotReady
<1>7. StreamNotReady' /\ StreamReady'
  BY <1>4, <1>5, <1>6, NothingCarried
<1>8. Shifted(0)
  BY <1>0, <1>1, ShiftedSame
<1>9. TypeOK'
  <2>1. requests' \in Seq(Request) /\ responses' \in Seq(Request)
        /\ ended' \in {"no", "transient", "permanent"} /\ faults' \in 0 .. MaxFaults
        /\ commits' \subseteq [write : Writes, user : Accounts] /\ refused' \subseteq Writes
    BY <1>0, <1>1 DEF TypeOK, Untouched
  <2>2. QED
    BY <1>0, <1>1, <1>4, <1>5, <1>8, <2>1, LocalType
<1>10. Fresh(0)
  <2>1. /\ stream' \in Stream /\ stream'.closeCount = stream.closeCount
        /\ \/ tokens' = tokens
           \/ tokens' = tokens \cup {Asked(stream'.closeCount)} /\ stream'.state = "starting"
    BY <1>4, <1>5 DEF StartStep
  <2>2. QED
    BY <1>0, <1>1, <2>1, NotStartingIsFresh DEF RightUser, Tokens
<1>11. RightUser' /\ Down' /\ PipelineRows' /\ Rows'
  BY <1>1, <1>2, <1>8, <1>10, LocalKept
<1>12. QED
  BY <1>7, <1>9, <1>11 DEF IInv, StreamInv

LEMMA IdleTimeoutStep ==
  ASSUME IInv, IdleTimeout
  PROVE  IInv'
<1> DEFINE s == Close(stream, "initial")
<1>0. TypeOK /\ Down /\ RightUser /\ Rows /\ StreamInv
  BY DEF IInv
<1>1. /\ stream.idle /\ stream' = Stop(stream) /\ tokens' = tokens
      /\ WorkerFrame /\ Untouched /\ tasks' = tasks /\ faults' = faults
      /\ user' = user /\ queue' = queue /\ nextId' = nextId /\ callbacks' = callbacks
      /\ pipeline' = pipeline /\ told' = told
      /\ requests' = <<>> /\ responses' = <<>> /\ ended' = "no"
  BY DEF IdleTimeout, WorkerFrame, Untouched, auth, local, server
<1>2. running
  BY <1>0, <1>1 DEF Down, NewStream
<1>3. stream' = s
  BY <1>1, StreamFacts DEF Stop, IsStarted
<1>4. /\ s \in Stream /\ s.state = "initial" /\ s.closeCount = stream.closeCount + 1
      /\ ~s.handshake /\ ~s.idle
  BY StreamFacts, CloseProperties DEF States
<1> HIDE DEF s
<1>5. StartStep(s) /\ ~stream'.idle /\ ~IsOpen(s)
  BY <1>1, <1>3, <1>4 DEF IsOpen, StartStep
<1>6. StreamNotReady' /\ StreamReady'
  BY <1>1, <1>4, <1>5, NothingCarried
<1>7. Shifted(0)
  BY <1>0, <1>1, ShiftedSame
<1>8. TypeOK'
  <2>1. /\ ended' \in {"no", "transient", "permanent"} /\ faults' \in 0 .. MaxFaults
        /\ commits' \subseteq [write : Writes, user : Accounts] /\ refused' \subseteq Writes
    BY <1>0, <1>1 DEF TypeOK, Untouched
  <2>2. requests' \in Seq(Request) /\ responses' \in Seq(Request)
    BY <1>1
  <2>3. QED
    BY <1>0, <1>1, <1>4, <1>5, <1>7, <2>1, <2>2, LocalType
<1>9. Fresh(0)
  <2>1. stream' \in Stream /\ stream'.closeCount > stream.closeCount
    BY <1>3, <1>4, StreamFacts
  <2>2. QED
    BY <1>0, <1>1, <2>1, ClosedIsFresh DEF RightUser, Tokens
<1>10. RightUser' /\ Down' /\ PipelineRows' /\ Rows'
  BY <1>1, <1>2, <1>7, <1>9, LocalKept
<1>11. QED
  BY <1>6, <1>8, <1>10 DEF IInv, StreamInv

\* The first response: the pipeline goes out.
LEMMA HandshakeStep ==
  ASSUME IInv, OnStreamRead, ~stream.handshake
  PROVE  IInv'
<1>0. TypeOK /\ Down /\ RightUser /\ Rows /\ StreamInv
  BY DEF IInv
<1>1. /\ responses # <<>> /\ responses' = Tail(responses) /\ ended' = ended
      /\ stream' = [stream EXCEPT !.handshake = TRUE, !.idle = IF pipeline = <<>> THEN @ ELSE FALSE]
      /\ requests' = requests \o pipeline
      /\ user' = user /\ queue' = queue /\ nextId' = nextId /\ callbacks' = callbacks
      /\ pipeline' = pipeline /\ tokens' = tokens /\ told' = told
      /\ WorkerFrame /\ Untouched /\ tasks' = tasks /\ faults' = faults
  BY DEF OnStreamRead, OnWriteStreamHandshakeComplete, WorkerFrame, Untouched, auth, local, server
<1>2. /\ IsOpen(stream) /\ stream.user = user /\ ~stream.idle
      /\ ended = "no" /\ responses = <<Handshake>> /\ requests = <<>>
  BY <1>0, <1>1 DEF StreamInv, StreamNotReady, NotReady
<1>3. running
  BY <1>0, <1>2 DEF Down, NewStream, IsOpen
<1>4. /\ stream' \in Stream /\ stream'.handshake /\ ~stream'.idle
      /\ stream'.state = stream.state /\ stream'.closeCount = stream.closeCount
      /\ stream'.user = stream.user
  <2>1. (IF pipeline = <<>> THEN stream.idle ELSE FALSE) = FALSE
    BY <1>2, StreamFacts DEF Stream
  <2> DEFINE a == [stream EXCEPT !.handshake = TRUE]
  <2>2. stream' = [a EXCEPT !.idle = IF pipeline = <<>> THEN stream.idle ELSE FALSE]
    BY <1>1, StreamFacts DEF Stream
  <2>3. /\ a \in Stream /\ a.handshake /\ a.state = stream.state
        /\ a.closeCount = stream.closeCount /\ a.user = stream.user
    BY StreamFacts DEF Stream
  <2> HIDE DEF a
  <2>4. stream' = [a EXCEPT !.idle = FALSE]
    BY <2>1, <2>2
  <2>5. QED
    BY <2>3, <2>4 DEF Stream
<1>5. pipeline \in Seq(Batch) /\ requests' = pipeline /\ responses' = <<>>
  <2>1. pipeline \in Seq(Batch)
    BY <1>0 DEF TypeOK
  <2>2. QED
    BY <1>1, <1>2, <2>1
<1>6. StreamNotReady' /\ StreamReady'
  <2>1. IsOpen(stream)'
    BY <1>2, <1>4 DEF IsOpen
  <2>2. StreamNotReady'
    BY <1>1, <1>2, <1>4, <2>1 DEF StreamNotReady, NotReady
  <2>3. /\ Prefix(<<>>, pipeline) /\ Len(pipeline) = Len(<<>>) + Len(pipeline)
        /\ \A i \in 1 .. Len(pipeline) : pipeline[i] = pipeline[Len(<<>>) + i]
    BY <1>5 DEF Prefix
  <2>4. StreamReady'
    BY <1>1, <1>2, <1>4, <1>5, <2>3 DEF StreamReady, Ready
  <2>5. QED
    BY <2>2, <2>4
<1>7. Shifted(0)
  BY <1>0, <1>1, ShiftedSame
<1>8. TypeOK'
  <2>1. /\ ended' \in {"no", "transient", "permanent"} /\ faults' \in 0 .. MaxFaults
        /\ commits' \subseteq [write : Writes, user : Accounts] /\ refused' \subseteq Writes
    BY <1>0, <1>1 DEF TypeOK, Untouched
  <2>2. requests' \in Seq(Request) /\ responses' \in Seq(Request)
    BY <1>5 DEF Request
  <2>3. StartStep(stream')
    BY <1>1, <1>4 DEF StartStep
  <2>4. QED
    BY <1>0, <1>1, <1>4, <1>7, <2>1, <2>2, <2>3, LocalType
<1>9. Quiet(0)
  BY <1>1, <1>4 DEF Quiet
<1>10. RightUser' /\ Down' /\ PipelineRows' /\ Rows'
  BY <1>1, <1>3, <1>7, <1>9, LocalKept
<1>11. QED
  BY <1>6, <1>8, <1>10 DEF IInv, StreamInv

\* A later response: the first batch of the pipeline has been applied.
LEMMA ResultStep ==
  ASSUME IInv, OnStreamRead, stream.handshake
  PROVE  IInv'
<1> DEFINE pipe == Tail(pipeline)
           answers == Tail(responses)
<1>0. TypeOK /\ Down /\ RightUser /\ Rows /\ StreamInv
  BY DEF IInv
<1>1. /\ responses # <<>> /\ responses' = answers /\ ended' = ended
      /\ Settle(Head(pipeline), "ok")
      /\ FillWritePipeline(pipe, queue'[user], stream, requests)
      /\ user' = user /\ nextId' = nextId
      /\ WorkerFrame /\ Untouched /\ tasks' = tasks /\ faults' = faults
  BY DEF OnStreamRead, OnWriteStreamMutationResult, WorkerFrame, Untouched, auth, server
<1>2. IsOpen(stream) /\ running /\ Shifted(0)
  BY <1>0, <1>1, StreamFacts, ShiftedSame DEF Down, NewStream, IsOpen
<1>3. /\ pipeline \in Seq(Batch) /\ responses \in Seq(Request) /\ requests \in Seq(Request)
      /\ Len(pipeline) <= kMaxPendingWrites
      /\ Len(responses) \in Nat \ {0} /\ Len(responses) <= Len(pipeline) /\ pipeline # <<>>
  <2>1. /\ pipeline \in Seq(Batch) /\ responses \in Seq(Request) /\ requests \in Seq(Request)
        /\ Len(pipeline) <= kMaxPendingWrites
    BY <1>0 DEF TypeOK
  <2>2. Len(responses) <= Len(pipeline)
    BY <1>0 DEF StreamInv, StreamReady, Ready, Prefix
  <2>3. Len(responses) \in Nat \ {0}
    BY <1>1, <2>1
  <2>4. pipeline # <<>>
    BY <2>1, <2>2, <2>3
  <2>5. QED
    BY <2>1, <2>2, <2>3, <2>4
<1>4. /\ queue' \in [Accounts -> Seq(Batch)]
      /\ callbacks' \subseteq callbacks
      /\ told' \in [Writes -> {"nothing", "ok", "error"}]
      /\ pipe \in Seq(Batch) /\ Len(pipe) = Len(pipeline) - 1
      /\ \A i \in 1 .. Len(pipeline) - 1 : pipe[i] = pipeline[i + 1]
      /\ Prefix(pipe, queue'[user])
      /\ Rows'
  BY <1>0, <1>1, <1>3, RowRemoved DEF StreamInv, WorkerFrame, Untouched
<1>5. /\ answers \in Seq(Request) /\ Len(answers) = Len(responses) - 1
      /\ \A i \in 1 .. Len(responses) - 1 : answers[i] = responses[i + 1]
  BY <1>1, <1>3
<1> HIDE DEF pipe, answers
<1>6. queue'[user] \in Seq(Batch) /\ Ascending(queue'[user]) /\ user \in Accounts
  BY <1>0, <1>4 DEF Rows, RowsAscend, TypeOK
<1>7. Len(pipe) <= kMaxPendingWrites
  BY <1>3, <1>4, ClientAssumption
<1>8. /\ pipeline' \in Seq(Batch) /\ Len(pipeline') <= kMaxPendingWrites
      /\ Prefix(pipeline', queue'[user]) /\ Prefix(pipe, pipeline')
      /\ StartStep(stream)
      /\ stream'.idle => \/ IsOpen(stream) /\ pipeline' = <<>>
                         \/ stream.idle /\ (stream.handshake => Len(pipeline') = Len(pipe))
      /\ Sent(pipe, stream, requests)
  <2> DEFINE rows == queue'[user]
  <2> HIDE DEF rows
  <2>1. /\ rows \in Seq(Batch) /\ Ascending(rows) /\ Prefix(pipe, rows)
        /\ FillWritePipeline(pipe, rows, stream, requests)
    BY <1>1, <1>4, <1>6 DEF rows
  <2>2. /\ pipeline' \in Seq(Batch) /\ Len(pipeline') <= kMaxPendingWrites
        /\ Prefix(pipeline', rows) /\ Prefix(pipe, pipeline')
        /\ StartStep(stream)
        /\ stream'.idle => \/ IsOpen(stream) /\ pipeline' = <<>>
                           \/ stream.idle /\ (stream.handshake => Len(pipeline') = Len(pipe))
        /\ Sent(pipe, stream, requests)
    BY <1>2, <1>3, <1>4, <1>7, <2>1, StreamFacts, FillWritePipelineSteps
  <2>3. QED
    BY <2>2 DEF rows
<1>9. NotReady(requests, answers)
  BY <1>0, <1>2 DEF StreamInv, StreamNotReady, NotReady
<1>10. Ready(pipe, requests, answers)
  <2> DEFINE a == Len(responses)
             m == Len(requests)
             p == Len(pipeline)
  <2>1. /\ a \in Nat \ {0} /\ m \in Nat /\ p \in Nat /\ a <= p
        /\ Len(pipe) = p - 1 /\ \A i \in 1 .. p - 1 : pipe[i] = pipeline[i + 1]
        /\ Len(answers) = a - 1 /\ \A i \in 1 .. a - 1 : answers[i] = responses[i + 1]
    BY <1>3, <1>4, <1>5
  <2>2. /\ stream.idle => pipeline = <<>>
        /\ \A i \in 1 .. a : responses[i] = pipeline[i]
        /\ \A i \in 1 .. a : \E c \in commits : c.write = responses[i].write
        /\ ended = "no" => p = a + m /\ \A i \in 1 .. m : requests[i] = pipeline[a + i]
        /\ ended # "transient"
        /\ ended = "permanent" => a < p /\ pipeline[a + 1].write \in refused
    BY <1>0, <1>1 DEF StreamInv, StreamReady, Ready, Prefix
  <2> HIDE DEF a, m, p
  <2>3. \A i \in 1 .. a - 1 : i + 1 \in 1 .. a /\ i \in 1 .. p - 1
    BY <2>1
  <2>4. /\ a - 1 <= p - 1
        /\ \A i \in 1 .. a - 1 : answers[i] = pipe[i]
        /\ \A i \in 1 .. a - 1 : \E c \in commits : c.write = answers[i].write
    <3>1. a - 1 <= p - 1
      BY <2>1
    <3>2. ASSUME NEW i \in 1 .. a - 1 PROVE answers[i] = responses[i + 1] /\ i + 1 \in 1 .. a
      BY <2>1, <2>3, <3>2
    <3>3. ASSUME NEW i \in 1 .. a - 1 PROVE answers[i] = pipe[i]
      BY <2>1, <2>2, <2>3, <3>2
    <3>4. ASSUME NEW i \in 1 .. a - 1 PROVE \E c \in commits : c.write = answers[i].write
      BY <2>2, <3>2
    <3>5. QED
      BY <3>1, <3>3, <3>4
  <2>5. ASSUME ended = "no"
        PROVE  p - 1 = (a - 1) + m /\ \A i \in 1 .. m : requests[i] = pipe[(a - 1) + i]
    <3>1. p = a + m /\ \A i \in 1 .. m : requests[i] = pipeline[a + i]
      BY <2>2, <2>5
    <3>2. \A i \in 1 .. m : (a - 1) + i \in 1 .. p - 1 /\ ((a - 1) + i) + 1 = a + i
      BY <2>1, <3>1
    <3>3. \A i \in 1 .. m : pipe[(a - 1) + i] = pipeline[a + i]
      BY <2>1, <3>2
    <3>4. p - 1 = (a - 1) + m
      BY <2>1, <3>1
    <3>5. QED
      BY <3>1, <3>3, <3>4
  <2>6. ASSUME ended = "permanent"
        PROVE  a - 1 < p - 1 /\ pipe[(a - 1) + 1].write \in refused
    <3>1. a < p /\ pipeline[a + 1].write \in refused
      BY <2>2, <2>6
    <3>2. a - 1 < p - 1 /\ (a - 1) + 1 = a /\ a \in 1 .. p - 1
      BY <2>1, <3>1
    <3>3. QED
      BY <2>1, <3>1, <3>2
  <2>7. /\ Len(answers) = a - 1 /\ Len(pipe) = p - 1 /\ Len(requests) = m
        /\ ~stream.idle
    BY <1>3, <2>1, <2>2 DEF m
  <2>8. Prefix(answers, pipe)
    BY <2>4, <2>7 DEF Prefix
  <2>9. QED
    BY <2>2, <2>4, <2>5, <2>6, <2>7, <2>8 DEF Ready
<1>11. StreamNotReady' /\ StreamReady' /\ requests' \in Seq(Request)
  BY <1>0, <1>1, <1>4, <1>5, <1>8, <1>9, <1>10, FillKeepsReady DEF Untouched
<1>12. TypeOK'
  <2>1. /\ nextId' \in Nat /\ callbacks' \subseteq [user : Accounts, id : Nat, write : Writes]
        /\ ended' \in {"no", "transient", "permanent"} /\ faults' \in 0 .. MaxFaults
        /\ commits' \subseteq [write : Writes, user : Accounts] /\ refused' \subseteq Writes
    BY <1>0, <1>1, <1>4 DEF TypeOK, Untouched
  <2>2. user' \in Accounts /\ responses' \in Seq(Request)
    BY <1>1, <1>5, <1>6
  <2>3. QED
    BY <1>0, <1>1, <1>2, <1>4, <1>8, <1>11, <2>1, <2>2, WorkerType
<1>13. RightUser'
  <2>1. UserStep(0)
    BY <1>1 DEF UserStep
  <2>2. Quiet(0)
    BY <1>1, <1>2, <1>8 DEF Quiet, StartStep, IsStarted
  <2>3. \A i : WriteInTasks(i)' => nextId' <= tasks'[i].write
    BY <1>0, <1>1 DEF RightUser, WritesAscend, WriteInTasks
  <2>4. nextId' <= Len(ownerOf) + 1
    BY <1>0, <1>1 DEF RightUser, WritesAscend
  <2>5. QED
    BY <1>0, <1>1, <1>2, <2>1, <2>2, <2>3, <2>4, WorkerRight DEF WorkerFrame
<1>14. Down' /\ PipelineRows'
  BY <1>1, <1>2, <1>8 DEF Down, PipelineRows, WorkerFrame
<1>15. QED
  BY <1>4, <1>11, <1>12, <1>13, <1>14 DEF IInv, StreamInv

\* The stream ended with the first batch's own error: it is given up.
LEMMA HandleWriteErrorStep ==
  ASSUME IInv, OnStreamFinish, OwnError
  PROVE  IInv'
<1> DEFINE pipe == Tail(pipeline)
           s == Close(stream, "initial")
<1>0. TypeOK /\ Down /\ RightUser /\ Rows /\ StreamInv
  BY DEF IInv
<1>1. /\ responses' = <<>> /\ ended' = "no" /\ pipeline # <<>> /\ stream.handshake
      /\ Settle(Head(pipeline), "error")
      /\ FillWritePipeline(pipe, queue'[user], s, <<>>)
      /\ user' = user /\ nextId' = nextId
      /\ WorkerFrame /\ Untouched /\ tasks' = tasks /\ faults' = faults
  BY DEF OnStreamFinish, OwnError, HandleWriteError, WorkerFrame, Untouched, auth, server
<1>2. IsOpen(stream) /\ running /\ Shifted(0)
  BY <1>0, <1>1, StreamFacts, ShiftedSame DEF Down, NewStream, IsOpen
<1>3. /\ queue' \in [Accounts -> Seq(Batch)]
      /\ callbacks' \subseteq callbacks
      /\ told' \in [Writes -> {"nothing", "ok", "error"}]
      /\ pipe \in Seq(Batch) /\ Len(pipe) = Len(pipeline) - 1
      /\ Prefix(pipe, queue'[user])
      /\ Rows'
  BY <1>0, <1>1, RowRemoved DEF StreamInv, WorkerFrame, Untouched
<1>4. /\ s \in Stream /\ s.state = "initial" /\ s.closeCount = stream.closeCount + 1
      /\ ~s.handshake /\ ~s.idle
  BY StreamFacts, CloseProperties DEF States
<1> HIDE DEF pipe, s
<1>5. queue'[user] \in Seq(Batch) /\ Ascending(queue'[user]) /\ user \in Accounts
  BY <1>0, <1>3 DEF Rows, RowsAscend, TypeOK
<1>6. Len(pipe) <= kMaxPendingWrites
  <2>1. Len(pipeline) \in Nat /\ Len(pipeline) <= kMaxPendingWrites
    BY <1>0 DEF TypeOK
  <2>2. QED
    BY <1>3, <2>1, ClientAssumption
<1>7. /\ pipeline' \in Seq(Batch) /\ Len(pipeline') <= kMaxPendingWrites
      /\ Prefix(pipeline', queue'[user])
      /\ StartStep(s) /\ ~stream'.idle /\ requests' = <<>> /\ ~IsOpen(s)
  <2> DEFINE rows == queue'[user]
  <2> HIDE DEF rows
  <2>1. /\ rows \in Seq(Batch) /\ Ascending(rows) /\ Prefix(pipe, rows)
        /\ FillWritePipeline(pipe, rows, s, <<>>) /\ <<>> \in Seq(Request)
    BY <1>1, <1>3, <1>5 DEF rows
  <2>2. ~IsOpen(s)
    BY <1>4 DEF IsOpen
  <2>3. /\ pipeline' \in Seq(Batch) /\ Len(pipeline') <= kMaxPendingWrites
        /\ Prefix(pipeline', rows)
        /\ StartStep(s)
        /\ stream'.idle => \/ IsOpen(s) /\ pipeline' = <<>>
                           \/ s.idle /\ (s.handshake => Len(pipeline') = Len(pipe))
        /\ Sent(pipe, s, <<>>)
    BY <1>3, <1>4, <1>6, <2>1, FillWritePipelineSteps
  <2>4. QED
    BY <1>4, <2>2, <2>3 DEF rows, Sent
<1>8. StreamNotReady' /\ StreamReady'
  BY <1>1, <1>4, <1>7, NothingCarried
<1>9. TypeOK'
  <2>1. /\ nextId' \in Nat /\ callbacks' \subseteq [user : Accounts, id : Nat, write : Writes]
        /\ ended' \in {"no", "transient", "permanent"} /\ faults' \in 0 .. MaxFaults
        /\ commits' \subseteq [write : Writes, user : Accounts] /\ refused' \subseteq Writes
    BY <1>0, <1>1, <1>3 DEF TypeOK, Untouched
  <2>2. user' \in Accounts /\ responses' \in Seq(Request) /\ requests' \in Seq(Request)
    BY <1>1, <1>5, <1>7
  <2>3. QED
    BY <1>0, <1>1, <1>2, <1>3, <1>4, <1>7, <2>1, <2>2, WorkerType
<1>10. RightUser'
  <2>1. UserStep(0)
    BY <1>1 DEF UserStep
  <2>2. Fresh(0)
    <3>1. /\ stream' \in Stream /\ stream'.closeCount > stream.closeCount
          /\ \/ tokens' = tokens
             \/ tokens' = tokens \cup {Asked(stream'.closeCount)} /\ stream'.state = "starting"
      BY <1>4, <1>7, StreamFacts DEF StartStep
    <3>2. QED
      BY <1>0, <3>1, ClosedIsFresh DEF RightUser, Tokens
  <2>3. \A i : WriteInTasks(i)' => nextId' <= tasks'[i].write
    BY <1>0, <1>1 DEF RightUser, WritesAscend, WriteInTasks
  <2>4. nextId' <= Len(ownerOf) + 1
    BY <1>0, <1>1 DEF RightUser, WritesAscend
  <2>5. QED
    BY <1>0, <1>1, <1>2, <2>1, <2>2, <2>3, <2>4, WorkerRight DEF WorkerFrame, Untouched
<1>11. Down' /\ PipelineRows'
  BY <1>1, <1>2, <1>7 DEF Down, PipelineRows, WorkerFrame
<1>12. QED
  BY <1>3, <1>8, <1>9, <1>10, <1>11 DEF IInv, StreamInv

LEMMA OnStreamFinishStep ==
  ASSUME IInv, OnStreamFinish
  PROVE  IInv'
<1>1. CASE OwnError
  BY <1>1, HandleWriteErrorStep
<1>2. CASE ~OwnError
  <2>1. /\ CloseWithError /\ WorkerFrame /\ Untouched /\ tasks' = tasks /\ faults' = faults
        /\ ended # "no"
    BY <1>2 DEF OnStreamFinish, WorkerFrame, Untouched, auth, server
  <2>2. IsOpen(stream)
    BY <2>1 DEF IInv, StreamInv, StreamNotReady, NotReady
  <2>3. running /\ Shifted(0)
    BY <2>1, <2>2, ShiftedSame DEF IInv, Down, NewStream, IsOpen
  <2>4. QED
    BY <2>1, <2>3, CloseWithErrorStep
<1>3. QED
  BY <1>1, <1>2

-----------------------------------------------------------------------------
(* The steps of the server and of the connection.                          *)

NetworkFrame ==
  /\ WorkerFrame /\ tasks' = tasks /\ tokens' = tokens /\ stream' = stream
  /\ user' = user /\ queue' = queue /\ nextId' = nextId /\ callbacks' = callbacks
  /\ pipeline' = pipeline /\ told' = told

LEMMA NetworkKeeps ==
  ASSUME IInv, NetworkFrame, running
  PROVE  /\ RightUser' /\ Down' /\ PipelineRows'
         /\ \A w : Run(w) => Run(w)' /\ ownerOf'[w] = ownerOf[w]
         /\ Untouched => Rows'
         /\ ServerRun' => Rows'
         /\ faults' \in 0 .. MaxFaults /\ requests' \in Seq(Request) /\ responses' \in Seq(Request)
            /\ ended' \in {"no", "transient", "permanent"}
            /\ commits' \subseteq [write : Writes, user : Accounts] /\ refused' \subseteq Writes
            => TypeOK'
<1>1. TypeOK /\ Rows /\ Shifted(0)
  BY ShiftedSame DEF IInv, NetworkFrame
<1>2. Quiet(0)
  BY DEF Quiet, NetworkFrame
<1>3. /\ RightUser' /\ Down' /\ PipelineRows'
      /\ \A w : Run(w) => Run(w)' /\ ownerOf'[w] = ownerOf[w]
      /\ Untouched => Rows'
  BY <1>1, <1>2, LocalKept DEF NetworkFrame
<1>4. ServerRun' => Rows'
  <2>1. RowsAreOwn'
    BY <1>1, <1>3 DEF Rows, RowsAreOwn, NetworkFrame
  <2>2. RowsAscend' /\ CallbackRows'
    BY <1>1 DEF Rows, RowsAscend, CallbackRows, NetworkFrame, WorkerFrame
  <2>3. QED
    BY <2>1, <2>2 DEF Rows
<1>5. ASSUME /\ faults' \in 0 .. MaxFaults /\ requests' \in Seq(Request)
             /\ responses' \in Seq(Request) /\ ended' \in {"no", "transient", "permanent"}
             /\ commits' \subseteq [write : Writes, user : Accounts] /\ refused' \subseteq Writes
      PROVE  TypeOK'
  <2>1. StartStep(stream) /\ stream \in Stream
    BY <1>1, SameStream DEF NetworkFrame, TypeOK
  <2>2. QED
    BY <1>1, <1>5, <2>1, LocalType DEF NetworkFrame
<1>6. QED
  BY <1>3, <1>4, <1>5

\* What the server reads next is the handshake, or the first batch it has not answered.
LEMMA NextRequest ==
  ASSUME IInv, ServerReads
  PROVE  /\ IsOpen(stream) /\ running /\ stream.user = user /\ ended = "no"
         /\ requests \in Seq(Request) /\ responses \in Seq(Request)
         /\ Len(requests) \in Nat \ {0} /\ Head(requests) = requests[1]
         /\ requests' = Tail(requests) /\ requests' \in Seq(Request)
         /\ Len(requests') = Len(requests) - 1
         /\ \A i \in 1 .. Len(requests) - 1 : requests'[i] = requests[i + 1]
         /\ ~stream.handshake =>
              /\ responses = <<>> /\ requests = <<Handshake>> /\ ~stream.idle
              /\ "write" \notin DOMAIN Head(requests)
         /\ stream.handshake =>
              /\ Len(responses) < Len(pipeline)
              /\ Head(requests) = pipeline[Len(responses) + 1]
              /\ Head(requests) \in Batch /\ "write" \in DOMAIN Head(requests)
              /\ Run(Head(requests).write) /\ ownerOf[Head(requests).write] = user
<1>0. TypeOK /\ Down /\ Rows /\ StreamInv
  BY DEF IInv
<1>1. requests # <<>> /\ ended = "no" /\ requests' = Tail(requests)
  BY DEF ServerReads
<1>2. IsOpen(stream) /\ stream.user = user
  BY <1>0, <1>1 DEF StreamInv, StreamNotReady, NotReady
<1>3. running
  BY <1>0, <1>2 DEF Down, NewStream, IsOpen
<1>4. /\ requests \in Seq(Request) /\ responses \in Seq(Request) /\ pipeline \in Seq(Batch)
      /\ Len(requests) \in Nat \ {0} /\ Head(requests) = requests[1]
      /\ requests' \in Seq(Request) /\ Len(requests') = Len(requests) - 1
      /\ \A i \in 1 .. Len(requests) - 1 : requests'[i] = requests[i + 1]
  <2>1. requests \in Seq(Request) /\ responses \in Seq(Request) /\ pipeline \in Seq(Batch)
    BY <1>0 DEF TypeOK
  <2>2. QED
    BY <1>1, <2>1
<1>5. ASSUME ~stream.handshake
      PROVE  /\ responses = <<>> /\ requests = <<Handshake>> /\ ~stream.idle
             /\ "write" \notin DOMAIN Head(requests)
  <2>1. responses = <<>> /\ requests = <<Handshake>> /\ ~stream.idle
    BY <1>0, <1>1, <1>2, <1>5 DEF StreamInv, StreamNotReady, NotReady
  <2>2. Head(requests) = Handshake /\ DOMAIN Handshake = {"kind"}
    BY <2>1 DEF Handshake
  <2>3. QED
    BY <2>1, <2>2
<1>6. ASSUME stream.handshake
      PROVE  /\ Len(responses) < Len(pipeline)
             /\ Head(requests) = pipeline[Len(responses) + 1]
             /\ Head(requests) \in Batch /\ "write" \in DOMAIN Head(requests)
             /\ Run(Head(requests).write) /\ ownerOf[Head(requests).write] = user
  <2> DEFINE a == Len(responses)
             p == Len(pipeline)
  <2>1. p = a + Len(requests) /\ requests[1] = pipeline[a + 1]
    <3>1. /\ p = a + Len(requests)
          /\ \A i \in 1 .. Len(requests) : requests[i] = pipeline[a + i]
      BY <1>0, <1>1, <1>6 DEF StreamInv, StreamReady, Ready
    <3>2. 1 \in 1 .. Len(requests)
      BY <1>4
    <3>3. QED
      BY <3>1, <3>2
  <2>2. a \in Nat /\ p \in Nat
    BY <1>4
  <2> HIDE DEF a, p
  <2>3. a < p /\ a + 1 \in 1 .. p
    BY <1>4, <2>1, <2>2
  <2>4. pipeline[a + 1] \in Batch
    BY <1>4, <2>3, ElementOfSeq DEF p
  <2>5. \E i \in 1 .. Len(queue[user]) : queue[user][i] = pipeline[a + 1]
    <3>1. p <= Len(queue[user]) /\ pipeline[a + 1] = queue[user][a + 1]
      BY <1>0, <2>3 DEF StreamInv, PipelineRows, Prefix, p
    <3>2. Len(queue[user]) \in Nat
      BY <1>0 DEF TypeOK
    <3>3. a + 1 \in 1 .. Len(queue[user])
      BY <2>2, <2>3, <3>1, <3>2
    <3>4. QED
      BY <3>1, <3>3
  <2>6. Run(pipeline[a + 1].write) /\ ownerOf[pipeline[a + 1].write] = user
    BY <1>0, <2>5 DEF Rows, RowsAreOwn, TypeOK
  <2>7. "write" \in DOMAIN pipeline[a + 1]
    BY <2>4 DEF Batch
  <2>8. QED
    BY <1>4, <2>1, <2>3, <2>4, <2>6, <2>7 DEF a, p
<1>7. QED
  BY <1>1, <1>2, <1>3, <1>4, <1>5, <1>6

LEMMA ServerCommitsStep ==
  ASSUME IInv, ServerCommits
  PROVE  IInv'
<1> DEFINE head == Head(requests)
<1>0. TypeOK /\ Rows /\ StreamInv
  BY DEF IInv
<1>1. /\ ServerReads /\ responses' = Append(responses, head)
      /\ commits' = IF "write" \in DOMAIN head
                      THEN commits \cup {[write |-> head.write, user |-> stream.user]}
                      ELSE commits
      /\ NetworkFrame /\ ended' = ended /\ refused' = refused /\ ownerOf' = ownerOf
      /\ faults' = faults
  BY DEF ServerCommits, NetworkFrame, WorkerFrame, auth, local
<1>2. /\ IsOpen(stream) /\ running /\ stream.user = user /\ ended = "no"
      /\ requests \in Seq(Request) /\ responses \in Seq(Request)
      /\ Len(requests) \in Nat \ {0} /\ head = requests[1]
      /\ requests' = Tail(requests) /\ requests' \in Seq(Request)
      /\ Len(requests') = Len(requests) - 1
      /\ \A i \in 1 .. Len(requests) - 1 : requests'[i] = requests[i + 1]
      /\ ~stream.handshake =>
           /\ responses = <<>> /\ requests = <<Handshake>> /\ ~stream.idle
           /\ "write" \notin DOMAIN head
      /\ stream.handshake =>
           /\ Len(responses) < Len(pipeline)
           /\ head = pipeline[Len(responses) + 1]
           /\ head \in Batch /\ "write" \in DOMAIN head
           /\ Run(head.write) /\ ownerOf[head.write] = user
  BY <1>1, NextRequest
<1> HIDE DEF head
<1>3. /\ RightUser' /\ Down' /\ PipelineRows'
      /\ \A w : Run(w) => Run(w)' /\ ownerOf'[w] = ownerOf[w]
      /\ ServerRun' => Rows'
  BY <1>1, <1>2, NetworkKeeps
<1>4. CASE ~stream.handshake
  <2>1. /\ responses' = <<Handshake>> /\ requests' = <<>> /\ commits' = commits
    <3>1. head = Handshake
      BY <1>2, <1>4
    <3>2. commits' = commits
      BY <1>1, <1>2, <1>4
    <3>3. responses' = <<Handshake>>
      <4>1. responses' = Append(<<>>, Handshake)
        BY Zenon, <1>1, <1>2, <1>4, <3>1
      <4>2. Append(<<>>, Handshake) = <<Handshake>>
        OBVIOUS
      <4>3. QED
        BY Zenon, <4>1, <4>2
    <3>4. requests' = <<>>
      <4>1. requests' = Tail(<<Handshake>>)
        BY Zenon, <1>2, <1>4
      <4>2. Tail(<<Handshake>>) = <<>>
        OBVIOUS
      <4>3. QED
        BY Zenon, <4>1, <4>2
    <3>5. QED
      BY <3>2, <3>3, <3>4
  <2>2. ServerRun'
    BY <1>0, <1>1, <1>3, <2>1 DEF Rows, ServerRun
  <2>3. StreamNotReady' /\ StreamReady'
    BY <1>1, <1>2, <1>4, <2>1
       DEF StreamNotReady, StreamReady, NotReady, Ready, NetworkFrame, IsOpen, Handshake
  <2>4. TypeOK'
    <3>1. Handshake \in Request
      BY DEF Handshake, Request
    <3>2. responses' \in Seq(Request)
      BY <2>1, <3>1
    <3>3. /\ faults' \in 0 .. MaxFaults /\ ended' \in {"no", "transient", "permanent"}
          /\ commits' \subseteq [write : Writes, user : Accounts] /\ refused' \subseteq Writes
      BY <1>0, <1>1, <2>1 DEF TypeOK
    <3>4. QED
      BY <1>1, <1>2, <3>2, <3>3, NetworkKeeps
  <2>5. QED
    BY <1>3, <2>2, <2>3, <2>4 DEF IInv, StreamInv
<1>5. CASE stream.handshake
  <2> DEFINE a == Len(responses)
             m == Len(requests)
             p == Len(pipeline)
             c == [write |-> head.write, user |-> user]
  <2>1. /\ a \in Nat /\ m \in Nat \ {0} /\ p \in Nat /\ a < p /\ p = a + m
        /\ \A i \in 1 .. m : requests[i] = pipeline[a + i]
        /\ \A i \in 1 .. a : responses[i] = pipeline[i]
        /\ \A i \in 1 .. a : \E d \in commits : d.write = responses[i].write
        /\ ~stream.idle
    <3>1. a \in Nat /\ p \in Nat
      BY <1>0 DEF TypeOK
    <3>2. /\ p = a + m
          /\ \A i \in 1 .. m : requests[i] = pipeline[a + i]
          /\ \A i \in 1 .. a : responses[i] = pipeline[i]
          /\ \A i \in 1 .. a : \E d \in commits : d.write = responses[i].write
          /\ stream.idle => pipeline = <<>>
      BY <1>0, <1>2, <1>5 DEF StreamInv, StreamReady, Ready, Prefix
    <3>3. p # 0
      BY <1>2, <1>5, <3>1
    <3>4. ~stream.idle
      BY <3>2, <3>3
    <3>5. QED
      BY <1>2, <1>5, <3>1, <3>2, <3>4
  <2>2. /\ Len(responses') = a + 1 /\ responses'[a + 1] = head
        /\ \A i \in 1 .. a : responses'[i] = responses[i]
        /\ responses' \in Seq(Request)
    <3>1. head \in Request
      BY <1>2, <1>5 DEF Request
    <3>2. QED
      BY <1>1, <1>2, <3>1
  <2>3. Len(requests') = m - 1 /\ \A i \in 1 .. m - 1 : requests'[i] = requests[i + 1]
    BY <1>2
  <2>4. commits' = commits \cup {c} /\ c.write = head.write /\ c.user = user
    BY <1>1, <1>2, <1>5
  <2> HIDE DEF a, m, p, c
  <2>5. ServerRun'
    <3>1. PICK w : w = head.write
      OBVIOUS
    <3>2. Run(w) /\ ownerOf[w] = user
      BY <1>2, <1>5, <3>1
    <3>3. Run(w)' /\ ownerOf'[w] = user
      BY <1>3, <3>2
    <3>4. \A v \in commits' : v \in commits \/ (v.write = w /\ v.user = user)
      BY <2>4, <3>1
    <3>5. QED
      BY <1>0, <1>1, <1>3, <3>3, <3>4 DEF Rows, ServerRun
  <2>6. Prefix(responses', pipeline)
    <3>1. a + 1 <= p /\ \A i \in 1 .. a + 1 : i \in 1 .. a \/ i = a + 1
      BY <2>1
    <3>2. head = pipeline[a + 1]
      BY <1>2, <1>5 DEF a
    <3>3. \A i \in 1 .. a + 1 : responses'[i] = pipeline[i]
      BY <2>1, <2>2, <3>1, <3>2
    <3>4. QED
      BY <2>2, <3>1, <3>3 DEF Prefix, p
  <2>7. \A i \in 1 .. a + 1 : \E d \in commits' : d.write = responses'[i].write
    <3>1. \A i \in 1 .. a + 1 : i \in 1 .. a \/ i = a + 1
      BY <2>1
    <3>2. QED
      BY <2>1, <2>2, <2>4, <3>1
  <2>8. /\ p = Len(responses') + Len(requests')
        /\ \A i \in 1 .. Len(requests') : requests'[i] = pipeline[Len(responses') + i]
    <3>1. \A i \in 1 .. m - 1 : i + 1 \in 1 .. m /\ a + (i + 1) = (a + 1) + i
      BY <2>1
    <3>2. p = (a + 1) + (m - 1)
      BY <2>1
    <3>3. \A i \in 1 .. m - 1 : requests'[i] = pipeline[(a + 1) + i]
      BY <2>1, <2>3, <3>1
    <3>4. QED
      BY <2>2, <2>3, <3>2, <3>3
  <2>9. StreamNotReady' /\ StreamReady'
    <3>1. StreamNotReady'
      BY <1>1, <1>2, <1>5 DEF StreamNotReady, NotReady, NetworkFrame, IsOpen
    <3>2. StreamReady'
      BY <1>1, <1>2, <2>1, <2>2, <2>6, <2>7, <2>8 DEF StreamReady, Ready, NetworkFrame, p
    <3>3. QED
      BY <3>1, <3>2
  <2>10. TypeOK'
    <3>1. commits' \subseteq [write : Writes, user : Accounts]
      <4>1. c \in [write : Writes, user : Accounts]
        BY <1>0, <1>2, <1>5 DEF c, Batch, TypeOK
      <4>2. QED
        BY <1>0, <2>4, <4>1 DEF TypeOK
    <3>2. /\ faults' \in 0 .. MaxFaults /\ ended' \in {"no", "transient", "permanent"}
          /\ refused' \subseteq Writes
      BY <1>0, <1>1 DEF TypeOK
    <3>3. QED
      BY <1>1, <1>2, <2>2, <3>1, <3>2, NetworkKeeps
  <2>11. QED
    BY <1>3, <2>5, <2>9, <2>10 DEF IInv, StreamInv
<1>6. QED
  BY <1>4, <1>5

LEMMA ServerRefusesStep ==
  ASSUME IInv, ServerRefuses
  PROVE  IInv'
<1> DEFINE head == Head(requests)
           a == Len(responses)
<1>0. TypeOK /\ Rows /\ StreamInv
  BY DEF IInv
<1>1. /\ ServerReads /\ ended' = "permanent"
      /\ refused' = IF "write" \in DOMAIN head THEN refused \cup {head.write} ELSE refused
      /\ NetworkFrame /\ responses' = responses /\ commits' = commits /\ ownerOf' = ownerOf
      /\ faults < MaxFaults /\ faults' = faults + 1
  BY DEF ServerRefuses, Fault, NetworkFrame, WorkerFrame, auth, local
<1>2. /\ IsOpen(stream) /\ running /\ stream.user = user /\ ended = "no"
      /\ requests' \in Seq(Request)
      /\ ~stream.handshake => responses = <<>> /\ ~stream.idle /\ "write" \notin DOMAIN head
      /\ stream.handshake =>
           /\ a < Len(pipeline) /\ head = pipeline[a + 1] /\ head \in Batch
           /\ "write" \in DOMAIN head /\ Run(head.write)
  BY <1>1, NextRequest
<1> HIDE DEF head, a
<1>3. /\ RightUser' /\ Down' /\ PipelineRows'
      /\ \A w : Run(w) => Run(w)' /\ ownerOf'[w] = ownerOf[w]
      /\ ServerRun' => Rows'
  BY <1>1, <1>2, NetworkKeeps
<1>4. StreamNotReady'
  BY <1>1, <1>2 DEF StreamNotReady, NotReady, NetworkFrame, IsOpen
<1>5. ServerRun' /\ StreamReady' /\ refused' \subseteq Writes
  <2>1. CASE ~stream.handshake
    <3>1. refused' = refused
      BY <1>1, <1>2, <2>1
    <3>2. ServerRun'
      BY <1>0, <1>1, <1>3, <3>1 DEF Rows, ServerRun
    <3>3. StreamReady'
      BY <1>1, <2>1 DEF StreamReady, Ready, NetworkFrame
    <3>4. QED
      BY <1>0, <3>1, <3>2, <3>3 DEF TypeOK
  <2>2. CASE stream.handshake
    <3>1. refused' = refused \cup {head.write}
      BY <1>1, <1>2, <2>2
    <3>2. ServerRun'
      <4>1. PICK w : w = head.write
        OBVIOUS
      <4>2. Run(w)' /\ refused' = refused \cup {w}
        BY <1>2, <1>3, <2>2, <3>1, <4>1
      <4>3. QED
        BY <1>0, <1>1, <1>3, <4>2 DEF Rows, ServerRun
    <3>3. StreamReady'
      <4>1. /\ stream.idle => pipeline = <<>>
            /\ Prefix(responses, pipeline)
            /\ \A i \in 1 .. Len(responses) : \E c \in commits : c.write = responses[i].write
        BY <1>0, <2>2 DEF StreamInv, StreamReady, Ready
      <4>2. Len(responses) < Len(pipeline) /\ pipeline[Len(responses) + 1].write \in refused'
        BY <1>2, <2>2, <3>1 DEF a
      <4>3. QED
        BY <1>1, <4>1, <4>2 DEF StreamReady, Ready, NetworkFrame
    <3>4. refused' \subseteq Writes
      BY <1>0, <1>2, <2>2, <3>1 DEF TypeOK, Batch
    <3>5. QED
      BY <3>2, <3>3, <3>4
  <2>3. QED
    BY <2>1, <2>2
<1>6. TypeOK'
  <2>1. faults' \in 0 .. MaxFaults
    BY <1>0, <1>1, ClientAssumption DEF TypeOK
  <2>2. /\ ended' \in {"no", "transient", "permanent"}
        /\ commits' \subseteq [write : Writes, user : Accounts]
        /\ responses' \in Seq(Request)
    BY <1>0, <1>1 DEF TypeOK
  <2>3. QED
    BY <1>1, <1>2, <1>5, <2>1, <2>2, NetworkKeeps
<1>7. QED
  BY <1>3, <1>4, <1>5, <1>6 DEF IInv, StreamInv

LEMMA ConnectionLostStep ==
  ASSUME IInv, ConnectionLost
  PROVE  IInv'
<1>0. TypeOK /\ Down /\ Rows /\ StreamInv
  BY DEF IInv
<1>1. /\ IsOpen(stream) /\ ended = "no" /\ NetworkFrame /\ Untouched
      /\ requests' = <<>> /\ responses' = <<>> /\ ended' = "transient"
      /\ faults < MaxFaults /\ faults' = faults + 1
  BY DEF ConnectionLost, Fault, NetworkFrame, WorkerFrame, Untouched, auth, local, server
<1>2. running
  BY <1>0, <1>1 DEF Down, NewStream, IsOpen
<1>3. StreamNotReady'
  BY <1>0, <1>1 DEF StreamInv, StreamNotReady, NotReady, NetworkFrame, IsOpen
<1>4. StreamReady'
  <2>1. Prefix(<<>>, pipeline)
    BY <1>0 DEF Prefix, TypeOK
  <2>2. QED
    BY <1>0, <1>1, <2>1 DEF StreamInv, StreamReady, Ready, NetworkFrame
<1>5. TypeOK'
  <2>1. faults' \in 0 .. MaxFaults
    BY <1>0, <1>1, ClientAssumption DEF TypeOK
  <2>2. /\ ended' \in {"no", "transient", "permanent"} /\ refused' \subseteq Writes
        /\ commits' \subseteq [write : Writes, user : Accounts]
        /\ responses' \in Seq(Request) /\ requests' \in Seq(Request)
    BY <1>0, <1>1 DEF TypeOK, Untouched
  <2>3. QED
    BY <1>1, <1>2, <2>1, <2>2, NetworkKeeps
<1>6. QED
  BY <1>1, <1>2, <1>3, <1>4, <1>5, NetworkKeeps DEF IInv, StreamInv

-----------------------------------------------------------------------------
(* The steps of Auth and of the main queue; start and end of the app.      *)

\* They touch neither the stream nor the rows.
AuthFrame ==
  /\ running' = running /\ user' = user /\ queue' = queue /\ nextId' = nextId
  /\ callbacks' = callbacks /\ pipeline' = pipeline /\ stream' = stream
  /\ requests' = requests /\ responses' = responses /\ ended' = ended
  /\ commits' = commits /\ refused' = refused /\ told' = told

LEMMA AuthKeeps ==
  ASSUME IInv, AuthFrame, RightUser',
         \/ ownerOf' = ownerOf
         \/ \E u : ownerOf' = Append(ownerOf, u),
         \A i : WriteInTasks(i)' =>
           \/ \E j : WriteInTasks(j) /\ tasks'[i].write = tasks[j].write
           \/ tasks'[i].write = Len(ownerOf) + 1
  PROVE  Rows' /\ StreamInv'
<1>0. TypeOK /\ Rows /\ StreamInv /\ RightUser
  BY DEF IInv
<1>1. \A w : Run(w) => Run(w)' /\ ownerOf'[w] = ownerOf[w]
  BY <1>0, RunGrows DEF RightUser
<1>2. Rows'
  <2>1. running' => \A u \in Accounts : \A i \in 1 .. Len(queue[u]) : queue[u][i].id < nextId'
    BY <1>0 DEF Rows, RowsAscend, AuthFrame
  <2>2. QED
    BY <1>0, <1>1, <2>1, RowsKept DEF AuthFrame
<1>3. StreamInv'
  BY <1>0 DEF StreamInv, PipelineRows, StreamNotReady, StreamReady, NotReady, Ready, AuthFrame, IsOpen
<1>4. QED
  BY <1>2, <1>3

MainBlock ==
  [kind : {"notify"}, user : Accounts] \cup
  [kind : {"token"}, ok : BOOLEAN, user : Accounts, counter : Nat, closeCount : Nat]

LEMMA AuthType ==
  ASSUME TypeOK, AuthFrame, authUser' \in Accounts, main' \in Seq(MainBlock),
         tokenCounter' \in Nat, tokens' \subseteq Token, tasks' \in Seq(Task),
         ownerOf' \in Seq(Users), Len(ownerOf') <= MaxWrites,
         switches' \in 0 .. MaxSwitches, faults' \in 0 .. MaxFaults
  PROVE  TypeOK'
  BY DEF TypeOK, AuthFrame, MainBlock, Token, Task

LEMMA AuthTypes ==
  ASSUME TypeOK
  PROVE  /\ authUser \in Accounts /\ main \in Seq(MainBlock) /\ tokenCounter \in Nat
         /\ tokens \subseteq Token /\ tasks \in Seq(Task)
         /\ ownerOf \in Seq(Users) /\ Len(ownerOf) <= MaxWrites
         /\ switches \in 0 .. MaxSwitches /\ faults \in 0 .. MaxFaults
  BY DEF TypeOK, MainBlock, Token, Task

LEMMA UpdateUserStep ==
  ASSUME IInv, NEW u \in Accounts, updateCurrentUser(u)
  PROVE  IInv'
<1>0. TypeOK /\ Down /\ RightUser
  BY DEF IInv
<1>1. /\ AuthFrame /\ running /\ main' = Append(main, Notify(u)) /\ authUser' = u
      /\ switches < MaxSwitches /\ switches' = switches + 1
      /\ tokenCounter' = tokenCounter /\ tokens' = tokens /\ tasks' = tasks
      /\ ownerOf' = ownerOf /\ faults' = faults
  BY DEF updateCurrentUser, AuthFrame, local, remote, wire, server
<1>2. RightUser'
  BY <1>0, UpdateUserRight
<1>3. \A i : WriteInTasks(i)' => WriteInTasks(i) /\ tasks'[i] = tasks[i]
  BY <1>1 DEF WriteInTasks
<1>4. Rows' /\ StreamInv'
  BY <1>1, <1>2, <1>3, AuthKeeps
<1>5. TypeOK'
  <2>1. Notify(u) \in MainBlock
    BY DEF Notify, MainBlock
  <2>2. main' \in Seq(MainBlock)
    BY <1>0, <1>1, <2>1, AuthTypes
  <2>3. switches' \in 0 .. MaxSwitches
    BY <1>0, <1>1, AuthTypes, ClientAssumption
  <2>4. QED
    BY <1>0, <1>1, <2>2, <2>3, AuthTypes, AuthType
<1>6. Down'
  BY <1>1 DEF Down, AuthFrame
<1>7. QED
  BY <1>2, <1>4, <1>5, <1>6 DEF IInv

LEMMA WriteDataStep ==
  ASSUME IInv, WriteData
  PROVE  IInv'
<1> DEFINE b == [kind |-> "write", write |-> Len(ownerOf) + 1]
<1>0. TypeOK /\ Down /\ RightUser
  BY DEF IInv
<1>1. /\ AuthFrame /\ running /\ main' = main /\ authUser' = authUser
      /\ switches' = switches /\ tokenCounter' = tokenCounter /\ tokens' = tokens
      /\ tasks' = Append(tasks, b) /\ Len(ownerOf) < MaxWrites /\ authUser # None
      /\ ownerOf' = Append(ownerOf, authUser) /\ faults' = faults
  BY DEF WriteData, AuthFrame, auth, local, remote, wire, server
<1>2. RightUser'
  BY <1>0, WriteDataRight
<1>3. \A i : WriteInTasks(i)' =>
        \/ WriteInTasks(i) /\ tasks'[i] = tasks[i]
        \/ tasks'[i].write = Len(ownerOf) + 1
  <2>1. PICK n : n = Len(tasks)
    OBVIOUS
  <2>2. /\ \A i : i \in 1 .. Len(tasks') <=> i \in 1 .. n \/ i = n + 1
        /\ \A i \in 1 .. n : tasks'[i] = tasks[i]
        /\ tasks'[n + 1] = b
    BY <1>0, <1>1, <2>1, TasksAppended
  <2>3. QED
    BY <2>1, <2>2 DEF WriteInTasks
<1>4. Rows' /\ StreamInv'
  BY <1>1, <1>2, <1>3, AuthKeeps
<1>5. TypeOK'
  <2>1. Len(ownerOf) + 1 \in Writes /\ authUser \in Users
    BY <1>0, <1>1, AuthTypes, ClientAssumption DEF Writes, Accounts
  <2>2. b \in Task
    BY <2>1 DEF Task
  <2> HIDE DEF b
  <2>3. tasks' \in Seq(Task)
    BY <1>0, <1>1, <2>2, AuthTypes
  <2>4. ownerOf' \in Seq(Users) /\ Len(ownerOf') <= MaxWrites
    <3>1. ownerOf \in Seq(Users) /\ Len(ownerOf) \in Nat /\ Len(ownerOf) < MaxWrites
      BY <1>0, <1>1, AuthTypes
    <3>2. ownerOf' \in Seq(Users) /\ Len(ownerOf') = Len(ownerOf) + 1
      BY <1>1, <2>1, <3>1
    <3>3. QED
      BY <3>1, <3>2, ClientAssumption
  <2>5. QED
    BY <1>0, <1>1, <2>3, <2>4, AuthTypes, AuthType
<1>6. Down'
  BY <1>1 DEF Down, AuthFrame
<1>7. QED
  BY <1>2, <1>4, <1>5, <1>6 DEF IInv

LEMMA AuthStep ==
  ASSUME IInv, NEW t \in tokens, getToken(t) \/ TokenFetched(t)
  PROVE  IInv'
<1>0. TypeOK /\ Down /\ RightUser /\ running
  BY DEF IInv, Down
<1>1. t \in Token
  BY <1>0, AuthTypes
<1>2. CASE getToken(t)
  <2>1. /\ AuthFrame /\ main' = main /\ authUser' = authUser /\ switches' = switches
        /\ tokenCounter' = tokenCounter /\ tasks' = tasks /\ ownerOf' = ownerOf /\ faults' = faults
        /\ tokens' = (tokens \ {t}) \cup {[t EXCEPT !.stage = "fetching", !.user = authUser]}
    BY <1>2 DEF getToken, AuthFrame, auth, local, remote, wire, server
  <2>2. RightUser'
    BY <1>0, <1>2, GetTokenRight
  <2>3. \A i : WriteInTasks(i)' => WriteInTasks(i) /\ tasks'[i] = tasks[i]
    BY <2>1 DEF WriteInTasks
  <2>4. Rows' /\ StreamInv'
    BY <2>1, <2>2, <2>3, AuthKeeps
  <2>5. TypeOK'
    <3> DEFINE a == [t EXCEPT !.stage = "fetching"]
               g == [t EXCEPT !.stage = "fetching", !.user = authUser]
    <3>1. g = [a EXCEPT !.user = authUser]
      BY Zenon
    <3>2. a \in Token
      BY <1>1 DEF Token
    <3> HIDE DEF a, g
    <3>3. g \in Token
      BY <1>0, <3>1, <3>2, AuthTypes DEF Token
    <3>4. tokens' \subseteq Token
      BY <1>0, <2>1, <3>3, AuthTypes DEF g
    <3>5. QED
      BY <1>0, <2>1, <3>4, AuthTypes, AuthType
  <2>6. QED
    BY <1>0, <2>1, <2>2, <2>4, <2>5 DEF IInv, Down, AuthFrame
<1>3. CASE TokenFetched(t)
  <2>1. /\ AuthFrame /\ authUser' = authUser /\ switches' = switches
        /\ tokenCounter' = tokenCounter /\ tasks' = tasks /\ ownerOf' = ownerOf
        /\ tokens' = tokens \ {t}
    BY <1>3 DEF TokenFetched, AuthFrame, local, remote, wire, server
  <2>2. RightUser'
    BY <1>0, <1>3, TokenFetchedRight
  <2>3. \A i : WriteInTasks(i)' => WriteInTasks(i) /\ tasks'[i] = tasks[i]
    BY <2>1 DEF WriteInTasks
  <2>4. Rows' /\ StreamInv'
    BY <2>1, <2>2, <2>3, AuthKeeps
  <2>5. TypeOK'
    <3>1. PICK ok \in BOOLEAN :
            /\ IF ok THEN UNCHANGED faults ELSE t.user # None /\ Fault("tokenError")
            /\ main' = Append(main, [kind |-> "token", ok |-> ok, user |-> t.user,
                                     counter |-> t.counter, closeCount |-> t.closeCount])
      BY <1>3 DEF TokenFetched
    <3>2. [kind |-> "token", ok |-> ok, user |-> t.user,
           counter |-> t.counter, closeCount |-> t.closeCount] \in MainBlock
      BY <1>1 DEF MainBlock, Token
    <3>3. main' \in Seq(MainBlock)
      BY <1>0, <3>1, <3>2, AuthTypes
    <3>4. faults' \in 0 .. MaxFaults
      BY <1>0, <3>1, AuthTypes, ClientAssumption DEF Fault
    <3>5. QED
      BY <1>0, <2>1, <3>3, <3>4, AuthTypes, AuthType
  <2>6. QED
    BY <1>0, <2>1, <2>2, <2>4, <2>5 DEF IInv, Down, AuthFrame
<1>4. QED
  BY <1>2, <1>3

LEMMA RunMainStep ==
  ASSUME IInv, RunMain
  PROVE  IInv'
<1> DEFINE h == main[1]
           b == IF h.kind = "notify"
                  THEN [kind |-> "credential", user |-> h.user]
                  ELSE [kind |-> "token", ok |-> h.ok /\ h.counter = tokenCounter,
                        user |-> h.user, closeCount |-> h.closeCount]
<1>0. TypeOK /\ Down /\ RightUser
  BY DEF IInv
<1>1. /\ AuthFrame /\ authUser' = authUser /\ switches' = switches /\ ownerOf' = ownerOf
      /\ tokens' = tokens /\ faults' = faults /\ main # <<>> /\ main' = Tail(main)
      /\ tokenCounter' \in {tokenCounter, tokenCounter + 1}
  BY DEF RunMain, AuthFrame, local, remote, wire, server
<1>2. Head(main) = main[1] /\ 1 \in 1 .. Len(main)
  BY <1>0, <1>1, HeadTailProperties DEF TypeOK
<1>3. tasks' = Append(tasks, b)
  BY <1>2 DEF RunMain
<1>4. running
  BY <1>0, <1>1 DEF Down
<1>5. RightUser'
  BY <1>0, RunMainRight
<1>6. b \in Task /\ b.kind # "write"
  <2>1. /\ h.kind \in {"notify", "token"}
        /\ h.kind = "notify" => h.user \in Accounts
        /\ h.kind = "token" => h.ok \in BOOLEAN /\ h.user \in Accounts /\ h.closeCount \in Nat
    BY <1>0, <1>2, MainTypes
  <2>2. CASE h.kind = "notify"
    BY <2>1, <2>2 DEF Task
  <2>3. CASE h.kind # "notify"
    <3>1. /\ b = [kind |-> "token", ok |-> h.ok /\ h.counter = tokenCounter,
                  user |-> h.user, closeCount |-> h.closeCount]
          /\ (h.ok /\ h.counter = tokenCounter) \in BOOLEAN
      BY Zenon, <2>3
    <3> HIDE DEF b
    <3>2. QED
      BY <2>1, <2>3, <3>1 DEF Task
  <2>4. QED
    BY <2>2, <2>3
<1> HIDE DEF b
<1>7. \A i : WriteInTasks(i)' => WriteInTasks(i) /\ tasks'[i] = tasks[i]
  <2>1. PICK n : n = Len(tasks)
    OBVIOUS
  <2>2. /\ \A i : i \in 1 .. Len(tasks') <=> i \in 1 .. n \/ i = n + 1
        /\ \A i \in 1 .. n : tasks'[i] = tasks[i]
        /\ tasks'[n + 1] = b
    BY <1>0, <1>3, <2>1, TasksAppended
  <2>3. QED
    BY <1>6, <2>1, <2>2 DEF WriteInTasks
<1>8. Rows' /\ StreamInv'
  BY <1>1, <1>5, <1>7, AuthKeeps
<1>9. TypeOK'
  <2>1. tasks' \in Seq(Task)
    BY <1>0, <1>3, <1>6, AuthTypes
  <2>2. main' \in Seq(MainBlock) /\ tokenCounter' \in Nat
    BY <1>0, <1>1, AuthTypes
  <2>3. QED
    BY <1>0, <1>1, <2>1, <2>2, AuthTypes, AuthType
<1>10. QED
  BY <1>1, <1>4, <1>5, <1>8, <1>9 DEF IInv, Down, AuthFrame

LEMMA LaunchStep ==
  ASSUME IInv, Launch
  PROVE  IInv'
<1>0. TypeOK /\ Down /\ RightUser /\ Rows /\ StreamInv
  BY DEF IInv
<1>1. /\ ~running /\ running' /\ tokenCounter' = 0 /\ nextId' = LoadNextBatchId(queue)
      /\ authUser' = authUser /\ switches' = switches /\ tasks' = tasks /\ queue' = queue
      /\ callbacks' = callbacks /\ responses' = responses /\ ended' = ended /\ told' = told
      /\ faults' = faults /\ Untouched
  BY DEF Launch, wire, server, Untouched
<1>2. PICK late \in BOOLEAN, notified \in BOOLEAN :
        LET u == IF late THEN None ELSE authUser
        IN /\ late => notified
           /\ main' = IF notified /\ authUser # None THEN <<Notify(authUser)>> ELSE <<>>
           /\ user' = u
           /\ FillWritePipeline(<<>>, queue[u], NewStream, <<>>)
  BY DEF Launch
<1> DEFINE u == IF late THEN None ELSE authUser
<1>3. u \in Accounts /\ user' = u /\ FillWritePipeline(<<>>, queue[u], NewStream, <<>>)
  BY <1>0, <1>2 DEF Accounts, TypeOK
<1> HIDE DEF u
<1>4. /\ stream = NewStream /\ tokens = {} /\ tasks = <<>>
      /\ responses = <<>> /\ ended = "no"
  BY <1>0, <1>1 DEF Down, StreamInv, StreamNotReady, NotReady, NewStream, IsOpen
<1>5. /\ NewStream \in Stream /\ ~NewStream.handshake /\ ~NewStream.idle /\ ~IsOpen(NewStream)
      /\ NewStream.closeCount = 0 /\ <<>> \in Seq(Request)
      /\ queue[u] \in Seq(Batch) /\ Ascending(queue[u]) /\ Prefix(<<>>, queue[u])
      /\ <<>> \in Seq(Batch) /\ Len(<<>>) <= kMaxPendingWrites
  BY <1>0, <1>3, ClientAssumption
     DEF NewStream, Stream, States, Accounts, IsOpen, TypeOK, Rows, RowsAscend, Prefix
<1>6. /\ pipeline' \in Seq(Batch) /\ Len(pipeline') <= kMaxPendingWrites
      /\ Prefix(pipeline', queue[u])
      /\ StartStep(NewStream) /\ ~stream'.idle /\ requests' = <<>>
  BY <1>3, <1>5, FillWritePipelineSteps DEF Sent
<1>7. StreamNotReady' /\ StreamReady'
  BY <1>1, <1>4, <1>5, <1>6, NothingCarried
<1>8. RightUser'
  BY <1>0, LaunchRight DEF Rows
<1>9. /\ nextId' \in Nat
      /\ \A v \in Accounts : \A i \in 1 .. Len(queue[v]) : queue[v][i].id < nextId'
  BY <1>0, <1>1, LoadNextBatchIdProperties DEF Rows
<1>10. Rows'
  <2>1. \A w : Run(w) => Run(w)' /\ ownerOf'[w] = ownerOf[w]
    BY <1>0, <1>1, ShiftedSame, WorkerRunGrows DEF RightUser, Untouched
  <2>2. QED
    BY <1>0, <1>1, <1>9, <2>1, RowsKept DEF Untouched
<1>11. TypeOK'
  <2>1. main' \in Seq(MainBlock)
    <3>1. Notify(authUser) \in MainBlock
      BY <1>0 DEF Notify, MainBlock, TypeOK
    <3>2. QED
      BY <1>2, <3>1
  <2>2. tokens' \subseteq Token
    <3>1. Asked(0) \in Token
      BY <1>0 DEF Asked, Token, TypeOK, Accounts
    <3>2. QED
      BY <1>4, <1>5, <1>6, <3>1 DEF StartStep
  <2>3. requests' \in Seq(Request) /\ responses' \in Seq(Request) /\ stream' \in Stream
    BY <1>1, <1>4, <1>5, <1>6 DEF StartStep
  <2>4. QED
    BY <1>0, <1>1, <1>3, <1>6, <1>9, <2>1, <2>2, <2>3 DEF TypeOK, MainBlock, Token, Untouched
<1>12. Down' /\ PipelineRows'
  BY <1>1, <1>3, <1>6 DEF Down, PipelineRows
<1>13. QED
  BY <1>7, <1>8, <1>10, <1>11, <1>12 DEF IInv, StreamInv

LEMMA KillStep ==
  ASSUME IInv, Kill
  PROVE  IInv'
<1>0. TypeOK /\ RightUser /\ Rows
  BY DEF IInv
<1>1. /\ ~running' /\ faults < MaxFaults /\ faults' = faults + 1
      /\ main' = <<>> /\ tokenCounter' = 0 /\ tokens' = {} /\ tasks' = <<>>
      /\ user' = None /\ nextId' = 1 /\ callbacks' = {}
      /\ pipeline' = <<>> /\ stream' = NewStream /\ requests' = <<>>
      /\ responses' = <<>> /\ ended' = "no" /\ Untouched
      /\ authUser' = authUser /\ switches' = switches /\ queue' = queue /\ told' = told
  BY DEF Kill, Fault, server, Untouched
<1>2. TypeOK'
  <2>1. /\ NewStream \in Stream /\ None \in Accounts
        /\ Len(<<>>) <= kMaxPendingWrites
    BY ClientAssumption DEF NewStream, Stream, States, Accounts
  <2>2. faults' \in 0 .. MaxFaults
    BY <1>0, <1>1, ClientAssumption DEF TypeOK
  <2>3. ~running' /\ running' \in BOOLEAN
    BY <1>1 DEF Kill
  <2>4. QED
    BY <1>0, <1>1, <2>1, <2>2, <2>3 DEF TypeOK, Untouched
<1>3. Down'
  BY <1>1 DEF Down
<1>4. RightUser'
  BY <1>0, KillRight
<1>5. Rows'
  <2>1. \A i : ~WriteInTasks(i)'
    BY <1>1 DEF WriteInTasks
  <2>2. \A w : Run(w) => Run(w)' /\ ownerOf'[w] = ownerOf[w]
    BY <1>1, <2>1 DEF Run, Untouched
  <2>3. QED
    BY <1>0, <1>1, <2>2, RowsKept DEF Untouched
<1>6. StreamInv'
  <2>1. Prefix(<<>>, queue[None])
    BY <1>0 DEF Prefix, TypeOK, Accounts
  <2>2. ~IsOpen(stream)' /\ ~stream'.handshake /\ ~stream'.idle
    BY <1>1 DEF NewStream, IsOpen
  <2>3. QED
    BY <1>1, <2>1, <2>2 DEF StreamInv, PipelineRows, StreamNotReady, StreamReady, NotReady, Ready
<1>7. QED
  BY <1>2, <1>3, <1>4, <1>5, <1>6 DEF IInv

-----------------------------------------------------------------------------
(* The theorems.                                                           *)

LEMMA InitIInv == Init => IInv
<1> SUFFICES ASSUME Init PROVE IInv
  OBVIOUS
<1>1. TypeOK
  <2>1. /\ NewStream \in Stream /\ None \in Accounts /\ Len(<<>>) <= kMaxPendingWrites
        /\ 0 \in 0 .. MaxSwitches /\ 0 \in 0 .. MaxFaults /\ Len(<<>>) <= MaxWrites
    BY ClientAssumption DEF NewStream, Stream, States, Accounts
  <2>2. /\ authUser \in Accounts /\ main \in Seq(MainBlock)
        /\ tokenCounter \in Nat /\ tokens \subseteq Token /\ tasks \in Seq(Task)
    <3>1. main = <<>> /\ tasks = <<>> /\ authUser = None /\ tokenCounter = 0 /\ tokens = {}
      BY Zenon DEF Init
    <3>2. QED
      BY <2>1, <3>1
  <2>3. running \in BOOLEAN
    BY Zenon DEF Init
  <2>4. /\ user \in Accounts /\ queue \in [Accounts -> Seq(Batch)] /\ nextId \in Nat
        /\ callbacks \subseteq [user : Accounts, id : Nat, write : Writes]
        /\ pipeline \in Seq(Batch) /\ Len(pipeline) <= kMaxPendingWrites /\ stream \in Stream
    BY <2>1 DEF Init
  <2>5. /\ requests \in Seq(Request) /\ responses \in Seq(Request)
        /\ ended \in {"no", "transient", "permanent"}
        /\ commits \subseteq [write : Writes, user : Accounts] /\ refused \subseteq Writes
        /\ ownerOf \in Seq(Users) /\ Len(ownerOf) <= MaxWrites
        /\ told \in [Writes -> {"nothing", "ok", "error"}]
        /\ switches \in 0 .. MaxSwitches /\ faults \in 0 .. MaxFaults
    BY <2>1 DEF Init
  <2>6. QED
    BY <2>2, <2>3, <2>4, <2>5 DEF TypeOK, MainBlock, Token, Task
<1>2. Down
  BY DEF Init, Down
<1>3. RightUser
  <2>1. \A i : ~NewsInTasks(i) /\ ~TokenInTasks(i) /\ ~WriteInTasks(i) /\ ~TokenInMain(i)
    BY DEF Init, NewsInTasks, TokenInTasks, WriteInTasks, TokenInMain
  <2>2. nextId <= Len(ownerOf) + 1
    BY DEF Init
  <2>3. QED
    BY <2>1, <2>2 DEF Init, RightUser, AuthNews, Tokens, TokenAge, OneToken, TokenUser,
                      WriteUser, WritesAscend
<1>4. Rows
  BY DEF Init, Rows, RowsAreOwn, RowsAscend, ServerRun, CallbackRows, Ascending
<1>5. StreamInv
  BY DEF Init, StreamInv, PipelineRows, StreamNotReady, StreamReady, NotReady, Ready, Prefix,
         NewStream, IsOpen, Accounts
<1>6. QED
  BY <1>1, <1>2, <1>3, <1>4, <1>5 DEF IInv

LEMMA StutterIInv ==
  ASSUME IInv, UNCHANGED vars
  PROVE  IInv'
<1>0. TypeOK /\ Down /\ RightUser /\ Rows /\ StreamInv
  BY DEF IInv
<1>1. /\ AuthFrame /\ authUser' = authUser /\ main' = main /\ tokenCounter' = tokenCounter
      /\ switches' = switches /\ tokens' = tokens /\ tasks' = tasks /\ ownerOf' = ownerOf
      /\ faults' = faults
  BY DEF vars, auth, local, remote, wire, server, AuthFrame
<1>2. TypeOK'
  BY <1>0, <1>1, AuthTypes, AuthType
<1>3. WorkerFrame /\ Shifted(0) /\ Quiet(0) /\ UserStep(0)
  BY <1>0, <1>1, ShiftedSame DEF WorkerFrame, AuthFrame, Quiet, UserStep
<1>4. RightUser'
  <2>1. /\ nextId' <= Len(ownerOf) + 1
        /\ \A i : WriteInTasks(i)' => nextId' <= tasks'[i].write
    BY <1>0, <1>1 DEF RightUser, WritesAscend, WriteInTasks, AuthFrame
  <2>2. QED
    BY <1>0, <1>1, <1>3, <2>1, WorkerRight DEF WorkerFrame
<1>5. Rows' /\ StreamInv'
  <2>1. \A i : WriteInTasks(i)' => WriteInTasks(i) /\ tasks'[i] = tasks[i]
    BY <1>1 DEF WriteInTasks
  <2>2. QED
    BY <1>1, <1>4, <2>1, AuthKeeps
<1>6. Down'
  BY <1>0, <1>1 DEF Down, AuthFrame
<1>7. QED
  BY <1>2, <1>4, <1>5, <1>6 DEF IInv

LEMMA StepIInv == IInv /\ [Next]_vars => IInv'
<1> SUFFICES ASSUME IInv, [Next]_vars PROVE IInv'
  OBVIOUS
<1>1. CASE Launch
  BY <1>1, LaunchStep
<1>2. CASE Kill
  BY <1>2, KillStep
<1>3. CASE WriteData
  BY <1>3, WriteDataStep
<1>4. CASE \E u \in Accounts : updateCurrentUser(u)
  BY <1>4, UpdateUserStep
<1>5. CASE Auth
  BY <1>5, AuthStep DEF Auth
<1>6. CASE RunMain
  BY <1>6, RunMainStep
<1>7. CASE RunTask
  BY <1>7, RunTaskStep
<1>8. CASE BackoffElapsed
  BY <1>8, BackoffElapsedStep
<1>9. CASE IdleTimeout
  BY <1>9, IdleTimeoutStep
<1>10. CASE OnStreamRead
  BY <1>10, HandshakeStep, ResultStep
<1>11. CASE OnStreamFinish
  BY <1>11, OnStreamFinishStep
<1>12. CASE Network
  BY <1>12, ServerCommitsStep, ServerRefusesStep, ConnectionLostStep DEF Network
<1>13. CASE UNCHANGED vars
  BY <1>13, StutterIInv
<1>14. QED
  BY <1>1, <1>2, <1>3, <1>4, <1>5, <1>6, <1>7, <1>8, <1>9, <1>10, <1>11, <1>12, <1>13 DEF Next

\* The inductive invariant holds in every reachable state.
THEOREM Invariance == Spec => []IInv
  BY InitIInv, StepIInv, PTL DEF Spec

\* Every variable of the write path keeps its type, and the pipeline its depth.
THEOREM TypeCorrect == Spec => []TypeOK
<1>1. IInv => TypeOK
  BY DEF IInv
<1>2. QED
  BY Invariance, <1>1, PTL

\* The server applies a write for the account that made it and for no other.
THEOREM OwnersOnly == Spec => []CommittedAsOwner
<1>1. IInv => CommittedAsOwner
  BY DEF IInv, Rows, ServerRun, CommittedAsOwner
<1>2. QED
  BY Invariance, <1>1, PTL

\* No HARD_ASSERT on the write path can fail.
THEOREM NoAssertFails == Spec => []HardAssertsHold
<1>1. IInv => HardAssertsHold
  <2> SUFFICES ASSUME IInv PROVE HardAssertsHold
    OBVIOUS
  <2>0. TypeOK /\ RightUser /\ StreamInv /\ user \in Accounts
    BY DEF IInv, TypeOK
  <2>1. ASSUME NEW i \in DOMAIN tasks, tasks[i].kind = "token" /\ Current(tasks[i])
        PROVE  stream.state = "starting" \/ i > 1
    <3>1. TokenInTasks(i)
      BY <2>0, <2>1 DEF TokenInTasks, TypeOK
    <3>2. QED
      BY <2>0, <2>1, <3>1 DEF RightUser, Tokens, OneToken
  <2>2. responses # <<>> => IsStarted(stream)
    BY <2>0 DEF StreamInv, StreamNotReady, NotReady, IsStarted
  <2>3. responses # <<>> /\ stream.handshake => pipeline # <<>> /\ Head(responses) = Head(pipeline)
    <3> SUFFICES ASSUME responses # <<>>, stream.handshake
                 PROVE  pipeline # <<>> /\ Head(responses) = Head(pipeline)
      OBVIOUS
    <3>1. responses \in Seq(Request) /\ pipeline \in Seq(Batch)
      BY <2>0 DEF TypeOK
    <3>2. Len(responses) <= Len(pipeline) /\ \A i \in 1 .. Len(responses) : responses[i] = pipeline[i]
      BY <2>0 DEF StreamInv, StreamReady, Ready, Prefix
    <3>3. Len(responses) \in Nat \ {0} /\ 1 \in 1 .. Len(responses)
      BY <3>1
    <3>4. pipeline # <<>>
      BY <3>1, <3>2, <3>3
    <3>5. responses[1] = pipeline[1]
      BY <3>2, <3>3
    <3>6. QED
      BY <3>1, <3>4, <3>5
  <2>4. responses # <<>> /\ ~stream.handshake => Head(responses) = [kind |-> "handshake"]
    BY <2>0 DEF StreamInv, StreamNotReady, NotReady, Handshake
  <2>5. stream.idle => IsOpen(stream) /\ pipeline = <<>>
    BY <2>0 DEF StreamInv, StreamNotReady, StreamReady, NotReady, Ready
  <2>6. ASSUME NEW i \in DOMAIN pipeline
        PROVE  \E j \in DOMAIN queue[user] : queue[user][j] = pipeline[i]
    <3>1. pipeline \in Seq(Batch) /\ queue[user] \in Seq(Batch)
      BY <2>0 DEF TypeOK
    <3>2. /\ Len(pipeline) <= Len(queue[user])
          /\ \A j \in 1 .. Len(pipeline) : pipeline[j] = queue[user][j]
      BY <2>0 DEF StreamInv, PipelineRows, Prefix
    <3>3. i \in DOMAIN queue[user] /\ i \in 1 .. Len(pipeline)
      BY <2>6, <3>1, <3>2
    <3>4. QED
      BY <3>2, <3>3
  <2>7. QED
    BY <2>1, <2>2, <2>3, <2>4, <2>5, <2>6 DEF HardAssertsHold
<1>2. QED
  BY Invariance, <1>1, PTL

-----------------------------------------------------------------------------
(* The client implements WriteQueue.                                       *)

pending == [u \in Users |-> [i \in DOMAIN queue[u] |-> queue[u][i].write]]
committed == { c.write : c \in commits }

LEMMA Mapped ==
  ASSUME NEW rows \in Seq(Batch), NEW ws, ws = [i \in DOMAIN rows |-> rows[i].write]
  PROVE  /\ ws \in Seq(Writes) /\ Len(ws) = Len(rows) /\ DOMAIN ws = 1 .. Len(rows)
         /\ \A i \in 1 .. Len(rows) : ws[i] = rows[i].write
<1>1. \A i \in 1 .. Len(rows) : rows[i] \in Batch
  BY ElementOfSeq
<1>2. DOMAIN rows = 1 .. Len(rows) /\ Len(rows) \in Nat
  OBVIOUS
<1>3. ws \in [1 .. Len(rows) -> Writes]
  BY <1>1, <1>2 DEF Batch
<1>4. ws \in Seq(Writes)
  BY <1>2, <1>3
<1>5. Len(ws) = Len(rows)
  BY <1>2, <1>3, <1>4
<1>6. QED
  BY <1>2, <1>4, <1>5

LEMMA MappedAppend ==
  ASSUME NEW rows \in Seq(Batch), NEW b \in Batch
  PROVE  LET longer == Append(rows, b)
         IN [i \in DOMAIN longer |-> longer[i].write]
              = Append([i \in DOMAIN rows |-> rows[i].write], b.write)
<1>1. PICK longer \in Seq(Batch) :
        /\ longer = Append(rows, b) /\ Len(longer) = Len(rows) + 1
        /\ \A i \in 1 .. Len(rows) : longer[i] = rows[i]
        /\ longer[Len(rows) + 1] = b
  <2> DEFINE longer == Append(rows, b)
  <2>1. /\ longer \in Seq(Batch) /\ Len(longer) = Len(rows) + 1
        /\ \A i \in 1 .. Len(rows) : longer[i] = rows[i]
        /\ longer[Len(rows) + 1] = b
    OBVIOUS
  <2> HIDE DEF longer
  <2>2. longer = Append(rows, b)
    BY DEF longer
  <2>3. QED
    BY Zenon, <2>1, <2>2
<1>2. PICK n \in Nat : n = Len(rows)
  OBVIOUS
<1> DEFINE ws == [i \in DOMAIN rows |-> rows[i].write]
           vs == [i \in DOMAIN longer |-> longer[i].write]
<1>3. /\ ws \in Seq(Writes) /\ Len(ws) = n /\ \A i \in 1 .. n : ws[i] = rows[i].write
  BY <1>2, Mapped
<1>4. /\ vs \in Seq(Writes) /\ Len(vs) = Len(longer)
      /\ \A i \in 1 .. Len(longer) : vs[i] = longer[i].write
  BY Mapped
<1>5. b.write \in Writes
  BY DEF Batch
<1> HIDE DEF ws, vs
<1>6. /\ Append(ws, b.write) \in Seq(Writes) /\ Len(Append(ws, b.write)) = n + 1
      /\ \A i \in 1 .. n : Append(ws, b.write)[i] = ws[i]
      /\ Append(ws, b.write)[n + 1] = b.write
  BY <1>3, <1>5
<1>7. \A i \in 1 .. n + 1 : vs[i] = Append(ws, b.write)[i]
  <2>1. \A i \in 1 .. n + 1 : i \in 1 .. n \/ i = n + 1
    OBVIOUS
  <2>2. QED
    BY <1>1, <1>2, <1>3, <1>4, <1>6, <2>1
<1>8. vs = Append(ws, b.write)
  BY <1>1, <1>2, <1>4, <1>6, <1>7, SeqEqual
<1>9. QED
  BY <1>1, <1>8 DEF vs, ws

LEMMA MappedTail ==
  ASSUME NEW rows \in Seq(Batch), rows # <<>>
  PROVE  LET shorter == Tail(rows)
             ws == [i \in DOMAIN rows |-> rows[i].write]
         IN /\ [i \in DOMAIN shorter |-> shorter[i].write] = Tail(ws)
            /\ ws # <<>> /\ Head(ws) = rows[1].write
<1> DEFINE shorter == Tail(rows)
           ws == [i \in DOMAIN rows |-> rows[i].write]
           vs == [i \in DOMAIN shorter |-> shorter[i].write]
           n == Len(rows)
<1>1. /\ shorter \in Seq(Batch) /\ Len(shorter) = n - 1 /\ n \in Nat \ {0}
      /\ \A i \in 1 .. n - 1 : shorter[i] = rows[i + 1]
  OBVIOUS
<1>2. /\ ws \in Seq(Writes) /\ Len(ws) = n /\ \A i \in 1 .. n : ws[i] = rows[i].write
  BY Mapped
<1> HIDE DEF shorter
<1>3. /\ vs \in Seq(Writes) /\ Len(vs) = n - 1
      /\ \A i \in 1 .. n - 1 : vs[i] = shorter[i].write
  BY <1>1, Mapped
<1> HIDE DEF ws, vs, n
<1>4. /\ ws # <<>> /\ Head(ws) = rows[1].write
      /\ Tail(ws) \in Seq(Writes) /\ Len(Tail(ws)) = n - 1
      /\ \A i \in 1 .. n - 1 : Tail(ws)[i] = ws[i + 1]
  <2>1. ws # <<>> /\ Head(ws) = ws[1]
    BY <1>1, <1>2
  <2>2. 1 \in 1 .. n
    BY <1>1
  <2>3. QED
    BY <1>1, <1>2, <2>1, <2>2
<1>5. \A i \in 1 .. n - 1 : vs[i] = Tail(ws)[i]
  <2>1. \A i \in 1 .. n - 1 : i + 1 \in 1 .. n
    BY <1>1
  <2>2. QED
    BY <1>1, <1>2, <1>3, <1>4, <2>1
<1>6. vs = Tail(ws)
  BY <1>3, <1>4, <1>5, SeqEqual
<1>7. QED
  BY <1>4, <1>6 DEF vs, ws, shorter

\* The mapping, of this state and of the next.
LEMMA PendingOf ==
  ASSUME queue \in [Accounts -> Seq(Batch)]
  PROVE  /\ DOMAIN pending = Users
         /\ \A u \in Users :
              /\ pending[u] = [i \in DOMAIN queue[u] |-> queue[u][i].write]
              /\ DOMAIN pending[u] = 1 .. Len(queue[u])
              /\ \A i \in 1 .. Len(queue[u]) : pending[u][i] = queue[u][i].write
<1>1. \A u \in Users : queue[u] \in Seq(Batch)
  BY DEF Accounts
<1>2. QED
  BY <1>1, Mapped DEF pending

StutterStep == /\ queue' = queue /\ commits' = commits /\ refused' = refused /\ told' = told

LEMMA StutterMaps ==
  ASSUME StutterStep
  PROVE  [Promise!Next]_(Promise!vars)
<1>1. pending' = pending /\ committed' = committed
  BY DEF StutterStep, pending, committed
<1>2. QED
  BY <1>1 DEF StutterStep, Promise!vars, pending, committed

\* A write that has been run has an owner.
LEMMA OwnerIsUser ==
  ASSUME TypeOK, NEW w, w \in 1 .. Len(ownerOf)
  PROVE  ownerOf[w] \in Users
<1>1. ownerOf \in Seq(Users)
  BY DEF TypeOK
<1>2. QED
  BY <1>1, ElementOfSeq

LEMMA WriteMaps ==
  ASSUME IInv, tasks # <<>>, tasks' = Tail(tasks), tasks[1].kind = "write",
         WriteMutations(tasks[1].write), WorkerFrame, Untouched
  PROVE  Promise!Next
<1>w. PICK w : w = tasks[1].write
  OBVIOUS
<1> DEFINE batch == [id |-> nextId, write |-> w]
           key == { c \in callbacks : c.user = user /\ c.id = nextId }
<1>0. TypeOK /\ RightUser /\ Rows /\ running
  BY StreamFacts DEF IInv
<1>1. /\ queue' = [queue EXCEPT ![user] = AddMutationBatch(@, batch)]
      /\ nextId' = nextId + 1
      /\ callbacks' = IF key # {} THEN callbacks
                      ELSE callbacks \cup {[user |-> user, id |-> nextId, write |-> w]}
      /\ told' = told
  BY <1>w DEF WriteMutations
<1>2. /\ w \in Writes /\ ownerOf[w] = user /\ batch \in Batch /\ batch.write = w
      /\ queue' = [queue EXCEPT ![user] = Append(@, batch)]
      /\ queue \in [Accounts -> Seq(Batch)] /\ user \in Accounts
  <2>1. /\ w \in Writes /\ ownerOf[w] = user /\ nextId <= w
        /\ \A i : WriteInTasks(i)' => nextId' <= tasks'[i].write
        /\ nextId' <= Len(ownerOf) + 1
        /\ batch \in Batch /\ queue' = [queue EXCEPT ![user] = Append(@, batch)]
        /\ queue'[user] = Append(queue[user], batch)
        /\ key = {}
        /\ Rows'
    BY <1>w, <1>0, <1>1, RowAdded DEF WorkerFrame, Untouched
  <2>2. QED
    BY <1>0, <2>1 DEF TypeOK
<1>3. WriteInTasks(1)
  <2>1. tasks \in Seq(Task)
    BY <1>0 DEF TypeOK, Task
  <2>2. 1 \in 1 .. Len(tasks)
    BY <2>1
  <2>3. QED
    BY <2>2 DEF WriteInTasks
<1>4. user \in Users
  BY <1>w, <1>0, <1>2, <1>3, OwnerIsUser DEF RightUser, WriteUser
<1> HIDE DEF batch, key
<1>5. \A x : Run(x) => x # w
  <2>1. \A x : Run(x) => x \in Nat /\ x < w
    BY <1>w, <1>3 DEF Run
  <2>2. w \in Nat
    BY <1>2, WritesAreNat
  <2>3. QED
    BY <2>1, <2>2
<1>6. \A v \in Users : \A i \in DOMAIN pending[v] : pending[v][i] # w
  <2>1. /\ \A v \in Users : DOMAIN pending[v] = 1 .. Len(queue[v])
        /\ \A v \in Users : \A i \in 1 .. Len(queue[v]) : pending[v][i] = queue[v][i].write
    BY <1>2, PendingOf
  <2>2. \A v \in Users : \A i \in 1 .. Len(queue[v]) : Run(queue[v][i].write)
    BY <1>0 DEF Rows, RowsAreOwn, Accounts
  <2>3. \A v \in Users : \A i \in 1 .. Len(queue[v]) : queue[v][i].write # w
    BY <1>5, <2>2
  <2>4. QED
    BY <2>1, <2>3
<1>7. w \notin committed \cup refused
  BY <1>0, <1>5 DEF Rows, ServerRun, committed
<1>8. pending' = [pending EXCEPT ![user] = Append(@, w)]
  <2>1. \A v \in Users : queue[v] \in Seq(Batch)
    BY <1>2 DEF Accounts
  <2>2. queue'[user] = Append(queue[user], batch)
    BY <1>2
  <2>3. pending'[user] = Append(pending[user], w)
    <3>1. pending'[user] = [i \in DOMAIN queue'[user] |-> queue'[user][i].write]
      BY <1>4 DEF pending
    <3>2. pending[user] = [i \in DOMAIN queue[user] |-> queue[user][i].write]
      BY <1>4 DEF pending
    <3>3. QED
      BY <1>2, <1>4, <2>1, <2>2, <3>1, <3>2, MappedAppend
  <2>4. \A v \in Users : v # user => pending'[v] = pending[v]
    <3>1. \A v \in Users : v # user => queue'[v] = queue[v]
      BY <1>2 DEF Accounts
    <3>2. QED
      BY <3>1 DEF pending
  <2>5. pending \in [Users -> {pending[v] : v \in Users}] /\ DOMAIN pending' = Users
    BY DEF pending
  <2>6. pending' = [v \in Users |-> pending'[v]]
    BY DEF pending
  <2>7. QED
    BY <1>4, <2>3, <2>4, <2>5, <2>6
<1>9. committed' = committed /\ refused' = refused /\ told' = told
  BY <1>1 DEF Untouched, committed
<1>10. PICK u \in Users : u = user
  BY <1>4
<1>11. Promise!Write(u, w)
  BY <1>6, <1>7, <1>8, <1>9, <1>10 DEF Promise!Write, pending, committed
<1>12. w \in Writes
  BY <1>2
<1>13. QED
  BY <1>11, <1>12 DEF Promise!Next, Promise!Writes, Writes

\* What the server answers next is the first of its user's writes it has not answered.
LEMMA NextAnswered ==
  ASSUME IInv, ServerReads, stream.handshake, NEW w, w = Head(requests).write
  PROVE  user \in Users /\ w \in Writes /\ Promise!Answered(user, w)
<1> DEFINE a == Len(responses)
<1>0. TypeOK /\ StreamInv /\ Rows
  BY DEF IInv
<1>1. /\ a < Len(pipeline) /\ Head(requests) = pipeline[a + 1] /\ Head(requests) \in Batch
      /\ Run(w) /\ ownerOf[w] = user /\ responses \in Seq(Request)
  BY NextRequest
<1>2. user \in Users
  BY <1>0, <1>1, OwnerIsUser DEF Run
<1>3. w \in Writes
  BY <1>1 DEF Batch
<1>4. /\ pipeline \in Seq(Batch) /\ queue[user] \in Seq(Batch)
      /\ queue \in [Accounts -> Seq(Batch)] /\ user \in Accounts
      /\ Len(pipeline) <= Len(queue[user])
      /\ \A i \in 1 .. Len(pipeline) : pipeline[i] = queue[user][i]
  BY <1>0 DEF TypeOK, StreamInv, PipelineRows, Prefix
<1>5. a + 1 \in 1 .. Len(queue[user]) /\ a + 1 \in 1 .. Len(pipeline) /\ a \in Nat
  BY <1>1, <1>4
<1>6. pending[user][a + 1] = w /\ a + 1 \in DOMAIN pending[user]
  <2>1. queue[user][a + 1].write = w
    BY <1>1, <1>4, <1>5
  <2>2. QED
    BY <1>2, <1>4, <1>5, <2>1, PendingOf
<1>7. ASSUME NEW j \in 1 .. a PROVE pending[user][j] \in committed \cup refused
  <2>1. j \in 1 .. Len(queue[user]) /\ j \in 1 .. Len(pipeline)
    BY <1>5, <1>7, <1>4
  <2>2. \E c \in commits : c.write = responses[j].write
    BY <1>0, <1>7 DEF StreamInv, StreamReady, Ready
  <2>3. responses[j] = pipeline[j]
    BY <1>0, <1>7 DEF StreamInv, StreamReady, Ready, Prefix
  <2>4. pending[user][j] = responses[j].write
    <3>1. pending[user][j] = queue[user][j].write
      BY <1>2, <1>4, <2>1, PendingOf
    <3>2. queue[user][j] = responses[j]
      BY <1>4, <2>1, <2>3
    <3>3. QED
      BY <3>1, <3>2
  <2>5. QED
    BY <2>2, <2>4 DEF committed
<1>8. Promise!Answered(user, w)
  <2>1. (a + 1) - 1 = a
    BY <1>5
  <2>2. \A j \in 1 .. (a + 1) - 1 : pending[user][j] \in committed \cup refused
    BY <1>7, <2>1
  <2>3. \E i \in DOMAIN pending[user] :
          /\ pending[user][i] = w
          /\ \A j \in 1 .. i - 1 : pending[user][j] \in committed \cup refused
    BY <1>6, <2>2
  <2>4. QED
    BY <2>3 DEF Promise!Answered, pending, committed
<1>9. QED
  BY <1>2, <1>3, <1>8

LEMMA CommitMaps ==
  ASSUME IInv, ServerCommits
  PROVE  [Promise!Next]_(Promise!vars)
<1>1. /\ ServerReads /\ queue' = queue /\ told' = told /\ refused' = refused
      /\ commits' = IF "write" \in DOMAIN Head(requests)
                      THEN commits \cup {[write |-> Head(requests).write, user |-> stream.user]}
                      ELSE commits
  BY DEF ServerCommits, local
<1>2. CASE ~stream.handshake
  <2>1. commits' = commits
    BY <1>1, <1>2, NextRequest
  <2>2. QED
    BY <1>1, <2>1, StutterMaps DEF StutterStep
<1>3. CASE stream.handshake
  <2>1. PICK w : w = Head(requests).write
    OBVIOUS
  <2>2. user \in Users /\ w \in Writes /\ Promise!Answered(user, w)
    BY <1>1, <1>3, <2>1, NextAnswered
  <2>3. commits' = commits \cup {[write |-> w, user |-> stream.user]}
    BY <1>1, <1>3, <2>1, NextRequest
  <2>4. committed' = committed \cup {w}
    <3> DEFINE new == [write |-> w, user |-> stream.user]
    <3>1. new.write = w /\ commits' = commits \cup {new}
      BY <2>3
    <3> HIDE DEF new
    <3>2. \A x : x \in committed' <=> x \in committed \/ x = w
      BY <3>1 DEF committed
    <3>3. QED
      BY <3>2
  <2>5. pending' = pending
    BY <1>1 DEF pending
  <2>6. Promise!Commit(user, w)
    BY <1>1, <2>2, <2>4, <2>5 DEF Promise!Commit, pending, committed
  <2>7. QED
    BY <2>2, <2>6 DEF Promise!Next, Promise!Writes, Writes
<1>4. QED
  BY <1>2, <1>3

LEMMA RefuseMaps ==
  ASSUME IInv, ServerRefuses
  PROVE  [Promise!Next]_(Promise!vars)
<1>1. PICK w : w = Head(requests).write
  OBVIOUS
<1>2. /\ ServerReads /\ queue' = queue /\ told' = told /\ commits' = commits
      /\ refused' = IF "write" \in DOMAIN Head(requests) THEN refused \cup {w} ELSE refused
  BY <1>1 DEF ServerRefuses, local
<1>3. CASE ~stream.handshake
  <2>1. refused' = refused
    BY <1>2, <1>3, NextRequest
  <2>2. QED
    BY <1>2, <2>1, StutterMaps DEF StutterStep
<1>4. CASE stream.handshake
  <2>1. refused' = refused \cup {w}
    BY <1>2, <1>4, NextRequest
  <2>2. user \in Users /\ w \in Writes /\ Promise!Answered(user, w)
    BY <1>1, <1>2, <1>4, NextAnswered
  <2>3. pending' = pending /\ committed' = committed
    BY <1>2 DEF pending, committed
  <2>4. Promise!Refuse(user, w)
    BY <1>2, <2>1, <2>2, <2>3 DEF Promise!Refuse, pending, committed
  <2>5. QED
    BY <2>2, <2>4 DEF Promise!Next, Promise!Writes, Writes
<1>5. QED
  BY <1>3, <1>4

\* The first batch of the pipeline is the first of its user's writes, and leaves with
\* the server's answer.
LEMMA LeaveMaps ==
  ASSUME IInv, pipeline # <<>>, NEW answer \in {"ok", "error"}, Settle(Head(pipeline), answer),
         running' = running, tasks' = tasks, nextId' = nextId, Untouched
  PROVE  \E u \in Users :
           /\ pending[u] # <<>> /\ Head(pending[u]) = pipeline[1].write
           /\ Promise!Leave(u, answer)
<1>0. TypeOK /\ RightUser /\ Rows /\ PipelineRows
  BY DEF IInv, StreamInv
<1> DEFINE w == pipeline[1].write
<1>1. /\ queue[user] # <<>> /\ Head(queue[user]) = pipeline[1] /\ pipeline[1] \in Batch
      /\ queue' = [queue EXCEPT ![user] = Tail(@)] /\ queue'[user] = Tail(queue[user])
      /\ told' \in [Writes -> {"nothing", "ok", "error"}]
      /\ \A x \in Writes : told'[x] = told[x] \/ (x = w /\ told'[x] = answer)
  BY <1>0, RowRemoved DEF Untouched
<1>2. /\ user \in Accounts /\ queue \in [Accounts -> Seq(Batch)] /\ queue[user] \in Seq(Batch)
      /\ told \in [Writes -> {"nothing", "ok", "error"}]
  BY <1>0 DEF TypeOK
<1>3. w \in Writes
  BY <1>1 DEF Batch
<1>4. 1 \in 1 .. Len(queue[user]) /\ queue[user][1] = pipeline[1]
  BY <1>1, <1>2
<1>5. user \in Users
  <2>1. Run(w) /\ ownerOf[w] = user
    BY <1>0, <1>2, <1>4 DEF Rows, RowsAreOwn
  <2>2. QED
    BY <1>0, <2>1, OwnerIsUser DEF Run
<1> HIDE DEF w
<1>6. /\ pending[user] # <<>> /\ Head(pending[user]) = w
      /\ pending'[user] = Tail(pending[user])
  <2> DEFINE rows == queue[user]
             ws == [i \in DOMAIN rows |-> rows[i].write]
             shorter == Tail(rows)
  <2>1. pending[user] = ws
    BY <1>5 DEF pending
  <2>2. pending'[user] = [i \in DOMAIN shorter |-> shorter[i].write]
    <3>1. pending'[user] = [i \in DOMAIN queue'[user] |-> queue'[user][i].write]
      BY <1>5 DEF pending
    <3>2. QED
      BY <1>1, <3>1
  <2>3. /\ [i \in DOMAIN shorter |-> shorter[i].write] = Tail(ws)
        /\ ws # <<>> /\ Head(ws) = rows[1].write
    BY <1>1, <1>2, MappedTail
  <2> HIDE DEF ws, shorter
  <2>4. QED
    BY <1>4, <2>1, <2>2, <2>3 DEF w
<1>7. pending' = [pending EXCEPT ![user] = Tail(@)]
  <2>1. \A v \in Users : v # user => pending'[v] = pending[v]
    <3>1. \A v \in Users : v # user => queue'[v] = queue[v]
      BY <1>1, <1>2 DEF Accounts
    <3>2. QED
      BY <3>1 DEF pending
  <2>2. /\ pending \in [Users -> {pending[v] : v \in Users}]
        /\ pending' = [v \in Users |-> pending'[v]]
    BY DEF pending
  <2>3. QED
    BY <1>5, <1>6, <2>1, <2>2
<1>8. told' \in {told, [told EXCEPT ![w] = answer]}
  <2>1. CASE told'[w] = answer
    <3>1. told' = [told EXCEPT ![w] = answer]
      BY <1>1, <1>2, <1>3, <2>1
    <3>2. QED
      BY <3>1
  <2>2. CASE told'[w] # answer
    <3>1. \A x \in Writes : told'[x] = told[x]
      BY <1>1, <1>3, <2>2
    <3>2. told' = told
      BY <1>1, <1>2, <3>1
    <3>3. QED
      BY <3>2
  <2>3. QED
    BY <2>1, <2>2
<1>9. committed' = committed /\ refused' = refused
  BY DEF Untouched, committed
<1>10. told' \in {told, [told EXCEPT ![Head(pending[user])] = answer]}
  BY <1>6, <1>8
<1>11. PICK u \in Users : u = user
  BY <1>5
<1>12. Promise!Leave(u, answer)
  BY <1>7, <1>9, <1>10, <1>11 DEF Promise!Leave, pending, committed
<1>13. QED
  BY <1>6, <1>11, <1>12 DEF w

LEMMA ResultMaps ==
  ASSUME IInv, OnStreamRead, stream.handshake
  PROVE  Promise!Next
<1>0. TypeOK /\ Down /\ StreamInv
  BY DEF IInv
<1>1. /\ responses # <<>> /\ Settle(Head(pipeline), "ok")
      /\ running' = running /\ tasks' = tasks /\ nextId' = nextId /\ Untouched
  BY DEF OnStreamRead, OnWriteStreamMutationResult, Untouched, server
<1>2. /\ responses \in Seq(Request) /\ pipeline \in Seq(Batch)
      /\ Prefix(responses, pipeline)
      /\ \A i \in 1 .. Len(responses) : \E c \in commits : c.write = responses[i].write
  BY <1>0 DEF TypeOK, StreamInv, StreamReady, Ready
<1>3. 1 \in 1 .. Len(responses) /\ pipeline # <<>>
  BY <1>1, <1>2 DEF Prefix
<1>4. pipeline[1].write \in committed
  BY <1>2, <1>3 DEF Prefix, committed
<1>5. PICK u \in Users :
        pending[u] # <<>> /\ Head(pending[u]) \in committed /\ Promise!Leave(u, "ok")
  BY <1>1, <1>3, <1>4, LeaveMaps
<1>6. Promise!Acknowledge(u)
  BY <1>5 DEF Promise!Acknowledge, pending, committed
<1>7. QED
  BY <1>6 DEF Promise!Next

LEMMA RejectMaps ==
  ASSUME IInv, OnStreamFinish, OwnError
  PROVE  Promise!Next
<1>0. TypeOK /\ StreamInv
  BY DEF IInv
<1>1. /\ responses = <<>> /\ Settle(Head(pipeline), "error")
      /\ pipeline # <<>> /\ ended = "permanent" /\ stream.handshake
      /\ running' = running /\ tasks' = tasks /\ nextId' = nextId /\ Untouched
  BY DEF OnStreamFinish, OwnError, HandleWriteError, Untouched, server
<1>2. pipeline[1].write \in refused
  <2>1. pipeline[Len(responses) + 1].write \in refused
    BY <1>0, <1>1 DEF StreamInv, StreamReady, Ready
  <2>2. Len(responses) + 1 = 1
    BY <1>1
  <2>3. QED
    BY <2>1, <2>2
<1>3. PICK u \in Users :
        pending[u] # <<>> /\ Head(pending[u]) \in refused /\ Promise!Leave(u, "error")
  BY <1>1, <1>2, LeaveMaps
<1>4. Promise!Reject(u)
  BY <1>3 DEF Promise!Reject, pending, committed
<1>5. QED
  BY <1>4 DEF Promise!Next

LEMMA InitMaps == Init => Promise!Init
<1> SUFFICES ASSUME Init PROVE Promise!Init
  OBVIOUS
<1>1. /\ queue = [u \in Accounts |-> <<>>] /\ commits = {} /\ refused = {}
      /\ told = [w \in Writes |-> "nothing"]
  BY DEF Init
<1>2. pending = [u \in Users |-> <<>>]
  <2>1. \A u \in Users : queue[u] = <<>>
    BY <1>1 DEF Accounts
  <2>2. \A u \in Users : [i \in DOMAIN queue[u] |-> queue[u][i].write] = <<>>
    BY <2>1
  <2>3. QED
    BY <2>2 DEF pending
<1>3. committed = {}
  BY <1>1 DEF committed
<1>4. QED
  BY <1>1, <1>2, <1>3 DEF Promise!Init, Promise!Writes, Writes, pending, committed

LEMMA StepMaps == IInv /\ [Next]_vars => [Promise!Next]_(Promise!vars)
<1> SUFFICES ASSUME IInv, [Next]_vars PROVE [Promise!Next]_(Promise!vars)
  OBVIOUS
<1>1. CASE Launch \/ Kill \/ WriteData
  BY <1>1, StutterMaps DEF Launch, Kill, WriteData, StutterStep, local, server
<1>2. CASE \E u \in Accounts : updateCurrentUser(u)
  BY <1>2, StutterMaps DEF updateCurrentUser, StutterStep, local, server
<1>3. CASE Auth
  BY <1>3, StutterMaps DEF Auth, getToken, TokenFetched, StutterStep, local, server
<1>4. CASE RunMain
  BY <1>4, StutterMaps DEF RunMain, StutterStep, local, server
<1>5. CASE RunTask
  <2>1. /\ tasks # <<>> /\ tasks' = Tail(tasks) /\ WorkerFrame /\ Untouched
    BY <1>5 DEF RunTask, WorkerFrame, Untouched, auth, server
  <2>2. Head(tasks) = tasks[1] /\ tasks[1].kind \in {"write", "credential", "token"}
    BY <2>1, ShiftedTail, TaskTypes DEF IInv
  <2>3. CASE tasks[1].kind = "write"
    BY <1>5, <2>1, <2>2, <2>3, WriteMaps DEF RunTask
  <2>4. CASE tasks[1].kind = "credential"
    BY <1>5, <2>1, <2>2, <2>4, StutterMaps
       DEF RunTask, HandleCredentialChange, Untouched, StutterStep
  <2>5. CASE tasks[1].kind = "token"
    BY <1>5, <2>1, <2>2, <2>5, StutterMaps
       DEF RunTask, ResumeStart, CloseWithError, Untouched, StutterStep, local
  <2>6. QED
    BY <2>2, <2>3, <2>4, <2>5
<1>6. CASE BackoffElapsed \/ IdleTimeout
  BY <1>6, StutterMaps DEF BackoffElapsed, IdleTimeout, StutterStep, local, server
<1>7. CASE OnStreamRead
  <2>1. CASE stream.handshake
    BY <1>7, <2>1, ResultMaps
  <2>2. CASE ~stream.handshake
    BY <1>7, <2>2, StutterMaps
       DEF OnStreamRead, OnWriteStreamHandshakeComplete, StutterStep, local, server
  <2>3. QED
    BY <2>1, <2>2
<1>8. CASE OnStreamFinish
  <2>1. CASE OwnError
    BY <1>8, <2>1, RejectMaps
  <2>2. CASE ~OwnError
    BY <1>8, <2>2, StutterMaps DEF OnStreamFinish, CloseWithError, StutterStep, local, server
  <2>3. QED
    BY <2>1, <2>2
<1>9. CASE Network
  <2>1. CASE ServerCommits
    BY <2>1, CommitMaps
  <2>2. CASE ServerRefuses
    BY <2>2, RefuseMaps
  <2>3. CASE ConnectionLost
    BY <2>3, StutterMaps DEF ConnectionLost, StutterStep, local, server
  <2>4. QED
    BY <1>9, <2>1, <2>2, <2>3 DEF Network
<1>10. CASE UNCHANGED vars
  BY <1>10, StutterMaps DEF vars, local, server, StutterStep
<1>11. QED
  BY <1>1, <1>2, <1>3, <1>4, <1>5, <1>6, <1>7, <1>8, <1>9, <1>10 DEF Next

\* The client keeps what WriteQueue promises: every step of the client is a step of
\* the accounts' queues, or none that they could tell.
THEOREM Refinement == Spec => WriteQueueSpec
  BY InitMaps, StepMaps, Invariance, PTL DEF Spec, WriteQueueSpec, Promise!Spec
=============================================================================

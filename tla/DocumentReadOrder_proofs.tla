----------------------- MODULE DocumentReadOrder_proofs -----------------------
(***************************************************************************)
(* The theorem that reads do not go back, for any number of reads, writes  *)
(* and faults.                                                             *)
(***************************************************************************)
EXTENDS DocumentRead_proofs

(***************************************************************************)
(* Own writes are numbered in the order of the calls, and keep it: those   *)
(* in the worker queue are the last ones, those in LevelDB come before     *)
(* them.  A listener is added after the writes that were made before its   *)
(* read was called.                                                        *)
(***************************************************************************)
IsWrite(i) == tasks[i].kind = "write"
ToWrite(w) == \E i \in DOMAIN tasks : IsWrite(i) /\ tasks[i].write = w
InQueue(w) == \E i \in DOMAIN queue : queue[i] = w

TaskOrder ==
  /\ \A i, j \in DOMAIN tasks : i < j /\ IsWrite(i) /\ IsWrite(j) => tasks[i].write < tasks[j].write
  /\ \A i \in DOMAIN tasks : IsWrite(i) => \A w \in DOMAIN made : tasks[i].write < w => ToWrite(w)

QueueOrder ==
  /\ \A i, j \in DOMAIN queue : i < j => queue[i] < queue[j]
  /\ \A i \in DOMAIN queue, j \in DOMAIN tasks : IsWrite(j) => queue[i] < tasks[j].write

Calls == \A r \in DOMAIN reads : reads[r].mine <= Len(made) /\ reads[r].after <= Len(answers)

Past(r) == \A i \in DOMAIN tasks : IsWrite(i) => reads[r].mine < tasks[i].write

Turns ==
  /\ \A r \in waiting : Past(r)
  /\ \A i, j \in DOMAIN tasks : i < j /\ tasks[i].kind = "listen" /\ IsWrite(j) =>
       reads[tasks[i].read].mine < tasks[j].write

OrderInv == TaskOrder /\ QueueOrder /\ Calls /\ Turns

\* A step that leaves the writes and the calls alone, and raises events.
LEMMA OrderKept ==
  ASSUME OrderInv, UNCHANGED <<tasks, queue, made, reads, answers>>, waiting' \subseteq waiting
  PROVE  OrderInv'
<1>1. TaskOrder' /\ QueueOrder' /\ Calls'
  BY DEF OrderInv, TaskOrder, QueueOrder, Calls, IsWrite, ToWrite
<1>2. Turns'
  BY DEF OrderInv, Turns, Past, IsWrite
<1>3. QED
  BY <1>1, <1>2 DEF OrderInv

\* A published view leaves no listener waiting that did not wait.
LEMMA PublishedWaits ==
  ASSUME NEW v, NEW online, Publish(v, online)
  PROVE  waiting' \subseteq waiting
BY DEF Publish, RaiseInitialEvents

\* Another task is the last one.
LEMMA TaskLast ==
  ASSUME Typed, NEW task, tasks' = Append(tasks, task)
  PROVE  /\ Len(tasks) \in Nat /\ DOMAIN tasks = 1 .. Len(tasks) /\ DOMAIN tasks' = 1 .. Len(tasks) + 1
         /\ \A i \in DOMAIN tasks : tasks'[i] = tasks[i]
         /\ tasks'[Len(tasks) + 1] = task
         /\ \A i \in DOMAIN tasks' : i \in DOMAIN tasks \/ i = Len(tasks) + 1
<1>1. tasks \in Seq(Tasks)
  BY TypedFacts
<1>2. QED
  BY <1>1

\* The first task is taken away, and the others move up.
LEMMA TaskFirst ==
  ASSUME Typed, tasks # <<>>, tasks' = Tail(tasks)
  PROVE  /\ Len(tasks) \in Nat /\ DOMAIN tasks = 1 .. Len(tasks) /\ DOMAIN tasks' = 1 .. Len(tasks) - 1
         /\ 1 \in DOMAIN tasks /\ Head(tasks) = tasks[1]
         /\ \A i \in DOMAIN tasks' : i + 1 \in DOMAIN tasks /\ tasks'[i] = tasks[i + 1]
         /\ \A i \in DOMAIN tasks : i = 1 \/ \E k \in DOMAIN tasks' : i = k + 1
<1>1. tasks \in Seq(Tasks)
  BY TypedFacts
<1>2. QED
  BY <1>1, TailFacts

\* A task is a member of its type.
LEMMA TaskTyped ==
  ASSUME Typed, NEW i \in DOMAIN tasks
  PROVE  /\ tasks[i].kind \in {"listen", "remove", "write"}
         /\ IsWrite(i) => tasks[i].write \in DOMAIN made /\ tasks[i].write \in Nat
         /\ tasks[i].kind = "listen" => tasks[i].read \in DOMAIN reads
<1>1. tasks \in Seq(Tasks) /\ made \in Seq(Kinds)
  BY TypedFacts
<1>2. tasks[i] \in Tasks /\ DOMAIN made \subseteq Nat
  BY <1>1
<1>3. QED
  BY <1>2 DEF Tasks, IsWrite

\* So is a call.
LEMMA CallTyped ==
  ASSUME Typed, NEW r \in DOMAIN reads
  PROVE  reads[r].mine \in Nat /\ reads[r].after \in Nat
<1>1. reads \in Seq([mine : Nat, after : Nat])
  BY TypedFacts
<1>2. reads[r] \in [mine : Nat, after : Nat]
  <2>1. r \in 1 .. Len(reads)
    BY <1>1
  <2>2. QED
    BY <1>1, <2>1, ElementOfSeq, Zenon
<1>3. QED
  BY <1>2

\* A call of getDocument.
LEMMA OrderGetDocument ==
  ASSUME Typed, OrderInv, getDocument
  PROVE  OrderInv'
<1>1. PICK task, r, read : /\ task = [kind |-> "listen", read |-> r] /\ r = Len(reads) + 1
                           /\ read = [mine |-> Len(made), after |-> Len(answers)]
  OBVIOUS
<1>2. /\ reads' = Append(reads, read) /\ tasks' = Append(tasks, task)
      /\ UNCHANGED <<made, queue, answers, waiting>>
  BY <1>1, GetDocumentCases
<1>3. /\ Len(tasks) \in Nat /\ DOMAIN tasks = 1 .. Len(tasks) /\ DOMAIN tasks' = 1 .. Len(tasks) + 1
      /\ \A i \in DOMAIN tasks : tasks'[i] = tasks[i]
      /\ tasks'[Len(tasks) + 1] = task
      /\ \A i \in DOMAIN tasks' : i \in DOMAIN tasks \/ i = Len(tasks) + 1
  BY <1>2, TaskLast
<1>4. \A i \in DOMAIN tasks' : IsWrite(i)' => i \in DOMAIN tasks /\ IsWrite(i)
  BY <1>1, <1>3 DEF IsWrite
<1>5. /\ made \in Seq(Kinds) /\ answers \in Seq(Events) /\ reads \in Seq([mine : Nat, after : Nat])
      /\ waiting \subseteq DOMAIN reads
  BY TypedFacts
<1>6. /\ Len(made) \in Nat /\ Len(answers) \in Nat /\ r \in Nat /\ r \notin DOMAIN reads
      /\ DOMAIN reads' = DOMAIN reads \cup {r} /\ reads'[r] = read
      /\ \A n \in DOMAIN reads : reads'[n] = reads[n]
  BY <1>1, <1>2, <1>5
<1>7. TaskOrder'
  <2>1. \A w : ToWrite(w) => ToWrite(w)'
    BY <1>3 DEF ToWrite, IsWrite
  <2>2. QED
    BY <1>2, <1>3, <1>4, <2>1 DEF OrderInv, TaskOrder
<1>8. QueueOrder'
  BY <1>2, <1>3, <1>4 DEF OrderInv, QueueOrder
<1>9. Calls'
  BY <1>1, <1>2, <1>6 DEF OrderInv, Calls
<1>10. Turns'
  <2>1. ASSUME NEW n \in waiting' PROVE Past(n)'
    BY <1>2, <1>3, <1>4, <1>5, <1>6, <2>1 DEF OrderInv, Turns, Past
  <2>2. ASSUME NEW i \in DOMAIN tasks', NEW j \in DOMAIN tasks', i < j, tasks'[i].kind = "listen", IsWrite(j)'
        PROVE  reads'[tasks'[i].read].mine < tasks'[j].write
    <3>1. j \in DOMAIN tasks /\ IsWrite(j) /\ i \in DOMAIN tasks
      BY <1>3, <1>4, <2>2
    <3>2. tasks'[i] = tasks[i] /\ tasks[i].read \in DOMAIN reads
      BY <1>3, <2>2, <3>1, TaskTyped
    <3>3. QED
      BY <1>3, <1>6, <2>2, <3>1, <3>2 DEF OrderInv, Turns
  <2>3. QED
    BY <2>1, <2>2 DEF Turns
<1>11. QED
  BY <1>7, <1>8, <1>9, <1>10 DEF OrderInv

\* A call of setData or updateData: the new write is the last.
LEMMA OrderWriteData ==
  ASSUME Typed, OrderInv, NEW kind \in Kinds, WriteData(kind)
  PROVE  OrderInv'
<1>1. PICK task, new : task = [kind |-> "write", write |-> new] /\ new = Len(made) + 1
  OBVIOUS
<1>2. /\ made' = Append(made, kind) /\ tasks' = Append(tasks, task)
      /\ UNCHANGED <<reads, queue, answers, waiting>>
  BY <1>1, WriteDataCases
<1>3. /\ Len(tasks) \in Nat /\ DOMAIN tasks = 1 .. Len(tasks) /\ DOMAIN tasks' = 1 .. Len(tasks) + 1
      /\ \A i \in DOMAIN tasks : tasks'[i] = tasks[i]
      /\ tasks'[Len(tasks) + 1] = task
      /\ \A i \in DOMAIN tasks' : i \in DOMAIN tasks \/ i = Len(tasks) + 1
  BY <1>2, TaskLast
<1>4. /\ made \in Seq(Kinds) /\ answers \in Seq(Events) /\ reads \in Seq([mine : Nat, after : Nat])
      /\ waiting \subseteq DOMAIN reads /\ queue \in Seq(DOMAIN made)
  BY TypedFacts
<1>5. /\ Len(made) \in Nat /\ new \in Nat /\ DOMAIN made = 1 .. Len(made) /\ DOMAIN made' = DOMAIN made \cup {new}
      /\ Len(made') = new /\ \A w \in DOMAIN made : w \in Nat /\ w < new
  BY <1>1, <1>2, <1>4
<1>6. \A i \in DOMAIN tasks' : IsWrite(i)' =>
        \/ i \in DOMAIN tasks /\ IsWrite(i) /\ tasks'[i].write = tasks[i].write
        \/ i = Len(tasks) + 1 /\ tasks'[i].write = new
  BY <1>1, <1>3 DEF IsWrite
<1>7. \A i \in DOMAIN tasks : IsWrite(i) => tasks[i].write \in Nat /\ tasks[i].write < new
  BY <1>5, TaskTyped
<1>8. TaskOrder'
  <2>1. ToWrite(new)' /\ \A w : ToWrite(w) => ToWrite(w)'
    BY <1>1, <1>3 DEF ToWrite, IsWrite
  <2>2. \A i, j \in DOMAIN tasks' : i < j /\ IsWrite(i)' /\ IsWrite(j)' => tasks'[i].write < tasks'[j].write
    BY <1>3, <1>6, <1>7 DEF OrderInv, TaskOrder
  <2>3. ASSUME NEW i \in DOMAIN tasks', IsWrite(i)', NEW w \in DOMAIN made', tasks'[i].write < w
        PROVE  ToWrite(w)'
    BY <1>5, <1>6, <2>1, <2>3 DEF OrderInv, TaskOrder
  <2>4. QED
    BY <2>2, <2>3 DEF TaskOrder
<1>9. QueueOrder'
  <2>1. \A i \in DOMAIN queue : queue[i] \in DOMAIN made
    BY <1>4
  <2>2. QED
    BY <1>2, <1>5, <1>6, <2>1 DEF OrderInv, QueueOrder
<1>10. \A r \in DOMAIN reads : reads[r].mine \in Nat /\ reads[r].mine <= Len(made)
  BY CallTyped DEF OrderInv, Calls
<1>11. \A r \in DOMAIN reads : reads[r].mine < new /\ reads[r].mine <= new
  BY <1>1, <1>5, <1>10
<1>12. Calls'
  BY <1>2, <1>5, <1>11 DEF OrderInv, Calls
<1>13. Turns'
  <2>1. ASSUME NEW n \in waiting' PROVE Past(n)'
    BY <1>2, <1>4, <1>6, <1>11, <2>1 DEF OrderInv, Turns, Past
  <2>2. ASSUME NEW i \in DOMAIN tasks', NEW j \in DOMAIN tasks', i < j, tasks'[i].kind = "listen", IsWrite(j)'
        PROVE  reads'[tasks'[i].read].mine < tasks'[j].write
    <3>1. i \in DOMAIN tasks
      BY <1>3, <2>2
    <3>2. tasks'[i] = tasks[i] /\ tasks[i].read \in DOMAIN reads
      BY <1>3, <2>2, <3>1, TaskTyped
    <3>3. QED
      BY <1>2, <1>6, <1>11, <2>2, <3>1, <3>2 DEF OrderInv, Turns
  <2>3. QED
    BY <2>1, <2>2 DEF Turns
<1>14. QED
  BY <1>8, <1>9, <1>12, <1>13 DEF OrderInv

\* An event of a read.
LEMMA OrderOnEvent ==
  ASSUME Typed, OrderInv, OnEvent
  PROVE  OrderInv'
<1>1. PICK task : task = [kind |-> "remove", read |-> Head(main).read]
  OBVIOUS
<1>2. /\ main # <<>> /\ answers' = Append(answers, Head(main)) /\ tasks' = Append(tasks, task)
      /\ UNCHANGED <<reads, queue, made, waiting>>
  BY <1>1, OnEventCases
<1>3. /\ Len(tasks) \in Nat /\ DOMAIN tasks = 1 .. Len(tasks) /\ DOMAIN tasks' = 1 .. Len(tasks) + 1
      /\ \A i \in DOMAIN tasks : tasks'[i] = tasks[i]
      /\ tasks'[Len(tasks) + 1] = task
      /\ \A i \in DOMAIN tasks' : i \in DOMAIN tasks \/ i = Len(tasks) + 1
  BY <1>2, TaskLast
<1>4. /\ \A i \in DOMAIN tasks' : IsWrite(i)' => i \in DOMAIN tasks /\ IsWrite(i)
      /\ \A i \in DOMAIN tasks' : tasks'[i].kind = "listen" => i \in DOMAIN tasks
  BY <1>1, <1>3 DEF IsWrite
<1>5. TaskOrder'
  <2>1. \A w : ToWrite(w) => ToWrite(w)'
    BY <1>3 DEF ToWrite, IsWrite
  <2>2. QED
    BY <1>2, <1>3, <1>4, <2>1 DEF OrderInv, TaskOrder
<1>6. QueueOrder'
  BY <1>2, <1>3, <1>4 DEF OrderInv, QueueOrder
<1>7. Calls'
  <2>1. answers \in Seq(Events) /\ main \in Seq(Events) /\ reads \in Seq([mine : Nat, after : Nat])
    BY TypedFacts
  <2>2. Len(answers) \in Nat /\ Len(answers') = Len(answers) + 1
    BY <1>2, <2>1
  <2>3. \A r \in DOMAIN reads : reads[r].after \in Nat
    BY CallTyped
  <2>4. QED
    BY <1>2, <2>2, <2>3 DEF OrderInv, Calls
<1>8. Turns'
  BY <1>2, <1>3, <1>4 DEF OrderInv, Turns, Past
<1>9. QED
  BY <1>5, <1>6, <1>7, <1>8 DEF OrderInv

\* The tasks that are left when the first one has been run.
LEMMA TaskOrderPopped ==
  ASSUME Typed, OrderInv, tasks # <<>>, tasks' = Tail(tasks), UNCHANGED <<made, reads>>
  PROVE  /\ TaskOrder'
         /\ \A i \in DOMAIN tasks' : \E k \in DOMAIN tasks : k = i + 1 /\ tasks'[i] = tasks[k]
         /\ \A i, j \in DOMAIN tasks' : i < j /\ tasks'[i].kind = "listen" /\ IsWrite(j)' =>
              reads'[tasks'[i].read].mine < tasks'[j].write
         /\ \A w : ToWrite(w)' => ToWrite(w)
         /\ \A w : ToWrite(w) => ToWrite(w)' \/ (IsWrite(1) /\ tasks[1].write = w)
<1>1. /\ Len(tasks) \in Nat /\ DOMAIN tasks = 1 .. Len(tasks) /\ DOMAIN tasks' = 1 .. Len(tasks) - 1
      /\ 1 \in DOMAIN tasks /\ Head(tasks) = tasks[1]
      /\ \A i \in DOMAIN tasks' : i + 1 \in DOMAIN tasks /\ tasks'[i] = tasks[i + 1]
      /\ \A i \in DOMAIN tasks : i = 1 \/ \E k \in DOMAIN tasks' : i = k + 1
  BY TaskFirst
<1>2. \A i \in DOMAIN tasks' : \E k \in DOMAIN tasks : k = i + 1 /\ tasks'[i] = tasks[k]
  BY <1>1
<1>3. \A w : ToWrite(w)' => ToWrite(w)
  BY <1>2 DEF ToWrite, IsWrite
<1>4. \A w : ToWrite(w) => ToWrite(w)' \/ (IsWrite(1) /\ tasks[1].write = w)
  <2> SUFFICES ASSUME NEW w, NEW i \in DOMAIN tasks, IsWrite(i), tasks[i].write = w, i # 1 PROVE ToWrite(w)'
    BY DEF ToWrite
  <2>1. PICK k \in DOMAIN tasks' : i = k + 1
    BY <1>1
  <2>2. tasks'[k] = tasks[i]
    BY <1>1, <2>1
  <2>3. IsWrite(k)' /\ tasks'[k].write = w
    BY <2>2 DEF IsWrite
  <2>4. QED
    BY <2>3 DEF ToWrite
<1>5. \A i, j \in DOMAIN tasks' : i < j /\ IsWrite(i)' /\ IsWrite(j)' => tasks'[i].write < tasks'[j].write
  <2> SUFFICES ASSUME NEW i \in DOMAIN tasks', NEW j \in DOMAIN tasks', i < j, IsWrite(i)', IsWrite(j)'
               PROVE  tasks'[i].write < tasks'[j].write
    OBVIOUS
  <2>1. PICK k, m \in DOMAIN tasks : k = i + 1 /\ m = j + 1 /\ tasks'[i] = tasks[k] /\ tasks'[j] = tasks[m]
    BY <1>2
  <2>2. k < m /\ IsWrite(k) /\ IsWrite(m)
    BY <1>1, <2>1 DEF IsWrite
  <2>3. QED
    BY <2>1, <2>2 DEF OrderInv, TaskOrder
<1>6. ASSUME NEW i \in DOMAIN tasks', IsWrite(i)', NEW w \in DOMAIN made', tasks'[i].write < w
      PROVE  ToWrite(w)'
  <2>1. PICK k \in DOMAIN tasks : k = i + 1 /\ tasks'[i] = tasks[k]
    BY <1>2
  <2>2. IsWrite(k) /\ tasks[k].write < w /\ k # 1 /\ 1 < k
    BY <1>1, <1>6, <2>1 DEF IsWrite
  <2>3. ToWrite(w)
    BY <1>6, <2>2 DEF OrderInv, TaskOrder
  <2>4. ~ (IsWrite(1) /\ tasks[1].write = w)
    <3> SUFFICES ASSUME IsWrite(1), tasks[1].write = w PROVE FALSE
      OBVIOUS
    <3>1. tasks[1].write < tasks[k].write
      BY <1>1, <2>2 DEF OrderInv, TaskOrder
    <3>2. tasks[1].write \in Nat /\ tasks[k].write \in Nat
      BY <1>1, <2>2, TaskTyped
    <3>3. QED
      BY <2>2, <3>1, <3>2
  <2>5. QED
    BY <1>4, <2>3, <2>4
<1>7. \A i, j \in DOMAIN tasks' : i < j /\ tasks'[i].kind = "listen" /\ IsWrite(j)' =>
        reads'[tasks'[i].read].mine < tasks'[j].write
  <2> SUFFICES ASSUME NEW i \in DOMAIN tasks', NEW j \in DOMAIN tasks', i < j,
                      tasks'[i].kind = "listen", IsWrite(j)'
               PROVE  reads[tasks'[i].read].mine < tasks'[j].write
    OBVIOUS
  <2>1. PICK k, m \in DOMAIN tasks : k = i + 1 /\ m = j + 1 /\ tasks'[i] = tasks[k] /\ tasks'[j] = tasks[m]
    BY <1>2
  <2>2. k < m /\ tasks[k].kind = "listen" /\ IsWrite(m)
    BY <1>1, <2>1 DEF IsWrite
  <2>3. QED
    BY <2>1, <2>2 DEF OrderInv, Turns
<1>8. QED
  BY <1>2, <1>3, <1>4, <1>5, <1>6, <1>7 DEF TaskOrder

\* The tasks of the worker.
LEMMA OrderRunTask ==
  ASSUME Typed, OrderInv, RunTask
  PROVE  OrderInv'
<1>1. /\ tasks # <<>> /\ tasks' = Tail(tasks) /\ UNCHANGED <<made, reads, answers>>
      /\ Head(tasks).kind = "listen" => AddQueryListener(Head(tasks).read)
      /\ Head(tasks).kind = "remove" => RemoveQueryListener(Head(tasks).read)
      /\ Head(tasks).kind = "write" => WriteMutations(Head(tasks).write)
  BY RunTaskCases DEF TaskKept
<1>2. /\ Len(tasks) \in Nat /\ DOMAIN tasks = 1 .. Len(tasks)
      /\ 1 \in DOMAIN tasks /\ Head(tasks) = tasks[1]
  BY <1>1, TaskFirst
<1>3. /\ TaskOrder'
      /\ \A i \in DOMAIN tasks' : \E k \in DOMAIN tasks : k = i + 1 /\ tasks'[i] = tasks[k]
      /\ \A i, j \in DOMAIN tasks' : i < j /\ tasks'[i].kind = "listen" /\ IsWrite(j)' =>
           reads'[tasks'[i].read].mine < tasks'[j].write
  BY <1>1, TaskOrderPopped
<1>4. Calls'
  BY <1>1 DEF OrderInv, Calls
<1>5. \A i \in DOMAIN tasks' : \E k \in DOMAIN tasks :
        1 < k /\ tasks'[i] = tasks[k] /\ (IsWrite(i)' <=> IsWrite(k))
  <2>1. \A i \in DOMAIN tasks' : i \in Nat /\ i >= 1
    BY <1>1, <1>2, TaskFirst
  <2>2. QED
    BY <1>3, <2>1 DEF IsWrite
<1>6. \A r : Past(r) => Past(r)'
  BY <1>1, <1>5 DEF Past
<1>7. tasks[1].kind \in {"listen", "remove", "write"}
  BY <1>2, TaskTyped
<1>8. CASE tasks[1].kind = "listen"
  <2>1. PICK r : r = tasks[1].read
    OBVIOUS
  <2>2. AddQueryListener(r) /\ queue' = queue
    BY <1>1, <1>2, <1>8, <2>1, AddListenerCases
  <2>3. waiting' \subseteq waiting \cup {r}
    <3>1. \/ RaiseInitialEvents(waiting \cup {r}, shown', tracker.state)
          \/ RaiseInitialEvents({r}, shown', tracker.state)
      BY <2>2, AddListenerCases
    <3>2. QED
      BY <3>1 DEF RaiseInitialEvents
  <2>4. Past(r)'
    <3> SUFFICES ASSUME NEW i \in DOMAIN tasks', IsWrite(i)' PROVE reads[r].mine < tasks'[i].write
      BY <1>1 DEF Past
    <3>1. PICK k \in DOMAIN tasks : 1 < k /\ tasks'[i] = tasks[k] /\ IsWrite(k)
      BY <1>5
    <3>2. QED
      BY <1>2, <1>8, <2>1, <3>1 DEF OrderInv, Turns
  <2>5. QueueOrder'
    BY <1>5, <2>2 DEF OrderInv, QueueOrder
  <2>6. \A s \in waiting' : Past(s)'
    BY <1>6, <2>3, <2>4 DEF OrderInv, Turns
  <2>7. QED
    BY <1>3, <1>4, <2>5, <2>6 DEF OrderInv, Turns
<1>9. CASE tasks[1].kind = "remove"
  <2>1. queue' = queue /\ waiting' \subseteq waiting
    BY <1>1, <1>2, <1>9, RemoveListenerCases
  <2>2. QueueOrder'
    BY <1>5, <2>1 DEF OrderInv, QueueOrder
  <2>3. \A s \in waiting' : Past(s)'
    BY <1>6, <2>1 DEF OrderInv, Turns
  <2>4. QED
    BY <1>3, <1>4, <2>2, <2>3 DEF OrderInv, Turns
<1>10. CASE tasks[1].kind = "write"
  <2>1. PICK w : w = tasks[1].write
    OBVIOUS
  <2>2. queue' = Append(queue, w) /\ waiting' \subseteq waiting /\ IsWrite(1) /\ w \in DOMAIN made
    BY <1>1, <1>2, <1>10, <2>1, WriteMutationsCases, PublishedWaits, TaskTyped DEF IsWrite
  <2>3. /\ Len(queue) \in Nat /\ DOMAIN queue = 1 .. Len(queue) /\ DOMAIN queue' = 1 .. Len(queue) + 1
        /\ \A i \in DOMAIN queue : queue'[i] = queue[i] /\ queue[i] < w
        /\ queue'[Len(queue) + 1] = w
    <3>1. queue \in Seq(DOMAIN made)
      BY TypedFacts
    <3>2. \A i \in DOMAIN queue : queue[i] < w
      BY <1>2, <2>1, <2>2 DEF OrderInv, QueueOrder
    <3>3. QED
      BY <2>2, <3>1, <3>2, AppendProperties
  <2>4. \A i \in DOMAIN tasks' : IsWrite(i)' => w < tasks'[i].write
    BY <1>2, <1>5, <2>1, <2>2 DEF OrderInv, TaskOrder
  <2>5. \A i, j \in DOMAIN queue' : i < j => queue'[i] < queue'[j]
    <3> SUFFICES ASSUME NEW i \in DOMAIN queue', NEW j \in DOMAIN queue', i < j PROVE queue'[i] < queue'[j]
      OBVIOUS
    <3>1. i \in DOMAIN queue /\ (j \in DOMAIN queue \/ j = Len(queue) + 1)
      BY <2>3
    <3>2. QED
      BY <2>3, <3>1 DEF OrderInv, QueueOrder
  <2>6. \A i \in DOMAIN queue', j \in DOMAIN tasks' : IsWrite(j)' => queue'[i] < tasks'[j].write
    <3> SUFFICES ASSUME NEW i \in DOMAIN queue', NEW j \in DOMAIN tasks', IsWrite(j)'
                 PROVE  queue'[i] < tasks'[j].write
      OBVIOUS
    <3>1. i \in DOMAIN queue \/ i = Len(queue) + 1
      BY <2>3
    <3>2. PICK k \in DOMAIN tasks : tasks'[j] = tasks[k] /\ IsWrite(k)
      BY <1>5
    <3>3. i \in DOMAIN queue => queue[i] < tasks[k].write
      BY <3>2 DEF OrderInv, QueueOrder
    <3>4. QED
      BY <2>3, <2>4, <3>1, <3>2, <3>3
  <2>7. \A s \in waiting' : Past(s)'
    BY <1>6, <2>2 DEF OrderInv, Turns
  <2>8. QED
    BY <1>3, <1>4, <2>5, <2>6, <2>7 DEF OrderInv, Turns, QueueOrder
<1>11. QED
  BY <1>7, <1>8, <1>9, <1>10

\* The first write leaves the queue.
LEMMA QueueFirst ==
  ASSUME Typed, results # <<>>, queue' = Tail(queue)
  PROVE  /\ queue # <<>> /\ Len(queue) \in Nat /\ DOMAIN queue = 1 .. Len(queue) /\ 1 \in DOMAIN queue
         /\ Head(queue) = queue[1] /\ DOMAIN queue' = 1 .. Len(queue) - 1
         /\ Len(queue') = Len(queue) - 1 /\ queue' \in Seq(DOMAIN made)
         /\ \A i \in DOMAIN queue' : i + 1 \in DOMAIN queue /\ queue'[i] = queue[i + 1]
         /\ \A i \in DOMAIN queue : i = 1 \/ \E k \in DOMAIN queue' : i = k + 1
<1>1. /\ results \in Seq(Results) /\ Len(results) <= Len(queue) /\ queue \in Seq(DOMAIN made)
  BY TypedFacts
<1>2. Len(results) # 0 /\ Len(results) \in Nat /\ Len(queue) \in Nat
  BY <1>1, EmptySeq
<1>3. queue # <<>>
  BY <1>1, <1>2
<1>4. QED
  BY <1>1, <1>3, TailFacts

\* The result of a write takes it out of the queue.
LEMMA OrderOnWriteResult ==
  ASSUME Typed, OrderInv, OnWriteResult
  PROVE  OrderInv'
<1>1. /\ results # <<>> /\ queue' = Tail(queue)
      /\ UNCHANGED <<tasks, made, reads, answers>> /\ waiting' \subseteq waiting
  BY OnWriteResultCases, PublishedWaits
<1>2. /\ DOMAIN queue = 1 .. Len(queue) /\ Len(queue) \in Nat
      /\ \A i \in DOMAIN queue' : i \in Nat /\ i + 1 \in DOMAIN queue /\ queue'[i] = queue[i + 1]
  BY <1>1, QueueFirst
<1>3. \A i, j \in DOMAIN queue' : i < j => queue'[i] < queue'[j]
  <2> SUFFICES ASSUME NEW i \in DOMAIN queue', NEW j \in DOMAIN queue', i < j PROVE queue'[i] < queue'[j]
    OBVIOUS
  <2>1. PICK k, m \in DOMAIN queue : k = i + 1 /\ m = j + 1 /\ queue'[i] = queue[k] /\ queue'[j] = queue[m]
    BY <1>2
  <2>2. k < m
    BY <1>2, <2>1
  <2>3. QED
    BY <2>1, <2>2 DEF OrderInv, QueueOrder
<1>4. \A i \in DOMAIN queue', j \in DOMAIN tasks : IsWrite(j) => queue'[i] < tasks[j].write
  BY <1>2 DEF OrderInv, QueueOrder
<1>5. TaskOrder' /\ QueueOrder' /\ Calls' /\ Turns'
  BY <1>1, <1>3, <1>4 DEF OrderInv, TaskOrder, QueueOrder, Calls, Turns, Past, IsWrite, ToWrite
<1>6. QED
  BY <1>5 DEF OrderInv

\* A restart leaves no tasks.
LEMMA OrderRestart ==
  ASSUME Typed, OrderInv, Restart
  PROVE  OrderInv'
<1>1. tasks' = <<>> /\ waiting' = {} /\ UNCHANGED <<made, reads, answers, queue>>
  BY RestartCases
<1>2. DOMAIN tasks' = {}
  BY <1>1
<1>3. QED
  BY <1>1, <1>2 DEF OrderInv, TaskOrder, QueueOrder, Calls, Turns

\* At first there are no writes.
LEMMA OrderInitially == Init => OrderInv
<1> SUFFICES ASSUME Init PROVE OrderInv
  OBVIOUS
<1>1. tasks = <<>> /\ queue = <<>> /\ reads = <<>> /\ waiting = {}
  BY DEF Init
<1>2. DOMAIN tasks = {} /\ DOMAIN queue = {} /\ DOMAIN reads = {}
  BY <1>1
<1>3. QED
  BY <1>1, <1>2 DEF OrderInv, TaskOrder, QueueOrder, Calls, Turns

\* Every step keeps the order.
LEMMA OrderStep ==
  ASSUME Typed, OrderInv, [Next]_vars
  PROVE  OrderInv'
<1>1. CASE UNCHANGED vars
  BY <1>1, OrderKept DEF vars, app, listening
<1>2. CASE getDocument
  BY <1>2, OrderGetDocument
<1>3. ASSUME NEW kind \in Kinds, WriteData(kind) PROVE OrderInv'
  BY <1>3, OrderWriteData
<1>4. CASE OnEvent
  BY <1>4, OrderOnEvent
<1>5. CASE RunTask
  BY <1>5, OrderRunTask
<1>6. CASE OnWriteResult
  BY <1>6, OrderOnWriteResult
<1>7. CASE OnlineStateTimeout
  <2>1. PICK t : t = [tracker EXCEPT !.state = "offline", !.timer = FALSE]
    OBVIOUS
  <2>2. SetAndBroadcast(t) /\ UNCHANGED <<tasks, queue, made, reads, answers>>
    BY <1>7, <2>1, OnlineStateTimeoutCases
  <2>3. QED
    BY <2>2, PublishedWaits, OrderKept DEF SetAndBroadcast
<1>8. CASE StreamOpens
  BY <1>8, StreamOpensCases, OrderKept
<1>9. CASE StreamFails \/ ConnectionLost \/ IdleTimeout \/ HandleCredentialChange
  <2>1. PICK state \in {"off", "starting"} : \E t : Ends(state, t)
    BY <1>9, StreamEndsCases
  <2>2. PICK t : Ends(state, t)
    BY <2>1
  <2>3. SetAndBroadcast(t) /\ UNCHANGED <<tasks, queue, made, reads, answers>>
    BY <2>2 DEF Ends
  <2>4. QED
    BY <2>3, PublishedWaits, OrderKept DEF SetAndBroadcast
<1>10. CASE OnWatchStreamChange
  <2>1. UNCHANGED <<tasks, queue, made, reads, answers>>
    BY <1>10, OnWatchStreamChangeCases
  <2>2. \E v : Publish(v, "online")
    BY <1>10, OnWatchStreamChangeCases, RaiseWatchSnapshotCases, HandleChangeCases
  <2>3. QED
    BY <2>1, <2>2, PublishedWaits, OrderKept
<1>11. CASE Restart
  BY <1>11, OrderRestart
<1>12. CASE ServerAnswers \/ ServerSends
  BY <1>12, ServerAnswersCases, ServerSendsCases, OrderKept
<1>13. CASE ServerWrites
  BY <1>13, ServerWritesKept, OrderKept
<1>14. ASSUME NEW kind \in Kinds, OtherPhoneWrites(kind) PROVE OrderInv'
  BY <1>14, OtherPhoneWritesCases, OrderKept
<1>15. QED
  BY <1>1, <1>2, <1>3, <1>4, <1>5, <1>6, <1>7, <1>8, <1>9, <1>10, <1>11, <1>12, <1>13, <1>14, NextCases

(***************************************************************************)
(* What has become of an own write.  The result of one that was applied    *)
(* is for a version that has it; one that is neither queued nor to be is   *)
(* in the cache's version, or was dropped, and comes before those that     *)
(* are; one that was never applied is in no version.  While no result is   *)
(* lost, each write is sent once, and each result is for a new version.    *)
(***************************************************************************)
Acknowledged ==
  \A i \in DOMAIN results :
    IF results[i].ok THEN committedAt[queue[i]] \in 1 .. results[i].version ELSE queue[i] \in dropped

BeforeQueue(w) == \A i \in DOMAIN queue : w < queue[i]

Retired ==
  \A w \in DOMAIN made :
    InQueue(w) \/ ToWrite(w) \/ w \in dropped \/ (committedAt[w] \in 1 .. cache.version /\ BeforeQueue(w))

NotApplied(w) == \A v \in 1 .. Now : log[v] = Missing \/ w \notin log[v]

Fresh ==
  \A w \in 1 .. MaxWrites :
    /\ committedAt[w] = 0 => NotApplied(w)
    /\ w > Len(made) \/ ToWrite(w) => committedAt[w] = 0

Lossless ==
  faults = 0 =>
    /\ \A i \in DOMAIN queue : i > Len(results) => committedAt[queue[i]] = 0
    /\ \A i, j \in DOMAIN results :
         i < j /\ results[i].ok /\ results[j].ok => results[i].version < results[j].version
    /\ \A i \in DOMAIN results : cache.unsynced /\ results[i].ok => cache.version < results[i].version

WriteInv == Acknowledged /\ Retired /\ Fresh /\ Lossless

(***************************************************************************)
(* A step that does nothing with a write, but may lose results.            *)
(***************************************************************************)
Plain ==
  /\ UNCHANGED <<log, committedAt, dropped, made, queue>>
  /\ UNCHANGED <<results, faults>> \/ (results' = <<>> /\ faults' = faults + 1)
  /\ cache' = cache \/ (cache'.version >= cache.version /\ ~cache'.unsynced)
  /\ \A w : ToWrite(w) <=> ToWrite(w)'

\* What leaves the tasks alone leaves the writes in them alone.
LEMMA TasksKept ==
  ASSUME UNCHANGED <<tasks, log, committedAt, dropped, made, queue, results, faults, cache>>
  PROVE  Plain
BY DEF Plain, ToWrite, IsWrite

\* Another task that is no write.
LEMMA PlainCalled ==
  ASSUME Typed, UNCHANGED <<log, committedAt, dropped, made, queue, results, faults, cache>>,
         NEW task, task.kind # "write", tasks' = Append(tasks, task)
  PROVE  Plain
<1>1. /\ DOMAIN tasks = 1 .. Len(tasks) /\ DOMAIN tasks' = 1 .. Len(tasks) + 1 /\ Len(tasks) \in Nat
      /\ \A i \in DOMAIN tasks : tasks'[i] = tasks[i]
      /\ tasks'[Len(tasks) + 1] = task
      /\ \A i \in DOMAIN tasks' : i \in DOMAIN tasks \/ i = Len(tasks) + 1
  BY TaskLast
<1>2. \A w : ToWrite(w) <=> ToWrite(w)'
  BY <1>1 DEF ToWrite, IsWrite
<1>3. QED
  BY <1>2 DEF Plain

\* A task that is run, and is no write.
LEMMA PlainRunTask ==
  ASSUME Typed, OrderInv, RunTask, Head(tasks).kind # "write"
  PROVE  Plain
<1>1. /\ tasks # <<>> /\ tasks' = Tail(tasks) /\ TaskKept
      /\ Head(tasks).kind = "listen" => AddQueryListener(Head(tasks).read)
      /\ Head(tasks).kind = "remove" => RemoveQueryListener(Head(tasks).read)
  BY RunTaskCases
<1>2. 1 \in DOMAIN tasks /\ Head(tasks) = tasks[1]
  BY <1>1, TaskFirst
<1>3. Head(tasks).kind \in {"listen", "remove"}
  BY <1>2, TaskTyped
<1>4. queue' = queue
  BY <1>1, <1>3, AddListenerCases, RemoveListenerCases
<1>5. ~IsWrite(1)
  BY <1>2 DEF IsWrite
<1>6. (\A w : ToWrite(w)' => ToWrite(w)) /\ \A w : ToWrite(w) => ToWrite(w)'
  BY <1>1, <1>5, TaskOrderPopped DEF TaskKept
<1>7. QED
  BY <1>1, <1>4, <1>6 DEF Plain, TaskKept

\* A stream that ends or starts anew loses the results with a fault, or none.
LEMMA ResultsLost ==
  ASSUME StreamFails \/ ConnectionLost \/ IdleTimeout \/ HandleCredentialChange
  PROVE  UNCHANGED <<results, faults>> \/ (results' = <<>> /\ faults' = faults + 1)
BY DEF StreamFails, ConnectionLost, IdleTimeout, HandleCredentialChange, Fault

\* Most steps are plain.
LEMMA StepKinds ==
  ASSUME Typed, DataInv, StreamInv, TargetInv, OrderInv, [Next]_vars
  PROVE  \/ Plain \/ (\E kind \in Kinds : WriteData(kind)) \/ (RunTask /\ Head(tasks).kind = "write")
         \/ OnWriteResult \/ Restart \/ ServerWrites \/ (\E kind \in Kinds : OtherPhoneWrites(kind))
<1>1. CASE UNCHANGED vars
  BY <1>1, TasksKept DEF vars, server, app, disk
<1>2. CASE getDocument
  <2>1. PICK task : task = [kind |-> "listen", read |-> Len(reads) + 1]
    OBVIOUS
  <2>2. task.kind # "write" /\ tasks' = Append(tasks, task)
    BY <1>2, <2>1, GetDocumentCases
  <2>3. QED
    BY <1>2, <2>2, GetDocumentCases, PlainCalled
<1>3. CASE OnEvent
  <2>1. PICK task : task = [kind |-> "remove", read |-> Head(main).read]
    OBVIOUS
  <2>2. task.kind # "write" /\ tasks' = Append(tasks, task)
    BY <1>3, <2>1, OnEventCases
  <2>3. QED
    BY <1>3, <2>2, OnEventCases, PlainCalled
<1>4. CASE RunTask
  BY <1>4, PlainRunTask
<1>5. CASE OnlineStateTimeout
  BY <1>5, OnlineStateTimeoutCases, TasksKept
<1>6. CASE StreamOpens
  BY <1>6, StreamOpensCases, TasksKept
<1>7. CASE StreamFails \/ ConnectionLost \/ IdleTimeout \/ HandleCredentialChange
  <2>1. PICK state \in {"off", "starting"} : \E t : Ends(state, t)
    BY <1>7, StreamEndsCases
  <2>2. UNCHANGED <<log, committedAt, dropped, made, queue, tasks, cache>>
    BY <2>1 DEF Ends
  <2>3. UNCHANGED <<results, faults>> \/ (results' = <<>> /\ faults' = faults + 1)
    BY <1>7, ResultsLost
  <2>4. QED
    BY <2>2, <2>3 DEF Plain, ToWrite, IsWrite
<1>8. CASE OnWatchStreamChange
  <2>1. UNCHANGED <<tasks, log, committedAt, dropped, made, queue, results, faults>>
    BY <1>8 DEF OnWatchStreamChange, server, app
  <2>2. CASE Head(responses).kind # "snapshot"
    <3>1. cache' = cache
      BY <1>8, <2>2, OnWatchStreamChangeCases, HandleChangeCases
    <3>2. QED
      BY <2>1, <3>1, TasksKept
  <2>3. CASE Head(responses).kind = "snapshot"
    <3>1. PICK n : n = Head(responses).version
      OBVIOUS
    <3>2. n \in 1 .. Now /\ SnapshotLeft(n)
      BY <1>8, <2>3, <3>1, SnapshotLeaves
    <3>3. cache' = cache \/ (cache' = Entry(n, log[n], FALSE) /\ CacheMoves)
      BY <3>2 DEF SnapshotLeft
    <3>4. cache.version \in Nat /\ n \in Nat
      BY <3>2, TypedFacts DEF Entries
    <3>5. cache' = cache \/ (cache'.version >= cache.version /\ ~cache'.unsynced)
      BY <3>3, <3>4 DEF CacheMoves, Entry
    <3>6. QED
      BY <2>1, <3>5 DEF Plain, ToWrite, IsWrite
  <2>4. QED
    BY <2>2, <2>3
<1>9. CASE ServerAnswers \/ ServerSends
  BY <1>9, TasksKept DEF ServerAnswers, ServerSends, app, disk
<1>10. QED
  BY <1>1, <1>2, <1>3, <1>4, <1>5, <1>6, <1>7, <1>8, <1>9, NextCases

\* Numbers, and documents, in a state
NumbersTyped ==
  Typed =>
    /\ Now \in Nat /\ Now >= 1 /\ cache.version \in 0 .. Now /\ cache.value \in Values /\ faults \in Nat
    /\ made \in Seq(Kinds) /\ Len(made) <= MaxWrites /\ queue \in Seq(DOMAIN made)
    /\ \A v \in 1 .. Now : log[v] \in Values
    /\ \A w \in 1 .. MaxWrites : committedAt[w] \in 0 .. Now

\* They are so now,
LEMMA NumbersTypedNow == NumbersTyped
<1> SUFFICES ASSUME Typed
             PROVE  /\ Now \in Nat /\ Now >= 1 /\ cache.version \in 0 .. Now /\ cache.value \in Values
                    /\ faults \in Nat
                    /\ made \in Seq(Kinds) /\ Len(made) <= MaxWrites /\ queue \in Seq(DOMAIN made)
                    /\ \A v \in 1 .. Now : log[v] \in Values
                    /\ \A w \in 1 .. MaxWrites : committedAt[w] \in 0 .. Now
  BY DEF NumbersTyped
<1>1. cache.version \in 0 .. Now /\ cache.value \in Values /\ faults \in Nat
  BY TypedFacts, ReadAssumption DEF Entries
<1>2. log \in Seq(Values) /\ Now = Len(log) /\ Now \in Nat /\ Now >= 1
  BY LogType DEF Typed
<1>3. \A v \in 1 .. Now : log[v] \in Values
  BY <1>2
<1>4. committedAt \in [1 .. MaxWrites -> 0 .. Now]
  BY DEF Typed, ServerTypes
<1>5. QED
  BY <1>1, <1>2, <1>3, <1>4, TypedFacts

\* and in the next one.
LEMMA NumbersTypedNext == NumbersTyped'
BY NumbersTypedNow, PTL

\* A plain step keeps what has become of the writes.
LEMMA WritesPlain ==
  ASSUME Typed, Typed', WriteInv, Plain
  PROVE  WriteInv'
<1>1. /\ UNCHANGED <<log, committedAt, dropped, made, queue>>
      /\ UNCHANGED <<results, faults>> \/ (results' = <<>> /\ faults' = faults + 1)
      /\ cache' = cache \/ (cache'.version >= cache.version /\ ~cache'.unsynced)
      /\ \A w : ToWrite(w) <=> ToWrite(w)'
  BY DEF Plain
<1>2. UNCHANGED <<results, faults>> \/ (DOMAIN results' = {} /\ faults' # 0)
  <2>1. faults \in Nat
    BY NumbersTypedNow DEF NumbersTyped
  <2>2. results' = <<>> => DOMAIN results' = {}
    OBVIOUS
  <2>3. faults' = faults + 1 => faults' # 0
    BY <2>1
  <2>4. QED
    BY <1>1, <2>2, <2>3
<1>3. Acknowledged'
  BY <1>1, <1>2 DEF WriteInv, Acknowledged
<1>4. Retired'
  <2> SUFFICES ASSUME NEW w \in DOMAIN made
               PROVE  InQueue(w)' \/ ToWrite(w)' \/ w \in dropped'
                      \/ (committedAt'[w] \in 1 .. cache'.version /\ BeforeQueue(w)')
    BY <1>1 DEF Retired
  <2>1. (InQueue(w) => InQueue(w)') /\ (BeforeQueue(w) => BeforeQueue(w)')
    BY <1>1 DEF InQueue, BeforeQueue
  <2>2. CASE cache' = cache
    BY <1>1, <2>1, <2>2 DEF WriteInv, Retired
  <2>3. CASE cache'.version >= cache.version
    <3>1. cache.version \in Nat /\ cache'.version \in Nat
      BY NumbersTypedNow, NumbersTypedNext DEF NumbersTyped
    <3>2. committedAt[w] \in 1 .. cache.version => committedAt'[w] \in 1 .. cache'.version
      BY <1>1, <2>3, <3>1
    <3>3. QED
      BY <1>1, <2>1, <3>2 DEF WriteInv, Retired
  <2>4. QED
    BY <1>1, <2>2, <2>3
<1>5. Fresh'
  BY <1>1 DEF WriteInv, Fresh, NotApplied, Now
<1>6. Lossless'
  <2>1. CASE faults' # 0
    BY <2>1 DEF Lossless
  <2>2. CASE UNCHANGED <<results, faults>>
    BY <1>1, <2>2 DEF WriteInv, Lossless
  <2>3. QED
    BY <1>1, <1>2, <2>1, <2>2
<1>7. QED
  BY <1>3, <1>4, <1>5, <1>6 DEF WriteInv

\* The number of an own write is that of a write that can be made.
LEMMA WriteNumbers ==
  ASSUME Typed
  PROVE  /\ Len(made) \in Nat /\ DOMAIN made = 1 .. Len(made)
         /\ \A w \in DOMAIN made : w \in 1 .. MaxWrites /\ w \in Nat /\ w >= 1 /\ made[w] \in Kinds
         /\ \A i \in DOMAIN queue : queue[i] \in DOMAIN made
<1>1. made \in Seq(Kinds) /\ Len(made) <= MaxWrites /\ queue \in Seq(DOMAIN made) /\ MaxWrites \in Nat
  BY TypedFacts, ReadAssumption
<1>2. Len(made) \in Nat /\ DOMAIN made = 1 .. Len(made)
  BY <1>1
<1>3. \A w \in 1 .. Len(made) : w \in 1 .. MaxWrites
  BY <1>1, <1>2
<1>4. QED
  BY <1>1, <1>2, <1>3

\* A write that is made is still to be queued.
LEMMA WritesWriteData ==
  ASSUME Typed, WriteInv, NEW kind \in Kinds, WriteData(kind)
  PROVE  WriteInv'
<1>1. PICK task, new : task = [kind |-> "write", write |-> new] /\ new = Len(made) + 1
  OBVIOUS
<1>2. /\ made' = Append(made, kind) /\ tasks' = Append(tasks, task)
      /\ UNCHANGED <<log, committedAt, dropped, queue, cache, results, faults>>
  BY <1>1, WriteDataCases
<1>3. /\ Len(tasks) \in Nat /\ DOMAIN tasks = 1 .. Len(tasks) /\ DOMAIN tasks' = 1 .. Len(tasks) + 1
      /\ \A i \in DOMAIN tasks : tasks'[i] = tasks[i]
      /\ tasks'[Len(tasks) + 1] = task
      /\ \A i \in DOMAIN tasks' : i \in DOMAIN tasks \/ i = Len(tasks) + 1
  BY <1>2, TaskLast
<1>4. /\ made \in Seq(Kinds) /\ Len(made) \in Nat /\ DOMAIN made = 1 .. Len(made)
  BY TypedFacts, WriteNumbers
<1>5. /\ new \in Nat /\ DOMAIN made' = DOMAIN made \cup {new} /\ Len(made') = new
  BY <1>1, <1>2, <1>4
<1>6. ToWrite(new)' /\ \A w : ToWrite(w) => ToWrite(w)'
  BY <1>1, <1>3 DEF ToWrite, IsWrite
<1>7. \A w : ToWrite(w)' => ToWrite(w) \/ w = new
  BY <1>1, <1>3 DEF ToWrite, IsWrite
<1>8. Acknowledged' /\ Lossless'
  BY <1>2 DEF WriteInv, Acknowledged, Lossless
<1>9. Retired'
  BY <1>2, <1>5, <1>6 DEF WriteInv, Retired, InQueue, BeforeQueue
<1>10. Fresh'
  <2> SUFFICES ASSUME NEW w \in 1 .. MaxWrites
               PROVE  /\ committedAt[w] = 0 => NotApplied(w)'
                      /\ w > new \/ ToWrite(w)' => committedAt[w] = 0
    BY <1>2, <1>5 DEF Fresh
  <2>1. committedAt[w] = 0 => NotApplied(w)'
    BY <1>2 DEF WriteInv, Fresh, NotApplied, Now
  <2>2. w > new \/ w = new => w > Len(made)
    BY <1>1, <1>4
  <2>3. QED
    BY <1>7, <2>1, <2>2 DEF WriteInv, Fresh
<1>11. QED
  BY <1>8, <1>9, <1>10 DEF WriteInv

\* A write that is queued comes after those that are not queued any more.
LEMMA WritesQueued ==
  ASSUME Typed, OrderInv, WriteInv, RunTask, Head(tasks).kind = "write"
  PROVE  WriteInv'
<1>1. /\ tasks # <<>> /\ tasks' = Tail(tasks)
      /\ UNCHANGED <<log, committedAt, dropped, made, reads, cache, results, faults>>
      /\ WriteMutations(Head(tasks).write)
  BY RunTaskCases DEF TaskKept
<1>2. 1 \in DOMAIN tasks /\ Head(tasks) = tasks[1]
  BY <1>1, TaskFirst
<1>3. PICK new : new = tasks[1].write
  OBVIOUS
<1>4. queue' = Append(queue, new) /\ IsWrite(1) /\ new \in DOMAIN made
  BY <1>1, <1>2, <1>3, WriteMutationsCases, TaskTyped DEF IsWrite
<1>5. /\ Len(queue) \in Nat /\ DOMAIN queue = 1 .. Len(queue) /\ DOMAIN queue' = 1 .. Len(queue) + 1
      /\ \A i \in DOMAIN queue : queue'[i] = queue[i]
      /\ queue'[Len(queue) + 1] = new
      /\ \A i \in DOMAIN queue' : i \in DOMAIN queue \/ i = Len(queue) + 1
  <2>1. queue \in Seq(DOMAIN made)
    BY TypedFacts
  <2>2. QED
    BY <1>4, <2>1, AppendProperties
<1>6. (\A w : ToWrite(w)' => ToWrite(w)) /\ \A w : ToWrite(w) => ToWrite(w)' \/ w = new
  BY <1>1, <1>3, TaskOrderPopped
<1>7. (\A w : InQueue(w) => InQueue(w)') /\ InQueue(new)'
  BY <1>5 DEF InQueue
<1>8. ToWrite(new) /\ new \in 1 .. MaxWrites /\ new \in Nat
  BY <1>2, <1>3, <1>4, WriteNumbers DEF ToWrite
<1>9. DOMAIN results \subseteq DOMAIN queue /\ Len(results) \in Nat /\ Len(results) <= Len(queue)
  BY <1>5, TypedFacts
<1>10. Acknowledged'
  BY <1>1, <1>5, <1>9 DEF WriteInv, Acknowledged
<1>11. Retired'
  <2> SUFFICES ASSUME NEW w \in DOMAIN made, ~InQueue(w)', ~ToWrite(w)', w \notin dropped
               PROVE  committedAt[w] \in 1 .. cache.version /\ BeforeQueue(w)'
    BY <1>1 DEF Retired
  <2>1. ~InQueue(w) /\ ~ToWrite(w) /\ w # new
    BY <1>6, <1>7
  <2>2. committedAt[w] \in 1 .. cache.version /\ BeforeQueue(w)
    BY <2>1 DEF WriteInv, Retired
  <2>3. w < new
    <3>1. ~ (new < w)
      BY <1>2, <1>3, <1>4, <2>1 DEF OrderInv, TaskOrder
    <3>2. w \in Nat
      BY WriteNumbers
    <3>3. QED
      BY <1>8, <2>1, <3>1, <3>2
  <2>4. BeforeQueue(w)'
    BY <1>5, <2>2, <2>3 DEF BeforeQueue
  <2>5. QED
    BY <2>2, <2>4
<1>12. Fresh'
  BY <1>1, <1>6 DEF WriteInv, Fresh, NotApplied, Now
<1>13. Lossless'
  <2>1. committedAt[new] = 0
    BY <1>8 DEF WriteInv, Fresh
  <2>2. QED
    BY <1>1, <1>5, <2>1 DEF WriteInv, Lossless
<1>14. QED
  BY <1>10, <1>11, <1>12, <1>13 DEF WriteInv

\* The first result is that of the first write.
LEMMA FirstResult ==
  ASSUME Typed, OnWriteResult
  PROVE  /\ 1 \in DOMAIN results /\ Head(results) = results[1] /\ Head(results) \in Results
         /\ Len(results) \in Nat /\ DOMAIN results = 1 .. Len(results) /\ Len(results') = Len(results) - 1
         /\ DOMAIN results' = 1 .. Len(results) - 1
         /\ \A i \in DOMAIN results' : i + 1 \in DOMAIN results /\ results'[i] = results[i + 1]
<1>1. results # <<>> /\ results' = Tail(results) /\ results \in Seq(Results)
  BY OnWriteResultCases, TypedFacts
<1>2. QED
  BY <1>1, TailFacts

\* What a result makes of the cache.
LEMMA ResultCache ==
  ASSUME Typed, OnWriteResult, NEW w, w = queue[1], NEW n, n = results[1].version
  PROVE  /\ ~results[1].ok => cache' = cache
         /\ results[1].ok /\ cache.version < n =>
              cache' = Entry(n, AppliedTo(made[w], w, cache.value), TRUE)
         /\ results[1].ok /\ ~ (cache.version < n) => cache' = cache
         /\ results[1].ok => cache'.version >= n
         /\ cache'.version >= cache.version
         /\ n \in 1 .. Now /\ w \in DOMAIN made
<1>1. /\ results # <<>> /\ queue' = Tail(queue)
      /\ cache' = IF Head(results).ok
                    THEN ApplyBatchResult(cache, Head(queue), Head(results).version) ELSE cache
  BY OnWriteResultCases
<1>2. 1 \in DOMAIN queue /\ Head(queue) = queue[1]
  BY <1>1, QueueFirst
<1>3. Head(results) = results[1] /\ Head(results) \in Results
  BY FirstResult
<1>4. /\ n \in 1 .. Now /\ w \in DOMAIN made /\ results[1].ok \in BOOLEAN
      /\ n \in Nat /\ cache.version \in Nat
  BY <1>2, <1>3, WriteNumbers, NumbersTypedNow DEF NumbersTyped, Results
<1>5. CASE ~results[1].ok
  <2>1. cache' = cache
    BY <1>1, <1>3, <1>5
  <2>2. cache'.version >= cache.version
    BY <1>4, <2>1
  <2>3. QED
    BY <1>4, <1>5, <2>1, <2>2
<1>6. CASE results[1].ok /\ cache.version < n
  <2>1. cache' = Entry(n, AppliedTo(made[w], w, cache.value), TRUE)
    BY <1>1, <1>2, <1>3, <1>6 DEF ApplyBatchResult
  <2>2. cache'.version = n
    BY <2>1 DEF Entry
  <2>3. cache'.version >= n /\ cache'.version >= cache.version
    BY <1>4, <1>6, <2>2
  <2>4. QED
    BY <1>4, <1>6, <2>1, <2>3
<1>7. CASE results[1].ok /\ ~ (cache.version < n)
  <2>1. cache' = cache
    BY <1>1, <1>2, <1>3, <1>7 DEF ApplyBatchResult
  <2>2. cache'.version >= n /\ cache'.version >= cache.version
    BY <1>4, <1>7, <2>1
  <2>3. QED
    BY <1>4, <1>7, <2>1, <2>2
<1>8. QED
  BY <1>5, <1>6, <1>7

\* A write whose result is read is in the cache's version, or dropped.
LEMMA WritesOnWriteResult ==
  ASSUME Typed, Typed', OrderInv, WriteInv, OnWriteResult
  PROVE  WriteInv'
<1>1. /\ results # <<>> /\ queue' = Tail(queue)
      /\ UNCHANGED <<log, committedAt, dropped, made, tasks, faults>>
  BY OnWriteResultCases
<1>2. /\ Len(queue) \in Nat /\ DOMAIN queue = 1 .. Len(queue) /\ 1 \in DOMAIN queue
      /\ DOMAIN queue' = 1 .. Len(queue) - 1
      /\ \A i \in DOMAIN queue' : i + 1 \in DOMAIN queue /\ queue'[i] = queue[i + 1]
      /\ \A i \in DOMAIN queue : i = 1 \/ \E k \in DOMAIN queue' : i = k + 1
  BY <1>1, QueueFirst
<1>3. /\ 1 \in DOMAIN results /\ results[1] \in Results
      /\ Len(results) \in Nat /\ DOMAIN results = 1 .. Len(results) /\ Len(results') = Len(results) - 1
      /\ DOMAIN results' = 1 .. Len(results) - 1
      /\ \A i \in DOMAIN results' : i + 1 \in DOMAIN results /\ results'[i] = results[i + 1]
  BY FirstResult
<1>4. PICK w, n : w = queue[1] /\ n = results[1].version
  OBVIOUS
<1>5. /\ ~results[1].ok => cache' = cache
      /\ results[1].ok /\ cache.version < n =>
           cache' = Entry(n, AppliedTo(made[w], w, cache.value), TRUE)
      /\ results[1].ok /\ ~ (cache.version < n) => cache' = cache
      /\ results[1].ok => cache'.version >= n
      /\ cache'.version >= cache.version
      /\ n \in 1 .. Now /\ w \in DOMAIN made
  BY <1>4, ResultCache
<1>6. cache.version \in Nat /\ cache'.version \in Nat /\ n \in Nat
  BY <1>5, NumbersTypedNow, NumbersTypedNext DEF NumbersTyped
<1>7. DOMAIN results' \subseteq DOMAIN queue'
  BY <1>2, <1>3, TypedFacts
<1>8. Acknowledged'
  <2> SUFFICES ASSUME NEW i \in DOMAIN results'
               PROVE  IF results'[i].ok THEN committedAt[queue'[i]] \in 1 .. results'[i].version
                      ELSE queue'[i] \in dropped
    BY <1>1 DEF Acknowledged
  <2>1. i \in DOMAIN queue'
    BY <1>7
  <2>2. PICK k \in DOMAIN results : results'[i] = results[k] /\ queue'[i] = queue[k]
    BY <1>2, <1>3, <2>1
  <2>3. QED
    BY <2>2 DEF WriteInv, Acknowledged
<1>9. Retired'
  <2> SUFFICES ASSUME NEW u \in DOMAIN made, ~InQueue(u)', ~ToWrite(u)', u \notin dropped
               PROVE  committedAt[u] \in 1 .. cache'.version /\ BeforeQueue(u)'
    BY <1>1 DEF Retired
  <2>1. ~ToWrite(u)
    BY <1>1 DEF ToWrite, IsWrite
  <2>2. InQueue(u) => u = w
    <3> SUFFICES ASSUME NEW i \in DOMAIN queue, queue[i] = u, i # 1 PROVE FALSE
      BY <1>4 DEF InQueue
    <3>1. PICK k \in DOMAIN queue' : i = k + 1
      BY <1>2
    <3>2. queue'[k] = u
      BY <1>2, <3>1
    <3>3. QED
      BY <3>2 DEF InQueue
  <2>3. ASSUME u = w PROVE committedAt[u] \in 1 .. cache'.version /\ BeforeQueue(u)'
    <3>1. committedAt[u] \in 1 .. n /\ cache'.version >= n
      BY <1>3, <1>4, <1>5, <2>3 DEF WriteInv, Acknowledged
    <3>2. ASSUME NEW i \in DOMAIN queue' PROVE u < queue'[i]
      <4>1. PICK k \in DOMAIN queue : k = i + 1 /\ queue'[i] = queue[k] /\ 1 < k
        BY <1>2
      <4>2. QED
        BY <1>2, <1>4, <2>3, <4>1 DEF OrderInv, QueueOrder
    <3>3. committedAt[u] \in 1 .. cache'.version
      BY <1>6, <3>1
    <3>4. QED
      BY <3>2, <3>3 DEF BeforeQueue
  <2>4. ASSUME u # w PROVE committedAt[u] \in 1 .. cache'.version /\ BeforeQueue(u)'
    <3>1. committedAt[u] \in 1 .. cache.version /\ BeforeQueue(u)
      BY <2>1, <2>2, <2>4 DEF WriteInv, Retired
    <3>2. BeforeQueue(u)'
      BY <1>2, <3>1 DEF BeforeQueue
    <3>3. QED
      BY <1>5, <1>6, <3>1, <3>2
  <2>5. QED
    BY <2>3, <2>4
<1>10. Fresh'
  BY <1>1 DEF WriteInv, Fresh, NotApplied, Now, ToWrite, IsWrite
<1>11. Lossless'
  <2> SUFFICES ASSUME faults = 0
               PROVE  /\ \A i \in DOMAIN queue' : i > Len(results') => committedAt[queue'[i]] = 0
                      /\ \A i, j \in DOMAIN results' :
                           i < j /\ results'[i].ok /\ results'[j].ok => results'[i].version < results'[j].version
                      /\ \A i \in DOMAIN results' :
                           cache'.unsynced /\ results'[i].ok => cache'.version < results'[i].version
    BY <1>1 DEF Lossless
  <2>1. ASSUME NEW i \in DOMAIN queue', i > Len(results') PROVE committedAt[queue'[i]] = 0
    <3>1. PICK k \in DOMAIN queue : k = i + 1 /\ queue'[i] = queue[k]
      BY <1>2
    <3>2. k > Len(results)
      BY <1>2, <1>3, <2>1, <3>1
    <3>3. QED
      BY <3>1, <3>2 DEF WriteInv, Lossless
  <2>2. ASSUME NEW i \in DOMAIN results', NEW j \in DOMAIN results', i < j, results'[i].ok, results'[j].ok
        PROVE  results'[i].version < results'[j].version
    <3>1. PICK k, m \in DOMAIN results : k = i + 1 /\ m = j + 1 /\ results'[i] = results[k]
                                         /\ results'[j] = results[m]
      BY <1>3
    <3>2. k < m
      BY <1>3, <2>2, <3>1
    <3>3. QED
      BY <2>2, <3>1, <3>2 DEF WriteInv, Lossless
  <2>3. ASSUME NEW i \in DOMAIN results', cache'.unsynced, results'[i].ok
        PROVE  cache'.version < results'[i].version
    <3>1. PICK k \in DOMAIN results : k = i + 1 /\ results'[i] = results[k]
      BY <1>3
    <3>2. 1 < k
      BY <1>3, <3>1
    <3>3. CASE cache' = cache
      BY <2>3, <3>1, <3>3 DEF WriteInv, Lossless
    <3>4. CASE cache' # cache
      <4>1. results[1].ok /\ cache'.version = n
        BY <1>5, <3>4 DEF Entry
      <4>2. n < results[k].version
        BY <1>3, <1>4, <2>3, <3>1, <3>2, <4>1 DEF WriteInv, Lossless
      <4>3. QED
        BY <3>1, <4>1, <4>2
    <3>5. QED
      BY <3>3, <3>4
  <2>4. QED
    BY <2>1, <2>2, <2>3
<1>12. QED
  BY <1>8, <1>9, <1>10, <1>11 DEF WriteInv

\* Writes that were still to be queued are lost with the app.
LEMMA WritesRestart ==
  ASSUME Typed, WriteInv, Restart
  PROVE  WriteInv' /\ dropped \subseteq dropped' /\ (\A w : ToWrite(w) => w \in dropped') /\ faults' = faults + 1
<1>1. /\ tasks' = <<>> /\ results' = <<>> /\ faults' = faults + 1
      /\ UNCHANGED <<log, committedAt, made, queue, cache>>
      /\ dropped' = dropped \cup { task.write : task \in { t \in ToSet(tasks) : t.kind = "write" } }
  BY RestartCases DEF Restart, Fault
<1>2. DOMAIN tasks' = {} /\ DOMAIN results' = {} /\ faults' # 0
  <2>1. faults \in Nat
    BY NumbersTypedNow DEF NumbersTyped
  <2>2. QED
    BY <1>1, <2>1
<1>3. \A w : ToWrite(w) => w \in dropped'
  <2> SUFFICES ASSUME NEW w, NEW i \in DOMAIN tasks, tasks[i].kind = "write", tasks[i].write = w
               PROVE  w \in dropped'
    BY DEF ToWrite, IsWrite
  <2>1. tasks[i] \in { t \in ToSet(tasks) : t.kind = "write" }
    BY DEF ToSet
  <2>2. QED
    BY <1>1, <2>1
<1>4. Acknowledged' /\ Lossless'
  BY <1>2 DEF Acknowledged, Lossless
<1>5. Retired'
  BY <1>1, <1>3 DEF WriteInv, Retired, InQueue, BeforeQueue
<1>6. Fresh'
  BY <1>1, <1>2 DEF WriteInv, Fresh, NotApplied, Now, ToWrite
<1>7. QED
  BY <1>1, <1>3, <1>4, <1>5, <1>6 DEF WriteInv

\* A write that the document never had is not in a version it makes of another.
LEMMA LoggedWithout ==
  ASSUME Typed, NEW kind \in Kinds, NEW id \in (-MaxOthers) .. MaxWrites, log' = Logged(kind, id),
         NEW w, w # id, NotApplied(w)
  PROVE  NotApplied(w)'
<1>1. /\ Len(log') \in {Now, Now + 1} /\ (\A n \in 1 .. Now : log'[n] = log[n])
      /\ log' # log => log'[Now + 1] = AppliedTo(kind, id, log[Now])
  BY LoggedType
<1>2. Now \in Nat /\ Now >= 1 /\ Now \in 1 .. Now
  BY NumbersTypedNow DEF NumbersTyped
<1>3. log' = log \/ Len(log') = Now + 1
  BY LoggedType
<1>4. log[Now] = Missing \/ w \notin log[Now]
  BY <1>2 DEF NotApplied
<1>5. AppliedTo(kind, id, log[Now]) = Missing \/ w \notin AppliedTo(kind, id, log[Now])
  <2>1. PICK value : value = log[Now]
    OBVIOUS
  <2>2. AppliedTo(kind, id, value) = Missing \/ w \notin AppliedTo(kind, id, value)
    <3>1. CASE kind = "set"
      BY <3>1 DEF AppliedTo
    <3>2. CASE kind = "update" /\ value = Missing
      BY <3>2 DEF AppliedTo
    <3>3. CASE kind = "update" /\ value # Missing
      <4>1. AppliedTo(kind, id, value) = value \cup {id}
        BY <3>3 DEF AppliedTo
      <4>2. QED
        BY <1>4, <2>1, <3>3, <4>1
    <3>4. QED
      BY <3>1, <3>2, <3>3 DEF Kinds
  <2>3. QED
    BY <2>1, <2>2
<1>6. CASE log' = log
  BY <1>6 DEF NotApplied, Now
<1>7. CASE log' # log
  <2>1. Now' = Now + 1
    BY <1>3, <1>7 DEF Now
  <2> SUFFICES ASSUME NEW v \in 1 .. Now' PROVE log'[v] = Missing \/ w \notin log'[v]
    BY DEF NotApplied
  <2>2. v \in 1 .. Now \/ v = Now + 1
    BY <1>2, <2>1
  <2>3. QED
    BY <1>1, <1>5, <1>7, <2>2 DEF NotApplied
<1>8. QED
  BY <1>6, <1>7

\* A write of another phone is no write of this one.
LEMMA WritesOtherPhone ==
  ASSUME Typed, Typed', WriteInv, NEW kind \in Kinds, OtherPhoneWrites(kind)
  PROVE  WriteInv'
<1>1. /\ UNCHANGED <<committedAt, dropped, made, tasks, queue, cache, results, faults>>
      /\ \E id \in (-MaxOthers) .. MaxWrites : id < 0 /\ log' = Logged(kind, id)
  BY OtherPhoneWritesCases
<1>2. PICK id \in (-MaxOthers) .. MaxWrites : id < 0 /\ log' = Logged(kind, id)
  BY <1>1
<1>3. Acknowledged' /\ Retired' /\ Lossless'
  BY <1>1 DEF WriteInv, Acknowledged, Retired, Lossless, InQueue, ToWrite, IsWrite, BeforeQueue
<1>4. Fresh'
  <2> SUFFICES ASSUME NEW w \in 1 .. MaxWrites
               PROVE  /\ committedAt[w] = 0 => NotApplied(w)'
                      /\ w > Len(made) \/ ToWrite(w)' => committedAt[w] = 0
    BY <1>1 DEF Fresh
  <2>1. w # id
    BY <1>2
  <2>2. committedAt[w] = 0 => NotApplied(w)'
    BY <1>2, <2>1, LoggedWithout DEF WriteInv, Fresh
  <2>3. ToWrite(w)' => ToWrite(w)
    BY <1>1 DEF ToWrite, IsWrite
  <2>4. QED
    BY <2>2, <2>3 DEF WriteInv, Fresh
<1>5. QED
  BY <1>3, <1>4 DEF WriteInv

\* A write that was never applied makes a new version.
LEMMA NewVersion ==
  ASSUME Typed, NEW w \in DOMAIN made, made[w] = "set" \/ log[Now] # Missing, NotApplied(w),
         log' = Logged(made[w], w)
  PROVE  Len(log') = Now + 1
<1>1. made[w] \in Kinds /\ w \in (-MaxOthers) .. MaxWrites
  BY WriteNumbers, OwnWrites, TypedFacts
<1>2. PICK kind, value : kind = made[w] /\ value = log[Now]
  OBVIOUS
<1>3. Now \in 1 .. Now /\ value \in Values
  BY <1>2, NumbersTypedNow DEF NumbersTyped
<1>4. kind = "set" \/ value # Missing
  BY <1>2
<1>5. value = Missing \/ w \notin value
  BY <1>2, <1>3 DEF NotApplied
<1>6. kind \in Kinds
  BY <1>1, <1>2
<1>7. w \in AppliedTo(kind, w, value)
  <2>1. CASE kind = "set"
    BY <2>1 DEF AppliedTo
  <2>2. CASE kind = "update" /\ value # Missing
    BY <2>2 DEF AppliedTo
  <2>3. QED
    BY <1>4, <1>6, <2>1, <2>2 DEF Kinds
<1>8. AppliedTo(kind, w, value) # Missing
  BY <1>1, <1>3, <1>4, <1>6, AppliedToThere
<1>9. AppliedTo(kind, w, value) # value
  BY <1>5, <1>7, <1>8
<1>10. log' # log
  <2>1. log' = Append(log, AppliedTo(kind, w, value))
    BY <1>2, <1>9 DEF Logged
  <2>2. log \in Seq(Values) /\ AppliedTo(kind, w, value) \in Values
    BY <1>1, <1>3, <1>6, TypedFacts, AppliedToValue
  <2>3. Len(log') = Len(log) + 1 /\ Len(log) \in Nat
    BY <2>1, <2>2
  <2>4. QED
    BY <2>3
<1>11. QED
  BY <1>1, <1>10, LoggedType

(***************************************************************************)
(* What happens to the history: it only grows.                             *)
(***************************************************************************)
CommittedOnce == \A w \in 1 .. MaxWrites : committedAt[w] # 0 => committedAt'[w] = committedAt[w]

\* The server applies a write that it has not seen, or once more one whose result
\* was lost, or refuses it.
LEMMA WritesServer ==
  ASSUME Typed, Typed', OrderInv, WriteInv, ServerWrites
  PROVE  WriteInv' /\ CommittedOnce
<1>1. PICK w \in DOMAIN made, ok \in BOOLEAN :
           /\ Len(results) < Len(queue) /\ w = queue[Len(results) + 1]
           /\ ok <=> made[w] = "set" \/ log[Now] # Missing
           /\ made[w] \in Kinds /\ w \in (-MaxOthers) .. MaxWrites /\ w \in 1 .. MaxWrites
           /\ log' = IF ok THEN Logged(made[w], w) ELSE log
           /\ committedAt' = IF ok /\ committedAt[w] = 0 THEN [committedAt EXCEPT ![w] = Len(log')]
                             ELSE committedAt
           /\ dropped' = IF ok THEN dropped ELSE dropped \cup {w}
           /\ results' = Append(results, [ok |-> ok, version |-> Len(log')])
  BY ServerWritesCases
<1>2. UNCHANGED <<made, tasks, queue, cache, faults>>
  BY ServerWritesKept
<1>3. PICK new, r : new = Len(log') /\ r = [ok |-> ok, version |-> new]
  OBVIOUS
<1>4. /\ results \in Seq(Results) /\ Len(results) \in Nat /\ Len(queue) \in Nat /\ DOMAIN queue = 1 .. Len(queue)
      /\ queue \in Seq(DOMAIN made)
  BY TypedFacts
<1>5. /\ DOMAIN results = 1 .. Len(results) /\ DOMAIN results' = 1 .. Len(results) + 1
      /\ Len(results') = Len(results) + 1
      /\ \A i \in DOMAIN results : results'[i] = results[i] /\ results[i] \in Results
      /\ results'[Len(results) + 1] = r
      /\ \A i \in DOMAIN results' : i \in DOMAIN results \/ i = Len(results) + 1
  <2>1. results' = Append(results, r)
    BY <1>1, <1>3
  <2>2. QED
    BY <1>4, <2>1
<1>6. /\ new \in Nat /\ new >= 1 /\ new \in {Now, Now + 1} /\ Now \in Nat /\ Now <= new
      /\ cache.version \in 0 .. Now /\ Now' = new
      /\ \A u \in 1 .. MaxWrites : committedAt[u] \in 0 .. Now
  <2>1. new \in {Now, Now + 1}
    BY <1>1, <1>3, LoggedType DEF Now
  <2>2. QED
    BY <1>3, <2>1, NumbersTypedNow DEF NumbersTyped, Now
<1>7. committedAt \in [1 .. MaxWrites -> 0 .. Now]
  BY DEF Typed, ServerTypes
<1>8. \A u \in 1 .. MaxWrites : committedAt'[u] = committedAt[u] \/ (u = w /\ committedAt[u] = 0 /\ committedAt'[u] = new)
  BY <1>1, <1>3, <1>7
<1>9. CommittedOnce
  BY <1>8 DEF CommittedOnce
<1>10. ok => committedAt'[w] \in 1 .. new
  <2>1. CASE ok /\ committedAt[w] = 0
    <3>1. committedAt'[w] = new
      BY <1>1, <1>3, <1>7, <2>1
    <3>2. QED
      BY <1>6, <3>1
  <2>2. CASE committedAt[w] # 0
    BY <1>1, <1>6, <1>8, <2>2
  <2>3. QED
    BY <2>1, <2>2
<1>11. dropped \subseteq dropped'
  BY <1>1
<1>12. Acknowledged'
  <2> SUFFICES ASSUME NEW i \in DOMAIN results'
               PROVE  IF results'[i].ok THEN committedAt'[queue[i]] \in 1 .. results'[i].version
                      ELSE queue[i] \in dropped'
    BY <1>2 DEF Acknowledged
  <2>1. CASE i \in DOMAIN results
    <3>1. queue[i] \in 1 .. MaxWrites
      BY <1>1, <1>4, <1>5, <2>1, WriteNumbers
    <3>2. IF results[i].ok THEN committedAt[queue[i]] \in 1 .. results[i].version ELSE queue[i] \in dropped
      BY <2>1 DEF WriteInv, Acknowledged
    <3>3. committedAt[queue[i]] # 0 => committedAt'[queue[i]] = committedAt[queue[i]]
      BY <1>8, <3>1
    <3>4. QED
      BY <1>5, <1>11, <2>1, <3>2, <3>3
  <2>2. CASE i = Len(results) + 1
    <3>1. results'[i].ok = ok /\ results'[i].version = new /\ queue[i] = w
      BY <1>1, <1>3, <1>5, <2>2
    <3>2. ~ok => w \in dropped'
      BY <1>1
    <3>3. QED
      BY <1>10, <3>1, <3>2
  <2>3. QED
    BY <1>5, <2>1, <2>2
<1>13. Retired'
  <2> SUFFICES ASSUME NEW u \in DOMAIN made, ~InQueue(u)', ~ToWrite(u)', u \notin dropped'
               PROVE  committedAt'[u] \in 1 .. cache.version /\ BeforeQueue(u)'
    BY <1>2 DEF Retired
  <2>1. ~InQueue(u) /\ ~ToWrite(u) /\ u \notin dropped
    BY <1>2, <1>11 DEF InQueue, ToWrite, IsWrite
  <2>2. committedAt[u] \in 1 .. cache.version /\ BeforeQueue(u)
    BY <2>1 DEF WriteInv, Retired
  <2>3. committedAt'[u] = committedAt[u]
    BY <1>8, <2>2, WriteNumbers
  <2>4. QED
    BY <1>2, <2>2, <2>3 DEF BeforeQueue
<1>14. Fresh'
  <2> SUFFICES ASSUME NEW u \in 1 .. MaxWrites
               PROVE  /\ committedAt'[u] = 0 => NotApplied(u)'
                      /\ u > Len(made) \/ ToWrite(u) => committedAt'[u] = 0
    BY <1>2 DEF Fresh, ToWrite, IsWrite
  <2>1. ASSUME committedAt'[u] = 0 PROVE NotApplied(u)'
    <3>1. committedAt[u] = 0
      BY <1>6, <1>8, <2>1
    <3>2. NotApplied(u)
      BY <3>1 DEF WriteInv, Fresh
    <3>3. CASE ok
      <4>1. u # w
        BY <1>10, <2>1, <3>3
      <4>2. log' = Logged(made[w], w)
        BY <1>1, <3>3
      <4>3. QED
        BY <1>1, <3>2, <4>1, <4>2, LoggedWithout
    <3>4. CASE ~ok
      BY <1>1, <3>2, <3>4 DEF NotApplied, Now
    <3>5. QED
      BY <3>3, <3>4
  <2>2. ASSUME u > Len(made) \/ ToWrite(u) PROVE committedAt'[u] = 0
    <3>1. committedAt[u] = 0
      BY <2>2 DEF WriteInv, Fresh
    <3>2. u # w
      <4>1. w <= Len(made) /\ Len(made) \in Nat /\ w \in Nat
        BY WriteNumbers
      <4>2. ToWrite(u) => w < u
        BY <1>1, <1>4 DEF OrderInv, QueueOrder, ToWrite
      <4>3. QED
        BY <2>2, <4>1, <4>2
    <3>3. QED
      BY <1>8, <3>1, <3>2
  <2>3. QED
    BY <2>1, <2>2
<1>15. Lossless'
  <2> SUFFICES ASSUME faults = 0
               PROVE  /\ \A i \in DOMAIN queue : i > Len(results') => committedAt'[queue[i]] = 0
                      /\ \A i, j \in DOMAIN results' :
                           i < j /\ results'[i].ok /\ results'[j].ok => results'[i].version < results'[j].version
                      /\ \A i \in DOMAIN results' :
                           cache.unsynced /\ results'[i].ok => cache.version < results'[i].version
    BY <1>2 DEF Lossless
  <2>1. PICK k : k = Len(results) + 1
    OBVIOUS
  <2>2. k \in DOMAIN queue /\ queue[k] = w /\ committedAt[w] = 0
    <3>1. k \in DOMAIN queue /\ queue[k] = w /\ k > Len(results)
      BY <1>1, <1>4, <2>1
    <3>2. QED
      BY <3>1 DEF WriteInv, Lossless
  <2>3. ok => new = Now + 1
    <3> SUFFICES ASSUME ok PROVE new = Now + 1
      OBVIOUS
    <3>1. NotApplied(w) /\ log' = Logged(made[w], w) /\ (made[w] = "set" \/ log[Now] # Missing)
      BY <1>1, <2>2 DEF WriteInv, Fresh
    <3>2. QED
      BY <1>3, <3>1, NewVersion
  <2>4. ASSUME NEW i \in DOMAIN queue, i > Len(results') PROVE committedAt'[queue[i]] = 0
    <3>1. i > Len(results) /\ k < i
      BY <1>4, <1>5, <2>1, <2>4
    <3>2. committedAt[queue[i]] = 0
      BY <3>1 DEF WriteInv, Lossless
    <3>3. w < queue[i]
      BY <2>2, <3>1 DEF OrderInv, QueueOrder
    <3>4. queue[i] \in 1 .. MaxWrites /\ w \in Nat
      BY WriteNumbers
    <3>5. QED
      BY <1>8, <3>2, <3>3, <3>4
  <2>5. \A i \in DOMAIN results : results[i].version <= Now
    BY <1>5, <1>6 DEF Results
  <2>6. ASSUME NEW i \in DOMAIN results', NEW j \in DOMAIN results', i < j, results'[i].ok, results'[j].ok
        PROVE  results'[i].version < results'[j].version
    <3>1. i \in DOMAIN results
      BY <1>4, <1>5, <2>6
    <3>2. CASE j \in DOMAIN results
      BY <1>5, <2>6, <3>1, <3>2 DEF WriteInv, Lossless
    <3>3. CASE j = Len(results) + 1
      <4>1. results'[j].version = new /\ ok
        BY <1>3, <1>5, <2>6, <3>3
      <4>2. results[i].version \in 1 .. Now
        BY <1>5, <3>1 DEF Results
      <4>3. QED
        BY <1>5, <1>6, <2>3, <3>1, <4>1, <4>2
    <3>4. QED
      BY <1>5, <3>2, <3>3
  <2>7. ASSUME NEW i \in DOMAIN results', cache.unsynced, results'[i].ok
        PROVE  cache.version < results'[i].version
    <3>1. CASE i \in DOMAIN results
      BY <1>5, <2>7, <3>1 DEF WriteInv, Lossless
    <3>2. CASE i = Len(results) + 1
      <4>1. results'[i].version = new /\ ok
        BY <1>3, <1>5, <2>7, <3>2
      <4>2. QED
        BY <1>6, <2>3, <4>1
    <3>3. QED
      BY <1>5, <3>1, <3>2
  <2>8. QED
    BY <2>4, <2>6, <2>7
<1>16. QED
  BY <1>9, <1>12, <1>13, <1>14, <1>15 DEF WriteInv

\* No write at first.
LEMMA WritesInitially == Init => WriteInv
<1> SUFFICES ASSUME Init PROVE WriteInv
  OBVIOUS
<1>1. /\ made = <<>> /\ queue = <<>> /\ results = <<>> /\ tasks = <<>>
      /\ committedAt = [w \in 1 .. MaxWrites |-> 0]
      /\ log \in { <<Missing>>, <<{}>> }
  BY DEF Init
<1>2. DOMAIN made = {} /\ DOMAIN queue = {} /\ DOMAIN results = {}
  BY <1>1
<1>3. \A v \in 1 .. Now : log[v] = Missing \/ log[v] = {}
  BY <1>1 DEF Now
<1>4. Fresh
  BY <1>1, <1>3 DEF Fresh, NotApplied
<1>5. QED
  BY <1>2, <1>4 DEF WriteInv, Acknowledged, Retired, Lossless

\* Every step keeps what has become of the writes.
LEMMA WritesStep ==
  ASSUME Typed, Typed', DataInv, StreamInv, TargetInv, OrderInv, WriteInv, [Next]_vars
  PROVE  WriteInv'
<1>1. CASE Plain
  BY <1>1, WritesPlain
<1>2. ASSUME NEW kind \in Kinds, WriteData(kind) PROVE WriteInv'
  BY <1>2, WritesWriteData
<1>3. CASE RunTask /\ Head(tasks).kind = "write"
  BY <1>3, WritesQueued
<1>4. CASE OnWriteResult
  BY <1>4, WritesOnWriteResult
<1>5. CASE Restart
  BY <1>5, WritesRestart
<1>6. CASE ServerWrites
  BY <1>6, WritesServer
<1>7. ASSUME NEW kind \in Kinds, OtherPhoneWrites(kind) PROVE WriteInv'
  BY <1>7, WritesOtherPhone
<1>8. QED
  BY <1>1, <1>2, <1>3, <1>4, <1>5, <1>6, <1>7, StepKinds

-----------------------------------------------------------------------------
(* Own writes, one after the other.                                        *)

\* What the first of some writes come to, made on top of a document.
LEMMA LaidFirst ==
  ASSUME NEW kinds, NEW value, NEW s, NEW n \in Nat, NEW f, NEW ids, Len(ids) \in Nat,
         After(kinds, value, s, f, n), Len(ids) <= n, \A i \in 1 .. Len(ids) : ids[i] = s[i]
  PROVE  Laid(kinds, value, ids) = f[Len(ids)]
<1>1. PICK m \in Nat : m = Len(ids)
  OBVIOUS
<1> DEFINE g == [i \in 0 .. m |-> f[i]]
<1>2. \A i \in 0 .. m : g[i] = f[i]
  OBVIOUS
<1>3. g = [i \in 0 .. m |-> g[i]]
  OBVIOUS
<1> HIDE DEF g
<1>4. ASSUME NEW i \in 1 .. m PROVE g[i] = AppliedTo(kinds[ids[i]], ids[i], g[i - 1])
  <2>1. i \in 1 .. n /\ i \in 0 .. m /\ i - 1 \in 0 .. m /\ ids[i] = s[i]
    BY <1>1
  <2>2. f[i] = AppliedTo(kinds[s[i]], s[i], f[i - 1])
    BY <2>1 DEF After
  <2>3. QED
    BY <1>2, <2>1, <2>2
<1>5. g[0] = value /\ g[m] = f[m]
  <2>1. 0 \in 0 .. m /\ m \in 0 .. m
    OBVIOUS
  <2>2. QED
    BY <1>2, <2>1 DEF After
<1>6. After(kinds, value, ids, g, m)
  BY <1>3, <1>4, <1>5 DEF After
<1>7. QED
  BY <1>1, <1>5, <1>6, LaidAfter

\* No writes.
LEMMA LaidNone ==
  ASSUME NEW kinds, NEW value
  PROVE  Laid(kinds, value, <<>>) = value
<1>1. Len(<<>>) = 0
  OBVIOUS
<1>2. PICK f : After(kinds, value, <<>>, f, 0)
  BY AfterExists
<1>3. Laid(kinds, value, <<>>) = f[0]
  BY <1>1, <1>2, LaidAfter
<1>4. QED
  BY <1>2, <1>3 DEF After

\* One more.
LEMMA LaidNext ==
  ASSUME NEW kinds, NEW value, NEW S, NEW ids \in Seq(S), NEW w \in S
  PROVE  Laid(kinds, value, Append(ids, w)) = AppliedTo(kinds[w], w, Laid(kinds, value, ids))
<1> DEFINE n == Len(ids)
           s == Append(ids, w)
<1>1. n \in Nat /\ s \in Seq(S)
  OBVIOUS
<1>2. Len(s) = n + 1 /\ s[n + 1] = w /\ \A i \in 1 .. n : ids[i] = s[i]
  BY <1>1
<1> HIDE DEF s
<1>3. PICK f : After(kinds, value, s, f, n + 1)
  BY <1>1, AfterExists
<1>4. n \in 0 .. n + 1 /\ n + 1 \in 1 .. n + 1 /\ (n + 1) - 1 = n /\ n + 1 \in Nat
  BY <1>1
<1>5. Laid(kinds, value, ids) = f[n]
  <2>1. n \in Nat /\ n + 1 \in Nat /\ n <= n + 1 /\ \A i \in 1 .. n : ids[i] = s[i]
    BY <1>1, <1>2
  <2>2. QED
    BY <1>3, <2>1, LaidFirst
<1>6. Laid(kinds, value, s) = f[n + 1]
  BY <1>1, <1>2, <1>3, <1>4, LaidAfter
<1>7. f[n + 1] = AppliedTo(kinds[w], w, f[n])
  BY <1>2, <1>3, <1>4 DEF After
<1>8. QED
  BY <1>5, <1>6, <1>7 DEF s

\* Some more.
LEMMA LaidConcat ==
  ASSUME NEW kinds, NEW value, NEW S, NEW ids \in Seq(S), NEW more \in Seq(S)
  PROVE  Laid(kinds, value, ids \o more) = Laid(kinds, Laid(kinds, value, ids), more)
<1> DEFINE n == Len(ids)
           m == Len(more)
           s == ids \o more
<1>1. n \in Nat /\ m \in Nat
  OBVIOUS
<1>2. /\ Len(s) = n + m /\ (\A i \in 1 .. n : ids[i] = s[i])
      /\ \A i \in 1 .. m : s[n + i] = more[i]
  <2>1. /\ Len(s) = n + m
        /\ \A i \in 1 .. n + m : s[i] = IF i <= n THEN ids[i] ELSE more[i - n]
    BY <1>1, ConcatProperties
  <2>2. ASSUME NEW i \in 1 .. m PROVE s[n + i] = more[i]
    <3>1. n + i \in 1 .. n + m /\ ~ (n + i <= n) /\ (n + i) - n = i
      BY <1>1
    <3>2. QED
      BY <2>1, <3>1
  <2>3. \A i \in 1 .. n : i \in 1 .. n + m /\ i <= n
    BY <1>1
  <2>4. QED
    BY <2>1, <2>2, <2>3
<1> HIDE DEF s
<1>3. n + m \in Nat /\ n \in 0 .. n + m
  BY <1>1
<1>4. PICK f : After(kinds, value, s, f, n + m)
  BY <1>3, AfterExists
<1>5. Laid(kinds, value, ids) = f[n]
  <2>1. n \in Nat /\ n + m \in Nat /\ n <= n + m /\ \A i \in 1 .. n : ids[i] = s[i]
    BY <1>1, <1>2
  <2>2. QED
    BY <1>4, <2>1, LaidFirst
<1>6. Laid(kinds, value, s) = f[n + m]
  <2>1. Len(s) = n + m /\ Len(s) \in Nat
    BY <1>2, <1>3
  <2>2. After(kinds, value, s, f, Len(s))
    BY <1>4, <2>1
  <2>3. Laid(kinds, value, s) = f[Len(s)]
    BY <2>1, <2>2, LaidAfter
  <2>4. QED
    BY <2>1, <2>3
<1> HIDE DEF n, m
<1> DEFINE h == [i \in 0 .. m |-> f[n + i]]
<1>7. After(kinds, f[n], more, h, m) /\ h[m] = f[n + m]
  <2>1. h = [i \in 0 .. m |-> h[i]] /\ (\A i \in 0 .. m : h[i] = f[n + i]) /\ 0 \in 0 .. m /\ m \in 0 .. m
        /\ n + 0 = n
    BY <1>1
  <2> HIDE DEF h
  <2>2. ASSUME NEW i \in 1 .. m PROVE h[i] = AppliedTo(kinds[more[i]], more[i], h[i - 1])
    <3>1. i \in 0 .. m /\ i - 1 \in 0 .. m /\ n + i \in 1 .. n + m /\ (n + i) - 1 = n + (i - 1)
      BY <1>1
    <3>2. f[n + i] = AppliedTo(kinds[s[n + i]], s[n + i], f[n + (i - 1)])
      BY <1>4, <3>1 DEF After
    <3>3. QED
      BY <1>2, <2>1, <3>1, <3>2
  <2>3. QED
    BY <2>1, <2>2 DEF After
<1>8. Laid(kinds, f[n], more) = f[n + m]
  BY <1>1, <1>7, LaidAfter DEF m
<1>9. QED
  BY <1>5, <1>6, <1>8 DEF s

\* A set comes to the same on any document.
LEMMA LaidSet ==
  ASSUME NEW kinds, NEW value, NEW other, NEW S, NEW ids \in Seq(S), ids # <<>>, kinds[ids[1]] = "set"
  PROVE  Laid(kinds, value, ids) = Laid(kinds, other, ids)
<1>1. PICK n \in Nat : n = Len(ids) /\ n # 0
  BY EmptySeq
<1>2. PICK f : After(kinds, value, ids, f, n)
  BY AfterExists
<1> DEFINE h == [i \in 0 .. n |-> IF i = 0 THEN other ELSE f[i]]
<1>3. h = [i \in 0 .. n |-> h[i]] /\ h[0] = other /\ \A i \in 1 .. n : h[i] = f[i]
  OBVIOUS
<1> HIDE DEF h
<1>4. ASSUME NEW i \in 1 .. n PROVE h[i] = AppliedTo(kinds[ids[i]], ids[i], h[i - 1])
  <2>1. f[i] = AppliedTo(kinds[ids[i]], ids[i], f[i - 1]) /\ h[i] = f[i]
    BY <1>2, <1>3 DEF After
  <2>2. CASE i = 1
    <3>1. \A v : AppliedTo(kinds[ids[i]], ids[i], v) = {ids[i]}
      BY <2>2 DEF AppliedTo
    <3>2. QED
      BY <2>1, <3>1
  <2>3. CASE i # 1
    <3>1. i - 1 \in 1 .. n
      BY <2>3
    <3>2. QED
      BY <1>3, <2>1, <3>1
  <2>4. QED
    BY <2>2, <2>3
<1>5. After(kinds, other, ids, h, n)
  BY <1>3, <1>4 DEF After
<1>6. Laid(kinds, value, ids) = f[n] /\ Laid(kinds, other, ids) = h[n] /\ n \in 1 .. n
  BY <1>1, <1>2, <1>5, LaidAfter
<1>7. QED
  BY <1>3, <1>6

\* Writes of the same kinds come to the same.
LEMMA LaidSame ==
  ASSUME NEW kinds, NEW others, NEW value, NEW S, NEW ids \in Seq(S),
         \A i \in 1 .. Len(ids) : others[ids[i]] = kinds[ids[i]]
  PROVE  Laid(others, value, ids) = Laid(kinds, value, ids)
<1>1. PICK n \in Nat : n = Len(ids)
  OBVIOUS
<1>2. PICK f : After(kinds, value, ids, f, n)
  BY AfterExists
<1>3. After(others, value, ids, f, n)
  BY <1>1, <1>2 DEF After
<1>4. QED
  BY <1>1, <1>2, <1>3, LaidAfter

-----------------------------------------------------------------------------
(* What a document has been made of.                                       *)

Rising(ids) == \A i, j \in DOMAIN ids : i < j => ids[i] < ids[j]

(***************************************************************************)
(* A document is a version of the server's with own writes on top: all,    *)
(* but for those that are to be written yet, or need not be.               *)
(***************************************************************************)
Placed(w, v, ids) ==
  \/ \E i \in DOMAIN ids : ids[i] = w
  \/ ToWrite(w) /\ \A i \in DOMAIN ids : ids[i] < w
  \/ NotNeeded(w, v, ids)

MadeOf(value, v, ids) ==
  /\ Rising(ids) /\ value = Laid(made, log[v], ids)
  /\ \A w \in DOMAIN made : Placed(w, v, ids)

From(value, v) == \E ids \in Seq(DOMAIN made) : MadeOf(value, v, ids)

(***************************************************************************)
(* The cache's entry is one with those writes that were acknowledged since *)
(* and all come before the queue's, if there are any; without an entry any *)
(* version will do, and the first one is taken.                            *)
(***************************************************************************)
Level == IF cache.version = 0 THEN 1 ELSE cache.version

Done(ids) ==
  \A i \in DOMAIN ids : BeforeQueue(ids[i]) /\ \A w : ToWrite(w) => ids[i] < w

CacheMadeOf(v, ids) ==
  /\ Rising(ids) /\ Done(ids) /\ v <= Level
  /\ IF cache.unsynced THEN ids # <<>> ELSE ids = <<>> /\ v = Level
  /\ cache.version # 0 => cache.value = Laid(made, log[v], ids)
  /\ \A w \in DOMAIN made : InQueue(w) \/ Placed(w, v, ids)

CacheFrom(v) == \E ids \in Seq(DOMAIN made) : CacheMadeOf(v, ids)

\* Writes in the order of the calls are no more than the last of them.
LEMMA RisingLength ==
  ASSUME NEW k \in Nat, NEW ids \in Seq(1 .. k), Rising(ids)
  PROVE  Len(ids) \in 0 .. k
<1> DEFINE n == Len(ids)
           T == { i \in 1 .. n : ids[i] < i }
<1>1. n \in Nat /\ DOMAIN ids = 1 .. n /\ \A i \in 1 .. n : ids[i] \in 1 .. k
  OBVIOUS
<1> HIDE DEF n
<1>2. T = {}
  <2> SUFFICES ASSUME T # {} PROVE FALSE
    OBVIOUS
  <2>1. T \subseteq Nat
    BY <1>1
  <2>2. PICK i \in T : \A y \in T : i <= y
    <3> HIDE DEF T
    <3>1. QED
      BY <2>1, LeastNatural
  <2>3. i \in 1 .. n /\ ids[i] < i
    BY <2>2
  <2>4. i # 1
    BY <1>1, <2>3
  <2>5. i - 1 \in 1 .. n /\ i - 1 < i
    BY <1>1, <2>3, <2>4
  <2>6. ids[i - 1] < ids[i]
    BY <1>1, <2>3, <2>5 DEF Rising
  <2>7. ids[i - 1] < i - 1
    BY <1>1, <2>3, <2>5, <2>6
  <2>8. i - 1 \in T
    BY <2>5, <2>7
  <2>9. i <= i - 1
    BY <2>2, <2>8
  <2>10. QED
    BY <2>3, <2>9
<1>3. n \in 1 .. n => ids[n] >= n /\ ids[n] <= k
  <2> SUFFICES ASSUME n \in 1 .. n PROVE ids[n] >= n /\ ids[n] <= k
    OBVIOUS
  <2>1. ~ (ids[n] < n)
    BY <1>2
  <2>2. QED
    BY <1>1, <2>1
<1>4. n \in 0 .. k
  BY <1>1, <1>3
<1>5. QED
  BY <1>4 DEF n

\* The versions of an event whose document has been made of one.
FromVersions ==
  Typed => \A e, value, v :
    /\ v \in DOMAIN log /\ e.snapshot.value = value /\ e.read \in DOMAIN reads
    /\ From(value, v) /\ Past(e.read)
    => v \in Versions(e)

\* It is one of them now,
LEMMA FromVersionsNow == FromVersions
<1> SUFFICES ASSUME Typed, NEW e, NEW value, NEW v, v \in DOMAIN log, e.snapshot.value = value,
                    e.read \in DOMAIN reads, From(value, v), Past(e.read)
             PROVE  v \in Versions(e)
  BY DEF FromVersions
<1>1. PICK ids \in Seq(DOMAIN made) : MadeOf(value, v, ids)
  BY DEF From
<1>2. Len(made) \in Nat /\ DOMAIN made = 1 .. Len(made)
  BY WriteNumbers
<1>3. Rising(ids)
  BY <1>1 DEF MadeOf
<1>4. PICK k : k = Len(made)
  OBVIOUS
<1>5. PICK n \in 0 .. Len(made) : n = Len(ids)
  <2>1. k \in Nat /\ ids \in Seq(1 .. k)
    BY <1>2, <1>4
  <2>2. Len(ids) \in 0 .. k
    BY <1>3, <2>1, RisingLength
  <2>3. QED
    BY <1>4, <2>2
<1>6. ids \in [1 .. n -> DOMAIN made] /\ DOMAIN ids = 1 .. n
  BY <1>5
<1>7. \A i, j \in 1 .. n : i < j => ids[i] < ids[j]
  BY <1>3, <1>6 DEF Rising
<1>8. e.snapshot.value = Overlay(log[v], ids)
  <2>1. value = Laid(made, log[v], ids)
    BY <1>1 DEF MadeOf
  <2>2. QED
    BY <2>1, OverlayLaid
<1>9. ASSUME NEW w \in DOMAIN made \ { ids[i] : i \in 1 .. n },
             w <= reads[e.read].mine \/ \E i \in 1 .. n : w < ids[i]
      PROVE  NotNeeded(w, v, ids)
  <2>1. Placed(w, v, ids) /\ ~ \E i \in DOMAIN ids : ids[i] = w
    BY <1>1, <1>6, <1>9 DEF MadeOf
  <2>2. w \in Nat /\ \A i \in 1 .. n : ids[i] \in Nat
    BY <1>2, <1>6
  <2>3. ~ (ToWrite(w) /\ \A i \in DOMAIN ids : ids[i] < w)
    <3> SUFFICES ASSUME ToWrite(w), \A i \in DOMAIN ids : ids[i] < w PROVE FALSE
      OBVIOUS
    <3>1. reads[e.read].mine < w
      BY DEF ToWrite, Past
    <3>2. reads[e.read].mine \in Nat
      BY CallTyped
    <3>3. ~ (w <= reads[e.read].mine)
      BY <2>2, <3>1, <3>2
    <3>4. ASSUME NEW i \in 1 .. n PROVE ~ (w < ids[i])
      <4>1. ids[i] < w /\ ids[i] \in Nat
        BY <1>6, <2>2
      <4>2. QED
        BY <2>2, <4>1
    <3>5. QED
      BY <1>9, <3>3, <3>4
  <2>4. QED
    BY <2>1, <2>3 DEF Placed
<1>10. QED
  BY <1>5, <1>6, <1>7, <1>8, <1>9 DEF Versions

\* and after a step.
LEMMA FromVersionsNext == FromVersions'
BY FromVersionsNow, PTL

\* The document of the cache and the queue is made of what the cache is.
DocumentFrom ==
  Typed /\ DataInv /\ OrderInv /\ WriteInv /\ Queued =>
    \A v \in DOMAIN log : \A value :
      /\ CacheFrom(v) /\ value = GetDocument(cache, queue).value
      /\ value # Missing \/ cache.version # 0
      => From(value, v)

\* It is now,
LEMMA DocumentFromNow == DocumentFrom
<1> SUFFICES ASSUME Typed, DataInv, OrderInv, WriteInv, Queued, NEW v \in DOMAIN log, CacheFrom(v),
                    NEW document, document = GetDocument(cache, queue).value,
                    document # Missing \/ cache.version # 0
             PROVE  From(document, v)
  BY DEF DocumentFrom
<1>1. PICK ids \in Seq(DOMAIN made) : CacheMadeOf(v, ids)
  BY DEF CacheFrom
<1>2. /\ queue \in Seq(DOMAIN made) /\ Len(queue) \in Nat /\ DOMAIN queue = 1 .. Len(queue)
      /\ Len(ids) \in Nat /\ DOMAIN ids = 1 .. Len(ids)
  BY TypedFacts
<1>3. PICK all \in Seq(DOMAIN made) : all = ids \o queue
  <2>1. ids \o queue \in Seq(DOMAIN made)
    BY <1>2, ConcatProperties
  <2>2. QED
    BY <2>1
<1>4. /\ Len(all) = Len(ids) + Len(queue) /\ DOMAIN all = 1 .. Len(ids) + Len(queue)
      /\ \A i \in 1 .. Len(ids) + Len(queue) :
           all[i] = IF i <= Len(ids) THEN ids[i] ELSE queue[i - Len(ids)]
  BY <1>2, <1>3, ConcatProperties
<1>5. /\ \A i \in DOMAIN all : \/ i \in DOMAIN ids /\ all[i] = ids[i] /\ i <= Len(ids)
                               \/ i - Len(ids) \in DOMAIN queue /\ all[i] = queue[i - Len(ids)]
                                  /\ i > Len(ids)
      /\ \A i \in DOMAIN ids : i \in DOMAIN all /\ all[i] = ids[i]
      /\ \A i \in DOMAIN queue : \E k \in DOMAIN all : all[k] = queue[i]
  <2>1. ASSUME NEW i \in DOMAIN all
        PROVE  \/ i \in DOMAIN ids /\ all[i] = ids[i] /\ i <= Len(ids)
               \/ i - Len(ids) \in DOMAIN queue /\ all[i] = queue[i - Len(ids)] /\ i > Len(ids)
    BY <1>2, <1>4
  <2>2. ASSUME NEW i \in DOMAIN ids PROVE i \in DOMAIN all /\ all[i] = ids[i]
    BY <1>2, <1>4
  <2>3. ASSUME NEW i \in DOMAIN queue PROVE \E k \in DOMAIN all : all[k] = queue[i]
    <3>1. PICK k : k = Len(ids) + i
      OBVIOUS
    <3>2. k \in 1 .. Len(ids) + Len(queue) /\ ~ (k <= Len(ids)) /\ k - Len(ids) = i
      BY <1>2, <3>1
    <3>3. QED
      BY <1>4, <3>2
  <2>4. QED
    BY <2>1, <2>2, <2>3
<1>6. Rising(ids) /\ Done(ids)
  BY <1>1 DEF CacheMadeOf
<1>7. Rising(all)
  <2> SUFFICES ASSUME NEW i \in DOMAIN all, NEW j \in DOMAIN all, i < j PROVE all[i] < all[j]
    BY DEF Rising
  <2>1. CASE j <= Len(ids)
    <3>1. i \in DOMAIN ids /\ j \in DOMAIN ids /\ all[i] = ids[i] /\ all[j] = ids[j]
      BY <1>2, <1>4, <2>1
    <3>2. QED
      BY <1>6, <3>1 DEF Rising
  <2>2. CASE i <= Len(ids) /\ j > Len(ids)
    <3>1. i \in DOMAIN ids /\ j - Len(ids) \in DOMAIN queue /\ all[i] = ids[i]
          /\ all[j] = queue[j - Len(ids)]
      BY <1>2, <1>4, <2>2
    <3>2. QED
      BY <1>6, <3>1 DEF Done, BeforeQueue
  <2>3. CASE i > Len(ids)
    <3>1. PICK a, b : a = i - Len(ids) /\ b = j - Len(ids)
      OBVIOUS
    <3>2. a \in DOMAIN queue /\ b \in DOMAIN queue /\ a < b /\ all[i] = queue[a] /\ all[j] = queue[b]
      BY <1>2, <1>4, <2>3, <3>1
    <3>3. QED
      BY <3>2 DEF OrderInv, QueueOrder
  <2>4. QED
    BY <1>2, <1>4, <2>1, <2>2, <2>3
<1>8. document = Laid(made, log[v], all)
  <2>1. PICK value : value = Overlay(cache.value, queue)
    OBVIOUS
  <2>2. document = value
    BY <2>1 DEF GetDocument
  <2>3. value = Laid(made, cache.value, queue)
    BY <2>1, OverlayLaid
  <2>4. CASE cache.version # 0
    <3>1. cache.value = Laid(made, log[v], ids)
      BY <1>1, <2>4 DEF CacheMadeOf
    <3>2. QED
      BY <1>2, <1>3, <2>2, <2>3, <3>1, LaidConcat
  <2>5. CASE cache.version = 0
    <3>1. cache.value = Missing /\ ~cache.unsynced
      BY <2>5 DEF DataInv, CacheTrue, NoEntry, Entry
    <3>2. ids = <<>>
      BY <1>1, <3>1 DEF CacheMadeOf
    <3>3. all = queue
      BY <1>2, <1>3, <3>2
    <3>4. queue # <<>>
      <4> SUFFICES ASSUME queue = <<>> PROVE FALSE
        OBVIOUS
      <4>1. value = Missing
        BY <2>3, <3>1, LaidNone
      <4>2. QED
        BY <2>2, <2>5, <4>1
    <3>5. made[queue[1]] = "set"
      <4>1. made[Head(queue)] = "set"
        BY <3>1, <3>4 DEF Queued, Visible
      <4>2. Head(queue) = queue[1]
        BY <1>2, <3>4
      <4>3. QED
        BY <4>1, <4>2
    <3>6. QED
      BY <1>2, <2>2, <2>3, <3>3, <3>4, <3>5, LaidSet
  <2>6. QED
    BY <2>4, <2>5
<1>9. ASSUME NEW w \in DOMAIN made PROVE Placed(w, v, all)
  <2>1. CASE InQueue(w)
    BY <1>5, <2>1 DEF InQueue, Placed
  <2>2. ASSUME ~InQueue(w), NEW i \in DOMAIN ids, ids[i] = w PROVE Placed(w, v, all)
    BY <1>5, <2>2 DEF Placed
  <2>3. CASE ToWrite(w) /\ \A i \in DOMAIN ids : ids[i] < w
    <3>1. \A i \in DOMAIN queue : queue[i] < w
      BY <2>3 DEF OrderInv, QueueOrder, ToWrite
    <3>2. \A i \in DOMAIN all : all[i] < w
      BY <1>5, <2>3, <3>1
    <3>3. QED
      BY <2>3, <3>2 DEF Placed
  <2>4. CASE ~InQueue(w) /\ NotNeeded(w, v, ids)
    <3>1. CASE w \in dropped
      BY <3>1 DEF Placed, NotNeeded
    <3>2. CASE faults > 0 /\ committedAt[w] # 0 /\ \E i \in DOMAIN ids : ids[i] < w
      <4>1. \E i \in DOMAIN all : all[i] < w
        BY <1>5, <3>2
      <4>2. QED
        BY <3>2, <4>1 DEF Placed, NotNeeded
    <3>3. CASE w \notin dropped /\ committedAt[w] \in 1 .. v /\ \A i \in DOMAIN ids : w < ids[i]
      <4>1. w \in 1 .. MaxWrites
        BY WriteNumbers
      <4>2. ~ToWrite(w)
        BY <3>3, <4>1 DEF WriteInv, Fresh
      <4>3. BeforeQueue(w)
        BY <2>4, <3>3, <4>2 DEF WriteInv, Retired
      <4>4. \A i \in DOMAIN all : w < all[i]
        BY <1>5, <3>3, <4>3 DEF BeforeQueue
      <4>5. QED
        BY <3>3, <4>4 DEF Placed, NotNeeded
    <3>4. QED
      BY <2>4, <3>1, <3>2, <3>3 DEF NotNeeded
  <2>5. QED
    <3>1. InQueue(w) \/ Placed(w, v, ids)
      BY <1>1 DEF CacheMadeOf
    <3>2. QED
      BY <2>1, <2>2, <2>3, <2>4, <3>1 DEF Placed
<1>10. QED
  BY <1>7, <1>8, <1>9 DEF From, MadeOf

\* and after a step.
LEMMA DocumentFromNext == DocumentFrom'
BY DocumentFromNow, PTL

\* A cache without an estimate is made of its own version.
SyncedFrom ==
  Typed /\ DataInv /\ WriteInv /\ ~cache.unsynced =>
    \A v : v = Level => v \in DOMAIN log /\ CacheFrom(v)

\* It is now,
LEMMA SyncedFromNow == SyncedFrom
<1> SUFFICES ASSUME Typed, DataInv, WriteInv, ~cache.unsynced
             PROVE  \A v : v = Level => v \in DOMAIN log /\ CacheFrom(v)
  BY DEF SyncedFrom
<1>1. Now \in Nat /\ Now >= 1 /\ cache.version \in 0 .. Now /\ DOMAIN log = 1 .. Now
  <2>1. log \in Seq(Values)
    BY LogType DEF Typed
  <2>2. QED
    BY <2>1, NumbersTypedNow DEF NumbersTyped, Now
<1>2. Level \in DOMAIN log
  BY <1>1 DEF Level
<1>3. PICK ids \in Seq(DOMAIN made) : ids = <<>>
  <2>1. <<>> \in Seq(DOMAIN made)
    OBVIOUS
  <2>2. QED
    BY <2>1
<1>4. DOMAIN ids = {}
  BY <1>3
<1>5. Rising(ids) /\ Done(ids)
  BY <1>4 DEF Rising, Done
<1>6. cache.version # 0 => cache.value = Laid(made, log[Level], ids)
  <2> SUFFICES ASSUME cache.version # 0 PROVE cache.value = Laid(made, log[Level], ids)
    OBVIOUS
  <2>1. cache.version > 0 /\ Level = cache.version
    BY <1>1 DEF Level
  <2>2. cache.value = log[Level]
    BY <2>1 DEF DataInv, CacheTrue
  <2>3. QED
    BY <1>3, <2>2, LaidNone
<1>7. ASSUME NEW w \in DOMAIN made, ~InQueue(w) PROVE Placed(w, Level, ids)
  <2>1. ToWrite(w) \/ w \in dropped \/ committedAt[w] \in 1 .. cache.version
    BY <1>7 DEF WriteInv, Retired
  <2>2. committedAt[w] \in 1 .. cache.version => committedAt[w] \in 1 .. Level
    BY <1>1 DEF Level
  <2>3. QED
    BY <1>4, <2>1, <2>2 DEF Placed, NotNeeded
<1>8. Level <= Level
  BY <1>1 DEF Level
<1>9. CacheMadeOf(Level, ids)
  BY <1>3, <1>5, <1>6, <1>7, <1>8 DEF CacheMadeOf
<1>10. Level \in DOMAIN log /\ CacheFrom(Level)
  BY <1>2, <1>9 DEF CacheFrom
<1>11. QED
  BY <1>10

\* and after a step.
LEMMA SyncedFromNext == SyncedFrom'
BY SyncedFromNow, PTL

-----------------------------------------------------------------------------
(* What every step leaves of the past.                                     *)

(***************************************************************************)
(* The calls, the answers and the history of the writes only grow,         *)
(***************************************************************************)
CallsGrow ==
  /\ \A r \in DOMAIN reads : r \in DOMAIN reads' /\ reads'[r] = reads[r]
  /\ \A i \in DOMAIN answers : i \in DOMAIN answers' /\ answers'[i] = answers[i]

History ==
  /\ LogExtends /\ CommittedOnce /\ dropped \subseteq dropped' /\ (faults > 0 => faults' > 0)
  /\ made' = made \/ \E kind \in Kinds : made' = Append(made, kind)

(***************************************************************************)
(* and a write that is made goes to the tasks, from there to the queue or  *)
(* nowhere, and from the queue only with its result.                       *)
(***************************************************************************)
WritesMove ==
  /\ \A w : InQueue(w)' => InQueue(w) \/ ToWrite(w)
  /\ \A w : ToWrite(w)' => ToWrite(w) \/ (w \in DOMAIN made' /\ w \notin DOMAIN made)
  /\ \A w \in DOMAIN made' : w \in DOMAIN made \/ ToWrite(w)'
  /\ \A w : ToWrite(w) => ToWrite(w)' \/ InQueue(w)' \/ w \in dropped'
  /\ \A w : InQueue(w) => InQueue(w)' \/ (OnWriteResult /\ w = queue[1])

\* A call is added, or an answer, or none.
LEMMA CallsKept ==
  ASSUME UNCHANGED <<reads, answers>>
  PROVE  CallsGrow
BY DEF CallsGrow

\* In every step they grow so.
LEMMA CallsStep ==
  ASSUME Typed, [Next]_vars
  PROVE  CallsGrow
<1>1. CASE UNCHANGED vars
  BY <1>1, CallsKept DEF vars, app
<1>2. CASE getDocument
  <2>1. PICK call : call = [mine |-> Len(made), after |-> Len(answers)]
    OBVIOUS
  <2>2. reads' = Append(reads, call) /\ answers' = answers /\ reads \in Seq([mine : Nat, after : Nat])
    BY <1>2, <2>1, GetDocumentCases, TypedFacts
  <2>3. \A r \in DOMAIN reads : r \in DOMAIN reads' /\ reads'[r] = reads[r]
    BY <2>2
  <2>4. QED
    BY <2>2, <2>3 DEF CallsGrow
<1>3. CASE OnEvent
  <2>1. PICK event : event = Head(main)
    OBVIOUS
  <2>2. answers' = Append(answers, event) /\ reads' = reads /\ answers \in Seq(Events)
    BY <1>3, <2>1, OnEventCases, TypedFacts
  <2>3. \A i \in DOMAIN answers : i \in DOMAIN answers' /\ answers'[i] = answers[i]
    BY <2>2
  <2>4. QED
    BY <2>2, <2>3 DEF CallsGrow
<1>4. ASSUME NEW kind \in Kinds, WriteData(kind) PROVE CallsGrow
  BY <1>4, WriteDataCases, CallsKept
<1>5. CASE RunTask
  BY <1>5, RunTaskCases, CallsKept DEF TaskKept
<1>6. CASE OnWriteResult
  BY <1>6, OnWriteResultCases, CallsKept
<1>7. CASE OnlineStateTimeout
  BY <1>7, OnlineStateTimeoutCases, CallsKept
<1>8. CASE StreamOpens
  BY <1>8, StreamOpensCases, CallsKept
<1>9. CASE StreamFails \/ ConnectionLost \/ IdleTimeout \/ HandleCredentialChange
  <2>1. PICK state \in {"off", "starting"} : \E t : Ends(state, t)
    BY <1>9, StreamEndsCases
  <2>2. UNCHANGED <<reads, answers>>
    BY <2>1 DEF Ends
  <2>3. QED
    BY <2>2, CallsKept
<1>10. CASE OnWatchStreamChange
  BY <1>10, CallsKept DEF OnWatchStreamChange, app
<1>11. CASE Restart
  BY <1>11, RestartCases, CallsKept
<1>12. CASE ServerAnswers \/ ServerSends
  BY <1>12, CallsKept DEF ServerAnswers, ServerSends, app
<1>13. CASE ServerWrites
  BY <1>13, ServerWritesKept, CallsKept
<1>14. ASSUME NEW kind \in Kinds, OtherPhoneWrites(kind) PROVE CallsGrow
  BY <1>14, OtherPhoneWritesCases, CallsKept
<1>15. QED
  BY <1>1, <1>2, <1>3, <1>4, <1>5, <1>6, <1>7, <1>8, <1>9, <1>10, <1>11, <1>12, <1>13, <1>14, NextCases

\* A step that leaves the history alone, or loses results.
LEMMA HistoryKept ==
  ASSUME Typed, LogExtends, UNCHANGED <<committedAt, dropped, made>>, faults' \in {faults, faults + 1}
  PROVE  History
<1>1. faults \in Nat
  BY NumbersTypedNow DEF NumbersTyped
<1>2. faults > 0 => faults' > 0
  BY <1>1
<1>3. QED
  BY <1>2 DEF History, CommittedOnce

\* Every step leaves it so.
LEMMA HistoryStep ==
  ASSUME Typed, Typed', DataInv, StreamInv, TargetInv, OrderInv, WriteInv, [Next]_vars
  PROVE  History
<1>1. LogExtends
  BY FlowStep DEF Flow
<1>2. CASE Plain
  BY <1>1, <1>2, HistoryKept DEF Plain
<1>3. ASSUME NEW kind \in Kinds, WriteData(kind) PROVE History
  <2>1. made' = Append(made, kind) /\ UNCHANGED <<committedAt, dropped, faults>>
    BY <1>3, WriteDataCases
  <2>2. QED
    BY <1>1, <2>1 DEF History, CommittedOnce
<1>4. CASE RunTask /\ Head(tasks).kind = "write"
  BY <1>1, <1>4, HistoryKept, RunTaskCases DEF TaskKept
<1>5. CASE OnWriteResult
  BY <1>1, <1>5, HistoryKept, OnWriteResultCases
<1>6. CASE Restart
  <2>1. UNCHANGED <<committedAt, made>> /\ dropped \subseteq dropped' /\ faults' = faults + 1
    BY <1>6, RestartCases, WritesRestart
  <2>2. faults \in Nat
    BY NumbersTypedNow DEF NumbersTyped
  <2>3. QED
    BY <1>1, <2>1, <2>2 DEF History, CommittedOnce
<1>7. CASE ServerWrites
  <2>1. UNCHANGED <<made, faults>> /\ CommittedOnce
    BY <1>7, ServerWritesKept, WritesServer
  <2>2. dropped \subseteq dropped'
    BY <1>7, ServerWritesCases
  <2>3. QED
    BY <1>1, <2>1, <2>2 DEF History
<1>8. ASSUME NEW kind \in Kinds, OtherPhoneWrites(kind) PROVE History
  BY <1>1, <1>8, HistoryKept, OtherPhoneWritesCases
<1>9. QED
  BY <1>2, <1>3, <1>4, <1>5, <1>6, <1>7, <1>8, StepKinds

\* A step that leaves the tasks and the queue alone moves no write.
LEMMA MovesKept ==
  ASSUME UNCHANGED <<made, queue>>, \A w : ToWrite(w) <=> ToWrite(w)'
  PROVE  WritesMove
BY DEF WritesMove, InQueue

\* Writes move so in every step.
LEMMA MovesStep ==
  ASSUME Typed, Typed', DataInv, StreamInv, TargetInv, OrderInv, WriteInv, [Next]_vars
  PROVE  WritesMove
<1>1. CASE Plain
  BY <1>1, MovesKept DEF Plain
<1>2. ASSUME NEW kind \in Kinds, WriteData(kind) PROVE WritesMove
  <2>1. PICK task, new : task = [kind |-> "write", write |-> new] /\ new = Len(made) + 1
    OBVIOUS
  <2>2. made' = Append(made, kind) /\ tasks' = Append(tasks, task) /\ UNCHANGED <<queue, dropped>>
    BY <1>2, <2>1, WriteDataCases
  <2>3. /\ DOMAIN tasks = 1 .. Len(tasks) /\ DOMAIN tasks' = 1 .. Len(tasks) + 1 /\ Len(tasks) \in Nat
        /\ \A i \in DOMAIN tasks : tasks'[i] = tasks[i]
        /\ tasks'[Len(tasks) + 1] = task
        /\ \A i \in DOMAIN tasks' : i \in DOMAIN tasks \/ i = Len(tasks) + 1
    BY <2>2, TaskLast
  <2>4. Len(made) \in Nat /\ DOMAIN made = 1 .. Len(made) /\ DOMAIN made' = 1 .. Len(made) + 1
    BY <2>2, TypedFacts
  <2>5. /\ \A w \in DOMAIN made' : w \in DOMAIN made \/ w = new
        /\ new \in DOMAIN made' /\ new \notin DOMAIN made
    BY <2>1, <2>4
  <2>6. (\A w : ToWrite(w) => ToWrite(w)') /\ ToWrite(new)' /\ \A w : ToWrite(w)' => ToWrite(w) \/ w = new
    BY <2>1, <2>3 DEF ToWrite, IsWrite
  <2>7. \A w : InQueue(w) <=> InQueue(w)'
    BY <2>2 DEF InQueue
  <2>8. QED
    BY <2>5, <2>6, <2>7 DEF WritesMove
<1>3. CASE RunTask /\ Head(tasks).kind = "write"
  <2>1. /\ tasks # <<>> /\ tasks' = Tail(tasks) /\ UNCHANGED <<made, reads, dropped>>
        /\ WriteMutations(Head(tasks).write)
    BY <1>3, RunTaskCases DEF TaskKept
  <2>2. 1 \in DOMAIN tasks /\ Head(tasks) = tasks[1]
    BY <2>1, TaskFirst
  <2>3. PICK new : new = tasks[1].write
    OBVIOUS
  <2>4. queue' = Append(queue, new) /\ IsWrite(1) /\ new \in DOMAIN made
    BY <1>3, <2>1, <2>2, <2>3, WriteMutationsCases, TaskTyped DEF IsWrite
  <2>5. /\ Len(queue) \in Nat /\ DOMAIN queue = 1 .. Len(queue) /\ DOMAIN queue' = 1 .. Len(queue) + 1
        /\ \A i \in DOMAIN queue : queue'[i] = queue[i]
        /\ queue'[Len(queue) + 1] = new
        /\ \A i \in DOMAIN queue' : i \in DOMAIN queue \/ i = Len(queue) + 1
    <3>1. queue \in Seq(DOMAIN made)
      BY TypedFacts
    <3>2. QED
      BY <2>4, <3>1, AppendProperties
  <2>6. (\A w : ToWrite(w)' => ToWrite(w)) /\ \A w : ToWrite(w) => ToWrite(w)' \/ w = new
    BY <2>1, <2>3, TaskOrderPopped
  <2>7. /\ (\A w : InQueue(w) => InQueue(w)') /\ InQueue(new)'
        /\ \A w : InQueue(w)' => InQueue(w) \/ w = new
    BY <2>5 DEF InQueue
  <2>8. ToWrite(new)
    BY <2>2, <2>3, <2>4 DEF ToWrite
  <2>9. QED
    BY <2>1, <2>6, <2>7, <2>8 DEF WritesMove
<1>4. CASE OnWriteResult
  <2>1. results # <<>> /\ queue' = Tail(queue) /\ UNCHANGED <<made, tasks>>
    BY <1>4, OnWriteResultCases
  <2>2. /\ \A i \in DOMAIN queue' : i + 1 \in DOMAIN queue /\ queue'[i] = queue[i + 1]
        /\ \A i \in DOMAIN queue : i = 1 \/ \E k \in DOMAIN queue' : i = k + 1
    BY <2>1, QueueFirst
  <2>3. (\A w : InQueue(w)' => InQueue(w)) /\ \A w : InQueue(w) => InQueue(w)' \/ w = queue[1]
    BY <2>2 DEF InQueue
  <2>4. \A w : ToWrite(w) <=> ToWrite(w)'
    BY <2>1 DEF ToWrite, IsWrite
  <2>5. QED
    BY <1>4, <2>1, <2>3, <2>4 DEF WritesMove
<1>5. CASE Restart
  <2>1. tasks' = <<>> /\ UNCHANGED <<made, queue>> /\ \A w : ToWrite(w) => w \in dropped'
    BY <1>5, RestartCases, WritesRestart
  <2>2. (\A w : ~ToWrite(w)') /\ \A w : InQueue(w) <=> InQueue(w)'
    BY <2>1 DEF ToWrite, InQueue
  <2>3. QED
    BY <2>1, <2>2 DEF WritesMove
<1>6. CASE ServerWrites
  <2>1. UNCHANGED <<made, queue, tasks>>
    BY <1>6, ServerWritesKept
  <2>2. QED
    BY <2>1, MovesKept DEF ToWrite, IsWrite
<1>7. ASSUME NEW kind \in Kinds, OtherPhoneWrites(kind) PROVE WritesMove
  <2>1. UNCHANGED <<made, queue, tasks>>
    BY <1>7, OtherPhoneWritesCases
  <2>2. QED
    BY <2>1, MovesKept DEF ToWrite, IsWrite
<1>8. QED
  BY <1>1, <1>2, <1>3, <1>4, <1>5, <1>6, <1>7, StepKinds

\* What the log and the calls were is in them yet.
LEMMA PastKept ==
  ASSUME Typed, Typed', History
  PROVE  /\ Len(made) \in Nat /\ DOMAIN made = 1 .. Len(made) /\ Len(made') \in Nat /\ Len(made) <= Len(made')
         /\ \A w \in DOMAIN made : w \in DOMAIN made' /\ made'[w] = made[w] /\ w \in 1 .. MaxWrites
         /\ \A w \in DOMAIN made' : w \in DOMAIN made \/ w = Len(made) + 1
         /\ \A v \in DOMAIN log : v \in DOMAIN log' /\ log'[v] = log[v] /\ v \in Nat
<1>1. Len(made) \in Nat /\ DOMAIN made = 1 .. Len(made) /\ \A w \in DOMAIN made : w \in 1 .. MaxWrites
  BY WriteNumbers
<1>3. ASSUME NEW kind \in Kinds, made' = Append(made, kind)
      PROVE  /\ Len(made') = Len(made) + 1 /\ DOMAIN made' = 1 .. Len(made) + 1
             /\ \A w \in DOMAIN made : made'[w] = made[w]
  <2>1. made \in Seq(Kinds)
    BY TypedFacts
  <2>2. QED
    BY <1>3, <2>1
<1>4. log \in Seq(Values) /\ log' \in Seq(Values) /\ Now = Len(log) /\ Now' = Len(log')
  BY LogType DEF Typed, ServerTypes, Values, Now
<1>5. DOMAIN log = 1 .. Now /\ DOMAIN log' = 1 .. Now' /\ Now \in Nat /\ Now' \in Nat
  BY <1>4
<1>6. \A v \in DOMAIN log : v \in DOMAIN log' /\ log'[v] = log[v] /\ v \in Nat
  BY <1>5 DEF History, LogExtends
<1>7. CASE \E kind \in Kinds : made' = Append(made, kind)
  BY <1>1, <1>3, <1>6, <1>7
<1>8. CASE made' = made
  BY <1>1, <1>6, <1>8
<1>9. QED
  BY <1>7, <1>8 DEF History

-----------------------------------------------------------------------------
(* What documents were made of, they are made of yet.                      *)

\* A write that was not needed is not needed now.
LEMMA NotNeededKept ==
  ASSUME Typed, Typed', History, NEW w \in DOMAIN made, NEW v, NEW ids, NotNeeded(w, v, ids)
  PROVE  NotNeeded(w, v, ids)'
<1>1. w \in 1 .. MaxWrites
  BY PastKept
<1>2. committedAt[w] # 0 => committedAt'[w] = committedAt[w]
  BY <1>1 DEF History, CommittedOnce
<1>3. CASE w \in dropped
  BY <1>3 DEF History, NotNeeded
<1>4. CASE committedAt[w] \in 1 .. v /\ \A i \in DOMAIN ids : w < ids[i]
  <2>1. committedAt[w] # 0
    BY <1>4
  <2>2. QED
    BY <1>2, <1>4, <2>1 DEF NotNeeded
<1>5. CASE faults > 0 /\ committedAt[w] # 0 /\ \E i \in DOMAIN ids : ids[i] < w
  BY <1>2, <1>5 DEF History, NotNeeded
<1>6. QED
  BY <1>3, <1>4, <1>5 DEF NotNeeded

\* What own writes make of a version of the server's.
LEMMA LaidKept ==
  ASSUME Typed, Typed', History, NEW v \in DOMAIN log, NEW ids, ids \in Seq(DOMAIN made)
  PROVE  Laid(made', log'[v], ids) = Laid(made, log[v], ids) /\ ids \in Seq(DOMAIN made')
<1>1. /\ \A w \in DOMAIN made : w \in DOMAIN made' /\ made'[w] = made[w]
      /\ log'[v] = log[v]
  BY PastKept
<1>2. \A i \in 1 .. Len(ids) : made'[ids[i]] = made[ids[i]]
  BY <1>1
<1>3. Laid(made', log[v], ids) = Laid(made, log[v], ids)
  BY <1>2, LaidSame
<1>4. DOMAIN made \subseteq DOMAIN made'
  BY <1>1
<1>5. ids \in Seq(DOMAIN made')
  BY <1>4
<1>6. QED
  BY <1>1, <1>3, <1>5

\* The versions of an event, with the writes written out.
VersionAt(e, v) ==
  \E n \in 0 .. Len(made) : \E ids \in [1 .. n -> DOMAIN made] :
    /\ \A i, j \in 1 .. n : i < j => ids[i] < ids[j]
    /\ e.snapshot.value = Laid(made, log[v], ids)
    /\ \A w \in DOMAIN made \ { ids[i] : i \in 1 .. n } :
         w <= reads[e.read].mine \/ (\E i \in 1 .. n : w < ids[i]) => NotNeeded(w, v, ids)

VersionsForm == \A e : Versions(e) = { v \in DOMAIN log : VersionAt(e, v) }

\* They are so now,
LEMMA VersionsNow == VersionsForm
<1> SUFFICES ASSUME NEW e PROVE Versions(e) = { v \in DOMAIN log : VersionAt(e, v) }
  BY DEF VersionsForm
<1>1. ASSUME NEW v, NEW n, NEW ids PROVE Overlay(log[v], ids) = Laid(made, log[v], ids)
  BY OverlayLaid
<1>2. ASSUME NEW v \in DOMAIN log, v \in Versions(e) PROVE VersionAt(e, v)
  BY <1>1, <1>2 DEF Versions, VersionAt
<1>3. ASSUME NEW v \in DOMAIN log, VersionAt(e, v) PROVE v \in Versions(e)
  BY <1>1, <1>3 DEF Versions, VersionAt
<1>4. QED
  BY <1>2, <1>3 DEF Versions

\* and after a step.
LEMMA VersionsNext == VersionsForm'
BY VersionsNow, PTL

\* An answer has the versions that it had.
LEMMA VersionsKept ==
  ASSUME Typed, Typed', OrderInv, History, CallsGrow, NEW e, e.read \in DOMAIN reads, NEW v \in Versions(e)
  PROVE  v \in Versions(e)'
<1>0. PICK n \in 0 .. Len(made) : \E ids \in [1 .. n -> DOMAIN made] :
           /\ \A i, j \in 1 .. n : i < j => ids[i] < ids[j]
           /\ e.snapshot.value = Laid(made, log[v], ids)
           /\ \A w \in DOMAIN made \ { ids[i] : i \in 1 .. n } :
                w <= reads[e.read].mine \/ (\E i \in 1 .. n : w < ids[i]) => NotNeeded(w, v, ids)
  BY VersionsNow DEF VersionsForm, VersionAt
<1>1. PICK ids \in [1 .. n -> DOMAIN made] :
           /\ \A i, j \in 1 .. n : i < j => ids[i] < ids[j]
           /\ e.snapshot.value = Laid(made, log[v], ids)
           /\ \A w \in DOMAIN made \ { ids[i] : i \in 1 .. n } :
                w <= reads[e.read].mine \/ (\E i \in 1 .. n : w < ids[i]) => NotNeeded(w, v, ids)
  BY <1>0
<1>2. v \in DOMAIN log
  BY DEF Versions
<1>3. /\ Len(made) \in Nat /\ DOMAIN made = 1 .. Len(made) /\ Len(made') \in Nat /\ Len(made) <= Len(made')
      /\ \A w \in DOMAIN made : w \in DOMAIN made' /\ made'[w] = made[w] /\ w \in 1 .. MaxWrites
      /\ \A w \in DOMAIN made' : w \in DOMAIN made \/ w = Len(made) + 1
      /\ \A u \in DOMAIN log : u \in DOMAIN log' /\ log'[u] = log[u] /\ u \in Nat
  BY PastKept
<1>4. ids \in Seq(DOMAIN made) /\ DOMAIN ids = 1 .. n /\ Len(ids) = n /\ n \in Nat
  BY <1>1, <1>3
<1>5. n \in 0 .. Len(made') /\ ids \in [1 .. n -> DOMAIN made']
  BY <1>1, <1>3
<1>6. e.snapshot.value = Laid(made', log'[v], ids)
  BY <1>1, <1>2, <1>4, LaidKept
<1>7. reads'[e.read] = reads[e.read] /\ reads[e.read].mine \in Nat /\ reads[e.read].mine <= Len(made)
  BY CallTyped DEF CallsGrow, OrderInv, Calls
<1>8. ASSUME NEW w \in DOMAIN made' \ { ids[i] : i \in 1 .. n },
             w <= reads'[e.read].mine \/ \E i \in 1 .. n : w < ids[i]
      PROVE  NotNeeded(w, v, ids)'
  <2>1. w \in DOMAIN made
    <3> SUFFICES ASSUME w = Len(made) + 1 PROVE FALSE
      BY <1>3
    <3>1. ~ (w <= reads'[e.read].mine)
      BY <1>3, <1>7
    <3>2. \A i \in 1 .. n : ids[i] \in 1 .. Len(made)
      BY <1>1, <1>3
    <3>3. \A i \in 1 .. n : ~ (w < ids[i])
      BY <1>3, <3>2
    <3>4. QED
      BY <1>8, <3>1, <3>3
  <2>2. NotNeeded(w, v, ids)
    BY <1>1, <1>7, <1>8, <2>1
  <2>3. QED
    BY <2>1, <2>2, NotNeededKept
<1>9. v \in DOMAIN log'
  BY <1>2, <1>3
<1>10. VersionAt(e, v)'
  BY <1>1, <1>5, <1>6, <1>8 DEF VersionAt
<1>11. QED
  BY <1>9, <1>10, VersionsNext DEF VersionsForm

\* A write has its place yet, unless it goes to the queue.
LEMMA PlacedKept ==
  ASSUME Typed, Typed', History, WritesMove, NEW w \in DOMAIN made, NEW v, NEW ids, Placed(w, v, ids)
  PROVE  Placed(w, v, ids)' \/ InQueue(w)'
<1>1. CASE NotNeeded(w, v, ids)
  BY <1>1, NotNeededKept DEF Placed
<1>2. CASE ToWrite(w) /\ \A i \in DOMAIN ids : ids[i] < w
  BY <1>2 DEF WritesMove, Placed, NotNeeded
<1>3. CASE \E i \in DOMAIN ids : ids[i] = w
  BY <1>3 DEF Placed
<1>4. QED
  BY <1>1, <1>2, <1>3 DEF Placed

\* One that is made comes after all.
LEMMA PlacedNew ==
  ASSUME Typed, Typed', History, WritesMove, NEW w \in DOMAIN made', w \notin DOMAIN made, NEW v,
         NEW ids, ids \in Seq(DOMAIN made)
  PROVE  Placed(w, v, ids)'
<1>1. w = Len(made) + 1 /\ Len(made) \in Nat /\ DOMAIN made = 1 .. Len(made)
  BY PastKept
<1>2. \A i \in DOMAIN ids : ids[i] \in DOMAIN made
  OBVIOUS
<1>3. \A i \in DOMAIN ids : ids[i] < w
  BY <1>1, <1>2
<1>4. ToWrite(w)'
  BY DEF WritesMove
<1>5. QED
  BY <1>3, <1>4 DEF Placed

\* A document is made of what it was made of, if no write goes to the queue.
LEMMA FromKept ==
  ASSUME Typed, Typed', History, WritesMove, queue' = <<>>, NEW value, NEW v \in DOMAIN log, From(value, v)
  PROVE  From(value, v)'
<1>1. PICK ids \in Seq(DOMAIN made) : MadeOf(value, v, ids)
  BY DEF From
<1>2. Rising(ids) /\ value = Laid(made', log'[v], ids) /\ ids \in Seq(DOMAIN made')
  BY <1>1, LaidKept DEF MadeOf
<1>3. \A w : ~InQueue(w)'
  BY DEF InQueue
<1>4. ASSUME NEW w \in DOMAIN made' PROVE Placed(w, v, ids)'
  <2>1. CASE w \in DOMAIN made
    BY <1>1, <1>3, <2>1, PlacedKept DEF MadeOf
  <2>2. CASE w \notin DOMAIN made
    BY <2>2, PlacedNew
  <2>3. QED
    BY <2>1, <2>2
<1>5. MadeOf(value, v, ids)'
  BY <1>2, <1>4 DEF MadeOf
<1>6. QED
  BY <1>2, <1>5 DEF From

\* The cache is made of what it was made of, if it stays, and a write that leaves
\* the queue has its place.
LEMMA CacheKept ==
  ASSUME Typed, Typed', History, WritesMove, OrderInv, cache' = cache,
         NEW v \in DOMAIN log, NEW ids, ids \in Seq(DOMAIN made), CacheMadeOf(v, ids),
         \A w \in DOMAIN made : InQueue(w) => InQueue(w)' \/ Placed(w, v, ids)'
  PROVE  CacheMadeOf(v, ids)'
<1>1. Rising(ids) /\ Laid(made', log'[v], ids) = Laid(made, log[v], ids)
  BY LaidKept DEF CacheMadeOf
<1>2. Level' = Level
  BY DEF Level
<1>3. \A i \in DOMAIN ids : ids[i] \in DOMAIN made
  OBVIOUS
<1>4. Done(ids)'
  <2> SUFFICES ASSUME NEW i \in DOMAIN ids
               PROVE  BeforeQueue(ids[i])' /\ \A w : ToWrite(w)' => ids[i] < w
    BY DEF Done
  <2>1. BeforeQueue(ids[i]) /\ \A w : ToWrite(w) => ids[i] < w
    BY DEF CacheMadeOf, Done
  <2>2. ASSUME NEW w, ToWrite(w)' PROVE ids[i] < w
    <3>1. CASE ToWrite(w)
      BY <2>1, <3>1
    <3>2. CASE w \in DOMAIN made' /\ w \notin DOMAIN made
      <4>1. w = Len(made) + 1 /\ Len(made) \in Nat /\ DOMAIN made = 1 .. Len(made)
        BY <3>2, PastKept
      <4>2. QED
        BY <1>3, <4>1
    <3>3. QED
      BY <2>2, <3>1, <3>2 DEF WritesMove
  <2>3. ASSUME NEW k \in DOMAIN queue' PROVE ids[i] < queue'[k]
    <3>1. PICK w : w = queue'[k]
      OBVIOUS
    <3>2. InQueue(w)'
      BY <3>1 DEF InQueue
    <3>3. InQueue(w) \/ ToWrite(w)
      BY <3>2 DEF WritesMove
    <3>4. ids[i] < w
      BY <2>1, <3>3 DEF InQueue, BeforeQueue
    <3>5. QED
      BY <3>1, <3>4
  <2>4. QED
    BY <2>2, <2>3 DEF BeforeQueue
<1>5. ASSUME NEW w \in DOMAIN made' PROVE InQueue(w)' \/ Placed(w, v, ids)'
  <2>1. CASE w \in DOMAIN made
    <3>1. InQueue(w) \/ Placed(w, v, ids)
      BY <2>1 DEF CacheMadeOf
    <3>2. QED
      BY <2>1, <3>1, PlacedKept
  <2>2. CASE w \notin DOMAIN made
    BY <2>2, PlacedNew
  <2>3. QED
    BY <2>1, <2>2
<1>6. QED
  BY <1>1, <1>2, <1>4, <1>5 DEF CacheMadeOf

-----------------------------------------------------------------------------
(* What the cache is made of, step by step.                                *)

\* What a step does to the cache: it takes a document of the server's, or the
\* result of a write, or nothing.
LEMMA CacheCases ==
  ASSUME Typed, Typed', DataInv, StreamInv, TargetInv, OrderInv, WriteInv, [Next]_vars
  PROVE  cache' = cache \/ (cache'.version >= cache.version /\ ~cache'.unsynced) \/ OnWriteResult
<1>1. CASE Plain
  BY <1>1 DEF Plain
<1>2. ASSUME NEW kind \in Kinds, WriteData(kind) PROVE cache' = cache
  BY <1>2, WriteDataCases
<1>3. CASE RunTask /\ Head(tasks).kind = "write"
  BY <1>3, RunTaskCases DEF TaskKept
<1>4. CASE Restart
  BY <1>4, RestartCases
<1>5. CASE ServerWrites
  BY <1>5, ServerWritesKept
<1>6. ASSUME NEW kind \in Kinds, OtherPhoneWrites(kind) PROVE cache' = cache
  BY <1>6, OtherPhoneWritesCases
<1>7. QED
  BY <1>1, <1>2, <1>3, <1>4, <1>5, <1>6, StepKinds

\* The version of the cache does not fall.
LEMMA LevelGrows ==
  ASSUME Typed, Typed', DataInv, StreamInv, TargetInv, OrderInv, WriteInv, [Next]_vars
  PROVE  Level <= Level'
<1>1. cache.version \in Nat /\ cache'.version \in Nat
  BY NumbersTypedNow, NumbersTypedNext DEF NumbersTyped
<1>2. cache'.version >= cache.version
  <2>1. CASE OnWriteResult
    BY <2>1, ResultCache
  <2>2. QED
    BY <1>1, <2>1, CacheCases
<1>3. QED
  BY <1>1, <1>2 DEF Level

\* The result of a write that changes nothing is that of one which is not needed.
LEMMA ResultNotNeeded ==
  ASSUME Typed, WriteInv, OnWriteResult, cache' = cache, cache.unsynced,
         NEW v, NEW ids, ids \in Seq(DOMAIN made), CacheMadeOf(v, ids)
  PROVE  NotNeeded(queue[1], v, ids)
<1>1. 1 \in DOMAIN results /\ results # <<>> /\ queue' = Tail(queue)
  BY FirstResult, OnWriteResultCases
<1>2. 1 \in DOMAIN queue /\ queue[1] \in DOMAIN made
  BY <1>1, QueueFirst, WriteNumbers
<1>3. PICK w, n : w = queue[1] /\ n = results[1].version
  OBVIOUS
<1>4. n \in 1 .. Now /\ Now \in Nat /\ cache.version \in Nat /\ w \in 1 .. MaxWrites
      /\ faults \in Nat /\ committedAt[w] \in Nat
  <2>1. n \in 1 .. Now
    BY <1>3, ResultCache
  <2>2. w \in 1 .. MaxWrites
    BY <1>2, <1>3, WriteNumbers
  <2>3. QED
    BY <2>1, <2>2, NumbersTypedNow DEF NumbersTyped
<1>5. CASE ~results[1].ok
  <2>1. w \in dropped
    BY <1>1, <1>3, <1>5 DEF WriteInv, Acknowledged
  <2>2. QED
    BY <1>3, <2>1 DEF NotNeeded
<1>6. CASE results[1].ok
  <2>1. ~ (cache.version < n)
    <3> SUFFICES ASSUME cache.version < n PROVE FALSE
      OBVIOUS
    <3>1. cache' = Entry(n, AppliedTo(made[w], w, cache.value), TRUE)
      BY <1>3, <1>6, ResultCache
    <3>2. cache'.version = n
      BY <3>1 DEF Entry
    <3>3. QED
      BY <1>4, <3>2
  <2>2. faults # 0
    <3> SUFFICES ASSUME faults = 0 PROVE FALSE
      OBVIOUS
    <3>1. cache.version < results[1].version
      BY <1>1, <1>6 DEF WriteInv, Lossless
    <3>2. QED
      BY <1>3, <2>1, <3>1
  <2>3. committedAt[w] # 0
    <3>1. committedAt[w] \in 1 .. n
      BY <1>1, <1>3, <1>6 DEF WriteInv, Acknowledged
    <3>2. QED
      BY <1>4, <3>1
  <2>4. ids # <<>> /\ Done(ids)
    BY DEF CacheMadeOf
  <2>5. 1 \in DOMAIN ids
    BY <2>4, EmptySeq
  <2>6. ids[1] < w
    BY <1>2, <1>3, <2>4, <2>5 DEF Done, BeforeQueue
  <2>7. QED
    BY <1>3, <1>4, <2>2, <2>3, <2>5, <2>6 DEF NotNeeded
<1>7. QED
  BY <1>5, <1>6

\* One that changes the cache puts its write on top.
LEMMA ResultApplied ==
  ASSUME Typed, Typed', DataInv, OrderInv, WriteInv, Queued, OnWriteResult, cache' # cache,
         History, NEW v \in DOMAIN log, CacheFrom(v)
  PROVE  CacheFrom(v)'
<1>1. PICK ids \in Seq(DOMAIN made) : CacheMadeOf(v, ids)
  BY DEF CacheFrom
<1>2. /\ results # <<>> /\ queue' = Tail(queue) /\ UNCHANGED <<log, committedAt, dropped, made, tasks, faults>>
  BY OnWriteResultCases
<1>3. /\ 1 \in DOMAIN queue /\ Head(queue) = queue[1] /\ queue # <<>>
      /\ DOMAIN queue = 1 .. Len(queue) /\ Len(queue) \in Nat
      /\ \A i \in DOMAIN queue' : i + 1 \in DOMAIN queue /\ queue'[i] = queue[i + 1]
      /\ \A i \in DOMAIN queue : i = 1 \/ \E k \in DOMAIN queue' : i = k + 1
  BY <1>2, QueueFirst
<1>4. PICK w \in DOMAIN made : w = queue[1]
  BY <1>3, WriteNumbers
<1> DEFINE n == results[1].version
<1>5. /\ cache' = Entry(n, AppliedTo(made[w], w, cache.value), TRUE) /\ cache.version < n /\ n \in 1 .. Now
  BY <1>4, ResultCache
<1> HIDE DEF n
<1>6. /\ cache'.version = n /\ cache'.value = AppliedTo(made[w], w, cache.value) /\ cache'.unsynced = TRUE
  BY <1>5 DEF Entry
<1>7. PICK all \in Seq(DOMAIN made) : all = Append(ids, w)
  BY AppendProperties
<1>8. /\ Len(ids) \in Nat /\ DOMAIN ids = 1 .. Len(ids) /\ DOMAIN all = 1 .. Len(ids) + 1
      /\ \A i \in DOMAIN ids : all[i] = ids[i]
      /\ all[Len(ids) + 1] = w
      /\ \A i \in DOMAIN all : i \in DOMAIN ids \/ i = Len(ids) + 1
      /\ all # <<>>
  BY <1>7, AppendProperties
<1>9. Rising(ids) /\ Done(ids)
  BY <1>1 DEF CacheMadeOf
<1>10. \A i \in DOMAIN ids : ids[i] < w
  BY <1>3, <1>4, <1>9 DEF Done, BeforeQueue
<1>11. Rising(all)
  <2> SUFFICES ASSUME NEW i \in DOMAIN all, NEW j \in DOMAIN all, i < j PROVE all[i] < all[j]
    BY DEF Rising
  <2>1. i \in DOMAIN ids
    BY <1>8
  <2>2. CASE j \in DOMAIN ids
    BY <1>8, <1>9, <2>1, <2>2 DEF Rising
  <2>3. CASE j = Len(ids) + 1
    BY <1>8, <1>10, <2>1, <2>3
  <2>4. QED
    BY <1>8, <2>2, <2>3
<1>12. \A i \in DOMAIN queue' : w < queue'[i]
  <2> SUFFICES ASSUME NEW i \in DOMAIN queue' PROVE w < queue'[i]
    OBVIOUS
  <2>1. PICK k : k = i + 1
    OBVIOUS
  <2>2. k \in DOMAIN queue /\ queue'[i] = queue[k] /\ k # 1
    <3>1. i \in Nat /\ i >= 1
      <4>1. queue' \in Seq(DOMAIN made')
        BY DEF Typed, DiskTypes
      <4>2. QED
        BY <4>1
    <3>2. QED
      BY <1>3, <2>1, <3>1
  <2>3. 1 < k
    BY <1>3, <2>2
  <2>4. QED
    BY <1>3, <1>4, <2>2, <2>3 DEF OrderInv, QueueOrder
<1>13. \A u : ToWrite(u) => w < u
  BY <1>3, <1>4 DEF OrderInv, QueueOrder, ToWrite
<1>14. Done(all)'
  <2> SUFFICES ASSUME NEW i \in DOMAIN all
               PROVE  (\A k \in DOMAIN queue' : all[i] < queue'[k]) /\ \A u : ToWrite(u)' => all[i] < u
    BY DEF Done, BeforeQueue
  <2>1. \A u : ToWrite(u)' => ToWrite(u)
    BY <1>2 DEF ToWrite, IsWrite
  <2>2. CASE i = Len(ids) + 1
    BY <1>8, <1>12, <1>13, <2>1, <2>2
  <2>3. CASE i \in DOMAIN ids
    <3>1. (\A k \in DOMAIN queue : ids[i] < queue[k]) /\ \A u : ToWrite(u) => ids[i] < u
      BY <1>9, <2>3 DEF Done, BeforeQueue
    <3>2. \A k \in DOMAIN queue' : ids[i] < queue'[k]
      BY <1>3, <3>1
    <3>3. QED
      BY <1>8, <2>1, <2>3, <3>1, <3>2
  <2>4. QED
    BY <1>8, <2>2, <2>3
<1>15. cache'.value = Laid(made', log'[v], all)
  <2>1. Laid(made, log[v], all) = AppliedTo(made[w], w, Laid(made, log[v], ids))
    BY <1>7, LaidNext
  <2>2. CASE cache.version # 0
    <3>1. cache.value = Laid(made, log[v], ids)
      BY <1>1, <2>2 DEF CacheMadeOf
    <3>2. QED
      BY <1>2, <1>6, <2>1, <3>1
  <2>3. CASE cache.version = 0
    <3>1. cache.value = Missing
      BY <2>3 DEF DataInv, CacheTrue, NoEntry, Entry
    <3>2. made[w] = "set"
      BY <1>3, <1>4, <3>1 DEF Queued, Visible
    <3>3. \A value : AppliedTo(made[w], w, value) = {w}
      BY <3>2 DEF AppliedTo
    <3>4. QED
      BY <1>2, <1>6, <2>1, <3>3
  <2>4. QED
    BY <2>2, <2>3
<1>16. ASSUME NEW u \in DOMAIN made, ~InQueue(u)' PROVE Placed(u, v, all)'
  <2>1. (\E i \in DOMAIN all : all[i] = u) => Placed(u, v, all)'
    BY DEF Placed
  <2>2. CASE InQueue(u)
    <3>1. u = w
      BY <1>3, <1>4, <1>16, <2>2 DEF InQueue
    <3>2. QED
      BY <1>8, <2>1, <3>1
  <2>3. CASE ~InQueue(u)
    <3>1. Placed(u, v, ids)
      BY <1>1, <2>3 DEF CacheMadeOf
    <3>2. CASE \E i \in DOMAIN ids : ids[i] = u
      BY <1>8, <2>1, <3>2
    <3>3. CASE ToWrite(u)
      <4>1. \A i \in DOMAIN all : all[i] < u
        BY <1>8, <1>9, <1>13, <3>3 DEF Done
      <4>2. ToWrite(u)'
        BY <1>2, <3>3 DEF ToWrite, IsWrite
      <4>3. QED
        BY <4>1, <4>2 DEF Placed
    <3>4. CASE ~ToWrite(u) /\ NotNeeded(u, v, ids)
      <4>1. NotNeeded(u, v, all)
        <5>1. CASE u \in dropped
          BY <5>1 DEF NotNeeded
        <5>2. CASE faults > 0 /\ committedAt[u] # 0 /\ \E i \in DOMAIN ids : ids[i] < u
          <6>1. \E i \in DOMAIN all : all[i] < u
            BY <1>8, <5>2
          <6>2. QED
            BY <5>2, <6>1 DEF NotNeeded
        <5>3. CASE u \notin dropped /\ committedAt[u] \in 1 .. v /\ \A i \in DOMAIN ids : u < ids[i]
          <6>1. BeforeQueue(u)
            BY <2>3, <3>4, <5>3 DEF WriteInv, Retired
          <6>2. u < w
            BY <1>3, <1>4, <6>1 DEF BeforeQueue
          <6>3. \A i \in DOMAIN all : u < all[i]
            BY <1>8, <5>3, <6>2
          <6>4. QED
            BY <5>3, <6>3 DEF NotNeeded
        <5>4. QED
          BY <3>4, <5>1, <5>2, <5>3 DEF NotNeeded
      <4>2. QED
        BY <4>1, NotNeededKept DEF Placed
    <3>5. QED
      BY <3>1, <3>2, <3>3, <3>4 DEF Placed
  <2>4. QED
    BY <2>2, <2>3
<1>17. v <= Level'
  <2>1. v <= Level /\ cache.version \in Nat /\ Now \in Nat /\ v \in Nat
    BY <1>1, NumbersTypedNow, PastKept DEF CacheMadeOf, NumbersTyped
  <2>2. Level \in Nat /\ Level <= n /\ n # 0
    BY <1>5, <2>1 DEF Level
  <2>3. Level' = n
    BY <1>6, <2>2 DEF Level
  <2>4. QED
    BY <1>5, <2>1, <2>2, <2>3
<1>18. CacheMadeOf(v, all)'
  BY <1>2, <1>6, <1>8, <1>11, <1>14, <1>15, <1>16, <1>17 DEF CacheMadeOf
<1>19. QED
  BY <1>2, <1>18 DEF CacheFrom

\* Whatever the step, the cache is made of no older a version.
LEMMA CacheStep ==
  ASSUME Typed, Typed', DataInv, DataInv', StreamInv, TargetInv, OrderInv, WriteInv, WriteInv', Queued,
         History, WritesMove, [Next]_vars, NEW c \in DOMAIN log, CacheFrom(c)
  PROVE  \E d \in DOMAIN log' : c <= d /\ CacheFrom(d)'
<1>1. PICK ids \in Seq(DOMAIN made) : CacheMadeOf(c, ids)
  BY DEF CacheFrom
<1>2. c \in DOMAIN log' /\ c \in Nat
  BY PastKept
<1>3. CASE ~cache'.unsynced
  <2>1. PICK d : d = Level'
    OBVIOUS
  <2>2. d \in DOMAIN log' /\ CacheFrom(d)'
    BY <1>3, <2>1, SyncedFromNext DEF SyncedFrom
  <2>3. c <= Level /\ Level <= d
    BY <1>1, <2>1, LevelGrows DEF CacheMadeOf
  <2>4. Level \in Nat /\ d \in Nat
    <3>1. cache.version \in Nat /\ cache'.version \in Nat
      BY NumbersTypedNow, NumbersTypedNext DEF NumbersTyped
    <3>2. QED
      BY <2>1, <3>1 DEF Level
  <2>5. QED
    BY <1>2, <2>2, <2>3, <2>4
<1>4. CASE cache'.unsynced /\ cache' = cache
  <2>1. ASSUME NEW w \in DOMAIN made, InQueue(w) PROVE InQueue(w)' \/ Placed(w, c, ids)'
    <3>1. CASE OnWriteResult /\ w = queue[1]
      <4>1. NotNeeded(w, c, ids)
        BY <1>1, <1>4, <3>1, ResultNotNeeded
      <4>2. QED
        BY <4>1, NotNeededKept DEF Placed
    <3>2. QED
      BY <2>1, <3>1 DEF WritesMove
  <2>2. CacheMadeOf(c, ids)'
    BY <1>1, <1>4, <2>1, CacheKept
  <2>3. ids \in Seq(DOMAIN made')
    BY LaidKept
  <2>4. QED
    BY <1>2, <2>2, <2>3 DEF CacheFrom
<1>5. CASE cache'.unsynced /\ cache' # cache
  <2>1. OnWriteResult
    BY <1>5, CacheCases
  <2>2. CacheFrom(c)'
    BY <1>5, <2>1, ResultApplied
  <2>3. QED
    BY <1>2, <2>2
<1>6. QED
  BY <1>3, <1>4, <1>5

-----------------------------------------------------------------------------
(* What the view is made of.                                               *)

\* What a step does to the document of an open view: it leaves it, or takes that
\* of the cache and the queue.
ViewMoves ==
  view'.open =>
    \/ view.open /\ view'.value = view.value
    \/ \E doc : doc = GetDocument(cache, queue)' /\ view'.value = doc.value

\* A document that is put into a view is its document, or makes no difference.
LEMMA ViewWithDocument ==
  ASSUME Typed, UNCHANGED made, queue' \in Seq(DOMAIN made), cache'.value \in Values,
         cache'.unsynced \in BOOLEAN,
         NEW w, w = WithDocument(view, GetDocument(cache', queue')),
         NEW v \in Views, v.open = view.open, v.value = w.value, view' = WithSyncState(v)
  PROVE  ViewMoves
<1>1. PICK doc : doc = GetDocument(cache', queue')
  OBVIOUS
<1>2. GetDocument(cache, queue)' = doc /\ doc \in Documented
  BY <1>1, NewDocument
<1>3. view'.open = v.open /\ view'.value = v.value
  BY WithSyncStateType DEF SameListen
<1>4. view \in Views
  BY TypedFacts
<1>5. w.value = view.value \/ w.value = doc.value
  <2>1. w = WithDocument(view, doc)
    BY <1>1
  <2>2. QED
    BY <1>4, <2>1 DEF WithDocument, Views
<1>6. QED
  BY <1>2, <1>3, <1>5 DEF ViewMoves

\* A view that is published without another document.
LEMMA ViewLeft ==
  ASSUME NEW v \in Views, v.open = view.open, v.value = view.value, view' = WithSyncState(v)
  PROVE  ViewMoves
BY WithSyncStateType DEF SameListen, ViewMoves

\* The worker's tasks move the view so,
LEMMA ViewMovesRunTask ==
  ASSUME Typed, Typed', ViewInv, RunTask
  PROVE  ViewMoves
<1>1. /\ tasks # <<>> /\ TaskKept
      /\ Head(tasks).kind = "listen" => AddQueryListener(Head(tasks).read)
      /\ Head(tasks).kind = "remove" => RemoveQueryListener(Head(tasks).read)
      /\ Head(tasks).kind = "write" => WriteMutations(Head(tasks).write)
  BY RunTaskCases
<1>2. /\ Head(tasks).kind \in {"listen", "remove", "write"}
      /\ Head(tasks).kind = "write" => Head(tasks).write \in DOMAIN made
  BY <1>1, FirstTask DEF Typed
<1>3. UNCHANGED <<cache, made, log>>
  BY <1>1 DEF TaskKept
<1>4. CASE Head(tasks).kind = "listen"
  <2>1. queue' = queue /\ (UNCHANGED view \/ view' = WithSyncState(InitialView))
    BY <1>1, <1>4, AddListenerCases DEF Opens
  <2>2. CASE UNCHANGED view
    BY <2>2 DEF ViewMoves
  <2>3. CASE view' = WithSyncState(InitialView)
    <3> DEFINE first == [NoView EXCEPT !.open = TRUE, !.synced = saved.has, !.token = saved.token,
                                       !.since = Len(log)]
    <3>1. PICK doc : doc = GetDocument(cache, queue)
      OBVIOUS
    <3>2. GetDocument(cache, queue)' = doc /\ doc \in Documented
      BY <1>3, <2>1, <3>1, GetDocumentForm DEF GetDocument, Overlay
    <3>3. InitialView = WithDocument(first, doc) /\ InitialView \in Views
      BY <3>1, InitialViewType DEF InitialView
    <3>4. first.value = Missing /\ first \in Views /\ first.state = "none" /\ first.open
      <4>1. NoView \in Views /\ saved.has \in BOOLEAN /\ saved.token \in 0 .. Now /\ Len(log) \in 0 .. Now
        BY TypedFacts, NoViewType DEF Now
      <4>2. QED
        BY <4>1 DEF Views, NoView
    <3> HIDE DEF first
    <3>5. InitialView.value = doc.value
      <4>1. CASE Changes(first, doc)
        BY <3>3, <3>4, <4>1 DEF WithDocument, Views
      <4>2. CASE ~Changes(first, doc)
        <5>1. InitialView = first
          BY <3>3, <4>2 DEF WithDocument
        <5>2. doc.value = Missing
          BY <3>4, <4>2 DEF Changes
        <5>3. QED
          BY <3>4, <5>1, <5>2
      <4>3. QED
        BY <4>1, <4>2
    <3>6. view'.value = InitialView.value
      BY <2>3, <3>3, WithSyncStateType
    <3>7. QED
      BY <3>2, <3>5, <3>6 DEF ViewMoves
  <2>4. QED
    BY <2>1, <2>2, <2>3
<1>5. CASE Head(tasks).kind = "remove"
  <2>1. UNCHANGED view \/ view' = NoView
    BY <1>1, <1>5, RemoveListenerCases DEF Closes
  <2>2. QED
    BY <2>1 DEF ViewMoves, NoView
<1>6. CASE Head(tasks).kind = "write"
  <2> DEFINE w == Head(tasks).write
             v == WithDocument(view, GetDocument(cache, queue'))
  <2>1. queue' = Append(queue, w) /\ view' = WithSyncState(v)
    BY <1>1, <1>6, WriteMutationsCases, PublishCases
  <2>2. queue' \in Seq(DOMAIN made)
    BY <1>2, <1>6, <2>1, TypedFacts, AppendProperties
  <2>3. cache'.value \in Values /\ cache'.unsynced \in BOOLEAN
    BY <1>3, TypedFacts DEF Entries
  <2>4. v = WithDocument(view, GetDocument(cache', queue'))
    BY <1>3
  <2>5. GetDocument(cache', queue') \in Documented
    BY <1>3, <2>2, <2>3, NewDocument
  <2>6. v \in Views /\ v.open = view.open
    BY <2>4, <2>5, TypedFacts, WithDocumentType DEF SameListen
  <2> HIDE DEF v
  <2>7. QED
    BY <1>3, <2>1, <2>2, <2>3, <2>4, <2>6, ViewWithDocument
<1>7. QED
  BY <1>2, <1>4, <1>5, <1>6

\* and the result of a write does,
LEMMA ViewMovesOnWriteResult ==
  ASSUME Typed, Typed', ViewInv, OnWriteResult
  PROVE  ViewMoves
<1> DEFINE v == WithDocument(view, GetDocument(cache', queue'))
<1>1. view' = WithSyncState(v) /\ UNCHANGED <<made, log, reads>>
  BY OnWriteResultCases, PublishCases
<1>2. queue' \in Seq(DOMAIN made) /\ cache' \in Entries(0)
  BY <1>1, SameSets DEF Typed, DiskTypes
<1>3. cache'.value \in Values /\ cache'.unsynced \in BOOLEAN
  BY <1>2 DEF Entries
<1>4. GetDocument(cache', queue') \in Documented
  BY <1>1, <1>2, <1>3, NewDocument
<1>5. v \in Views /\ v.open = view.open
  BY <1>4, TypedFacts, WithDocumentType DEF SameListen
<1> HIDE DEF v
<1>6. v = WithDocument(view, GetDocument(cache', queue'))
  BY DEF v
<1>7. QED
  BY <1>1, <1>2, <1>3, <1>5, <1>6, ViewWithDocument

\* a message of the stream,
LEMMA ViewMovesOnWatchStreamChange ==
  ASSUME Typed, Typed', ViewInv, OnWatchStreamChange
  PROVE  ViewMoves
<1>1. /\ responses # <<>> /\ UNCHANGED <<log, made, reads, queue>>
      /\ Head(responses).kind = "snapshot" => RaiseWatchSnapshot(Head(responses).version)
      /\ Head(responses).kind # "snapshot" => HandleChange(Head(responses))
  BY OnWatchStreamChangeCases
<1>2. CASE Head(responses).kind # "snapshot"
  <2>1. view' = WithSyncState(view) /\ view \in Views
    BY <1>1, <1>2, HandleChangeCases, PublishCases, TypedFacts
  <2>2. QED
    BY <2>1, ViewLeft
<1>3. CASE Head(responses).kind = "snapshot"
  <2>1. PICK version : version = Head(responses).version
    OBVIOUS
  <2>2. version \in 1 .. Now /\ RaiseWatchSnapshot(version)
    BY <1>1, <1>3, <2>1, TypedFacts, FirstMessage
  <2> DEFINE v == SeenView(version)
             w == Seen(version)
             doc == DocumentUpdate(version)
  <2>3. view' = WithSyncState(v)
    BY <2>2, RaiseWatchSnapshotCases, PublishCases
  <2>4. v \in Views /\ v.open = view.open /\ v.value = w.value
    BY <2>2, SeenViewType
  <2>5. cache' \in Entries(0)
    BY <2>2, SeenType
  <2>6. w = IF Accepts(cache, doc) THEN WithDocument(view, GetDocument(cache', queue)) ELSE view
    BY DEF Seen
  <2> HIDE DEF v, w
  <2>7. CASE Accepts(cache, doc)
    <3>1. cache'.value \in Values /\ cache'.unsynced \in BOOLEAN /\ queue' \in Seq(DOMAIN made)
      BY <1>1, <2>5, TypedFacts DEF Entries
    <3>2. w = WithDocument(view, GetDocument(cache', queue'))
      BY <1>1, <2>6, <2>7
    <3>3. QED
      BY <1>1, <2>3, <2>4, <3>1, <3>2, ViewWithDocument
  <2>8. CASE ~Accepts(cache, doc)
    BY <2>3, <2>4, <2>6, <2>8, ViewLeft
  <2>9. QED
    BY <2>7, <2>8
<1>4. QED
  BY <1>2, <1>3

\* and every step.
LEMMA ViewMovesStep ==
  ASSUME Typed, Typed', ViewInv, [Next]_vars
  PROVE  ViewMoves
<1>0. ASSUME view' = view PROVE ViewMoves
  BY <1>0 DEF ViewMoves
<1>1. CASE UNCHANGED vars
  BY <1>0, <1>1 DEF vars, listening
<1>2. CASE getDocument \/ OnEvent \/ StreamOpens
  BY <1>0, <1>2, GetDocumentCases, OnEventCases, StreamOpensCases
<1>3. ASSUME NEW kind \in Kinds, WriteData(kind) PROVE ViewMoves
  BY <1>0, <1>3, WriteDataCases
<1>4. CASE RunTask
  BY <1>4, ViewMovesRunTask
<1>5. CASE OnWriteResult
  BY <1>5, ViewMovesOnWriteResult
<1>6. ASSUME NEW t, SetAndBroadcast(t) PROVE ViewMoves
  <2>1. /\ view' = WithSyncState(BroadcastView(t)) /\ BroadcastView(t) \in Views
        /\ BroadcastView(t).open = view.open
    BY <1>6, BroadcastResult
  <2>2. BroadcastView(t).value = view.value
    BY BroadcastShape
  <2>3. QED
    BY <2>1, <2>2, ViewLeft
<1>7. CASE OnlineStateTimeout
  BY <1>6, <1>7, OnlineStateTimeoutCases
<1>8. CASE StreamFails \/ ConnectionLost \/ IdleTimeout \/ HandleCredentialChange
  <2>1. PICK state \in {"off", "starting"} : \E t : Ends(state, t)
    BY <1>8, StreamEndsCases
  <2>2. QED
    BY <1>6, <2>1 DEF Ends
<1>9. CASE OnWatchStreamChange
  BY <1>9, ViewMovesOnWatchStreamChange
<1>10. CASE Restart
  BY <1>10, RestartCases DEF ViewMoves, NoView
<1>11. CASE ServerAnswers \/ ServerSends \/ ServerWrites
  BY <1>0, <1>11, ServerAnswersCases, ServerSendsCases, ServerWritesKept
<1>12. ASSUME NEW kind \in Kinds, OtherPhoneWrites(kind) PROVE ViewMoves
  BY <1>0, <1>12, OtherPhoneWritesCases
<1>13. QED
  BY <1>1, <1>2, <1>3, <1>4, <1>5, <1>7, <1>8, <1>9, <1>10, <1>11, <1>12, NextCases

-----------------------------------------------------------------------------
(* The versions that the cache, the view and the events come from.         *)

\* The answers, and the events that will be answers.
Given == { answers[i] : i \in DOMAIN answers } \cup { main[i] : i \in DOMAIN main }

Below(e, v) == IsError(e) \/ \E u \in Versions(e) : u <= v

ViewFrom(v) ==
  \A value : view.open /\ value = view.value /\ (value # Missing \/ cache.version # 0) => From(value, v)

(***************************************************************************)
(* The cache comes from version c and the view from version v, and there   *)
(* is no answer that can only come from a later one.                       *)
(***************************************************************************)
Based(c, v) == v <= c /\ CacheFrom(c) /\ ViewFrom(v) /\ \A e \in Given : Below(e, v)

Bases == \E c, v \in DOMAIN log : Based(c, v)

(***************************************************************************)
(* An event is, or would be, a good answer to its call after the answers   *)
(* that were given before it.                                              *)
(***************************************************************************)
Before(e) == { answers[i] : i \in 1 .. reads[e.read].after }

Good(e) ==
  /\ IsError(e) \/ Versions(e) # {}
  /\ \A f \in Before(e) :
       IF IsError(e) THEN f.snapshot.value = Missing
       ELSE IsError(f) \/ \E v \in Versions(f), w \in Versions(e) : v <= w

Goods == \A e \in Given : Good(e)

\* An event belongs to a call, and the answers before the call are there.
GivenTyped ==
  Typed /\ OrderInv =>
    /\ \A e \in Given : e.read \in DOMAIN reads
    /\ \A r \in DOMAIN reads : \A i \in 1 .. reads[r].after : i \in DOMAIN answers

\* They are now.
LEMMA GivenTypedNow == GivenTyped
<1> SUFFICES ASSUME Typed, OrderInv
             PROVE  /\ \A e \in Given : e.read \in DOMAIN reads
                    /\ \A r \in DOMAIN reads : \A i \in 1 .. reads[r].after : i \in DOMAIN answers
  BY DEF GivenTyped
<1>1. answers \in Seq(Events) /\ main \in Seq(Events)
  BY TypedFacts
<1>2. /\ \A i \in DOMAIN answers : answers[i] \in Events
      /\ \A i \in DOMAIN main : main[i] \in Events
      /\ DOMAIN answers = 1 .. Len(answers) /\ Len(answers) \in Nat
  BY <1>1
<1>3. \A e \in Given : e.read \in DOMAIN reads
  BY <1>2 DEF Given, Events
<1>4. ASSUME NEW r \in DOMAIN reads, NEW i \in 1 .. reads[r].after PROVE i \in DOMAIN answers
  <2>1. reads[r].after \in Nat /\ reads[r].after <= Len(answers)
    BY CallTyped DEF OrderInv, Calls
  <2>2. QED
    BY <1>2, <2>1
<1>5. QED
  BY <1>3, <1>4

\* They are after a step.
LEMMA GivenTypedNext == GivenTyped'
BY GivenTypedNow, PTL

\* Where there is no document in the view there is none to be seen.
NothingThere == Typed /\ ViewInv /\ view.open /\ view.value = Missing => ~Visible

\* There is none now.
LEMMA NothingThereNow == NothingThere
<1> SUFFICES ASSUME Typed, ViewInv, view.open, view.value = Missing, Visible PROVE FALSE
  BY DEF NothingThere
<1>1. PICK doc : doc = GetDocument(cache, queue)
  OBVIOUS
<1>2. view.state = "none" /\ Matches(view, doc)
  BY <1>1 DEF ViewInv, ViewShape, WellFormed, Fits
<1>3. doc.value = Missing
  BY <1>2 DEF Matches
<1>4. PICK value, ids : value = cache.value /\ ids = queue
  OBVIOUS
<1>5. Overlay(value, ids) = Missing
  BY <1>1, <1>3, <1>4, GetDocumentValue
<1>6. /\ made \in Seq(Kinds) /\ Len(made) <= MaxWrites /\ ids \in Seq(DOMAIN made) /\ value \in Values
  BY <1>4, TypedFacts DEF Entries
<1>7. ASSUME ids # <<>>, made[Head(ids)] = "set"
      PROVE  AppliedTo(made[ids[1]], ids[1], value) # Missing
  <2>1. ids[1] \in DOMAIN made /\ made[ids[1]] = "set"
    BY <1>6, <1>7
  <2>2. AppliedTo("set", ids[1], value) = {ids[1]}
    BY DEF AppliedTo
  <2>3. ids[1] \in 1 .. MaxWrites
    BY <1>6, <2>1, WriteNumbers
  <2>4. {ids[1]} # Missing
    <3>1. {ids[1]} \in SUBSET ((-MaxOthers) .. MaxWrites)
      BY <2>3, ReadAssumption
    <3>2. QED
      BY <3>1, ReadAssumption
  <2>5. QED
    BY <2>1, <2>2, <2>4
<1>8. value # Missing \/ (ids # <<>> /\ made[Head(ids)] = "set")
  BY <1>4 DEF Visible
<1>9. QED
  BY <1>5, <1>6, <1>7, <1>8, OverlayThere

\* Nor is there after a step.
LEMMA NothingThereNext == NothingThere'
BY NothingThereNow, PTL

\* The tasks that are left when the listener of a read can be answered are no
\* writes that were made before it was called.
LEMMA TurnPast ==
  ASSUME Typed, OrderInv, [Next]_vars, main' # main, NEW r, Turn(r)
  PROVE  Past(r)'
<1>1. CASE RunTask
  <2>1. /\ tasks # <<>> /\ tasks' = Tail(tasks) /\ UNCHANGED <<made, reads>>
    BY <1>1, RunTaskCases DEF TaskKept
  <2>2. 1 \in DOMAIN tasks /\ Head(tasks) = tasks[1]
    BY <2>1, TaskFirst
  <2>3. \A i \in DOMAIN tasks' : \E k \in DOMAIN tasks : 1 < k /\ tasks'[i] = tasks[k]
    <3>1. \A i \in DOMAIN tasks' : i \in Nat /\ i >= 1
      BY <2>1, TaskFirst
    <3>2. \A i \in DOMAIN tasks' : \E k \in DOMAIN tasks : k = i + 1 /\ tasks'[i] = tasks[k]
      BY <2>1, TaskOrderPopped
    <3>3. QED
      BY <3>1, <3>2
  <2>4. SUFFICES ASSUME NEW i \in DOMAIN tasks', IsWrite(i)' PROVE reads[r].mine < tasks'[i].write
    BY <2>1 DEF Past
  <2>5. PICK k \in DOMAIN tasks : 1 < k /\ tasks'[i] = tasks[k] /\ IsWrite(k)
    BY <2>3, <2>4 DEF IsWrite
  <2>6. CASE r \in waiting
    BY <2>5, <2>6 DEF OrderInv, Turns, Past
  <2>7. CASE tasks[1].kind = "listen" /\ r = tasks[1].read
    BY <2>2, <2>5, <2>7 DEF OrderInv, Turns
  <2>8. QED
    BY <2>2, <2>6, <2>7 DEF Turn
<1>2. CASE ~RunTask
  <2>1. r \in waiting
    BY <1>2 DEF Turn
  <2>2. Past(r)
    BY <2>1 DEF OrderInv, Turns
  <2>3. ASSUME UNCHANGED <<tasks, reads>> PROVE Past(r)'
    BY <2>2, <2>3 DEF Past, IsWrite
  <2>4. CASE UNCHANGED vars
    BY <2>3, <2>4 DEF vars, app
  <2>5. CASE getDocument \/ StreamOpens \/ ServerAnswers \/ ServerSends \/ ServerWrites
    BY <2>5, GetDocumentCases, StreamOpensCases, ServerAnswersCases, ServerSendsCases, ServerWritesKept
  <2>6. CASE \E kind \in Kinds : WriteData(kind) \/ OtherPhoneWrites(kind)
    BY <2>6, WriteDataCases, OtherPhoneWritesCases
  <2>7. CASE OnEvent
    <3>1. PICK task : task = [kind |-> "remove", read |-> Head(main).read]
      OBVIOUS
    <3>2. task.kind # "write" /\ tasks' = Append(tasks, task) /\ reads' = reads
      BY <2>7, <3>1, OnEventCases
    <3>3. \A i \in DOMAIN tasks' : IsWrite(i)' => i \in DOMAIN tasks /\ IsWrite(i) /\ tasks'[i] = tasks[i]
      BY <3>2, TaskLast DEF IsWrite
    <3>4. QED
      BY <2>2, <3>2, <3>3 DEF Past
  <2>8. CASE OnWriteResult \/ OnlineStateTimeout \/ OnWatchStreamChange
    BY <2>3, <2>8, OnWriteResultCases, OnlineStateTimeoutCases, OnWatchStreamChangeCases
  <2>9. CASE StreamFails \/ ConnectionLost \/ IdleTimeout \/ HandleCredentialChange
    <3>1. PICK state \in {"off", "starting"} : \E t : Ends(state, t)
      BY <2>9, StreamEndsCases
    <3>2. UNCHANGED <<tasks, reads>>
      BY <3>1 DEF Ends
    <3>3. QED
      BY <2>3, <3>2
  <2>10. CASE Restart
    BY <2>10, RestartCases DEF Past
  <2>11. QED
    BY <1>2, <2>4, <2>5, <2>6, <2>7, <2>8, <2>9, <2>10, NextCases
<1>3. QED
  BY <1>1, <1>2

\* The form of the document of the cache and the queue.
DocumentForm == Typed => DocumentState(GetDocument(cache, queue), cache, queue)

\* It has it now.
LEMMA DocumentFormNow == DocumentForm
BY GetDocumentForm DEF DocumentForm

\* It has it after a step too.
LEMMA DocumentFormNext == DocumentForm'
BY DocumentFormNow, PTL

\* The view comes from the version it came from, or from the cache's.
LEMMA ViewFromStep ==
  ASSUME Typed, Typed', DataInv', OrderInv', WriteInv', Queued', ViewInv', ViewMoves, History, WritesMove,
         NEW v \in DOMAIN log, ViewFrom(v), NEW d \in DOMAIN log', CacheFrom(d)'
  PROVE  ViewFrom(d)' \/ ViewFrom(v)'
<1>1. PICK value : value = view'.value
  OBVIOUS
<1>2. PICK doc : doc = GetDocument(cache, queue)'
  OBVIOUS
<1>3. view'.open => Matches(view, doc)' /\ WellFormed(view)'
  BY <1>2 DEF ViewInv, ViewShape, Fits, Matches
<1>4. DocumentState(doc, cache, queue)'
  BY <1>2, DocumentFormNext DEF DocumentForm
<1>5. CASE value = doc.value
  <2>1. value # Missing \/ cache'.version # 0 => From(value, d)'
    BY <1>2, <1>5, DocumentFromNext DEF DocumentFrom
  <2>2. QED
    BY <1>1, <2>1 DEF ViewFrom
<1>6. CASE value # doc.value /\ view'.open
  <2>1. view'.state = "local" /\ doc.state = "committed"
    BY <1>1, <1>3, <1>6 DEF Matches
  <2>2. queue' = <<>> /\ value # Missing
    BY <1>1, <1>3, <1>4, <1>6, <2>1 DEF DocumentState, WellFormed
  <2>3. view.open /\ view.value = value
    BY <1>1, <1>2, <1>6 DEF ViewMoves
  <2>4. From(value, v)
    BY <2>2, <2>3 DEF ViewFrom
  <2>5. From(value, v)'
    BY <2>2, <2>4, FromKept
  <2>6. QED
    BY <1>1, <2>5 DEF ViewFrom
<1>7. QED
  BY <1>5, <1>6 DEF ViewFrom

\* What is shown, when a listener is answered, comes from the view's version.
ShownFrom ==
  Typed /\ ViewInv /\ CurrentInv /\ SightInv /\ listeners # {} =>
    \A e, v :
      /\ v \in DOMAIN log /\ ViewFrom(v) /\ e.snapshot = shown /\ e.read \in DOMAIN reads /\ Past(e.read)
      => IF IsError(e) THEN ~Visible ELSE v \in Versions(e)

\* It does now,
LEMMA ShownFromNow == ShownFrom
<1> SUFFICES ASSUME Typed, ViewInv, CurrentInv, SightInv, listeners # {}, NEW e, NEW v, v \in DOMAIN log,
                    ViewFrom(v), e.snapshot = shown, e.read \in DOMAIN reads, Past(e.read)
             PROVE  IF IsError(e) THEN ~Visible ELSE v \in Versions(e)
  BY DEF ShownFrom
<1>1. view.open /\ shown = SnapshotOf(view)
  BY DEF Typed, Open, ViewInv, ViewShape, Shown
<1>2. e.snapshot.value = view.value /\ e.snapshot.fromCache = (view.sync = "local")
  BY <1>1 DEF SnapshotOf
<1>3. CASE IsError(e)
  BY <1>1, <1>2, <1>3, NothingThereNow DEF IsError, NothingThere
<1>4. CASE ~IsError(e)
  <2>1. view.value # Missing \/ cache.version # 0
    <3> SUFFICES ASSUME view.value = Missing PROVE cache.version # 0
      OBVIOUS
    <3>1. view.sync # "local"
      BY <1>2, <1>4 DEF IsError
    <3>2. view.current
      BY <1>1, <3>1 DEF ViewInv, ViewShape, SyncState
    <3>3. cache.version >= view.since /\ view.since >= 1
      BY <1>1, <3>2 DEF CurrentInv, CurrentTrue, SightInv, Since
    <3>4. cache.version \in Nat /\ view.since \in Nat
      BY TypedFacts DEF Entries, Views
    <3>5. QED
      BY <3>3, <3>4
  <2>2. From(e.snapshot.value, v)
    BY <1>1, <1>2, <2>1 DEF ViewFrom
  <2>3. v \in Versions(e)
    BY <2>2, FromVersionsNow DEF FromVersions
  <2>4. QED
    BY <1>4, <2>3
<1>5. QED
  BY <1>3, <1>4

\* and after a step.
LEMMA ShownFromNext == ShownFrom'
BY ShownFromNow, PTL

-----------------------------------------------------------------------------
(* Answers, in every step.                                                 *)

\* An event that there was comes from no later a version than it did.
LEMMA BelowKept ==
  ASSUME Typed, Typed', OrderInv, History, CallsGrow, NEW v \in DOMAIN log, NEW u \in DOMAIN log', v <= u,
         NEW e \in Given, Below(e, v)
  PROVE  Below(e, u)'
<1>1. CASE IsError(e)
  BY <1>1 DEF Below, IsError
<1>2. CASE ~IsError(e)
  <2>1. PICK n \in Versions(e) : n <= v
    BY <1>2 DEF Below
  <2>2. e.read \in DOMAIN reads
    BY GivenTypedNow DEF GivenTyped
  <2>3. n \in Versions(e)'
    BY <2>2, VersionsKept
  <2>4. n \in DOMAIN log
    BY DEF Versions
  <2>5. n \in Nat /\ v \in Nat /\ u \in Nat
    <3>1. log \in Seq(Values) /\ log' \in Seq(Values)
      BY LogType DEF Typed, ServerTypes, Values
    <3>2. QED
      BY <2>4, <3>1
  <2>6. n <= u
    BY <2>1, <2>5
  <2>7. QED
    BY <2>3, <2>6 DEF Below
<1>3. QED
  BY <1>1, <1>2

\* It is as good an answer as it was.
LEMMA GoodKept ==
  ASSUME Typed, Typed', OrderInv, History, CallsGrow, NEW e \in Given, Good(e)
  PROVE  Good(e)'
<1>1. e.read \in DOMAIN reads /\ \A i \in 1 .. reads[e.read].after : i \in DOMAIN answers
  BY GivenTypedNow DEF GivenTyped
<1>2. Before(e)' = Before(e) /\ Before(e) \subseteq Given
  <2>1. reads'[e.read] = reads[e.read]
    BY <1>1 DEF CallsGrow
  <2>2. \A i \in 1 .. reads[e.read].after : answers'[i] = answers[i]
    BY <1>1 DEF CallsGrow
  <2>3. QED
    BY <1>1, <2>1, <2>2 DEF Before, Given
<1>3. ASSUME NEW f \in Given, NEW n \in Versions(f) PROVE n \in Versions(f)'
  <2>1. f.read \in DOMAIN reads
    BY GivenTypedNow DEF GivenTyped
  <2>2. QED
    BY <2>1, VersionsKept
<1>4. IsError(e) \/ Versions(e)' # {}
  BY <1>3 DEF Good
<1>5. ASSUME NEW f \in Before(e)
      PROVE  IF IsError(e) THEN f.snapshot.value = Missing
             ELSE IsError(f) \/ \E v \in Versions(f)', w \in Versions(e)' : v <= w
  BY <1>2, <1>3, <1>5 DEF Good
<1>6. \A f : IsError(f)' <=> IsError(f)
  BY DEF IsError
<1>7. QED
  BY <1>2, <1>4, <1>5, <1>6 DEF Good

\* Every event was there, or shows what is shown.
LEMMA GivenStep ==
  ASSUME Typed, Typed', OrderInv, [Next]_vars, NEW e \in Given', e \notin Given
  PROVE  e.snapshot = shown' /\ listeners' # {} /\ Past(e.read)'
<1>1. EventSources
  BY SourcesStep
<1>2. e \notin { answers'[i] : i \in DOMAIN answers' }
  BY <1>1 DEF EventSources, Given
<1>3. PICK i \in DOMAIN main' : e = main'[i]
  BY <1>2 DEF Given
<1>4. main' # main
  BY <1>3 DEF Given
<1>5. e.snapshot = shown' /\ Turn(e.read)
  BY <1>1, <1>3 DEF EventSources, Given
<1>6. QED
  BY <1>4, <1>5, TurnPast DEF Turn

\* The versions that the cache and the view come from are no older, and what is
\* shown is a good answer.
LEMMA BasesStep ==
  ASSUME AnswersInv, AnswersInv', OrderInv, OrderInv', WriteInv, WriteInv', Bases, Goods, [Next]_vars
  PROVE  Bases' /\ Goods'
<1>1. /\ Typed /\ Typed' /\ ViewInv /\ ViewInv' /\ DataInv /\ DataInv' /\ StreamInv /\ TargetInv
      /\ CurrentInv' /\ SightInv' /\ Queued /\ Queued' /\ EventsInv'
  BY DEF AnswersInv, ClientInv, SightInv
<1>2. History /\ WritesMove /\ CallsGrow /\ ViewMoves
  BY <1>1, HistoryStep, MovesStep, CallsStep, ViewMovesStep
<1>3. PICK c, v \in DOMAIN log : Based(c, v)
  BY DEF Bases
<1>4. v <= c /\ CacheFrom(c) /\ ViewFrom(v) /\ \A e \in Given : Below(e, v)
  BY <1>3 DEF Based
<1>5. PICK d \in DOMAIN log' : c <= d /\ CacheFrom(d)'
  BY <1>1, <1>2, <1>4, CacheStep
<1>6. v \in DOMAIN log' /\ v \in Nat /\ c \in Nat /\ d \in Nat
  <2>1. v \in DOMAIN log' /\ v \in Nat /\ c \in Nat
    BY <1>1, <1>2, PastKept
  <2>2. log' \in Seq(Values)
    BY <1>1 DEF Typed, ServerTypes, Values
  <2>3. QED
    BY <2>1, <2>2
<1>7. PICK u \in DOMAIN log' : v <= u /\ u <= d /\ ViewFrom(u)'
  <2>1. ViewFrom(d)' \/ ViewFrom(v)'
    BY <1>1, <1>2, <1>4, <1>5, ViewFromStep
  <2>2. QED
    BY <1>4, <1>5, <1>6, <2>1
<1>8. \A e \in Given' : e.read \in DOMAIN reads'
  BY <1>1, GivenTypedNext DEF GivenTyped
<1>9. ASSUME NEW e \in Given', e \notin Given
      PROVE  IF IsError(e) THEN ~Visible' ELSE u \in Versions(e)'
  <2>1. e.snapshot = shown' /\ listeners' # {} /\ Past(e.read)'
    BY <1>1, <1>9, GivenStep
  <2>2. IsError(e)' <=> IsError(e)
    BY DEF IsError
  <2>3. QED
    BY <1>1, <1>7, <1>8, <1>9, <2>1, <2>2, ShownFromNext DEF ShownFrom
<1>10. ASSUME NEW e \in Given' PROVE Below(e, u)'
  <2>1. CASE e \in Given
    BY <1>1, <1>2, <1>4, <1>7, <2>1, BelowKept
  <2>2. CASE e \notin Given
    <3>1. u \in Nat
      BY <1>1, <1>7 DEF Typed, ServerTypes, Values
    <3>2. u <= u
      BY <3>1
    <3>3. QED
      BY <1>9, <2>2, <3>2 DEF Below, IsError
  <2>3. QED
    BY <2>1, <2>2
<1>11. Based(d, u)'
  BY <1>5, <1>7, <1>10 DEF Based
<1>12. ASSUME NEW e \in Given' PROVE Good(e)'
  <2>1. CASE e \in Given
    BY <1>1, <1>2, <2>1, GoodKept DEF Goods
  <2>2. CASE e \notin Given
    <3>1. Before(e)' \subseteq Given' /\ \A f \in Before(e)' : \E i \in DOMAIN answers' : f = answers'[i]
      BY <1>1, <1>8, GivenTypedNext DEF GivenTyped, Before, Given
    <3>2. \A f : IsError(f)' <=> IsError(f)
      BY DEF IsError
    <3>3. CASE IsError(e)
      <4>1. \A i \in DOMAIN answers' : answers'[i].snapshot.value = Missing
        BY <1>1, <1>9, <2>2, <3>3 DEF EventsInv, Sound
      <4>2. QED
        BY <3>1, <3>2, <3>3, <4>1 DEF Good
    <3>4. CASE ~IsError(e)
      <4>1. u \in Versions(e)'
        BY <1>9, <2>2, <3>4
      <4>2. \A f \in Before(e)' : IsError(f) \/ \E n \in Versions(f)' : n <= u
        BY <1>10, <3>1, <3>2 DEF Below
      <4>3. QED
        BY <3>2, <3>4, <4>1, <4>2 DEF Good
    <3>5. QED
      BY <3>3, <3>4
  <2>3. QED
    BY <2>1, <2>2
<1>13. Goods'
  BY <1>12 DEF Goods
<1>14. Bases'
  BY <1>5, <1>7, <1>11 DEF Bases
<1>15. QED
  BY <1>13, <1>14

\* At first the cache is empty, and nothing is shown.
LEMMA BasesInitially == Init => Bases /\ Goods
<1> SUFFICES ASSUME Init PROVE Bases /\ Goods
  OBVIOUS
<1>1. Typed /\ DataInv /\ WriteInv
  BY InitTyped, FlowInitially, WritesInitially
<1>2. cache = NoEntry /\ answers = <<>> /\ main = <<>> /\ view = NoView
  BY DEF Init
<1>3. ~cache.unsynced /\ ~view.open
  BY <1>2 DEF NoEntry, Entry, NoView
<1>4. PICK v : v = Level
  OBVIOUS
<1>5. v \in DOMAIN log /\ CacheFrom(v)
  BY <1>1, <1>3, <1>4, SyncedFromNow DEF SyncedFrom
<1>6. v <= v
  <2>1. log \in Seq(Values)
    BY <1>1, TypedFacts
  <2>2. QED
    BY <1>5, <2>1
<1>7. Given = {}
  BY <1>2 DEF Given
<1>8. Based(v, v)
  BY <1>3, <1>5, <1>6, <1>7 DEF Based, ViewFrom
<1>9. QED
  BY <1>5, <1>7, <1>8 DEF Bases, Goods

\* Good answers do not go back.
LEMMA GoodAnswers ==
  ASSUME Goods
  PROVE  MonotonicReads
<1> SUFFICES ASSUME NEW j \in DOMAIN answers
             PROVE  /\ IsError(answers[j]) \/ Versions(answers[j]) # {}
                    /\ \A i \in 1 .. reads[answers[j].read].after :
                         IF IsError(answers[j])
                           THEN answers[i].snapshot.value = Missing
                           ELSE IsError(answers[i]) \/
                                \E v \in Versions(answers[i]), w \in Versions(answers[j]) : v <= w
  BY DEF MonotonicReads
<1>1. Good(answers[j])
  BY DEF Goods, Given
<1>2. \A i \in 1 .. reads[answers[j].read].after : answers[i] \in Before(answers[j])
  BY DEF Before
<1>3. QED
  BY <1>1, <1>2 DEF Good

(***************************************************************************)
(* In an app that updates a document only where it has shown it, reads do  *)
(* not go back, over lost results, lost streams and restarts: an answer    *)
(* shows the own writes made before the call, but for one that was sent    *)
(* again after an earlier one it shows, and a version no older than one    *)
(* that each earlier answer must have come from.                           *)
(***************************************************************************)
THEOREM ReadsDoNotGoBack == Blind = FALSE => (Spec => []MonotonicReads)
<1> SUFFICES ASSUME Blind = FALSE PROVE Spec => []MonotonicReads
  OBVIOUS
<1> DEFINE Inv == OrderInv /\ WriteInv /\ Bases /\ Goods
<1>1. Init => Inv
  BY OrderInitially, WritesInitially, BasesInitially
<1>2. AnswersInv /\ AnswersInv' /\ Inv /\ [Next]_vars => Inv'
  <2> SUFFICES ASSUME AnswersInv, AnswersInv', Inv, [Next]_vars PROVE Inv'
    OBVIOUS
  <2>1. Typed /\ Typed' /\ DataInv /\ StreamInv /\ TargetInv
    BY DEF AnswersInv, ClientInv
  <2>2. OrderInv' /\ WriteInv'
    BY <2>1, OrderStep, WritesStep
  <2>3. QED
    BY <2>2, BasesStep
<1>3. Inv => MonotonicReads
  BY GoodAnswers
<1>4. QED
  BY <1>1, <1>2, <1>3, AnswersInvariant, PTL DEF Spec
=============================================================================

----------------------------- MODULE FileProofs -----------------------------
(***************************************************************************)
(* The file of FileIO, for every number of tasks, lines and file objects:  *)
(* the order of the lines, and how many may be missing.                    *)
(***************************************************************************)
EXTENDS FilePart, Sequences, FiniteSetTheorems, TLAPS

\* FileIO counts as this module does.
LEMMA SameCardinality ==
    ASSUME NEW S
    PROVE  Reading!Cardinality(S) = Cardinality(S)
BY DEF Cardinality, Reading!Cardinality

\* The states of a task, and its operations.
TaskStates == {"new", "open", "using", "wait", "readline", "close", "over", "cancelled"}
Operations == {"none", "open", "readline", "close", "done"}

TaskTypes(n) ==
    /\ f_task \in [Readers -> TaskStates] /\ job \in [Readers -> Operations]
    /\ file \in [Readers -> 0 .. n] /\ line \in [Readers -> 0 .. Lines]

FileTypes ==
    /\ position \in Seq(1 .. Lines + 1) /\ fp \in 0 .. Len(position)
    /\ TaskTypes(Len(position))
    /\ got \in Seq(Nat \X Nat) /\ dropped \subseteq Readers

\* A task reads with the lock, from a file object; a reading that nobody waits for was left
\* behind by a cancelled task; and a line is in the hands of the task that reads.
FileJobs ==
    \A t \in Readers :
        /\ f_task[t] \in {"using", "wait", "readline", "close"} => fp # 0
        /\ f_task[t] = "readline" => lock = {t} /\ file[t] # 0 /\ job[t] \in {"readline", "done"}
        /\ job[t] = "readline" =>
            file[t] # 0 /\ (f_task[t] = "readline" \/ (f_task[t] = "cancelled" /\ t \in dropped))
        /\ t \in dropped => f_task[t] = "cancelled"
        /\ line[t] # 0 => f_task[t] = "readline" /\ job[t] = "done"

\* A line that was given is before the position of its file object, and the line that a task
\* has read is after those that were given.
FileOrder ==
    /\ \A i \in 1 .. Len(got) :
        got[i][1] \in 1 .. Len(position) /\ got[i][2] < position[got[i][1]]
    /\ \A i, j \in 1 .. Len(got) : i < j /\ got[i][1] = got[j][1] => got[i][2] < got[j][2]
    /\ \A t \in Readers : line[t] # 0 =>
        /\ line[t] < position[file[t]]
        /\ \A i \in 1 .. Len(got) : got[i][1] = file[t] => got[i][2] < line[t]

\* The cancelled readers whose reading is over, or was skipped: one line each may be lost.
Left == {t \in dropped : job[t] # "readline"}

FileCount == \A h \in 1 .. Len(position) : Cardinality(Reading!Missing(h)) <= Cardinality(Left)

FileInv == FileTypes /\ FileJobs /\ FileOrder /\ FileCount

\* What a task or its thread assigns keeps the types of the tasks (io.py).
LEMMA TaskTypesStep ==
    ASSUME NEW n \in Nat, NEW m \in Nat, n <= m, TaskTypes(n), fp \in 0 .. n, NEW t \in Readers,
           \/ \E s \in TaskStates : Reading!Resume(t, s)
           \/ \E s \in TaskStates \cap Operations : Reading!Execute(t, s)
           \/ \E h \in 0 .. m, l \in 0 .. Lines : Reading!Done(t, h, l)
           \/ \E s \in TaskStates : f_task' = [f_task EXCEPT ![t] = s] /\ UNCHANGED <<job, file, line>>
           \/ UNCHANGED <<f_task, job, file, line>>
    PROVE  TaskTypes(m)'
<1> USE DEF TaskTypes, TaskStates, Operations
<1>0. Lines \in Nat /\ 0 .. n \subseteq 0 .. m
  BY FileAssumption
<1>1. ASSUME NEW s \in TaskStates, Reading!Resume(t, s) PROVE TaskTypes(m)'
  BY <1>0, <1>1 DEF Reading!Resume
<1>2. ASSUME NEW s \in TaskStates \cap Operations, Reading!Execute(t, s) PROVE TaskTypes(m)'
  BY <1>0, <1>2 DEF Reading!Execute
<1>3. ASSUME NEW h \in 0 .. m, NEW l \in 0 .. Lines, Reading!Done(t, h, l) PROVE TaskTypes(m)'
  BY <1>0, <1>3 DEF Reading!Done
<1>4. ASSUME NEW s \in TaskStates, f_task' = [f_task EXCEPT ![t] = s] /\ UNCHANGED <<job, file, line>>
      PROVE  TaskTypes(m)'
  BY <1>0, <1>4
<1>5. CASE UNCHANGED <<f_task, job, file, line>>
  BY <1>0, <1>5
<1> QED BY <1>1, <1>2, <1>3, <1>4, <1>5

\* A sequence with one more element of the same set.
LEMMA AppendType ==
    ASSUME NEW S, NEW s \in Seq(S), NEW e \in S
    PROVE  Append(s, e) \in Seq(S)
  OBVIOUS

\* Every step keeps the types of the files and of the tasks that read (io.py).
LEMMA FileTypesStep ==
    ASSUME FileInv, [Reading!Next]_(Reading!vars)
    PROVE  FileTypes'
<1>0. PICK n \in Nat : n = Len(position)
  BY DEF FileInv, FileTypes
<1>1. /\ Lines \in Nat /\ 0 \in 0 .. Lines /\ 0 \in 0 .. n /\ n <= n
      /\ position \in Seq(1 .. Lines + 1) /\ got \in Seq(Nat \X Nat) /\ dropped \subseteq Readers
      /\ fp \in 0 .. n /\ TaskTypes(n)
  BY <1>0, FileAssumption DEF FileInv, FileTypes, TaskTypes
<1>2. ASSUME NEW m \in Nat, Len(position') = m, position' \in Seq(1 .. Lines + 1), fp' \in 0 .. m,
             got' \in Seq(Nat \X Nat), dropped' \subseteq Readers, TaskTypes(m)'
      PROVE  FileTypes'
  BY <1>2 DEF FileTypes, TaskTypes
<1>3. ASSUME UNCHANGED <<position, got, dropped>>, fp' \in 0 .. n, TaskTypes(n)'
      PROVE  FileTypes'
  BY <1>0, <1>1, <1>2, <1>3
<1>4. ASSUME NEW t \in Readers, Reading!Open(t) \/ Reading!Close(t) \/ Reading!Closed(t)
      PROVE  FileTypes'
  <2>1. TaskTypes(n)'
    BY <1>1, <1>4, TaskTypesStep DEF Reading!Open, Reading!Close, Reading!Closed, TaskStates, Operations
  <2> QED BY <1>1, <1>3, <1>4, <2>1 DEF Reading!Open, Reading!Close, Reading!Closed
<1>5. ASSUME NEW t \in Readers, Reading!Opened(t) PROVE FileTypes'
  <2>1. TaskTypes(n)'
    BY <1>1, <1>5, TaskTypesStep DEF Reading!Opened, TaskStates
  <2>2. fp' \in 0 .. n /\ UNCHANGED <<position, got, dropped>>
    BY <1>1, <1>5 DEF Reading!Opened, TaskTypes
  <2> QED BY <1>3, <2>1, <2>2
<1>6. ASSUME NEW t \in Readers, Reading!Anext(t) PROVE FileTypes'
  <2>1. TaskTypes(n)'
    BY <1>1, <1>6, TaskTypesStep DEF Reading!Anext, Reading!Readline, TaskStates, Operations
  <2> QED BY <1>1, <1>3, <1>6, <2>1 DEF Reading!Anext
<1>7. ASSUME NEW t \in Readers, Reading!Returned(t) PROVE FileTypes'
  <2>1. TaskTypes(n)'
    BY <1>1, <1>7, TaskTypesStep DEF Reading!Returned, TaskStates
  <2>2. file[t] \in Nat /\ line[t] \in Nat
    BY <1>1 DEF TaskTypes
  <2>3. got' \in Seq(Nat \X Nat) /\ UNCHANGED <<fp, position, dropped>>
    <3>1. <<file[t], line[t]>> \in Nat \X Nat
      BY <2>2
    <3>2. got' = got \/ got' = Append(got, <<file[t], line[t]>>)
      BY <1>7 DEF Reading!Returned
    <3>3. got' \in Seq(Nat \X Nat)
      BY <1>1, <3>1, <3>2, AppendType, Zenon
    <3> QED BY <1>7, <3>3 DEF Reading!Returned
  <2> QED BY <1>0, <1>1, <1>2, <2>1, <2>3
<1>8. ASSUME NEW t \in Readers, Reading!RunOpen(t) PROVE FileTypes'
  <2>1. CASE UNCHANGED position /\ Reading!Done(t, 0, 0)
    <3>1. TaskTypes(n)'
      BY <1>1, <2>1, TaskTypesStep
    <3> QED BY <1>1, <1>3, <2>1, <3>1 DEF Reading!Done
  <2>2. CASE position' = Append(position, 1) /\ Reading!Done(t, Len(position) + 1, 0)
    <3>1. position' \in Seq(1 .. Lines + 1) /\ Len(position') = n + 1
      BY <1>0, <1>1, <2>2
    <3>2. n + 1 \in Nat /\ n <= n + 1 /\ n + 1 \in 0 .. n + 1
      OBVIOUS
    <3>3. TaskTypes(n + 1)'
      BY <1>0, <1>1, <2>2, <3>2, TaskTypesStep
    <3>4. fp' \in 0 .. n + 1 /\ UNCHANGED <<got, dropped>>
      BY <1>1, <2>2 DEF Reading!Done
    <3> QED BY <1>1, <1>2, <3>1, <3>2, <3>3, <3>4
  <2> QED BY <1>8, <2>1, <2>2 DEF Reading!RunOpen
<1>9. ASSUME NEW t \in Readers, Reading!RunReadline(t) PROVE FileTypes'
  <2>0. PICK h \in 0 .. n : h = file[t]
    BY <1>1 DEF TaskTypes
  <2>1. h \in 1 .. n
    BY <1>9, <2>0 DEF Reading!RunReadline, FileInv, FileJobs
  <2>2. position[h] \in 1 .. Lines + 1
    BY <1>0, <1>1, <2>1
  <2>3. PICK l \in 0 .. Lines : Reading!Done(t, h, l)
    BY <1>1, <1>9, <2>0, <2>2 DEF Reading!RunReadline
  <2>4. position' \in Seq(1 .. Lines + 1) /\ Len(position') = n
    <3>1. CASE UNCHANGED position
      BY <1>0, <1>1, <3>1
    <3>2. CASE position' = [position EXCEPT ![h] = @ + 1] /\ ~(position[h] > Lines)
      BY <1>0, <1>1, <2>1, <2>2, <3>2
    <3> QED BY <1>9, <2>0, <3>1, <3>2 DEF Reading!RunReadline
  <2>5. TaskTypes(n)'
    BY <1>1, <2>3, TaskTypesStep
  <2> QED BY <1>1, <1>2, <2>3, <2>4, <2>5 DEF Reading!Done
<1>10. ASSUME NEW t \in Readers, Reading!RunClose(t) PROVE FileTypes'
  <2>1. file[t] \in 0 .. n
    BY <1>1 DEF TaskTypes
  <2>2. TaskTypes(n)'
    BY <1>1, <1>10, <2>1, TaskTypesStep, Zenon DEF Reading!RunClose
  <2> QED BY <1>1, <1>3, <1>10, <2>2 DEF Reading!RunClose, Reading!Done
<1>11. ASSUME NEW t \in Readers, Reading!Cancel(t) PROVE FileTypes'
  <2>1. TaskTypes(n)'
    BY <1>1, <1>11, TaskTypesStep DEF Reading!Cancel, TaskStates
  <2> QED BY <1>0, <1>1, <1>2, <1>11, <2>1 DEF Reading!Cancel
<1>12. CASE Reading!Del \/ UNCHANGED Reading!vars
  <2>1. TaskTypes(n)'
    BY <1>1, <1>12 DEF Reading!Del, Reading!vars, TaskTypes
  <2> QED BY <1>1, <1>3, <1>12, <2>1 DEF Reading!Del, Reading!vars
<1> QED BY <1>4, <1>5, <1>6, <1>7, <1>8, <1>9, <1>10, <1>11, <1>12 DEF Reading!Next, Reading!Thread

\* Every step keeps the readings under the lock (AsyncFileIO.__anext__, io.py).
LEMMA FileJobsStep ==
    ASSUME FileInv, [Reading!Next]_(Reading!vars)
    PROVE  FileJobs'
<1> USE DEF FileInv, FileTypes, TaskTypes, FileJobs, Reading!Resume, Reading!Execute, Reading!Done
<1>1. ASSUME NEW t \in Readers, Reading!Open(t) \/ Reading!Close(t) \/ Reading!Closed(t)
      PROVE  FileJobs'
  BY <1>1 DEF Reading!Open, Reading!Close, Reading!Closed
<1>10. ASSUME NEW t \in Readers, Reading!Opened(t)
      PROVE  FileJobs'
  BY <1>10 DEF Reading!Opened
<1>2. ASSUME NEW t \in Readers, Reading!Anext(t) PROVE FileJobs'
  <2>0. f_task[t] \in {"using", "wait"} /\ fp # 0 /\ UNCHANGED <<fp, dropped>> /\ t \notin dropped
    BY <1>2 DEF Reading!Anext
  <2>1. CASE Reading!Readline(t)
    <3>1. \A u \in Readers : f_task[u] # "readline"
      BY <2>1 DEF Reading!Readline
    <3>2. ASSUME NEW u \in Readers, u # t PROVE FileJobs!(u)'
      BY <2>0, <2>1, <3>1, <3>2 DEF Reading!Readline
    <3>3. FileJobs!(t)'
      <4>1. /\ f_task'[t] = "readline" /\ job'[t] = "readline" /\ file'[t] = fp /\ line'[t] = 0
            /\ lock' = {t}
        BY <2>1 DEF Reading!Readline
      <4>2. fp # 0 /\ fp' # 0 /\ t \notin dropped'
        BY <2>0
      <4> HIDE DEF FileInv, FileTypes, TaskTypes
      <4> QED BY <4>1, <4>2
    <3> QED BY <3>2, <3>3
  <2>2. CASE f_task' = [f_task EXCEPT ![t] = "wait"] /\ UNCHANGED <<lock, job, file, line>>
    BY <2>0, <2>2
  <2> QED BY <1>2, <2>1, <2>2 DEF Reading!Anext
<1>3. ASSUME NEW t \in Readers, Reading!Returned(t) PROVE FileJobs'
  BY <1>3 DEF Reading!Returned
<1>4. ASSUME NEW t \in Readers, Reading!RunOpen(t) PROVE FileJobs'
  BY <1>4 DEF Reading!RunOpen
<1>5. ASSUME NEW t \in Readers, Reading!RunReadline(t) PROVE FileJobs'
  BY <1>5 DEF Reading!RunReadline
<1>6. ASSUME NEW t \in Readers, Reading!RunClose(t) PROVE FileJobs'
  BY <1>6 DEF Reading!RunClose
<1>7. ASSUME NEW t \in Readers, Reading!Cancel(t) PROVE FileJobs'
  BY <1>7 DEF Reading!Cancel
<1>8. CASE Reading!Del
  BY <1>8 DEF Reading!Del
<1>9. CASE UNCHANGED Reading!vars
  BY <1>9 DEF Reading!vars
<1> QED BY <1>1, <1>2, <1>3, <1>4, <1>5, <1>6, <1>7, <1>8, <1>9, <1>10 DEF Reading!Next, Reading!Thread

\* Lines stay in order while none is given, and a task reads the line at the position.
LEMMA OrderStays ==
    ASSUME FileOrder, got \in Seq(Nat \X Nat), UNCHANGED got,
           Len(position) \in Nat, Len(position') \in Nat, Len(position) <= Len(position'),
           \A h \in 1 .. Len(position) :
                position[h] \in Nat /\ position'[h] \in Nat /\ position[h] <= position'[h],
           \A u \in Readers : line'[u] # 0 =>
                /\ file'[u] = file[u] /\ file[u] \in 1 .. Len(position) /\ line[u] \in Nat
                /\ \/ line'[u] = line[u]
                   \/ line'[u] = position[file[u]] /\ position'[file[u]] = position[file[u]] + 1
    PROVE  FileOrder'
<1>0. Len(got) \in Nat /\ \A i \in 1 .. Len(got) : got[i][2] \in Nat
  <2>1. \A i \in 1 .. Len(got) : got[i] \in Nat \X Nat
    OBVIOUS
  <2> QED BY <2>1
<1>1. ASSUME NEW i \in 1 .. Len(got)
      PROVE  /\ got[i][1] \in 1 .. Len(position) /\ got[i][2] \in Nat
             /\ got[i][2] < position[got[i][1]]
  BY <1>0, Zenon DEF FileOrder
<1>2. ASSUME NEW i \in 1 .. Len(got')
      PROVE  got'[i][1] \in 1 .. Len(position') /\ got'[i][2] < position'[got'[i][1]]
  <2>1. PICK h \in 1 .. Len(position), n \in Nat : h = got[i][1] /\ n = got[i][2] /\ n < position[h]
    BY <1>1
  <2>2. h \in 1 .. Len(position') /\ n < position'[h]
    BY <2>1
  <2> QED BY <2>1, <2>2, Zenon
<1>3. ASSUME NEW u \in Readers, line'[u] # 0
      PROVE  /\ line'[u] < position'[file'[u]]
             /\ \A i \in 1 .. Len(got') : got'[i][1] = file'[u] => got'[i][2] < line'[u]
  <2>0. /\ file'[u] = file[u] /\ file[u] \in 1 .. Len(position) /\ line[u] \in Nat
        /\ position[file[u]] \in Nat /\ position'[file[u]] \in Nat
        /\ position[file[u]] <= position'[file[u]]
    BY <1>3, Zenon
  <2>1. CASE line'[u] = line[u]
    <3>1. /\ line[u] < position[file[u]]
          /\ \A i \in 1 .. Len(got) : got[i][1] = file[u] => got[i][2] < line[u]
      BY <1>3, <2>1, Zenon DEF FileOrder
    <3>2. line'[u] < position'[file'[u]]
      BY <2>0, <2>1, <3>1
    <3> QED BY <2>0, <2>1, <3>1, <3>2, Zenon
  <2>2. CASE line'[u] = position[file[u]] /\ position'[file[u]] = position[file[u]] + 1
    <3>1. line'[u] < position'[file'[u]]
      BY <2>0, <2>2
    <3>2. \A i \in 1 .. Len(got) : got[i][1] = file[u] => got[i][2] < line'[u]
      BY <1>1, <2>2, Zenon
    <3> QED BY <2>0, <3>1, <3>2, Zenon
  <2> QED BY <1>3, <2>1, <2>2, Zenon
<1>4. \A i, j \in 1 .. Len(got') : i < j /\ got'[i][1] = got'[j][1] => got'[i][2] < got'[j][2]
  BY Zenon DEF FileOrder
<1> QED BY <1>2, <1>3, <1>4, Zenon DEF FileOrder

\* Every step keeps the order of the lines that were given (AsyncFileIO.__anext__, io.py).
LEMMA FileOrderStep ==
    ASSUME FileInv, [Reading!Next]_(Reading!vars)
    PROVE  FileOrder'
<1>0. /\ Lines \in Nat /\ got \in Seq(Nat \X Nat) /\ Len(got) \in Nat /\ FileOrder
      /\ Len(position) \in Nat /\ \A h \in 1 .. Len(position) : position[h] \in Nat
      /\ file \in [Readers -> Nat] /\ line \in [Readers -> Nat]
      /\ \A u \in Readers : job[u] = "readline" \/ line[u] # 0 => file[u] \in 1 .. Len(position)
      /\ \A u \in Readers : line[u] # 0 => f_task[u] = "readline" /\ job[u] = "done" /\ lock = {u}
  <2>1. Lines \in Nat /\ got \in Seq(Nat \X Nat) /\ FileOrder
    BY FileAssumption DEF FileInv, FileTypes
  <2>2. Len(position) \in Nat /\ \A h \in 1 .. Len(position) : position[h] \in Nat
    BY <2>1 DEF FileInv, FileTypes
  <2>3. file \in [Readers -> 0 .. Len(position)] /\ line \in [Readers -> 0 .. Lines]
    BY DEF FileInv, FileTypes, TaskTypes
  <2>4. ASSUME NEW u \in Readers, job[u] = "readline" \/ line[u] # 0
        PROVE  file[u] # 0
    BY <2>4 DEF FileInv, FileJobs
  <2>5. \A u \in Readers : line[u] # 0 => f_task[u] = "readline" /\ job[u] = "done" /\ lock = {u}
    BY DEF FileInv, FileJobs
  <2> QED BY <2>1, <2>2, <2>3, <2>4, <2>5
<1>1. ASSUME UNCHANGED <<got, position>>,
             \A u \in Readers : line'[u] # 0 => line'[u] = line[u] /\ file'[u] = file[u]
      PROVE  FileOrder'
  BY <1>0, <1>1, OrderStays
<1>2. ASSUME NEW t \in Readers, Reading!Returned(t) PROVE FileOrder'
  <2>0. UNCHANGED position /\ \A u \in Readers : line'[u] = 0
    BY <1>0, <1>2, ZenonT(30) DEF Reading!Returned, Reading!Resume, FileInv, FileJobs
  <2>1. CASE line[t] = 0
    BY <1>1, <1>2, <2>0, <2>1 DEF Reading!Returned
  <2>2. CASE line[t] # 0
    <3>0. got' = Append(got, <<file[t], line[t]>>) /\ <<file[t], line[t]>> \in Nat \X Nat
      BY <1>0, <1>2, <2>2 DEF Reading!Returned
    <3>1. /\ Len(got') = Len(got) + 1
          /\ \A i \in 1 .. Len(got) : got'[i] = got[i]
          /\ got'[Len(got) + 1] = <<file[t], line[t]>>
      BY <1>0, <3>0
    <3>2. /\ file[t] \in 1 .. Len(position) /\ line[t] < position[file[t]]
          /\ \A i \in 1 .. Len(got) : got[i][1] = file[t] => got[i][2] < line[t]
      BY <1>0, <2>2 DEF FileOrder
    <3>3. ASSUME NEW i \in 1 .. Len(got')
          PROVE  got'[i][1] \in 1 .. Len(position') /\ got'[i][2] < position'[got'[i][1]]
      <4>0. Len(got) \in Nat /\ Len(got') = Len(got) + 1
        BY <1>0, <3>1
      <4>1. i \in 1 .. Len(got) \/ i = Len(got) + 1
        BY <4>0
      <4>2. CASE i \in 1 .. Len(got)
        BY <1>0, <2>0, <3>1, <4>2, Zenon DEF FileOrder
      <4>3. CASE i = Len(got) + 1
        BY <2>0, <3>1, <3>2, <4>3
      <4> QED BY <4>1, <4>2, <4>3
    <3>4. ASSUME NEW i \in 1 .. Len(got'), NEW j \in 1 .. Len(got'), i < j, got'[i][1] = got'[j][1]
          PROVE  got'[i][2] < got'[j][2]
      <4>0. Len(got) \in Nat /\ Len(got') = Len(got) + 1
        BY <1>0, <3>1
      <4>1. i \in 1 .. Len(got) /\ (j \in 1 .. Len(got) \/ j = Len(got) + 1)
        BY <3>4, <4>0
      <4>2. CASE j \in 1 .. Len(got)
        BY <1>0, <3>1, <3>4, <4>1, <4>2, Zenon DEF FileOrder
      <4>3. CASE j = Len(got) + 1
        BY <3>1, <3>2, <3>4, <4>1, <4>3
      <4> QED BY <4>1, <4>2, <4>3
    <3> QED BY <2>0, <3>3, <3>4 DEF FileOrder
  <2> QED BY <2>1, <2>2
<1>3. ASSUME NEW t \in Readers, Reading!RunOpen(t) PROVE FileOrder'
  <2>1. /\ UNCHANGED got
        /\ \A u \in Readers : line'[u] # 0 => line'[u] = line[u] /\ file'[u] = file[u]
    BY <1>0, <1>3 DEF Reading!RunOpen, Reading!Done
  <2>2. CASE UNCHANGED position
    BY <1>1, <2>1, <2>2
  <2>3. CASE position' = Append(position, 1)
    <3>1. /\ Len(position') = Len(position) + 1
          /\ \A h \in 1 .. Len(position) : position'[h] = position[h]
      BY <2>3 DEF FileInv, FileTypes
    <3> QED BY <1>0, <2>1, <3>1, OrderStays
  <2> QED BY <1>3, <2>2, <2>3 DEF Reading!RunOpen
<1>4. ASSUME NEW t \in Readers, Reading!RunReadline(t) PROVE FileOrder'
  <2>0. file[t] \in 1 .. Len(position) /\ UNCHANGED got
    BY <1>0, <1>4 DEF Reading!RunReadline, Reading!Done
  <2>1. CASE UNCHANGED position
    <3>1. position[file[t]] \in Nat /\ position \in Seq(1 .. Lines + 1)
      BY <1>0, <2>0 DEF FileInv, FileTypes
    <3>2. [position EXCEPT ![file[t]] = @ + 1] # position
      BY <2>0, <3>1
    <3>3. \A u \in Readers : line'[u] # 0 => line'[u] = line[u] /\ file'[u] = file[u]
      BY <1>0, <1>4, <2>1, <3>2 DEF Reading!RunReadline, Reading!Done
    <3> QED BY <1>1, <2>0, <2>1, <3>3
  <2>2. CASE position' = [position EXCEPT ![file[t]] = @ + 1]
    <3>1. /\ Len(position') = Len(position) /\ position'[file[t]] = position[file[t]] + 1
          /\ \A h \in 1 .. Len(position) : position'[h] \in Nat /\ position[h] <= position'[h]
      BY <1>0, <2>0, <2>2 DEF FileInv, FileTypes
    <3>2. \A u \in Readers : line'[u] # 0 =>
            /\ file'[u] = file[u]
            /\ line'[u] = line[u] \/ (u = t /\ line'[u] = position[file[t]])
      BY <1>0, <1>4, <2>0 DEF Reading!RunReadline, Reading!Done
    <3> QED BY <1>0, <2>0, <3>1, <3>2, OrderStays
  <2> QED BY <1>4, <2>1, <2>2 DEF Reading!RunReadline
<1>5. ASSUME NEW t \in Readers, Reading!RunClose(t) \/ Reading!Cancel(t) \/ Reading!Anext(t)
      PROVE  FileOrder'
  BY <1>0, <1>1, <1>5 DEF Reading!RunClose, Reading!Cancel, Reading!Anext, Reading!Readline, Reading!Done,
                          Reading!Resume, Reading!Execute
<1>6. ASSUME NEW t \in Readers, Reading!Open(t) \/ Reading!Opened(t) \/ Reading!Close(t) \/ Reading!Closed(t)
      PROVE  FileOrder'
  BY <1>0, <1>1, <1>6 DEF Reading!Open, Reading!Opened, Reading!Close, Reading!Closed, Reading!Resume,
                          Reading!Execute
<1>7. CASE Reading!Del \/ UNCHANGED Reading!vars
  BY <1>1, <1>7 DEF Reading!Del, Reading!vars
<1> QED BY <1>2, <1>3, <1>4, <1>5, <1>6, <1>7 DEF Reading!Next, Reading!Thread

\* A line is in somebody's hands: it was given, or a task has read it.
Held(h, x) ==
    \/ \E i \in 1 .. Len(got) : got[i][1] = h /\ got[i][2] = x
    \/ \E u \in Readers : file[u] = h /\ f_task[u] = "readline" /\ line[u] = x

\* A line is missing when the file object is past it and nobody holds it, before and after a step.
LEMMA MissingIff ==
    ASSUME NEW h, NEW x
    PROVE  /\ x \in Reading!Missing(h) <=> x \in 1 .. position[h] - 1 /\ ~Held(h, x)
           /\ (x \in Reading!Missing(h))' <=> x \in 1 .. position'[h] - 1 /\ ~Held(h, x)'
  BY DEF Reading!Missing, Held

\* Lines are lost one at a time, each with a cancelled reader of its own.
LEMMA Counted ==
    ASSUME NEW M, NEW N, NEW D, NEW E, IsFiniteSet(M), IsFiniteSet(E), D \subseteq E,
           Cardinality(M) <= Cardinality(D),
           N \subseteq M \/ \E x : \E t \in E \ D : N \subseteq M \cup {x}
    PROVE  Cardinality(N) <= Cardinality(E)
<1>1. /\ IsFiniteSet(D) /\ Cardinality(D) <= Cardinality(E)
      /\ Cardinality(M) \in Nat /\ Cardinality(D) \in Nat /\ Cardinality(E) \in Nat
  BY FS_Subset, FS_CardinalityType
<1>2. CASE N \subseteq M
  <2>1. IsFiniteSet(N) /\ Cardinality(N) <= Cardinality(M) /\ Cardinality(N) \in Nat
    BY <1>2, FS_Subset, FS_CardinalityType
  <2> QED BY <1>1, <2>1
<1>3. ASSUME NEW x, NEW t \in E \ D, N \subseteq M \cup {x}
      PROVE  Cardinality(N) <= Cardinality(E)
  <2>1. IsFiniteSet(M \cup {x}) /\ Cardinality(M \cup {x}) <= Cardinality(M) + 1
    <3>1. Cardinality(M \cup {x}) = IF x \in M THEN Cardinality(M) ELSE Cardinality(M) + 1
      BY FS_AddElement, Zenon
    <3> QED BY <1>1, <3>1, FS_AddElement
  <2>2. IsFiniteSet(N) /\ Cardinality(N) <= Cardinality(M \cup {x})
    BY <1>3, <2>1, FS_Subset
  <2>3. Cardinality(D \cup {t}) = Cardinality(D) + 1 /\ D \cup {t} \subseteq E
    BY <1>1, FS_AddElement, Zenon
  <2>4. Cardinality(D \cup {t}) <= Cardinality(E)
    BY <2>3, FS_Subset
  <2>5. Cardinality(N) \in Nat /\ Cardinality(M \cup {x}) \in Nat
    BY <2>1, <2>2, FS_CardinalityType
  <2> QED BY <1>1, <2>1, <2>2, <2>3, <2>4, <2>5
<1> QED BY <1>2, <1>3

\* The count survives a step that loses a line only together with a new cancelled reader (io.py).
LEMMA CountStep ==
    ASSUME FileInv, Left \subseteq Left', dropped' \subseteq Readers,
           \A h \in 1 .. Len(position') :
                \/ Reading!Missing(h)' = {}
                \/ /\ h \in 1 .. Len(position)
                   /\ \/ Reading!Missing(h)' \subseteq Reading!Missing(h)
                      \/ \E x : \E t \in Left' \ Left :
                            Reading!Missing(h)' \subseteq Reading!Missing(h) \cup {x}
    PROVE  FileCount'
<1>1. IsFiniteSet(Left') /\ Cardinality(Left') \in Nat
  <2>1. Left' \in SUBSET Readers
    BY DEF Left
  <2> QED BY <2>1, FileAssumption, FS_Subset, FS_CardinalityType
<1> SUFFICES ASSUME NEW h \in 1 .. Len(position')
             PROVE  Cardinality(Reading!Missing(h)') <= Cardinality(Left')
  BY DEF FileCount
<1>2. CASE Reading!Missing(h)' = {}
  BY <1>1, <1>2, FS_EmptySet
<1>3. CASE /\ h \in 1 .. Len(position)
           /\ \/ Reading!Missing(h)' \subseteq Reading!Missing(h)
              \/ \E x : \E t \in Left' \ Left :
                    Reading!Missing(h)' \subseteq Reading!Missing(h) \cup {x}
  <2>1. IsFiniteSet(Reading!Missing(h))
    <3>1. position[h] \in Nat
      BY <1>3, FileAssumption DEF FileInv, FileTypes
    <3>2. IsFiniteSet(1 .. position[h] - 1)
      BY <3>1, FS_Interval
    <3> QED BY <3>2, FS_Subset, Zenon DEF Reading!Missing
  <2>2. Cardinality(Reading!Missing(h)) <= Cardinality(Left)
    BY <1>3 DEF FileInv, FileCount
  <2> QED BY <1>1, <1>3, <2>1, <2>2, Counted
<1> QED BY <1>2, <1>3

\* Every step keeps the count of the missing lines (AsyncFileIO.__anext__, io.py).
LEMMA FileCountStep ==
    ASSUME FileInv, [Reading!Next]_(Reading!vars)
    PROVE  FileCount'
<1>0. /\ got \in Seq(Nat \X Nat) /\ Len(got) \in Nat /\ Len(position) \in Nat /\ Lines \in Nat
      /\ \A h \in 1 .. Len(position) : position[h] \in Nat
      /\ f_task \in [Readers -> TaskStates] /\ job \in [Readers -> Operations]
      /\ file \in [Readers -> 0 .. Len(position)] /\ line \in [Readers -> 0 .. Lines]
      /\ dropped \subseteq Readers /\ FileJobs
  <2>1. Lines \in Nat /\ got \in Seq(Nat \X Nat) /\ dropped \subseteq Readers /\ FileJobs
    BY FileAssumption DEF FileInv, FileTypes
  <2>2. Len(position) \in Nat /\ \A h \in 1 .. Len(position) : position[h] \in Nat
    BY <2>1 DEF FileInv, FileTypes
  <2> QED BY <2>1, <2>2 DEF FileInv, FileTypes, TaskTypes
<1>1. dropped' \subseteq Readers
  BY FileTypesStep DEF FileTypes
\* What is in somebody's hands stays there, and nothing else is read.
<1>2. ASSUME UNCHANGED got, Left \subseteq Left',
             \A u \in Readers : line[u] # 0 =>
                line'[u] = line[u] /\ file'[u] = file[u] /\ f_task'[u] = f_task[u],
             NEW h \in 1 .. Len(position), position'[h] = position[h]
      PROVE  Reading!Missing(h)' \subseteq Reading!Missing(h)
  <2>1. ASSUME NEW x \in Reading!Missing(h)' PROVE x \in Reading!Missing(h)
    <3>1. x \in 1 .. position[h] - 1 /\ ~Held(h, x)'
      BY <1>2, MissingIff
    <3>2. ~Held(h, x)
      <4>1. x # 0
        BY <3>1
      <4>2. \A i \in 1 .. Len(got) : ~(got[i][1] = h /\ got[i][2] = x)
        BY <1>2, <3>1 DEF Held
      <4>3. \A u \in Readers : ~(file[u] = h /\ f_task[u] = "readline" /\ line[u] = x)
        BY <1>2, <3>1, <4>1 DEF Held
      <4> QED BY <4>2, <4>3 DEF Held
    <3> QED BY <3>1, <3>2, MissingIff
  <2> QED BY <2>1
<1>3. ASSUME UNCHANGED <<got, position>>, Left \subseteq Left',
             \A u \in Readers : line[u] # 0 =>
                line'[u] = line[u] /\ file'[u] = file[u] /\ f_task'[u] = f_task[u]
      PROVE  FileCount'
  BY <1>1, <1>2, <1>3, CountStep
<1>4. ASSUME NEW t \in Readers, Reading!Open(t) \/ Reading!Opened(t) \/ Reading!Close(t) \/ Reading!Closed(t)
      PROVE  FileCount'
  <2>1. UNCHANGED <<got, position, dropped>> /\ line[t] = 0 /\ t \notin dropped
    BY <1>0, <1>4 DEF Reading!Open, Reading!Opened, Reading!Close, Reading!Closed, FileJobs
  <2>2. \A u \in Readers : u # t =>
            line'[u] = line[u] /\ file'[u] = file[u] /\ f_task'[u] = f_task[u] /\ job'[u] = job[u]
    BY <1>0, <1>4 DEF Reading!Open, Reading!Opened, Reading!Close, Reading!Closed, Reading!Resume,
                      Reading!Execute
  <2> QED BY <1>0, <1>3, <2>1, <2>2 DEF Left
<1>5. ASSUME NEW t \in Readers, Reading!Anext(t) PROVE FileCount'
  <2>1. UNCHANGED <<got, position, dropped>> /\ line[t] = 0 /\ t \notin dropped
    BY <1>0, <1>5 DEF Reading!Anext, FileJobs
  <2>2. \A u \in Readers : u # t =>
            line'[u] = line[u] /\ file'[u] = file[u] /\ f_task'[u] = f_task[u] /\ job'[u] = job[u]
    BY <1>0, <1>5 DEF Reading!Anext, Reading!Readline, Reading!Execute
  <2> QED BY <1>0, <1>3, <2>1, <2>2 DEF Left
<1>6. ASSUME NEW t \in Readers, Reading!Returned(t) PROVE FileCount'
  <2>1. /\ UNCHANGED <<position, dropped>> /\ f_task[t] = "readline"
        /\ f_task'[t] # "readline" /\ Left' = Left
        /\ \A u \in Readers : u # t => f_task[u] # "readline"
    <3>1. /\ UNCHANGED <<position, dropped>> /\ f_task[t] = "readline" /\ job[t] = "done"
          /\ f_task'[t] # "readline"
          /\ job' = [job EXCEPT ![t] = "none"]
      BY <1>0, <1>6 DEF Reading!Returned, Reading!Resume
    <3>2. Left' = Left
      BY <1>0, <3>1 DEF Left
    <3>3. ASSUME NEW u \in Readers, u # t PROVE f_task[u] # "readline"
      <4>1. lock = {t} /\ (f_task[u] = "readline" => lock = {u})
        BY <1>0, <3>1 DEF FileJobs
      <4> QED BY <3>3, <4>1
    <3> QED BY <3>1, <3>2, <3>3
  <2>2. /\ \A i \in 1 .. Len(got) : i \in 1 .. Len(got') /\ got'[i] = got[i]
        /\ line[t] # 0 => Len(got) + 1 \in 1 .. Len(got') /\ got'[Len(got) + 1] = <<file[t], line[t]>>
    <3>1. CASE line[t] = 0
      BY <1>6, <3>1 DEF Reading!Returned
    <3>2. CASE line[t] # 0
      <4>1. got' = Append(got, <<file[t], line[t]>>) /\ <<file[t], line[t]>> \in Nat \X Nat
        BY <1>0, <1>6, <3>2 DEF Reading!Returned
      <4> QED BY <1>0, <4>1
    <3> QED BY <3>1, <3>2
  <2>3. ASSUME NEW h \in 1 .. Len(position), NEW x \in Reading!Missing(h)'
        PROVE  x \in Reading!Missing(h)
    <3>1. x \in 1 .. position[h] - 1 /\ ~Held(h, x)'
      BY <2>1, <2>3, MissingIff
    <3>2. \A i \in 1 .. Len(got) : ~(got[i][1] = h /\ got[i][2] = x)
      BY <2>2, <3>1 DEF Held
    <3>3. ~(file[t] = h /\ line[t] = x)
      <4> SUFFICES ASSUME file[t] = h, line[t] = x PROVE FALSE
        OBVIOUS
      <4>1. line[t] # 0
        BY <3>1
      <4>2. Len(got) + 1 \in 1 .. Len(got') /\ got'[Len(got) + 1] = <<h, x>>
        BY <2>2, <4>1
      <4>3. \E i \in 1 .. Len(got') : got'[i][1] = h /\ got'[i][2] = x
        BY <4>2
      <4> QED BY <3>1, <4>3 DEF Held
    <3>4. ~Held(h, x)
      BY <2>1, <3>2, <3>3 DEF Held
    <3> QED BY <3>1, <3>4, MissingIff
  <2>4. \A h \in 1 .. Len(position') :
            h \in 1 .. Len(position) /\ Reading!Missing(h)' \subseteq Reading!Missing(h)
    BY <2>1, <2>3
  <2> QED BY <1>1, <2>1, <2>4, CountStep
<1>7. ASSUME NEW t \in Readers, Reading!RunOpen(t) PROVE FileCount'
  <2>1. /\ UNCHANGED <<got, f_task, dropped>> /\ line[t] = 0 /\ job'[t] # "readline"
        /\ \A u \in Readers : u # t => line'[u] = line[u] /\ file'[u] = file[u] /\ job'[u] = job[u]
    BY <1>0, <1>7 DEF Reading!RunOpen, Reading!Done, FileJobs
  <2>2. /\ Left \subseteq Left'
        /\ \A u \in Readers : line[u] # 0 =>
                line'[u] = line[u] /\ file'[u] = file[u] /\ f_task'[u] = f_task[u]
    BY <1>0, <2>1 DEF Left
  <2>3. CASE UNCHANGED position
    BY <1>3, <2>1, <2>2, <2>3
  <2>4. CASE position' = Append(position, 1)
    <3>1. /\ Len(position') = Len(position) + 1 /\ position'[Len(position) + 1] = 1
          /\ \A h \in 1 .. Len(position) : position'[h] = position[h]
      BY <2>4 DEF FileInv, FileTypes
    <3>2. ASSUME NEW h \in 1 .. Len(position') PROVE
              \/ Reading!Missing(h)' = {}
              \/ h \in 1 .. Len(position) /\ Reading!Missing(h)' \subseteq Reading!Missing(h)
      <4>1. CASE h \in 1 .. Len(position)
        BY <1>2, <2>1, <2>2, <3>1, <4>1
      <4>2. CASE h = Len(position) + 1
        <5>1. \A x : ~(x \in 1 .. position'[h] - 1)
          BY <3>1, <4>2
        <5> QED BY <5>1, MissingIff
      <4>3. h \in 1 .. Len(position) \/ h = Len(position) + 1
        BY <1>0, <3>1
      <4> QED BY <4>1, <4>2, <4>3
    <3> QED BY <1>1, <2>2, <3>2, CountStep
  <2> QED BY <1>7, <2>3, <2>4 DEF Reading!RunOpen
<1>8. ASSUME NEW t \in Readers, Reading!RunReadline(t) PROVE FileCount'
  <2>0. /\ UNCHANGED <<got, f_task, dropped>> /\ job[t] = "readline" /\ job'[t] # "readline"
        /\ line[t] = 0 /\ file[t] \in 1 .. Len(position)
        /\ f_task[t] = "cancelled" => t \in dropped
    <3>1. UNCHANGED <<got, f_task, dropped>> /\ job[t] = "readline" /\ job'[t] # "readline"
      BY <1>0, <1>8 DEF Reading!RunReadline, Reading!Done
    <3> QED BY <1>0, <3>1 DEF FileJobs
  <2>1. \A u \in Readers : u # t => line'[u] = line[u] /\ file'[u] = file[u] /\ job'[u] = job[u]
    BY <1>0, <1>8 DEF Reading!RunReadline, Reading!Done
  <2>2. /\ Left \subseteq Left'
        /\ \A u \in Readers : line[u] # 0 =>
                line'[u] = line[u] /\ file'[u] = file[u] /\ f_task'[u] = f_task[u]
    BY <1>0, <2>0, <2>1 DEF Left
  <2>3. CASE UNCHANGED position
    BY <1>3, <2>0, <2>2, <2>3
  <2>4. CASE /\ position' = [position EXCEPT ![file[t]] = @ + 1]
             /\ Reading!Done(t, file[t], position[file[t]])
    <3>1. PICK k \in 1 .. Len(position) : k = file[t]
      BY <2>0
    <3>2. /\ Len(position') = Len(position) /\ position'[k] = position[k] + 1 /\ position[k] \in Nat
          /\ \A h \in 1 .. Len(position) : h # k => position'[h] = position[h]
      BY <1>0, <2>4, <3>1 DEF FileInv, FileTypes
    <3>3. Reading!Missing(k)' \subseteq Reading!Missing(k) \cup {position[k]}
      <4>1. ASSUME NEW x \in Reading!Missing(k)', x # position[k] PROVE x \in Reading!Missing(k)
        <5>1. x \in 1 .. position'[k] - 1 /\ ~Held(k, x)'
          BY <4>1, MissingIff
        <5>2. x \in 1 .. position[k] - 1
          BY <3>2, <4>1, <5>1
        <5>3. \A i \in 1 .. Len(got) : ~(got[i][1] = k /\ got[i][2] = x)
          BY <2>0, <5>1 DEF Held
        <5>4. \A u \in Readers : ~(file[u] = k /\ f_task[u] = "readline" /\ line[u] = x)
          BY <2>2, <5>1, <5>2 DEF Held
        <5>5. ~Held(k, x)
          BY <5>3, <5>4 DEF Held
        <5> QED BY <5>2, <5>5, MissingIff
      <4> QED BY <4>1
    <3>4. CASE f_task[t] = "cancelled"
      <4>1. t \in Left' \ Left
        BY <2>0, <3>4 DEF Left
      <4>2. ASSUME NEW h \in 1 .. Len(position')
            PROVE  /\ h \in 1 .. Len(position)
                   /\ \/ Reading!Missing(h)' \subseteq Reading!Missing(h)
                      \/ \E x : \E u \in Left' \ Left :
                            Reading!Missing(h)' \subseteq Reading!Missing(h) \cup {x}
        BY <1>2, <2>0, <2>2, <3>2, <3>3, <4>1, Zenon
      <4> QED BY <1>1, <2>2, <4>2, CountStep, Zenon
    <3>5. CASE f_task[t] # "cancelled"
      <4>1. f_task'[t] = "readline" /\ file'[t] = k /\ line'[t] = position[k]
        BY <1>0, <2>0, <2>4, <3>1, <3>5 DEF Reading!Done, FileJobs
      <4>2. position[k] \notin Reading!Missing(k)'
        BY <4>1, MissingIff DEF Held
      <4>3. ASSUME NEW h \in 1 .. Len(position')
            PROVE  h \in 1 .. Len(position) /\ Reading!Missing(h)' \subseteq Reading!Missing(h)
        BY <1>2, <2>0, <2>2, <3>2, <3>3, <4>2
      <4> QED BY <1>1, <2>2, <4>3, CountStep
    <3> QED BY <3>4, <3>5
  <2> QED BY <1>8, <2>3, <2>4 DEF Reading!RunReadline
<1>9. ASSUME NEW t \in Readers, Reading!RunClose(t) PROVE FileCount'
  <2>1. /\ UNCHANGED <<got, position, f_task, dropped>> /\ line[t] = 0 /\ job'[t] # "readline"
        /\ \A u \in Readers : u # t => line'[u] = line[u] /\ file'[u] = file[u] /\ job'[u] = job[u]
    BY <1>0, <1>9 DEF Reading!RunClose, Reading!Done, FileJobs
  <2> QED BY <1>0, <1>3, <2>1 DEF Left
<1>10. ASSUME NEW t \in Readers, Reading!Cancel(t) PROVE FileCount'
  <2>1. /\ UNCHANGED <<got, position>> /\ t \notin dropped /\ dropped \subseteq dropped'
        /\ \A u \in Readers : u # t =>
            line'[u] = line[u] /\ file'[u] = file[u] /\ f_task'[u] = f_task[u] /\ job'[u] = job[u]
    BY <1>0, <1>10 DEF Reading!Cancel, Reading!Resume, FileJobs
  <2>2. Left \subseteq Left'
    BY <1>0, <2>1 DEF Left
  <2>3. CASE line[t] = 0
    BY <1>3, <2>1, <2>2, <2>3
  <2>4. CASE line[t] # 0
    <3>1. f_task[t] = "readline" /\ job[t] = "done"
      BY <1>0, <2>4 DEF FileJobs
    <3>2. t \in Left' \ Left
      BY <1>0, <1>10, <2>1, <3>1 DEF Reading!Cancel, Reading!Resume, Left
    <3>3. PICK y \in Nat : y = line[t]
      BY <1>0
    <3>4. ASSUME NEW h \in 1 .. Len(position)
          PROVE  Reading!Missing(h)' \subseteq Reading!Missing(h) \cup {y}
      <4>1. ASSUME NEW x \in Reading!Missing(h)', x # y PROVE x \in Reading!Missing(h)
        <5>1. x \in 1 .. position[h] - 1 /\ ~Held(h, x)'
          BY <2>1, <4>1, MissingIff
        <5>2. \A i \in 1 .. Len(got) : ~(got[i][1] = h /\ got[i][2] = x)
          BY <2>1, <5>1 DEF Held
        <5>3. \A u \in Readers : ~(file[u] = h /\ f_task[u] = "readline" /\ line[u] = x)
          BY <2>1, <3>3, <4>1, <5>1 DEF Held
        <5>4. ~Held(h, x)
          BY <5>2, <5>3 DEF Held
        <5> QED BY <5>1, <5>4, MissingIff
      <4> QED BY <4>1
    <3> QED BY <1>1, <2>1, <2>2, <3>2, <3>4, CountStep, Zenon
  <2> QED BY <2>3, <2>4
<1>11. CASE Reading!Del \/ UNCHANGED Reading!vars
  BY <1>3, <1>11 DEF Reading!Del, Reading!vars, Left
<1> QED BY <1>4, <1>5, <1>6, <1>7, <1>8, <1>9, <1>10, <1>11 DEF Reading!Next, Reading!Thread

\* The tasks that iterate over a file get its lines in their order, each once, and a line is lost
\* only with a reader that was cancelled, for any number of tasks, lines and file objects (io.py).
THEOREM EachLineOnce == Reading!Spec => []LinesInOrder
<1>1. Reading!Init => FileInv
  <2> SUFFICES ASSUME Reading!Init PROVE FileInv
    OBVIOUS
  <2>0. Lines \in Nat /\ 1 \in 1 .. Lines + 1
    BY FileAssumption
  <2>1. got = <<>> /\ Len(got) = 0 /\ got \in Seq(Nat \X Nat) /\ dropped = {}
    BY DEF Reading!Init
  <2>2. position \in Seq(1 .. Lines + 1) /\ fp \in 0 .. Len(position)
        /\ \A h \in 1 .. Len(position) : position[h] = 1
    <3>1. CASE fp = 0 /\ position = <<>>
      BY <3>1
    <3>2. CASE fp = 1 /\ position = <<1>>
      BY <2>0, <3>2
    <3> QED BY <3>1, <3>2 DEF Reading!Init
  <2>3. FileTypes
    <3>1. Len(position) \in Nat
      BY <2>2
    <3>2. TaskTypes(Len(position))
      BY <2>0, <3>1 DEF Reading!Init, TaskTypes, TaskStates, Operations
    <3> QED BY <2>1, <2>2, <3>2 DEF FileTypes
  <2>4. FileJobs
    <3>1. \A t \in Readers : f_task[t] = "new" /\ job[t] = "none" /\ line[t] = 0 /\ t \notin dropped
      BY <2>1 DEF Reading!Init
    <3> QED BY <3>1 DEF FileJobs
  <2>5. FileOrder
    BY <2>1 DEF Reading!Init, FileOrder
  <2>6. FileCount
    <3>1. \A h \in 1 .. Len(position) : Reading!Missing(h) = {}
      BY <2>2 DEF Reading!Missing
    <3>2. Left = {}
      BY <2>1 DEF Left
    <3> QED BY <3>1, <3>2, FS_EmptySet DEF FileCount
  <2> QED BY <2>3, <2>4, <2>5, <2>6 DEF FileInv
<1>2. FileInv /\ [Reading!Next]_(Reading!vars) => FileInv'
  BY FileTypesStep, FileJobsStep, FileOrderStep, FileCountStep DEF FileInv
<1>3. FileInv => LinesInOrder
  <2> SUFFICES ASSUME FileInv PROVE Reading!LinesInOrder
    BY DEF LinesInOrder
  <2>1. IsFiniteSet(dropped) /\ Left \in SUBSET dropped
    BY FileAssumption, FS_Subset DEF FileInv, FileTypes, Left
  <2>2. Cardinality(Left) <= Cardinality(dropped) /\ Cardinality(Left) \in Nat /\ Cardinality(dropped) \in Nat
    BY <2>1, FS_Subset, FS_CardinalityType
  <2>3. ASSUME NEW h \in 1 .. Len(position)
        PROVE  Cardinality(Reading!Missing(h)) <= Cardinality(dropped)
    <3>1. position[h] \in Nat
      BY FileAssumption DEF FileInv, FileTypes
    <3>2. IsFiniteSet(1 .. position[h] - 1)
      BY <3>1, FS_Interval
    <3>3. Cardinality(Reading!Missing(h)) \in Nat
      BY <3>2, FS_Subset, FS_CardinalityType, Zenon DEF Reading!Missing
    <3> QED BY <2>2, <3>3 DEF FileInv, FileCount
  <2>4. \A i, j \in 1 .. Len(got) : i < j /\ got[i][1] = got[j][1] => got[i][2] < got[j][2]
    BY DEF FileInv, FileOrder
  <2>5. \A h \in Reading!Made :
            Reading!Cardinality(Reading!Missing(h)) <= Reading!Cardinality(dropped)
    BY <2>3, SameCardinality, Zenon DEF Reading!Made
  <2> QED BY <2>4, <2>5 DEF Reading!LinesInOrder
<1> QED BY <1>1, <1>2, <1>3, PTL DEF Reading!Spec
=============================================================================

------------------------------- MODULE FileIO -------------------------------
(***************************************************************************)
(* aiomisc/io.py: AsyncFileIO, a file whose operations run in the threads  *)
(* of an executor, used by several tasks: they open it, iterate over its   *)
(* lines and close it.                                                     *)
(*                                                                         *)
(* A task that is cancelled leaves its operation behind: the executor      *)
(* skips it or carries it out.  An operation of the file itself is one     *)
(* step.                                                                   *)
(***************************************************************************)
EXTENDS Naturals, Sequences, FiniteSets

CONSTANTS
    Tasks,          \* the tasks that use the file
    Lines,          \* its number of lines
    MaxFiles        \* bound on the file objects that are made

VARIABLES
    fp,             \* self._fp: a file object, numbered from 1, or 0 for None
    position,       \* the next line of each file object that was made
    closed,         \* the file objects that are closed
    task,           \* what a task waits for
    lock,           \* self.__iterator_lock: the tasks that hold it
    job,            \* the operation of a task in the executor, "none" or "done"
    file,           \* its file object
    line,           \* the line it has read; 0 at the end of the file, or after an error
    got,            \* history: the lines that were given to the tasks
    dropped         \* history: the tasks that were cancelled while they read

vars == <<fp, position, closed, task, lock, job, file, line, got, dropped>>

Made == 1..Len(position)

TypeOK ==
    /\ fp \in 0..Len(position) /\ position \in Seq(1..Lines + 1) /\ closed \subseteq Made
    /\ task \in [Tasks -> {"new", "open", "using", "wait", "readline", "close", "over", "cancelled"}]
    /\ {lock, dropped} \subseteq SUBSET Tasks /\ Cardinality(lock) <= 1
    /\ job \in [Tasks -> {"none", "open", "readline", "close", "done"}]
    /\ file \in [Tasks -> 0..Len(position)] /\ line \in [Tasks -> 0..Lines]
    /\ got \in Seq(Made \X (1..Lines))

\* __init__(): nothing is opened yet; or open_fp() of a file object.
Init ==
    /\ \/ fp = 0 /\ position = <<>>
       \/ fp = 1 /\ position = <<1>>
    /\ closed = {} /\ task = [t \in Tasks |-> "new"] /\ lock = {}
    /\ job = [t \in Tasks |-> "none"]
    /\ file = [t \in Tasks |-> 0] /\ line = [t \in Tasks |-> 0]
    /\ got = <<>> /\ dropped = {}

\* __execute_in_thread(): the task waits for the operation.
Execute(t, operation) ==
    /\ task' = [task EXCEPT ![t] = operation]
    /\ job' = [job EXCEPT ![t] = operation]
    /\ file' = [file EXCEPT ![t] = fp]
    /\ line' = [line EXCEPT ![t] = 0]

\* The task goes on, and is done with its operation.
Resume(t, state) ==
    /\ task' = [task EXCEPT ![t] = state]
    /\ job' = [job EXCEPT ![t] = "none"]
    /\ file' = [file EXCEPT ![t] = 0]
    /\ line' = [line EXCEPT ![t] = 0]

\* open(), by __aenter__() or __await__(): nobody else's opening is waited for.
Open(t) ==
    /\ task[t] = "new"
    /\ IF fp # 0
       THEN task' = [task EXCEPT ![t] = "using"] /\ UNCHANGED <<job, file, line>>
       ELSE Execute(t, "open")
    /\ UNCHANGED <<fp, position, closed, lock, got, dropped>>

\* open() goes on with its file object, or fails.
Opened(t) ==
    /\ task[t] = "open" /\ job[t] = "done"
    /\ IF file[t] = 0
       THEN Resume(t, "over") /\ UNCHANGED fp
       ELSE Resume(t, "using") /\ fp' = file[t]
    /\ UNCHANGED <<position, closed, lock, got, dropped>>

\* Fault: readline() without the lock.
ReadlineUnlocked(t) == Execute(t, "readline") /\ UNCHANGED lock

\* readline() of the current file object, with the lock held.
Readline(t) ==
    /\ lock = {}
    /\ lock' = {t}
    /\ Execute(t, "readline")

\* __anext__(): it waits for the lock if another task reads.
Anext(t) ==
    /\ task[t] \in {"using", "wait"}
    /\ \/ Readline(t)
       \/ /\ lock # {} /\ task[t] = "using"
          /\ task' = [task EXCEPT ![t] = "wait"] /\ UNCHANGED <<lock, job, file, line>>
    /\ UNCHANGED <<fp, position, closed, got, dropped>>

\* The lock is released and the line is returned, unless it is the end of the file
\* (StopAsyncIteration) or the file object was closed.
Returned(t) ==
    /\ task[t] = "readline" /\ job[t] = "done"
    /\ lock' = lock \ {t}
    /\ IF line[t] = 0
       THEN Resume(t, "over") /\ UNCHANGED got
       ELSE Resume(t, "using") /\ got' = Append(got, <<file[t], line[t]>>)
    /\ UNCHANGED <<fp, position, closed, dropped>>

\* close() and __aexit__() close the current file object.
Close(t) ==
    /\ task[t] = "using"
    /\ Execute(t, "close")
    /\ UNCHANGED <<fp, position, closed, lock, got, dropped>>

Closed(t) ==
    /\ task[t] = "close" /\ job[t] = "done"
    /\ Resume(t, "over")
    /\ UNCHANGED <<fp, position, closed, lock, got, dropped>>

\* A thread has carried out an operation, for which a cancelled task does not wait.
Done(t, h, l) ==
    /\ job' = [job EXCEPT ![t] = IF task[t] = "cancelled" THEN "none" ELSE "done"]
    /\ file' = [file EXCEPT ![t] = IF task[t] = "cancelled" THEN 0 ELSE h]
    /\ line' = [line EXCEPT ![t] = IF task[t] = "cancelled" THEN 0 ELSE l]
    /\ UNCHANGED <<fp, task, lock, got, dropped>>

\* The opener makes a file object, or raises.
RunOpen(t) ==
    /\ job[t] = "open"
    /\ \/ Len(position) < MaxFiles /\ position' = Append(position, 1) /\ Done(t, Len(position) + 1, 0)
       \/ UNCHANGED position /\ Done(t, 0, 0)
    /\ UNCHANGED closed

RunReadline(t) ==
    LET h == file[t]
        none == h \in closed \/ position[h] > Lines
    IN /\ job[t] = "readline"
       /\ Done(t, h, IF none THEN 0 ELSE position[h])
       /\ position' = IF none THEN position ELSE [position EXCEPT ![h] = @ + 1]
       /\ UNCHANGED closed

RunClose(t) ==
    /\ job[t] = "close"
    /\ Done(t, file[t], 0)
    /\ closed' = closed \cup {file[t]}
    /\ UNCHANGED position

\* A task is cancelled where it waits, which releases the lock.  Its operation is skipped
\* if no thread has begun with it, or goes on.
Cancel(t) ==
    /\ task[t] \in {"open", "wait", "readline", "close"}
    /\ lock' = lock \ {t}
    /\ dropped' = IF task[t] = "readline" THEN dropped \cup {t} ELSE dropped
    /\ \/ Resume(t, "cancelled")
       \/ /\ job[t] \notin {"none", "done"}
          /\ task' = [task EXCEPT ![t] = "cancelled"] /\ UNCHANGED <<job, file, line>>
    /\ UNCHANGED <<fp, position, closed, got>>

\* __del__(), when no task uses the file any more.
Del ==
    /\ \A t \in Tasks : task[t] \in {"over", "cancelled"} /\ job[t] = "none"
    /\ fp # 0 /\ fp \notin closed
    /\ closed' = closed \cup {fp} /\ fp' = 0
    /\ UNCHANGED <<position, task, lock, job, file, line, got, dropped>>

Thread(t) == RunOpen(t) \/ RunReadline(t) \/ RunClose(t)

Next ==
    \/ Del
    \/ \E t \in Tasks :
          \/ Open(t) \/ Opened(t) \/ Anext(t) \/ Returned(t) \/ Close(t) \/ Closed(t)
          \/ Thread(t) \/ Cancel(t)

Spec == Init /\ [][Next]_vars

\* The lines of a file object that were read and are in nobody's hands.
Missing(h) ==
    (1..position[h] - 1) \ ({got[i][2] : i \in {j \in 1..Len(got) : got[j][1] = h}}
                            \cup {line[t] : t \in {u \in Tasks : file[u] = h /\ task[u] = "readline"}})

\* Tasks that iterate over one file get its lines in their order and each line once; a
\* line is lost only with a task that was cancelled while it read, although the reading
\* it leaves behind goes on beside that of the next task (io.py:148-155, 169-174).
LinesInOrder ==
    /\ \A i, j \in 1..Len(got) : i < j /\ got[i][1] = got[j][1] => got[i][2] < got[j][2]
    /\ \A h \in Made : Cardinality(Missing(h)) <= Cardinality(dropped)
=============================================================================

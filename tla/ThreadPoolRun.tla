---------------------------- MODULE ThreadPoolRun ---------------------------
(***************************************************************************)
(* Parts of the inductive invariant of ThreadPool: every step keeps the    *)
(* types, an item in one place, and the runs of the functions.             *)
(***************************************************************************)
EXTENDS ThreadPool, TLAPS

\* A callback appended to the queue of one loop leaves the queues well typed.
LEMMA ReadyAppend ==
    ASSUME NEW S, NEW f \in [Loops -> Seq(S)], NEW l \in Loops, NEW x \in S
    PROVE  [f EXCEPT ![l] = Append(f[l], x)] \in [Loops -> Seq(S)]
OBVIOUS

\* Taking the first callback of one loop, and maybe appending another one, too.
LEMMA ReadyTail ==
    ASSUME NEW S, NEW f \in [Loops -> Seq(S)], NEW l \in Loops, f[l] # <<>>, NEW x \in S
    PROVE  /\ [f EXCEPT ![l] = Tail(f[l])] \in [Loops -> Seq(S)]
           /\ [f EXCEPT ![l] = Append(Tail(f[l]), x)] \in [Loops -> Seq(S)]
           /\ Head(f[l]) \in S
OBVIOUS

\* What a worker hands to a loop is a callback (thread_pool.py, call_soon_threadsafe).
LEMMA CallbackTypes ==
    ASSUME NEW i \in Items, NEW o \in Outcomes
    PROVE  Callback(i, o) \in Callbacks /\ Discard(i) \in Callbacks
BY DEF Callbacks

\* The fields of a callback.
LEMMA CallbackFields ==
    ASSUME NEW cb \in Callbacks
    PROVE  cb.item \in Items /\ (cb.call = "set" => cb.outcome \in Outcomes)
BY DEF Callbacks, Callback, Discard

\* Every piece of work has its loop.
LEMMA LoopOfType == ASSUME NEW i \in Items PROVE LoopOf[i] \in Loops
BY LoopsAssumption

-----------------------------------------------------------------------------
\* The initial state is well typed.
LEMMA InitTypeOK == Init => TypeOK
<1> SUFFICES ASSUME Init PROVE TypeOK
  OBVIOUS
<1> USE DEF Init
<1>1. tasks \in Seq(Items \cup {None}) /\ ready \in [Loops -> Seq(Callbacks)]
  OBVIOUS
<1>2. future \in [Items -> FutureStates] /\ ran \in [Items -> Outcomes \cup {"none"}]
  BY DEF FutureStates
<1>3. pc \in [Threads -> ThreadLabels] /\ item \in [Threads -> Items \cup {None}]
  BY DEF ThreadLabels
<1>4. loop_closed \in [Loops -> BOOLEAN]
  OBVIOUS
<1> QED BY <1>1, <1>2, <1>3, <1>4 DEF TypeOK, ShutdownLabels

\* The steps of the loops' threads preserve the types.
LEMMA LoopStepTypeOK == TypeOK /\ LoopStep => TypeOK'
<1> SUFFICES ASSUME TypeOK, LoopStep PROVE TypeOK'
  OBVIOUS
<1> USE DEF TypeOK, queueVars, futureVars, loopVars, threadVars, shutdownVars, workVars,
           Resolved, ThreadFrame, ShutdownFrame
<1>1. ASSUME NEW i \in Items, Submit(i) PROVE TypeOK'
  <2> USE <1>1 DEF Submit
  <2>1. tasks' \in Seq(Items \cup {None}) /\ futures' \subseteq Items
    OBVIOUS
  <2>2. future' \in [Items -> FutureStates]
    BY DEF FutureStates
  <2>3. pc' \in [Threads -> ThreadLabels]
    BY DEF ThreadLabels
  <2> QED BY <2>1, <2>2, <2>3
<1>2. ASSUME NEW i \in Items, Cancel(i) PROVE TypeOK'
  <2>1. future' \in [Items -> FutureStates]
    BY <1>2 DEF Cancel, FutureStates
  <2>2. ready' \in [Loops -> Seq(Callbacks)]
    BY <1>2, CallbackTypes, LoopOfType, ReadyAppend DEF Cancel, Outcomes
  <2> QED BY <1>2, <2>1, <2>2 DEF Cancel
<1>3. ASSUME NEW l \in Loops, RunCallback(l) PROVE TypeOK'
  <2> DEFINE cb == Head(ready[l])
  <2>1. cb \in Callbacks
    BY <1>3, ReadyTail DEF RunCallback
  <2>2. cb.item \in Items /\ (cb.call = "set" => cb.outcome \in Outcomes)
    BY <2>1, CallbackFields
  <2>3. Discard(cb.item) \in Callbacks
    BY <2>2, CallbackTypes DEF Outcomes
  <2> HIDE DEF cb
  <2>4. CASE cb.call = "set" /\ SetWorkitemResult(l, cb.item, cb.outcome)
    <3>1. future' \in [Items -> FutureStates]
      BY <2>2, <2>4 DEF SetWorkitemResult, FutureStates
    <3>2. ready' \in [Loops -> Seq(Callbacks)]
      BY <1>3, <2>3, <2>4, ReadyTail DEF SetWorkitemResult, RunCallback
    <3> QED BY <1>3, <2>4, <3>1, <3>2 DEF RunCallback, SetWorkitemResult
  <2>5. CASE cb.call = "discard" /\ DiscardFuture(l, cb.item)
    <3>1. ready' \in [Loops -> Seq(Callbacks)]
      BY <1>3, <2>3, <2>5, ReadyTail DEF DiscardFuture, RunCallback
    <3> QED BY <1>3, <2>5, <3>1 DEF RunCallback, DiscardFuture
  <2> QED BY <1>3, <2>4, <2>5 DEF RunCallback, cb
<1>4. ASSUME NEW l \in Loops, CloseLoop(l) PROVE TypeOK'
  <2>1. ready' \in [Loops -> Seq(Callbacks)] /\ loop_closed' \in [Loops -> BOOLEAN]
    BY <1>4 DEF CloseLoop
  <2>2. sd_pc' \in ShutdownLabels /\ sd_by' \in Loops \cup {Nobody, Helper, Collector}
    BY <1>4 DEF CloseLoop, ShutdownLabels
  <2> QED BY <1>4, <2>1, <2>2 DEF CloseLoop
<1> QED BY <1>1, <1>2, <1>3, <1>4 DEF LoopStep
\* The steps of a worker thread preserve the types; what a thread holds in
\* WorkItem.__call__ is an item that has run when it posts its outcome.
LEMMA ThreadTypeOK ==
    ASSUME TypeOK, RunState, NEW t \in Threads, Thread(t)
    PROVE  TypeOK'
<1> USE DEF TypeOK, queueVars, futureVars, loopVars, threadVars, shutdownVars, workVars,
           Resolved, ThreadFrame, ShutdownFrame, Goto
<1> ThreadFrame
  BY DEF Thread
<1>1. CASE LoopTest(t) BY <1>1 DEF LoopTest, ThreadLabels, Holding
<1>2. CASE GetTest(t) BY <1>2 DEF GetTest, ThreadLabels, Holding
<1>3. CASE Take(t)
  <2>1. tasks' \in Seq(Items \cup {None}) /\ Head(tasks) \in Items \cup {None}
    BY <1>3 DEF Take, AfterGet
  <2>2. pc' \in [Threads -> ThreadLabels] /\ item' \in [Threads -> Items \cup {None}]
    BY <1>3, <2>1 DEF Take, AfterGet, ThreadLabels, Holding
  <2> QED BY <1>3, <2>1, <2>2 DEF Take, AfterGet
<1>4. CASE PutBack(t)
  <2>1. tasks' \in Seq(Items \cup {None})
    BY <1>4 DEF PutBack, WithPill
  <2>2. pc' \in [Threads -> ThreadLabels]
    BY <1>4 DEF PutBack, WithPill, ThreadLabels
  <2> QED BY <1>4, <2>1, <2>2 DEF PutBack, WithPill
<1>5. CASE CallTest(t) BY <1>5 DEF CallTest, ThreadLabels, Holding
<1>6. CASE ClosedTest(t) BY <1>6 DEF ClosedTest, LoopIsClosed, OpenLabel, ThreadLabels,
    Holding
<1>7. CASE Execute(t)
  <2>1. pc' \in [Threads -> ThreadLabels]
    BY <1>7 DEF Execute, ThreadLabels, Holding
  <2>2. ran' \in [Items -> Outcomes \cup {"none"}]
    BY <1>7 DEF Execute
  <2> QED BY <1>7, <2>1, <2>2 DEF Execute
<1>8. CASE Post(t)
  <2>1. item[t] \in Items /\ ran[item[t]] \in Outcomes
    BY <1>8, ItemsAssumption DEF Post, WithResult, RunState, Holding
  <2>2. Callback(item[t], ran[item[t]]) \in Callbacks /\ LoopOf[item[t]] \in Loops
    BY <2>1, CallbackTypes, LoopOfType
  <2>3. ready' \in [Loops -> Seq(Callbacks)]
    <3> DEFINE l == LoopOf[item[t]]
               cb == Callback(item[t], ran[item[t]])
    <3>1. ready' = ready \/ ready' = [ready EXCEPT ![l] = Append(ready[l], cb)]
      BY <1>8 DEF Post, WithResult
    <3>2. l \in Loops /\ cb \in Callbacks
      BY <2>2
    <3> HIDE DEF l, cb
    <3>3. [ready EXCEPT ![l] = Append(ready[l], cb)] \in [Loops -> Seq(Callbacks)]
      BY <3>2, ReadyAppend
    <3> QED BY <3>1, <3>3
  <2>4. pc' \in [Threads -> ThreadLabels] /\ item' \in [Threads -> Items \cup {None}]
    BY <1>8 DEF Post, WithResult, ThreadLabels
  <2> QED BY <1>8, <2>3, <2>4 DEF Post, WithResult
<1>9. CASE Reject(t)
  <2>1. future' \in [Items -> FutureStates]
    BY <1>9 DEF Reject, FutureStates
  <2> QED BY <1>9, <2>1 DEF Reject, ThreadLabels
<1> QED BY <1>1, <1>2, <1>3, <1>4, <1>5, <1>6, <1>7, <1>8, <1>9 DEF Thread

\* The steps of shutdown() and __del__ preserve the types.
LEMMA ShutdownTypeOK ==
    ASSUME TypeOK,
           \/ \E by \in Callers, wait \in BOOLEAN : Shutdown(by, wait)
           \/ ShutdownStep \/ ShutdownTimeout \/ Del
    PROVE  TypeOK'
<1> USE DEF TypeOK, queueVars, futureVars, loopVars, threadVars, shutdownVars, workVars,
           Resolved, ThreadFrame, ShutdownFrame, ShutdownLabels
<1>1. ASSUME NEW by \in Callers, NEW wait \in BOOLEAN, Shutdown(by, wait) PROVE TypeOK'
  BY <1>1, LoopsAssumption DEF Shutdown
<1>2. CASE /\ SetShutdownEvent \/ CloseChannel \/ WhileFutures \/ DoneTest \/ EndWait(TRUE)
           /\ ShutdownFrame
  BY <1>2 DEF SetShutdownEvent, CloseChannel, WhileFutures, WhileLabel, DoneTest, EndWait
<1>3. CASE PutPill /\ ShutdownFrame BY <1>3 DEF PutPill
<1>4. CASE PopFuture /\ ShutdownFrame BY <1>4 DEF PopFuture
<1>5. CASE SetPoolClosed /\ ShutdownFrame
  <2>1. future' \in [Items -> FutureStates]
    BY <1>5 DEF SetPoolClosed, FutureStates
  <2> QED BY <1>5, <2>1 DEF SetPoolClosed
<1>6. CASE ShutdownTimeout \/ Del BY <1>6 DEF ShutdownTimeout, EndWait, Del
<1> QED BY <1>1, <1>2, <1>3, <1>4, <1>5, <1>6 DEF ShutdownStep
-----------------------------------------------------------------------------
\* What Append and Tail do to the elements of a sequence.
LEMMA AppendElements ==
    ASSUME NEW S, NEW s \in Seq(S), NEW x \in S
    PROVE  /\ Len(Append(s, x)) = Len(s) + 1
           /\ \A k \in 1 .. Len(s) : Append(s, x)[k] = s[k]
           /\ Append(s, x)[Len(s) + 1] = x
           /\ Len(s) \in Nat
OBVIOUS

\* An element of a sequence with one more at its end is the last one or an old one.
LEMMA AppendCases ==
    ASSUME NEW S, NEW s \in Seq(S), NEW x \in S, NEW k \in 1 .. Len(Append(s, x))
    PROVE  \/ Append(s, x)[k] = x
           \/ k \in 1 .. Len(s) /\ Append(s, x)[k] = s[k]
BY AppendElements

\* The elements of a sequence without its first.
LEMMA TailElements ==
    ASSUME NEW S, NEW s \in Seq(S), s # <<>>
    PROVE  /\ Len(Tail(s)) = Len(s) - 1
           /\ \A k \in 1 .. Len(Tail(s)) : Tail(s)[k] = s[k + 1] /\ k + 1 \in 1 .. Len(s)
           /\ Head(s) = s[1] /\ 1 \in 1 .. Len(s)
           /\ Len(s) \in Nat
OBVIOUS

-----------------------------------------------------------------------------
\* The steps, grouped by what they change: these leave the channel and the
\* threads' hands alone.
QuietStep ==
    \/ \E i \in Items : Cancel(i)
    \/ \E l \in Loops : RunCallback(l) \/ CloseLoop(l)
    \/ \E t \in Threads : LoopTest(t) \/ GetTest(t) \/ ClosedTest(t) \/ Execute(t)
    \/ \E by \in Callers, wait \in BOOLEAN : Shutdown(by, wait)
    \/ (SetShutdownEvent \/ CloseChannel \/ WhileFutures \/ PopFuture
        \/ DoneTest
        \/ SetPoolClosed \/ EndWait(TRUE)) /\ ShutdownFrame
    \/ ShutdownTimeout \/ Del

\* Every step is one of these.
LEMMA NextCases ==
    ASSUME [Next]_vars
    PROVE  \/ \E i \in Items : Submit(i)
           \/ \E t \in Threads : Take(t) \/ PutBack(t) \/ CallTest(t) \/ Post(t) \/ Reject(t)
           \/ PutPill /\ ShutdownFrame
           \/ QuietStep
           \/ UNCHANGED vars
BY DEF Next, LoopStep, Thread, ShutdownStep, QuietStep

\* The steps that neither take work from the channel nor put it there (thread_pool.py).
LEMMA QuietUnchanged == ASSUME QuietStep \/ UNCHANGED vars PROVE UNCHANGED <<tasks, item>>
BY DEF QuietStep, vars, Cancel, RunCallback, CloseLoop, LoopTest, GetTest, ClosedTest,
    LoopIsClosed, OpenLabel,
       Execute, Shutdown, SetShutdownEvent, CloseChannel, WhileFutures, WhileLabel, PopFuture,
       DoneTest, SetPoolClosed, ShutdownTimeout, EndWait, Del,
       queueVars, threadVars, workVars, ShutdownFrame

\* An item stays in one place: only submit() brings one in, with a fresh future;
\* a thread takes it out of the channel and drops it when it is done with it.
LEMMA OnePlaceStep == TypeOK /\ OnePlace /\ RunState /\ [Next]_vars => OnePlace'
<1> SUFFICES ASSUME TypeOK, OnePlace, RunState, [Next]_vars PROVE OnePlace'
  OBVIOUS
<1> DEFINE S == Items \cup {None}
<1>0. tasks \in Seq(S) /\ item \in [Threads -> S]
  BY DEF TypeOK
<1>1. ASSUME NEW i \in Items, Submit(i) PROVE OnePlace'
  <2>1. \A k \in 1 .. Len(tasks) : tasks[k] # i
    BY <1>1, ItemsAssumption DEF Submit, RunState
  <2>2. \A t \in Threads : item[t] # i
    BY <1>1, ItemsAssumption DEF Submit, RunState
  <2>3. tasks' = Append(tasks, i) /\ UNCHANGED item
    BY <1>1 DEF Submit, threadVars
  <2> QED BY <1>0, <2>1, <2>2, <2>3, AppendElements, SMTT(60) DEF OnePlace
<1>2. ASSUME NEW t \in Threads, Take(t) PROVE OnePlace'
  BY <1>0, <1>2, TailElements, ItemsAssumption DEF Take, AfterGet, OnePlace
<1>3. ASSUME NEW t \in Threads, PutBack(t) PROVE OnePlace'
  BY <1>0, <1>3, AppendElements DEF PutBack, WithPill, OnePlace
<1>4. CASE PutPill /\ ShutdownFrame
  BY <1>0, <1>4, AppendElements DEF PutPill, OnePlace, threadVars, ShutdownFrame
<1>5. ASSUME NEW t \in Threads, CallTest(t) \/ Post(t) \/ Reject(t) PROVE OnePlace'
  BY <1>0, <1>5, SMTT(60) DEF CallTest, Post, WithResult, Reject, OnePlace, queueVars
<1>6. CASE QuietStep \/ UNCHANGED vars
  BY <1>6, QuietUnchanged, SMTT(60) DEF OnePlace
<1> QED BY <1>1, <1>2, <1>3, <1>4, <1>5, <1>6, NextCases
\* What RunState says of one thread.
ThreadRun(t) ==
    /\ item[t] # None <=> pc[t] \in Holding
    /\ item[t] # None => future[item[t]] # "none"
    /\ pc[t] \in {"call", "closed1", "func"} => ran[item[t]] = "none"
    /\ pc[t] \in {"closed2", "post"} => ran[item[t]] # "none"
    /\ pc[t] = "reject" => loop_closed[LoopOf[item[t]]]

\* A step of thread t preserves RunState when it leaves t itself in order, puts
\* nothing new into the channel but the pill, and lets no item run but t's own.
LEMMA ThreadStepRun ==
    ASSUME TypeOK, RunState, NEW t \in Threads, UNCHANGED loop_closed,
           \A s \in Threads \ {t} : item'[s] = item[s] /\ pc'[s] = pc[s],
           \A j \in Items : future'[j] = "none" <=> future[j] = "none",
           \A k \in 1 .. Len(tasks') :
               tasks'[k] = None \/ \E m \in 1 .. Len(tasks) : tasks[m] = tasks'[k],
           \A j \in Items : ran'[j] # ran[j] => item[t] = j /\ future[j] # "none"
                             /\ (\A k \in 1 .. Len(tasks) : tasks[k] # j)
                             /\ \A s \in Threads \ {t} : item[s] # j,
           ThreadRun(t)'
    PROVE  RunState'
<1>0. /\ \A k \in 1 .. Len(tasks) : tasks[k] \in Items \cup {None}
      /\ \A s \in Threads : item[s] \in Items \cup {None}
  BY SMTT(30) DEF TypeOK
<1>1. \A j \in Items : future'[j] = "none" => ran'[j] = "none"
  BY DEF RunState
<1>2. ASSUME NEW k \in 1 .. Len(tasks'), tasks'[k] # None
      PROVE  future'[tasks'[k]] # "none" /\ ran'[tasks'[k]] = "none"
  <2> PICK m \in 1 .. Len(tasks) : tasks[m] = tasks'[k]
    BY <1>2
  <2>1. tasks[m] \in Items /\ future[tasks[m]] # "none" /\ ran[tasks[m]] = "none"
    BY <1>0, <1>2 DEF RunState
  <2>2. ran'[tasks[m]] = ran[tasks[m]]
    BY <2>1
  <2> QED BY <2>1, <2>2
<1>3. ASSUME NEW s \in Threads \ {t} PROVE ThreadRun(s)'
  <2>1. ThreadRun(s) /\ item'[s] = item[s] /\ pc'[s] = pc[s]
    BY DEF RunState, ThreadRun
  <2>2. item[s] # None => item[s] \in Items /\ ran'[item[s]] = ran[item[s]]
    BY <1>0
  <2>3. pc[s] \in {"call", "closed1", "func", "closed2", "post", "reject"} => item[s] # None
    BY <2>1 DEF ThreadRun, Holding
  <2>4. item'[s] # None <=> pc'[s] \in Holding
    BY <2>1 DEF ThreadRun
  <2>5. item'[s] # None => future'[item'[s]] # "none"
    BY <2>1, <2>2 DEF ThreadRun
  <2> QED BY <2>1, <2>2, <2>3, <2>4, <2>5, SMTT(30) DEF ThreadRun
<1>4. \A s \in Threads : ThreadRun(s)'
  BY <1>3, SMTT(30)
<1> QED BY <1>1, <1>2, <1>4 DEF RunState, ThreadRun

\* A resolved or pending future never becomes "none" again, except that submit()
\* makes one pending; a closed loop stays closed.
LEMMA RunStateStep == TypeOK /\ OnePlace /\ RunState /\ ShutdownState /\ [Next]_vars => RunState'
<1> SUFFICES ASSUME TypeOK, OnePlace, RunState, ShutdownState, [Next]_vars PROVE RunState'
  OBVIOUS
<1> DEFINE S == Items \cup {None}
<1>0. /\ tasks \in Seq(S) /\ item \in [Threads -> S] /\ pc \in [Threads -> ThreadLabels]
      /\ future \in [Items -> FutureStates] /\ loop_closed \in [Loops -> BOOLEAN]
      /\ ran \in [Items -> Outcomes \cup {"none"}]
  BY DEF TypeOK
<1> USE DEF queueVars, futureVars, loopVars, threadVars, shutdownVars, workVars,
           Resolved, ThreadFrame, ShutdownFrame, Goto
<1>1. ASSUME NEW i \in Items, Submit(i) PROVE RunState'
  <2>1. /\ UNCHANGED <<item, ran, loop_closed>> /\ tasks' = Append(tasks, i)
        /\ future[i] = "none" /\ future' = [future EXCEPT ![i] = "pending"]
    BY <1>1 DEF Submit
  <2>2. \A t \in Threads : pc'[t] = pc[t] \/ (pc[t] = "unborn" /\ pc'[t] = "loop")
    BY <1>0, <1>1 DEF Submit
  <2>3. /\ ran[i] = "none" /\ future'[i] = "pending"
        /\ \A j \in Items : future[j] # "none" => future'[j] # "none"
        /\ \A j \in Items : future'[j] = "none" => future[j] = "none"
    BY <1>0, <2>1 DEF RunState
  <2>4. \A j \in Items : future'[j] = "none" => ran'[j] = "none"
    BY <2>1, <2>3 DEF RunState
  <2>5. ASSUME NEW k \in 1 .. Len(tasks'), tasks'[k] # None
        PROVE  future'[tasks'[k]] # "none" /\ ran'[tasks'[k]] = "none"
    <3>1. CASE tasks'[k] = i
      BY <2>1, <2>3, <3>1
    <3>2. CASE k \in 1 .. Len(tasks) /\ tasks'[k] = tasks[k]
      <4>1. tasks[k] \in Items
        BY <1>0, <2>5, <3>2
      <4>2. future[tasks[k]] # "none" /\ ran[tasks[k]] = "none"
        BY <2>5, <3>2 DEF RunState
      <4> QED BY <2>1, <2>3, <3>2, <4>1, <4>2
    <3> QED BY <1>0, <2>1, <2>5, <3>1, <3>2, AppendElements, SMTT(60)
  <2>6. ASSUME NEW t \in Threads
        PROVE  /\ item'[t] # None <=> pc'[t] \in Holding
               /\ item'[t] # None => future'[item'[t]] # "none"
               /\ pc'[t] \in {"call", "closed1", "func"} => ran'[item'[t]] = "none"
               /\ pc'[t] \in {"closed2", "post"} => ran'[item'[t]] # "none"
               /\ pc'[t] = "reject" => loop_closed'[LoopOf[item'[t]]]
    <3>1. item[t] \in Items \cup {None}
      BY <1>0
    <3> QED BY <2>1, <2>2, <2>3, <3>1, SMTT(60) DEF RunState, Holding
  <2> QED BY <2>4, <2>5, <2>6 DEF RunState
<1>2. ASSUME UNCHANGED <<item, pc, ran>>,
             \A j \in Items : future'[j] = "none" <=> future[j] = "none",
             \A l \in Loops : loop_closed[l] => loop_closed'[l],
             \A k \in 1 .. Len(tasks') :
                 tasks'[k] = None \/ \E m \in 1 .. Len(tasks) : tasks[m] = tasks'[k]
      PROVE  RunState'
  <2>1. /\ \A k \in 1 .. Len(tasks) : tasks[k] \in Items \cup {None}
        /\ \A t \in Threads : item[t] \in Items \cup {None}
    BY <1>0
  <2>2. \A j \in Items : future'[j] = "none" => ran'[j] = "none"
    BY <1>2 DEF RunState
  <2>3. ASSUME NEW k \in 1 .. Len(tasks'), tasks'[k] # None
        PROVE  future'[tasks'[k]] # "none" /\ ran'[tasks'[k]] = "none"
    BY <1>2, <2>1, <2>3 DEF RunState
  <2>4. ASSUME NEW t \in Threads PROVE ThreadRun(t)'
    <3>1. ThreadRun(t) /\ item'[t] = item[t] /\ pc'[t] = pc[t] /\ ran' = ran
      BY <1>2 DEF RunState, ThreadRun
    <3>2. item[t] # None => item[t] \in Items /\ LoopOf[item[t]] \in Loops
      BY <2>1, LoopOfType
    <3>3. pc[t] = "reject" => item[t] # None
      BY <3>1 DEF ThreadRun, Holding
    <3>4. item[t] # None => future'[item[t]] # "none"
      BY <1>2, <3>1, <3>2 DEF ThreadRun
    <3>5. pc[t] = "reject" => loop_closed'[LoopOf[item[t]]]
      BY <1>2, <3>1, <3>2, <3>3 DEF ThreadRun
    <3> QED BY <3>1, <3>4, <3>5 DEF ThreadRun
  <2> QED BY <2>2, <2>3, <2>4 DEF RunState, ThreadRun
<1>3. ASSUME NEW l \in Loops, RunCallback(l) PROVE RunState'
  <2>1. Head(ready[l]) \in Callbacks
    BY <1>3, ReadyTail DEF RunCallback, TypeOK
  <2>2. \A i \in Items : (future'[i] = "none" <=> future[i] = "none")
    BY <1>0, <1>3, <2>1, CallbackFields DEF RunCallback, SetWorkitemResult,
        DiscardFuture, Outcomes
  <2>3. UNCHANGED <<tasks, item, pc, ran, loop_closed>>
    BY <1>3 DEF RunCallback
  <2> QED BY <1>2, <2>2, <2>3
<1>4. ASSUME NEW l \in Loops, CloseLoop(l) PROVE RunState'
  <2>1. UNCHANGED <<tasks, item, pc, ran, future>>
    BY <1>4 DEF CloseLoop
  <2>2. \A m \in Loops : loop_closed[m] => loop_closed'[m]
    BY <1>0, <1>4 DEF CloseLoop
  <2> QED BY <1>2, <2>1, <2>2
<1>5. ASSUME NEW i \in Items, Cancel(i) PROVE RunState'
  <2>1. UNCHANGED <<tasks, item, pc, ran, loop_closed>>
    BY <1>5 DEF Cancel
  <2>2. \A j \in Items : future'[j] = "none" <=> future[j] = "none"
    BY <1>0, <1>5 DEF Cancel
  <2> QED BY <1>2, <2>1, <2>2
<1>6. ASSUME NEW t \in Threads, ThreadFrame, LoopTest(t) \/ GetTest(t) PROVE RunState'
  <2>1. UNCHANGED <<tasks, item, ran, future, loop_closed>> /\ pc[t] \notin Holding
    BY <1>6 DEF LoopTest, GetTest, Holding
  <2>2. pc'[t] \in {"get", "queue", "dead"} /\ \A s \in Threads \ {t} : pc'[s] = pc[s]
    BY <1>0, <1>6 DEF LoopTest, GetTest
  <2>3. item[t] = None
    BY <2>1 DEF RunState
  <2>4. ThreadRun(t)'
    BY <2>1, <2>2, <2>3 DEF ThreadRun, Holding
  <2> QED BY <2>1, <2>2, <2>4, ThreadStepRun
<1>7. ASSUME NEW t \in Threads, ThreadFrame, Take(t) PROVE RunState'
  <2>1. UNCHANGED <<ran, future, loop_closed>> /\ tasks' = Tail(tasks) /\ tasks # <<>>
    BY <1>7 DEF Take, AfterGet
  <2>2. \A k \in 1 .. Len(tasks') : \E m \in 1 .. Len(tasks) : tasks[m] = tasks'[k]
    <3>1. \A k \in 1 .. Len(tasks') : k + 1 \in 1 .. Len(tasks) /\ tasks'[k] = tasks[k + 1]
      BY <1>0, <2>1, TailElements
    <3> QED BY <3>1
  <2>3. \A s \in Threads \ {t} : item'[s] = item[s] /\ pc'[s] = pc[s]
    BY <1>0, <1>7 DEF Take
  <2>4. item[t] = None
    BY <1>7 DEF Take, RunState, Holding
  <2>5. Head(tasks) = tasks[1] /\ 1 \in 1 .. Len(tasks)
    BY <1>0, <2>1
  <2>6. ThreadRun(t)'
    <3>1. CASE Head(tasks) = None
      <4>1. pc'[t] = "put" /\ item'[t] = None
        BY <1>0, <1>7, <2>4, <3>1 DEF Take
      <4> QED BY <4>1 DEF ThreadRun, Holding
    <3>2. CASE Head(tasks) # None
      <4>1. pc'[t] = "call" /\ item'[t] = Head(tasks)
        BY <1>0, <1>7, <3>2 DEF Take
      <4>2. future[Head(tasks)] # "none" /\ ran[Head(tasks)] = "none"
        BY <2>5, <3>2 DEF RunState
      <4> QED BY <2>1, <3>2, <4>1, <4>2 DEF ThreadRun, Holding
    <3> QED BY <3>1, <3>2
  <2> QED BY <2>1, <2>2, <2>3, <2>6, ThreadStepRun
<1>8. ASSUME NEW t \in Threads, ThreadFrame, PutBack(t) PROVE RunState'
  <2>1. UNCHANGED <<item, ran, future, loop_closed>> /\ tasks' = Append(tasks, None)
    BY <1>8 DEF PutBack, WithPill
  <2>2. \A k \in 1 .. Len(tasks') :
           tasks'[k] = None \/ \E m \in 1 .. Len(tasks) : tasks[m] = tasks'[k]
    BY <1>0, <2>1, AppendElements
  <2>3. pc'[t] = "dead" /\ \A s \in Threads \ {t} : pc'[s] = pc[s]
    BY <1>0, <1>8 DEF PutBack
  <2>4. item[t] = None
    BY <1>8 DEF PutBack, RunState, Holding
  <2>5. ThreadRun(t)'
    BY <2>1, <2>3, <2>4 DEF ThreadRun, Holding
  <2> QED BY <2>1, <2>2, <2>3, <2>5, ThreadStepRun
<1>9. ASSUME NEW t \in Threads, ThreadFrame, CallTest(t) \/ ClosedTest(t) PROVE RunState'
  <2>1. UNCHANGED <<tasks, ran, future, loop_closed>>
    BY <1>9 DEF CallTest, ClosedTest
  <2>2. \A s \in Threads \ {t} : item'[s] = item[s] /\ pc'[s] = pc[s]
    BY <1>0, <1>9 DEF CallTest, ClosedTest
  <2>3. ThreadRun(t)
    BY DEF RunState, ThreadRun
  <2>4. \/ pc'[t] = "loop" /\ item'[t] = None
        \/ /\ item'[t] = item[t] /\ pc[t] \in Holding
           /\ \/ pc[t] = "call" /\ pc'[t] = "closed1"
              \/ pc[t] = "closed1" /\ pc'[t] = "func"
              \/ pc[t] = "closed2" /\ pc'[t] = "post"
              \/ pc'[t] = "reject" /\ loop_closed[LoopOf[item[t]]]
    BY <1>0, <1>9 DEF CallTest, ClosedTest, LoopIsClosed, OpenLabel, Holding
  <2>5. ThreadRun(t)'
    <3>1. CASE pc'[t] = "loop" /\ item'[t] = None
      BY <3>1 DEF ThreadRun, Holding
    <3>2. CASE item'[t] = item[t] /\ pc[t] \in Holding /\ pc'[t] \in Holding
      <4>1. item'[t] # None /\ future'[item'[t]] # "none"
        BY <2>1, <2>3, <3>2 DEF ThreadRun
      <4> QED BY <2>1, <2>3, <2>4, <3>2, <4>1, SMTT(60) DEF ThreadRun
    <3> QED BY <2>4, <3>1, <3>2 DEF Holding
  <2> QED BY <2>1, <2>2, <2>5, ThreadStepRun
<1>10. ASSUME NEW t \in Threads, ThreadFrame, Execute(t) PROVE RunState'
  <2>1. UNCHANGED <<tasks, item, future, loop_closed>> /\ pc[t] = "func"
    BY <1>10 DEF Execute
  <2>2. PICK o \in Outcomes : ran' = [ran EXCEPT ![item[t]] = o]
    BY <1>10 DEF Execute
  <2>3. pc'[t] = "closed2" /\ \A s \in Threads \ {t} : pc'[s] = pc[s]
    BY <1>0, <1>10 DEF Execute
  <2>4. item[t] # None /\ item[t] \in Items /\ future[item[t]] # "none"
    BY <1>0, <2>1, SMTT(30) DEF RunState, Holding
  <2>5. /\ \A k \in 1 .. Len(tasks) : tasks[k] # item[t]
        /\ \A s \in Threads \ {t} : item[s] # item[t]
    BY <2>4 DEF OnePlace
  <2>6. ran'[item[t]] = o /\ \A j \in Items : ran'[j] # ran[j] => item[t] = j
    BY <1>0, <2>2, <2>4
  <2>7. ThreadRun(t)'
    BY <2>1, <2>3, <2>4, <2>6 DEF ThreadRun, Holding, Outcomes
  <2>8. \A j \in Items : ran'[j] # ran[j] =>
           /\ item[t] = j /\ future[j] # "none"
           /\ \A k \in 1 .. Len(tasks) : tasks[k] # j
           /\ \A s \in Threads \ {t} : item[s] # j
    BY <2>4, <2>5, <2>6
  <2> QED BY <2>1, <2>3, <2>7, <2>8, ThreadStepRun
<1>11. ASSUME NEW t \in Threads, ThreadFrame, Post(t) \/ Reject(t) PROVE RunState'
  <2>1. UNCHANGED <<tasks, ran, loop_closed>>
    BY <1>11 DEF Post, Reject
  <2>2. /\ pc'[t] \in {"loop", "dead"} /\ item'[t] = None
        /\ \A s \in Threads \ {t} : item'[s] = item[s] /\ pc'[s] = pc[s]
    BY <1>0, <1>11 DEF Post, Reject
  <2>3. \A j \in Items : future'[j] = "none" <=> future[j] = "none"
    BY <1>0, <1>11 DEF Post, Reject
  <2>4. ThreadRun(t)'
    BY <2>2 DEF ThreadRun, Holding
  <2> QED BY <2>1, <2>2, <2>3, <2>4, ThreadStepRun
<1>12. CASE SetPoolClosed /\ ShutdownFrame
  <2>1. UNCHANGED <<tasks, item, pc, ran, loop_closed>>
    BY <1>12 DEF SetPoolClosed
  <2>2. \A j \in Items : future'[j] = "none" <=> future[j] = "none"
    BY <1>0, <1>12 DEF SetPoolClosed
  <2> QED BY <1>2, <2>1, <2>2
<1>13. CASE PutPill /\ ShutdownFrame
  <2>1. UNCHANGED <<item, pc, ran, future, loop_closed>> /\ tasks' = Append(tasks, None)
    BY <1>13 DEF PutPill
  <2>2. \A k \in 1 .. Len(tasks') :
           tasks'[k] = None \/ \E m \in 1 .. Len(tasks) : tasks[m] = tasks'[k]
    BY <1>0, <2>1, AppendElements
  <2> QED BY <1>2, <2>1, <2>2
<1>14. ASSUME UNCHANGED <<tasks, item, pc, future, ran, loop_closed>> PROVE RunState'
  BY <1>14 DEF RunState
<1>15. CASE \/ \E by \in Callers, wait \in BOOLEAN : Shutdown(by, wait)
            \/ (SetShutdownEvent \/ CloseChannel \/ WhileFutures \/ PopFuture
                \/ DoneTest \/ EndWait(TRUE)) /\ ShutdownFrame
            \/ ShutdownTimeout \/ Del \/ UNCHANGED vars
  BY <1>14, <1>15 DEF Shutdown, SetShutdownEvent, CloseChannel, WhileFutures, WhileLabel,
      PopFuture,
                      DoneTest, ShutdownTimeout, EndWait, Del, vars
<1> QED BY <1>1, <1>2, <1>3, <1>4, <1>5, <1>6, <1>7, <1>8, <1>9, <1>10, <1>11, <1>12,
           <1>13, <1>15 DEF Next, LoopStep, Thread, ShutdownStep
=============================================================================

-------------------------- MODULE ThreadPoolProofs --------------------------
(***************************************************************************)
(* Theorems about ThreadPool, for every number of items, loops and         *)
(* workers: the rest of the inductive invariant and what follows from it,  *)
(* that the pool implements Executor, and that no work is lost.            *)
(***************************************************************************)
EXTENDS ThreadPoolRun

\* A callback that is queued keeps naming its own loop and its own outcome: the
\* item it is about has left the channel and the threads, so it runs no more.
LEMMA CallbackStateStep ==
    TypeOK /\ OnePlace /\ RunState /\ CallbackState /\ [Next]_vars => CallbackState'
<1> SUFFICES ASSUME TypeOK, OnePlace, RunState, CallbackState, [Next]_vars
             PROVE  CallbackState'
  OBVIOUS
<1>0. /\ ready \in [Loops -> Seq(Callbacks)] /\ item \in [Threads -> Items \cup {None}]
      /\ ran \in [Items -> Outcomes \cup {"none"}]
  BY DEF TypeOK
<1> USE DEF queueVars, futureVars, loopVars, threadVars, shutdownVars, workVars,
           Resolved, ThreadFrame, ShutdownFrame, Goto
<1>1. ASSUME NEW i \in Items, Cancel(i) PROVE CallbackState'
  <2> DEFINE d == Discard(i)
             l == LoopOf[i]
  <2>1. d \in Callbacks /\ d.call = "discard" /\ l \in Loops
    BY CallbackTypes, LoopOfType DEF Outcomes, Discard
  <2>2. ready' = [ready EXCEPT ![l] = Append(ready[l], d)] /\ UNCHANGED ran
    BY <1>1 DEF Cancel
  <2> HIDE DEF d, l
  <2> QED BY <1>0, <2>1, <2>2, AppendElements, SMTT(60) DEF CallbackState
<1>2. ASSUME NEW l \in Loops, RunCallback(l) PROVE CallbackState'
  <2> DEFINE cb == Head(ready[l])
             d == Discard(cb.item)
  <2>1. d \in Callbacks /\ d.call = "discard"
    BY <1>0, <1>2, ReadyTail, CallbackFields, CallbackTypes, SMTT(60) DEF RunCallback, Outcomes,
        Discard
  <2>2. ready[l] \in Seq(Callbacks) /\ ready[l] # <<>> /\ Tail(ready[l]) \in Seq(Callbacks)
    BY <1>0, <1>2 DEF RunCallback
  <2>3. \/ ready' = [ready EXCEPT ![l] = Tail(ready[l])]
        \/ ready' = [ready EXCEPT ![l] = Append(Tail(ready[l]), d)]
    BY <1>2 DEF RunCallback, SetWorkitemResult, DiscardFuture
  <2>4. UNCHANGED ran
    BY <1>2 DEF RunCallback
  <2> HIDE DEF d
  <2>5. CASE ready' = [ready EXCEPT ![l] = Tail(ready[l])]
    BY <1>0, <2>2, <2>4, <2>5, TailElements, SMTT(60) DEF CallbackState
  <2>6. CASE ready' = [ready EXCEPT ![l] = Append(Tail(ready[l]), d)]
    <3> DEFINE q == Append(Tail(ready[l]), d)
    <3>1. ASSUME NEW k \in 1 .. Len(q)
          PROVE  \/ q[k].call # "set"
                 \/ k + 1 \in 1 .. Len(ready[l]) /\ q[k] = ready[l][k + 1]
      <4>1. q[k] = d \/ (k \in 1 .. Len(Tail(ready[l])) /\ q[k] = Tail(ready[l])[k])
        BY <2>1, <2>2, AppendCases
      <4> QED BY <2>1, <2>2, <4>1, TailElements
    <3>2. \A m \in Loops : ready'[m] = IF m = l THEN q ELSE ready[m]
      BY <1>0, <2>6
    <3> HIDE DEF q
    <3> QED BY <2>4, <3>1, <3>2, SMTT(60) DEF CallbackState
  <2> QED BY <2>3, <2>5, <2>6
<1>3. ASSUME NEW l \in Loops, CloseLoop(l) PROVE CallbackState'
  BY <1>0, <1>3 DEF CloseLoop, CallbackState
<1>4. ASSUME NEW t \in Threads, ThreadFrame, Execute(t) PROVE CallbackState'
  <2>1. item[t] \in Items /\ ran[item[t]] = "none"
    BY <1>0, <1>4, ItemsAssumption DEF Execute, RunState, Holding
  <2>2. \A i \in Items : ran[i] # "none" => ran'[i] = ran[i]
    BY <1>0, <1>4, <2>1 DEF Execute
  <2>3. UNCHANGED ready
    BY <1>4 DEF Execute
  <2> SUFFICES ASSUME NEW l \in Loops, NEW k \in 1 .. Len(ready[l]), ready[l][k].call = "set"
               PROVE  /\ LoopOf[ready[l][k].item] = l
                      /\ ran'[ready[l][k].item] = ready[l][k].outcome
    BY <2>3 DEF CallbackState
  <2>4. ready[l][k] \in Callbacks
    BY <1>0
  <2>5. ready[l][k].item \in Items /\ ready[l][k].outcome \in Outcomes
    BY <2>4, CallbackFields
  <2> QED BY <2>2, <2>5, SMTT(60) DEF CallbackState, Outcomes
<1>5. ASSUME NEW t \in Threads, ThreadFrame, Post(t) PROVE CallbackState'
  <2> DEFINE i == item[t]
             l == LoopOf[i]
             cb == Callback(i, ran[i])
  <2>1. i \in Items /\ ran[i] \in Outcomes
    BY <1>0, <1>5, ItemsAssumption DEF Post, WithResult, RunState, Holding
  <2>2. cb \in Callbacks /\ cb.item = i /\ cb.outcome = ran[i] /\ l \in Loops
    BY <2>1, CallbackTypes, LoopOfType, SMTT(60) DEF Callback
  <2>3. ready' = ready \/ ready' = [ready EXCEPT ![l] = Append(ready[l], cb)]
    BY <1>5 DEF Post, WithResult
  <2>4. UNCHANGED ran
    BY <1>5 DEF Post, WithResult
  <2>5. l = LoopOf[i]
    OBVIOUS
  <2> HIDE DEF i, l, cb
  <2>6. CASE ready' = [ready EXCEPT ![l] = Append(ready[l], cb)]
    <3> DEFINE q == Append(ready[l], cb)
    <3>0. ready[l] \in Seq(Callbacks)
      BY <1>0, <2>2
    <3>1. ASSUME NEW k \in 1 .. Len(q)
          PROVE  q[k] = cb \/ (k \in 1 .. Len(ready[l]) /\ q[k] = ready[l][k])
      BY <2>2, <3>0, AppendCases
    <3>2. \A m \in Loops : ready'[m] = IF m = l THEN q ELSE ready[m]
      BY <1>0, <2>6
    <3>3. LoopOf[cb.item] = l /\ ran[cb.item] = cb.outcome
      BY <2>2, <2>5
    <3> HIDE DEF q
    <3> QED BY <2>4, <3>1, <3>2, <3>3 DEF CallbackState
  <2> QED BY <2>3, <2>4, <2>6 DEF CallbackState
<1>6. ASSUME UNCHANGED <<ready, ran>> PROVE CallbackState'
  BY <1>6 DEF CallbackState
<1>7. ASSUME NEW i \in Items, Submit(i) PROVE CallbackState'
  BY <1>6, <1>7 DEF Submit
<1>8. ASSUME NEW t \in Threads, ThreadFrame,
             \/ LoopTest(t) \/ GetTest(t) \/ Take(t) \/ PutBack(t) \/ CallTest(t)
             \/ ClosedTest(t) \/ Reject(t)
      PROVE  CallbackState'
  BY <1>6, <1>8, SMTT(60) DEF LoopTest, GetTest, Take, AfterGet, PutBack, WithPill, CallTest,
      ClosedTest, LoopIsClosed, OpenLabel, Reject
<1>9. CASE \/ \E by \in Callers, wait \in BOOLEAN : Shutdown(by, wait)
           \/ ShutdownStep \/ ShutdownTimeout \/ Del \/ UNCHANGED vars
  BY <1>6, <1>9 DEF Shutdown, ShutdownStep, SetShutdownEvent, CloseChannel, PutPill,
        WhileFutures, WhileLabel, PopFuture, DoneTest, SetPoolClosed, ShutdownTimeout, EndWait,
        Del, vars
<1> QED BY <1>1, <1>2, <1>3, <1>4, <1>5, <1>7, <1>8, <1>9 DEF Next, LoopStep, Thread

\* shutdown() works on the futures only after it has set its event.
LEMMA ShutdownStateStep == TypeOK /\ ShutdownState /\ [Next]_vars => ShutdownState'
<1> SUFFICES ASSUME TypeOK, ShutdownState, [Next]_vars PROVE ShutdownState'
  OBVIOUS
<1> USE DEF shutdownVars, ShutdownState, ThreadFrame, ShutdownFrame
<1>1. CASE LoopStep
  BY <1>1, SMTT(30) DEF LoopStep, Submit, Cancel, RunCallback, CloseLoop
<1>2. ASSUME NEW t \in Threads, Thread(t) PROVE ShutdownState'
  BY <1>2 DEF Thread, LoopTest, GetTest, Take, AfterGet, PutBack, WithPill, CallTest,
      ClosedTest, LoopIsClosed, OpenLabel, Execute, Post, WithResult, Reject
<1>3. ASSUME NEW by \in Callers, NEW wait \in BOOLEAN, Shutdown(by, wait) PROVE ShutdownState'
  BY <1>3 DEF Shutdown
<1>4. CASE ShutdownStep
  BY <1>4 DEF ShutdownStep, SetShutdownEvent, CloseChannel, PutPill, WhileFutures,
      WhileLabel,
              PopFuture, DoneTest, SetPoolClosed, EndWait, TypeOK
<1>5. CASE ShutdownTimeout \/ Del \/ UNCHANGED vars
  BY <1>5 DEF ShutdownTimeout, EndWait, Del, vars
<1> QED BY <1>1, <1>2, <1>3, <1>4, <1>5 DEF Next
\* A future is given an outcome only by a callback of its own item.
LEMMA OwnOutcomeStep ==
    TypeOK /\ RunState /\ CallbackState /\ ShutdownState /\ OwnOutcome /\ [Next]_vars
        => OwnOutcome'
<1> SUFFICES ASSUME TypeOK, RunState, CallbackState, ShutdownState, OwnOutcome, [Next]_vars
             PROVE  OwnOutcome'
  OBVIOUS
<1>0. /\ ready \in [Loops -> Seq(Callbacks)] /\ item \in [Threads -> Items \cup {None}]
      /\ ran \in [Items -> Outcomes \cup {"none"}] /\ future \in [Items -> FutureStates]
  BY DEF TypeOK
<1> USE DEF queueVars, futureVars, loopVars, threadVars, shutdownVars, workVars,
           Resolved, ThreadFrame, ShutdownFrame, Goto
<1>1. ASSUME NEW i \in Items, Submit(i) \/ Cancel(i) PROVE OwnOutcome'
  BY <1>0, <1>1 DEF Submit, Cancel, OwnOutcome, Outcomes
<1>2. ASSUME NEW l \in Loops, RunCallback(l) PROVE OwnOutcome'
  <2> DEFINE cb == Head(ready[l])
  <2>1. cb \in Callbacks /\ cb = ready[l][1] /\ 1 \in 1 .. Len(ready[l])
    BY <1>0, <1>2, ReadyTail, TailElements DEF RunCallback
  <2>2. cb.item \in Items /\ (cb.call = "set" => ran[cb.item] = cb.outcome)
    <3>1. cb.item \in Items
      BY <2>1, CallbackFields
    <3>2. cb.call = "set" => ran[cb.item] = cb.outcome
      <4> HIDE DEF cb
      <4> QED BY <2>1 DEF CallbackState
    <3> QED BY <3>1, <3>2
  <2>3. UNCHANGED ran /\ (UNCHANGED future \/ (cb.call = "set" /\ future' = [future EXCEPT ![cb.item] = cb.outcome]))
    BY <1>2 DEF RunCallback, SetWorkitemResult, DiscardFuture
  <2> HIDE DEF cb
  <2> QED BY <1>0, <2>2, <2>3, SMTT(60) DEF OwnOutcome
<1>3. ASSUME NEW t \in Threads, ThreadFrame, Execute(t) PROVE OwnOutcome'
  <2>1. item[t] \in Items /\ ran[item[t]] = "none"
    BY <1>0, <1>3, ItemsAssumption, SMTT(60) DEF Execute, RunState, Holding
  <2> QED BY <1>0, <1>3, <2>1, SMTT(60) DEF Execute, OwnOutcome, Outcomes
<1>4. ASSUME NEW t \in Threads, ThreadFrame, Reject(t) PROVE OwnOutcome'
  <2>1. item[t] \in Items
    BY <1>0, <1>4, ItemsAssumption, SMTT(60) DEF Reject, RunState, Holding
  <2> QED BY <1>0, <1>4, <2>1, SMTT(60) DEF Reject, OwnOutcome, Outcomes
<1>5. CASE SetPoolClosed /\ ShutdownFrame
  BY <1>0, <1>5 DEF SetPoolClosed, OwnOutcome, Outcomes, ShutdownState
<1>6. ASSUME UNCHANGED <<future, ran>> PROVE OwnOutcome'
  BY <1>6 DEF OwnOutcome
<1>7. ASSUME NEW l \in Loops, CloseLoop(l) PROVE OwnOutcome'
  BY <1>6, <1>7, SMTT(60) DEF CloseLoop
<1>8. ASSUME NEW t \in Threads, ThreadFrame,
             \/ LoopTest(t) \/ GetTest(t) \/ Take(t) \/ PutBack(t) \/ CallTest(t)
             \/ ClosedTest(t) \/ Post(t)
      PROVE  OwnOutcome'
  <2>1. UNCHANGED <<future, ran>>
    BY <1>8 DEF LoopTest, GetTest, Take, PutBack, CallTest, ClosedTest, Post
  <2> QED BY <1>6, <2>1
<1>9. CASE \/ \E by \in Callers, wait \in BOOLEAN : Shutdown(by, wait)
           \/ (SetShutdownEvent \/ CloseChannel \/ PutPill \/ WhileFutures \/ PopFuture
               \/ DoneTest \/ EndWait(TRUE)) /\ ShutdownFrame
           \/ ShutdownTimeout \/ Del \/ UNCHANGED vars
  BY <1>6, <1>9 DEF Shutdown, SetShutdownEvent, CloseChannel, PutPill, WhileFutures,
      WhileLabel,
        PopFuture, DoneTest, ShutdownTimeout, EndWait, Del, vars
<1> QED BY <1>1, <1>2, <1>3, <1>4, <1>5, <1>7, <1>8, <1>9
        DEF Next, LoopStep, Thread, ShutdownStep

-----------------------------------------------------------------------------
\* The inductive invariant.
IInv == TypeOK /\ OnePlace /\ RunState /\ CallbackState /\ ShutdownState /\ OwnOutcome

\* The types are preserved where the other parts of the invariant hold.
LEMMA TypeOKStep == TypeOK /\ RunState /\ [Next]_vars => TypeOK'
<1> SUFFICES ASSUME TypeOK, RunState, [Next]_vars PROVE TypeOK'
  OBVIOUS
<1>1. CASE UNCHANGED vars
  BY <1>1 DEF TypeOK, vars, queueVars, futureVars, loopVars, threadVars, shutdownVars
<1> QED BY <1>1, LoopStepTypeOK, ThreadTypeOK, ShutdownTypeOK DEF Next

\* The invariant holds in every reachable state of the pool.
THEOREM Invariance == Spec => []IInv
<1>1. Init => IInv
  <2> SUFFICES ASSUME Init PROVE IInv
    OBVIOUS
  <2>1. OnePlace /\ RunState
    BY DEF Init, OnePlace, RunState, Holding
  <2>2. CallbackState /\ ShutdownState /\ OwnOutcome
    BY DEF Init, CallbackState, ShutdownState, OwnOutcome, Outcomes
  <2> QED BY <2>1, <2>2, InitTypeOK DEF IInv
<1>2. IInv /\ [Next]_vars => IInv'
  BY TypeOKStep, OnePlaceStep, RunStateStep, CallbackStateStep, ShutdownStateStep,
     OwnOutcomeStep DEF IInv
<1> QED BY <1>1, <1>2, PTL DEF Spec

\* Every variable of the pool keeps its type.
THEOREM TypeCorrect == Spec => []TypeOK
BY Invariance, PTL DEF IInv

\* A future that carries a function's outcome carries that of its own function.
THEOREM OutcomesAreOwn == Spec => []OwnOutcome
BY Invariance, PTL DEF IInv

\* No item is ever in two places.
THEOREM ItemsInOnePlace == Spec => []OnePlace
BY Invariance, PTL DEF IInv

\* Every submitted function runs at most once: a thread about to run one holds an
\* item that has not run.
THEOREM AtMostOneRun == Spec => RunsOnce
<1>1. IInv /\ [Next]_vars => [\A t \in Threads : Execute(t) => ran[item[t]] = "none"]_vars
  BY DEF IInv, RunState, Execute
<1> QED BY <1>1, Invariance, PTL DEF Spec, RunsOnce

-----------------------------------------------------------------------------
\* The initial state of the pool is one of the promise.
LEMMA PromiseInit == Init => Promise!Init
BY DEF Init, Promise!Init

\* Every step of the pool is a step of the promise, or changes nothing that the
\* promise is about.
LEMMA PromiseStep == IInv /\ [Next]_vars => [Promise!Next]_(Promise!vars)
<1> SUFFICES ASSUME IInv, [Next]_vars PROVE Promise!Next \/ UNCHANGED Promise!vars
  OBVIOUS
<1>0. /\ ready \in [Loops -> Seq(Callbacks)] /\ item \in [Threads -> Items \cup {None}]
      /\ ran \in [Items -> Outcomes \cup {"none"}] /\ future \in [Items -> FutureStates]
  BY DEF IInv, TypeOK
<1> USE DEF queueVars, futureVars, loopVars, threadVars, shutdownVars, workVars,
           Resolved, ThreadFrame, ShutdownFrame, Goto, LoopRuns
<1>1. ASSUME NEW i \in Items, Submit(i) PROVE Promise!Next
  BY <1>1 DEF Submit, Promise!Next, Promise!Submit
<1>2. ASSUME NEW i \in Items, Cancel(i) PROVE Promise!Next
  BY <1>2 DEF Cancel, Promise!Next, Promise!Cancel, Promise!Resolve
<1>3. ASSUME NEW l \in Loops, RunCallback(l) PROVE Promise!Next \/ UNCHANGED Promise!vars
  <2> DEFINE cb == Head(ready[l])
  <2>1. cb \in Callbacks /\ cb = ready[l][1] /\ 1 \in 1 .. Len(ready[l])
    BY <1>0, <1>3, ReadyTail, TailElements DEF RunCallback
  <2>2. /\ cb.item \in Items
        /\ cb.call = "set" => /\ ran[cb.item] = cb.outcome
                              /\ cb.outcome \in Outcomes
                              /\ LoopOf[cb.item] = l
    BY <2>1, CallbackFields DEF IInv, CallbackState
  <2>3. /\ UNCHANGED <<ran, shutdown_event, loop_closed>>
        /\ ~loop_closed[l]
        /\ \/ UNCHANGED future
           \/ /\ cb.call = "set"
              /\ future[cb.item] = "pending"
              /\ future' = [future EXCEPT ![cb.item] = cb.outcome]
    BY <1>3 DEF RunCallback, SetWorkitemResult, DiscardFuture
  <2> HIDE DEF cb
  <2>4. CASE UNCHANGED future
    BY <2>3, <2>4 DEF Promise!vars
  <2>5. CASE ~UNCHANGED future
    <3>1. Promise!Deliver(cb.item)
      BY <2>2, <2>3, <2>5 DEF Promise!Deliver, Promise!Resolve, Outcomes
    <3> QED BY <2>2, <3>1 DEF Promise!Next
  <2> QED BY <2>4, <2>5
<1>4. ASSUME NEW l \in Loops, CloseLoop(l) PROVE Promise!Next
  BY <1>4 DEF CloseLoop, Promise!Next, Promise!CloseLoop
<1>5. ASSUME NEW t \in Threads, ThreadFrame, Execute(t) PROVE Promise!Next
  <2>1. item[t] \in Items /\ ran[item[t]] = "none" /\ future[item[t]] # "none"
    BY <1>0, <1>5, ItemsAssumption DEF Execute, IInv, RunState, Holding
  <2>2. \E o \in Outcomes : Promise!Run(item[t], o)
    BY <1>5, <2>1 DEF Execute, Promise!Run
  <2> QED BY <2>1, <2>2 DEF Promise!Next, Outcomes
<1>6. ASSUME NEW t \in Threads, ThreadFrame, Reject(t) PROVE Promise!Next \/ UNCHANGED Promise!vars
  <2>1. item[t] \in Items /\ loop_closed[LoopOf[item[t]]]
    BY <1>0, <1>6, ItemsAssumption DEF Reject, IInv, RunState, Holding
  <2>2. Promise!FailLoopClosed(item[t]) \/ UNCHANGED Promise!vars
    BY <1>6, <2>1 DEF Reject, Promise!FailLoopClosed, Promise!Resolve, Promise!vars
  <2> QED BY <2>1, <2>2 DEF Promise!Next
<1>7. CASE SetPoolClosed /\ ShutdownFrame
  <2>1. sd_future \in Items /\ shutdown_event
    BY <1>7 DEF SetPoolClosed, IInv, ShutdownState
  <2>2. Promise!FailClosed(sd_future) \/ UNCHANGED Promise!vars
    BY <1>7, <2>1 DEF SetPoolClosed, Promise!FailClosed, Promise!Resolve, Promise!vars
  <2> QED BY <2>1, <2>2 DEF Promise!Next
<1>8. CASE SetShutdownEvent /\ ShutdownFrame
  <2>1. Promise!ShutDown \/ UNCHANGED Promise!vars
    BY <1>8 DEF SetShutdownEvent, Promise!ShutDown, Promise!vars, IInv, TypeOK
  <2> QED BY <2>1 DEF Promise!Next
<1>9. ASSUME NEW t \in Threads, ThreadFrame,
             \/ LoopTest(t) \/ GetTest(t) \/ Take(t) \/ PutBack(t) \/ CallTest(t)
             \/ ClosedTest(t) \/ Post(t)
      PROVE  UNCHANGED Promise!vars
  BY <1>9 DEF LoopTest, GetTest, Take, AfterGet, PutBack, WithPill, CallTest, ClosedTest,
      LoopIsClosed, OpenLabel, Post, WithResult, Promise!vars
<1>10. CASE \/ \E by \in Callers, wait \in BOOLEAN : Shutdown(by, wait)
            \/ (CloseChannel \/ PutPill \/ WhileFutures \/ PopFuture
                \/ DoneTest \/ EndWait(TRUE)) /\ ShutdownFrame
            \/ ShutdownTimeout \/ Del \/ UNCHANGED vars
  BY <1>10 DEF Shutdown, CloseChannel, PutPill, WhileFutures, WhileLabel, PopFuture,
      DoneTest,
               ShutdownTimeout, EndWait, Del, vars, Promise!vars
<1> QED BY <1>1, <1>2, <1>3, <1>4, <1>5, <1>6, <1>7, <1>8, <1>9, <1>10
        DEF Next, LoopStep, Thread, ShutdownStep

\* The pool implements the promise of an executor.
THEOREM Refinement == Spec => KeepsPromise
BY PromiseInit, PromiseStep, Invariance, PTL DEF Spec, Promise!Spec, KeepsPromise

\* A resolved future keeps its outcome.
THEOREM ResolvedForever == Spec => FutureFinal
<1>1. IInv /\ [Next]_vars =>
        [\A i \in Items : future[i] \notin {"none", "pending"} => future'[i] = future[i]]_vars
  <2> SUFFICES ASSUME IInv, Promise!Next \/ UNCHANGED Promise!vars, NEW i \in Items,
                      future[i] \notin {"none", "pending"}
               PROVE  future'[i] = future[i]
    BY PromiseStep
  <2>1. future \in [Items -> FutureStates]
    BY DEF IInv, TypeOK
  <2> QED BY <2>1 DEF Promise!Next, Promise!vars, Promise!Submit, Promise!Run,
      Promise!Deliver,
             Promise!Cancel, Promise!FailClosed, Promise!FailLoopClosed, Promise!Resolve,
             Promise!ShutDown, Promise!CloseLoop
<1> QED BY <1>1, Invariance, PTL DEF Spec, FutureFinal
-----------------------------------------------------------------------------
\* Where the work of item i is.
Placed(i) == Queued(i) \/ Held(i) \/ Posted(i)

\* The callback that carries item i's outcome is still queued after a step that
\* only takes another callback, or appends one.
LEMMA PostedStays ==
    ASSUME TypeOK, NEW i \in Items, Posted(i), ran'[i] = ran[i], NEW l \in Loops,
           NEW x \in Callbacks,
           \/ ready' = ready
           \/ ready' = [ready EXCEPT ![l] = Append(ready[l], x)]
           \/ /\ ready[l] # <<>> /\ Head(ready[l]) # Callback(i, ran[i])
              /\ \/ ready' = [ready EXCEPT ![l] = Tail(ready[l])]
                 \/ ready' = [ready EXCEPT ![l] = Append(Tail(ready[l]), x)]
    PROVE  Posted(i)'
<1> DEFINE m == LoopOf[i]
           cb == Callback(i, ran[i])
<1>0. m \in Loops /\ ready \in [Loops -> Seq(Callbacks)] /\ Callback(i, ran'[i]) = cb
  BY LoopOfType DEF TypeOK
<1> PICK k \in 1 .. Len(ready[m]) : ready[m][k] = cb
  BY DEF Posted
<1> SUFFICES \E n \in 1 .. Len(ready'[m]) : ready'[m][n] = cb
  BY <1>0 DEF Posted
<1> HIDE DEF m, cb
<1>1. CASE l # m \/ ready' = ready
  BY <1>0, <1>1
<1>2. CASE l = m /\ ready' = [ready EXCEPT ![l] = Append(ready[l], x)]
  <2>1. ready'[m] = Append(ready[m], x) /\ ready[m] \in Seq(Callbacks)
    BY <1>0, <1>2
  <2> QED BY <2>1, AppendElements
<1>3. CASE l = m /\ ready[l] # <<>> /\ Head(ready[l]) # cb
  <2>1. ready[m] \in Seq(Callbacks) /\ ready[m] # <<>> /\ Tail(ready[m]) \in Seq(Callbacks)
    BY <1>0, <1>3
  <2>2. k # 1 /\ Len(Tail(ready[m])) = Len(ready[m]) - 1 /\ Len(ready[m]) \in Nat
    BY <1>3, <2>1, TailElements
  <2>3. k - 1 \in 1 .. Len(Tail(ready[m])) /\ Tail(ready[m])[k - 1] = cb
    BY <2>1, <2>2, TailElements
  <2>4. CASE ready' = [ready EXCEPT ![l] = Tail(ready[l])]
    BY <1>0, <1>3, <2>3, <2>4
  <2>5. CASE ready' = [ready EXCEPT ![l] = Append(Tail(ready[l]), x)]
    <3>1. ready'[m] = Append(Tail(ready[m]), x)
      BY <1>0, <1>3, <2>5
    <3>2. \A n \in 1 .. Len(Tail(ready[m])) : Append(Tail(ready[m]), x)[n] = Tail(ready[m])[n]
      BY <2>1, AppendElements
    <3>3. Len(Append(Tail(ready[m]), x)) = Len(Tail(ready[m])) + 1
      BY <2>1, AppendElements
    <3>4. k - 1 \in 1 .. Len(ready'[m]) /\ ready'[m][k - 1] = cb
      BY <2>1, <2>2, <2>3, <3>1, <3>2, <3>3
    <3> QED BY <3>4
  <2>6. CASE ready' = [ready EXCEPT ![l] = Append(ready[l], x)]
    BY <1>2, <1>3, <2>6
  <2> QED BY <1>1, <2>4, <2>5, <2>6 DEF cb
<1> QED BY <1>1, <1>2, <1>3 DEF cb

\* A queued item stays queued when something is appended to the channel.
LEMMA QueuedStays ==
    ASSUME TypeOK, NEW i \in Items, Queued(i), NEW x \in Items \cup {None},
           tasks' = tasks \/ tasks' = Append(tasks, x)
    PROVE  Queued(i)'
<1>1. tasks \in Seq(Items \cup {None})
  BY DEF TypeOK
<1> PICK k \in 1 .. Len(tasks) : tasks[k] = i
  BY DEF Queued
<1>2. k \in 1 .. Len(tasks') /\ tasks'[k] = i
  BY <1>1, AppendElements, SMTT(60)
<1> QED BY <1>2 DEF Queued

\* Every step leaves pending work in the channel, with a worker or with its loop (thread_pool.py).
LEMMA NoLostWorkStep == IInv /\ NoLostWork /\ [Next]_vars => NoLostWork'
<1> SUFFICES ASSUME IInv, NoLostWork, [Next]_vars, NEW i \in Items,
                    future'[i] = "pending", ~loop_closed'[LoopOf[i]]
             PROVE  Placed(i)'
  BY DEF NoLostWork, Placed
<1>0. /\ TypeOK
      /\ ready \in [Loops -> Seq(Callbacks)] /\ item \in [Threads -> Items \cup {None}]
      /\ ran \in [Items -> Outcomes \cup {"none"}] /\ future \in [Items -> FutureStates]
      /\ loop_closed \in [Loops -> BOOLEAN] /\ tasks \in Seq(Items \cup {None})
      /\ LoopOf[i] \in Loops
  BY LoopOfType DEF IInv, TypeOK
<1> USE DEF queueVars, futureVars, loopVars, threadVars, shutdownVars, workVars,
           Resolved, ThreadFrame, ShutdownFrame, Goto
<1>1. ASSUME NEW j \in Items, Submit(j) PROVE Placed(i)'
  <2>1. CASE i = j
    <3>1. Len(tasks) + 1 \in 1 .. Len(tasks') /\ tasks'[Len(tasks) + 1] = i
      BY <1>0, <1>1, <2>1, AppendElements DEF Submit
    <3> QED BY <3>1 DEF Placed, Queued
  <2>2. CASE i # j
    <3>1. Placed(i)
      BY <1>0, <1>1, <2>2 DEF Submit, NoLostWork, Placed
    <3>2. Queued(i) => Queued(i)'
      BY <1>0, <1>1, QueuedStays, SMTT(60) DEF Submit
    <3> QED BY <1>1, <3>1, <3>2 DEF Submit, Placed, Held, Posted
  <2> QED BY <2>1, <2>2
<1>2. ASSUME NEW j \in Items, Cancel(j) PROVE Placed(i)'
  <2>1. Placed(i)
    BY <1>0, <1>2, SMTT(60) DEF Cancel, NoLostWork, Placed
  <2>2. ready' = [ready EXCEPT ![LoopOf[j]] = Append(ready[LoopOf[j]], Discard(j))]
    BY <1>2 DEF Cancel
  <2>3. Discard(j) \in Callbacks /\ LoopOf[j] \in Loops
    BY CallbackTypes, LoopOfType DEF Outcomes
  <2>4. Posted(i) => Posted(i)'
    BY <1>0, <1>2, <2>2, <2>3, PostedStays DEF Cancel
  <2> QED BY <1>2, <2>1, <2>4 DEF Cancel, Placed, Held, Queued
<1>3. ASSUME NEW l \in Loops, RunCallback(l) PROVE Placed(i)'
  <2> DEFINE cb == Head(ready[l])
             d == Discard(cb.item)
  <2>1. cb \in Callbacks /\ ready[l] # <<>>
    BY <1>0, <1>3, ReadyTail, SMTT(60) DEF RunCallback
  <2>2. cb.item \in Items /\ d \in Callbacks
    BY <2>1, CallbackFields, CallbackTypes DEF Outcomes
  <2>3. /\ UNCHANGED <<tasks, item, ran, loop_closed>>
        /\ \/ ready' = [ready EXCEPT ![l] = Tail(ready[l])]
           \/ ready' = [ready EXCEPT ![l] = Append(Tail(ready[l]), d)]
    BY <1>3 DEF RunCallback, SetWorkitemResult, DiscardFuture
  <2>4. Placed(i) /\ cb # Callback(i, ran[i])
    <3>1. CASE cb.call = "set" /\ SetWorkitemResult(l, cb.item, cb.outcome)
      <4>1. cb.outcome \in Outcomes
        BY <2>1, <3>1, CallbackFields
      <4>2. future' = Resolved(cb.item, cb.outcome)
        BY <3>1 DEF SetWorkitemResult
      <4> HIDE DEF cb
      <4>3. future[i] = "pending" /\ cb.item # i
        BY <1>0, <2>2, <4>1, <4>2 DEF Outcomes
      <4>4. Placed(i)
        BY <2>3, <4>3 DEF NoLostWork, Placed
      <4>5. Callback(i, ran[i]).item = i
        BY DEF Callback
      <4> QED BY <4>3, <4>4, <4>5
    <3>2. CASE cb.call = "discard" /\ DiscardFuture(l, cb.item)
      <4>1. future' = future /\ loop_closed' = loop_closed
        BY <1>3, <2>3, <3>2 DEF DiscardFuture
      <4>2. Placed(i)
        BY <4>1 DEF NoLostWork, Placed
      <4> HIDE DEF cb
      <4>3. Callback(i, ran[i]).call = "set"
        BY DEF Callback
      <4> QED BY <3>2, <4>2, <4>3
    <3> QED BY <1>3, <3>1, <3>2 DEF RunCallback
  <2>5. Posted(i) => Posted(i)'
    <3> HIDE DEF cb, d
    <3>1. Head(ready[l]) # Callback(i, ran[i])
      BY <2>4, SMTT(60) DEF cb
    <3> QED BY <1>0, <2>1, <2>2, <2>3, <3>1, PostedStays
  <2> QED BY <2>3, <2>4, <2>5 DEF Placed, Held, Queued
<1>4. ASSUME NEW l \in Loops, CloseLoop(l) PROVE Placed(i)'
  <2>1. LoopOf[i] # l
    BY <1>0, <1>4 DEF CloseLoop
  <2>2. ready'[LoopOf[i]] = ready[LoopOf[i]] /\ ~loop_closed[LoopOf[i]]
    BY <1>0, <1>4, <2>1 DEF CloseLoop
  <2>3. Placed(i)
    BY <1>4, <2>2 DEF CloseLoop, NoLostWork, Placed
  <2> QED BY <1>4, <2>2, <2>3 DEF CloseLoop, Placed, Held, Queued, Posted
<1>5. ASSUME NEW t \in Threads, ThreadFrame, Take(t) PROVE Placed(i)'
  <2>1. Placed(i) /\ item[t] = None
    BY <1>5, ItemsAssumption DEF Take, AfterGet, NoLostWork, Placed, IInv, RunState, Holding
  <2>2. CASE Queued(i)
    <3> PICK k \in 1 .. Len(tasks) : tasks[k] = i
      BY <2>2 DEF Queued
    <3>1. CASE k = 1
      <4>1. item'[t] = i
        BY <1>0, <1>5, <3>1, TailElements, ItemsAssumption DEF Take, AfterGet
      <4> QED BY <4>1 DEF Placed, Held
    <3>2. CASE k # 1
      <4>1. k - 1 \in 1 .. Len(tasks') /\ tasks'[k - 1] = i
        BY <1>0, <1>5, <3>2, TailElements DEF Take, AfterGet
      <4> QED BY <4>1 DEF Placed, Queued
    <3> QED BY <3>1, <3>2
  <2>3. CASE Held(i)
    <3> PICK s \in Threads : item[s] = i
      BY <2>3 DEF Held
    <3>1. item'[s] = i
      BY <1>0, <1>5, <2>1, ItemsAssumption, SMTT(60) DEF Take, AfterGet
    <3> QED BY <3>1 DEF Placed, Held
  <2>4. CASE Posted(i)
    <3>1. UNCHANGED <<ready, ran>>
      BY <1>5 DEF Take, AfterGet
    <3>2. Posted(i)'
      BY <2>4, <3>1 DEF Posted
    <3> QED BY <3>2 DEF Placed
  <2>5. Queued(i) \/ Held(i) \/ Posted(i)
    BY <2>1 DEF Placed
  <2> QED BY <2>2, <2>3, <2>4, <2>5
<1>6. ASSUME UNCHANGED <<item, ready, ran, loop_closed>>,
             tasks' = tasks \/ tasks' = Append(tasks, None), future[i] = "pending"
      PROVE  Placed(i)'
  <2>1. Placed(i)
    BY <1>6 DEF NoLostWork, Placed
  <2>2. Queued(i) => Queued(i)'
    BY <1>0, <1>6, QueuedStays
  <2> QED BY <1>6, <2>1, <2>2 DEF Placed, Held, Posted
<1>7. ASSUME NEW t \in Threads, ThreadFrame,
             LoopTest(t) \/ GetTest(t) \/ PutBack(t) \/ ClosedTest(t)
      PROVE  Placed(i)'
  BY <1>6, <1>7 DEF LoopTest, GetTest, PutBack, WithPill, ClosedTest, LoopIsClosed,
      OpenLabel
<1>8. ASSUME NEW t \in Threads, ThreadFrame, CallTest(t) \/ Reject(t) PROVE Placed(i)'
  <2>1. future[i] = "pending" /\ UNCHANGED <<tasks, ready, ran, loop_closed>>
    BY <1>0, <1>8 DEF CallTest, Reject, FutureStates
  <2>2. Held(i) => Held(i)'
    <3> SUFFICES ASSUME NEW s \in Threads, item[s] = i PROVE item'[s] = i
      BY DEF Held
    <3> QED BY <1>0, <1>8, <2>1 DEF CallTest, Reject
  <2> QED BY <2>1, <2>2 DEF NoLostWork, Placed, Queued, Posted
<1>9. ASSUME NEW t \in Threads, ThreadFrame, Execute(t) PROVE Placed(i)'
  <2>1. future[i] = "pending" /\ UNCHANGED <<tasks, item, ready, loop_closed>>
    BY <1>9 DEF Execute
  <2>2. CASE item[t] = i
    BY <2>1, <2>2 DEF Placed, Held
  <2>3. CASE item[t] # i
    <3>1. ran'[i] = ran[i]
      BY <1>0, <1>9, <2>3 DEF Execute
    <3> QED BY <2>1, <3>1 DEF NoLostWork, Placed, Held, Queued, Posted
  <2> QED BY <2>2, <2>3
<1>10. ASSUME NEW t \in Threads, ThreadFrame, Post(t) PROVE Placed(i)'
  <2> PICK j : j = item[t]
    OBVIOUS
  <2> PICK l : l = LoopOf[j]
    OBVIOUS
  <2> PICK cb : cb = Callback(j, ran[j])
    OBVIOUS
  <2>1. j \in Items /\ ran[j] \in Outcomes
    <3>1. pc[t] = "post"
      BY <1>10 DEF Post
    <3>2. pc[t] \in Holding
      BY <3>1 DEF Holding
    <3>3. item[t] # None /\ ran[item[t]] # "none"
      BY <3>1, <3>2 DEF IInv, RunState
    <3> QED BY <1>0, <3>3
  <2>2. l \in Loops /\ cb \in Callbacks
    BY <2>1, CallbackTypes, LoopOfType, SMTT(30)
  <2>3. /\ future[i] = "pending" /\ UNCHANGED <<tasks, ran, loop_closed>>
        /\ ~loop_closed[LoopOf[i]]
        /\ IF loop_closed[l] THEN ready' = ready
           ELSE ready' = [ready EXCEPT ![l] = Append(ready[l], cb)]
        /\ item' = [item EXCEPT ![t] = None]
    <3>1. /\ UNCHANGED <<tasks, future, ran>> /\ item' = [item EXCEPT ![t] = None]
          /\ IF loop_closed[l] THEN ready' = ready ELSE ready' = WithResult(j)
      BY <1>10 DEF Post
    <3>2. WithResult(j) = [ready EXCEPT ![l] = Append(ready[l], cb)]
      BY DEF WithResult
    <3>3. UNCHANGED loop_closed
      BY <1>10 DEF ThreadFrame
    <3>4. future[i] = "pending" /\ ~loop_closed[LoopOf[i]]
      BY <3>1, <3>3
    <3> QED BY <3>1, <3>2, <3>3, <3>4
  <2>4. CASE i = j
    <3>1. ready'[l] = Append(ready[l], cb) /\ ready[l] \in Seq(Callbacks)
      BY <1>0, <2>2, <2>3, <2>4
    <3>2. Len(ready[l]) + 1 \in 1 .. Len(ready'[l]) /\ ready'[l][Len(ready[l]) + 1] = cb
      BY <2>2, <3>1, AppendElements, SMTT(60)
    <3>3. cb = Callback(i, ran'[i]) /\ l = LoopOf[i]
      BY <2>3, <2>4
    <3> QED BY <3>2, <3>3 DEF Placed, Posted
  <2>5. CASE i # j
    <3>1. Held(i) => Held(i)'
      BY <1>0, <2>3, <2>5 DEF Held
    <3>2. ran'[i] = ran[i]
      BY <2>3
    <3>3. ready' = ready \/ ready' = [ready EXCEPT ![l] = Append(ready[l], cb)]
      BY <2>3
    <3>4. Posted(i) => Posted(i)'
      BY <1>0, <2>2, <3>2, <3>3, PostedStays
    <3>5. Queued(i) => Queued(i)'
      BY <2>3 DEF Queued
    <3>6. Placed(i)
      BY <2>3 DEF NoLostWork, Placed
    <3> QED BY <3>1, <3>4, <3>5, <3>6 DEF Placed
  <2> QED BY <2>4, <2>5
<1>11. CASE SetPoolClosed /\ ShutdownFrame
  <2>1. future[i] = "pending"
    BY <1>0, <1>11, SMTT(60) DEF SetPoolClosed, IInv, ShutdownState
  <2> QED BY <1>6, <1>11, <2>1 DEF SetPoolClosed
<1>12. CASE \/ \E by \in Callers, wait \in BOOLEAN : Shutdown(by, wait)
            \/ (SetShutdownEvent \/ CloseChannel \/ PutPill \/ WhileFutures \/ PopFuture
                \/ DoneTest \/ EndWait(TRUE)) /\ ShutdownFrame
            \/ ShutdownTimeout \/ Del \/ UNCHANGED vars
  BY <1>6, <1>12 DEF Shutdown, SetShutdownEvent, CloseChannel, PutPill, WhileFutures,
      WhileLabel,
     PopFuture, DoneTest, EndWait, ShutdownTimeout, Del, vars
<1> QED BY <1>1, <1>2, <1>3, <1>4, <1>5, <1>7, <1>8, <1>9, <1>10, <1>11, <1>12
        DEF Next, LoopStep, Thread, ShutdownStep

\* Work is never lost: the item of a pending future whose loop is open is in the
\* channel, in a thread's hands, or among its loop's callbacks.
THEOREM WorkNeverLost == Spec => []NoLostWork
<1>1. Init => NoLostWork
  BY DEF Init, NoLostWork
<1> QED BY <1>1, NoLostWorkStep, Invariance, PTL DEF Spec
=============================================================================

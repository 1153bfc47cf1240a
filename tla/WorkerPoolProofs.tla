-------------------------- MODULE WorkerPoolProofs --------------------------
(***************************************************************************)
(* Theorems about WorkerPool, for every number of calls, workers, deaths   *)
(* and cancellations: the pool keeps the promise of RemoteCalls, and       *)
(* without a signal that comes late a call is given its own answer.        *)
(***************************************************************************)
EXTENDS WorkerPool, TLAPS

\* What a socket holds, and that no call is in it twice.
Elems(s) == {s[k] : k \in 1 .. Len(s)}
Distinct(s) == \A j, k \in 1 .. Len(s) : s[j] = s[k] /\ s[j] \in Calls => j = k

Answers == Calls \cup {"cancelled"}

TypeOK ==
    /\ pc \in [Calls -> {"idle", "put", "queued", "wait", "done"}]
    /\ process_future \in [Calls -> Processes \cup {Pending, "cancelled", "initializer"}]
    /\ result_future \in [Calls -> Calls \cup Failures \cup {Pending}]
    /\ outcome \in [Calls -> Calls \cup Failures \cup {Pending}]
    /\ tasks \in Seq(Calls)
    /\ handler \in [Processes -> {"none", "auth", "get", "reply", "closed"}]
    /\ job \in [Processes -> Calls \cup {Pending}]
    /\ worker \in [Processes -> {"none", "connect", "auth", "receive", "run", "sent", "zero", "failed"}]
    /\ request \in [Processes -> Seq(Calls)]
    /\ running \in [Processes -> Calls \cup {Pending}]
    /\ replies \in [Processes -> Seq(Answers)]
    /\ ran \in [Calls -> {0, 1}]

\* A handler that waits for an answer knows for which call, and a process that runs a
\* function knows of which call.
Busy ==
    \A p \in Processes :
        /\ handler[p] = "reply" => job[p] \in Calls
        /\ worker[p] = "run" => running[p] \in Calls

\* Only calls that were made are in the queue or with a process.
Begun ==
    /\ \A i \in Elems(tasks) : pc[i] # "idle"
    /\ \A i \in Calls : process_future[i] # Pending => pc[i] # "idle"

\* A call is sent to one process, once, and its function has not run before.
SentOnce ==
    \A p \in Processes :
        /\ \A i \in Elems(request[p]) : process_future[i] = p /\ ran[i] = 0
        /\ Distinct(request[p])

\* The answer of a function that was started is in one place: still to come, in the
\* socket of its process, or in the future of one call.
AnsweredOnce ==
    /\ \A p \in Processes :
        /\ \A i \in Calls : running[p] = i \/ i \in Elems(replies[p]) =>
              process_future[i] = p /\ ran[i] = 1
        /\ running[p] \notin Elems(replies[p])
        /\ Distinct(replies[p])
    /\ \A i, j \in Calls : result_future[i] = j =>
        /\ \A p \in Processes : running[p] # j /\ j \notin Elems(replies[p])
        /\ \A k \in Calls : result_future[k] = j => k = i
    /\ \A i, j \in Calls : ran[j] = 1 \/ result_future[i] = j => ran[j] = 1 /\ process_future[j] # Pending

\* A call ends once, with what its future holds or a failure.
Ended ==
    \A i \in Calls :
        /\ outcome[i] \in Calls => result_future[i] = outcome[i]
        /\ pc[i] # "done" => outcome[i] = Pending

WInv == TypeOK /\ Busy /\ Begun /\ SentOnce /\ AnsweredOnce /\ Ended

\* A packet put at the end of a socket, or a call at the end of the queue.
LEMMA AppendFacts ==
    ASSUME NEW S, NEW s \in Seq(S), NEW x \in S
    PROVE  /\ Append(s, x) \in Seq(S) /\ Append(s, x) # <<>>
           /\ Elems(Append(s, x)) = Elems(s) \cup {x}
           /\ Distinct(s) /\ (x \in Calls => x \notin Elems(s)) => Distinct(Append(s, x))
<1>1. /\ Append(s, x) \in Seq(S) /\ Len(Append(s, x)) = Len(s) + 1
      /\ Append(s, x)[Len(s) + 1] = x /\ \A k \in 1 .. Len(s) : Append(s, x)[k] = s[k]
  OBVIOUS
<1>2. Len(s) \in Nat
  OBVIOUS
<1>3. Elems(Append(s, x)) = Elems(s) \cup {x}
  <2>1. \A y \in Elems(Append(s, x)) : y \in Elems(s) \cup {x}
    BY <1>1, <1>2 DEF Elems
  <2>2. \A y \in Elems(s) \cup {x} : y \in Elems(Append(s, x))
    BY <1>1, <1>2 DEF Elems
  <2> QED BY <2>1, <2>2
<1>4. ASSUME Distinct(s), x \in Calls => x \notin Elems(s) PROVE Distinct(Append(s, x))
  BY <1>1, <1>2, <1>4 DEF Elems, Distinct
<1>5. Append(s, x) # <<>>
  BY <1>1, <1>2
<1> QED BY <1>1, <1>3, <1>4, <1>5

\* The first one taken.
LEMMA TailFacts ==
    ASSUME NEW S, NEW s \in Seq(S), s # <<>>
    PROVE  /\ Tail(s) \in Seq(S) /\ Head(s) \in S
           /\ Elems(s) = Elems(Tail(s)) \cup {Head(s)}
           /\ Distinct(s) => Distinct(Tail(s)) /\ (Head(s) \in Calls => Head(s) \notin Elems(Tail(s)))
<1>1. /\ Tail(s) \in Seq(S) /\ Len(Tail(s)) = Len(s) - 1 /\ Head(s) = s[1] /\ Head(s) \in S
      /\ \A k \in 1 .. Len(s) - 1 : Tail(s)[k] = s[k + 1]
  OBVIOUS
<1>2. Len(s) \in Nat /\ Len(s) >= 1
  OBVIOUS
<1>3. Elems(s) = Elems(Tail(s)) \cup {Head(s)}
  <2>1. \A y \in Elems(s) : y \in Elems(Tail(s)) \cup {Head(s)}
    <3> SUFFICES ASSUME NEW k \in 1 .. Len(s) PROVE s[k] \in Elems(Tail(s)) \cup {Head(s)}
      BY DEF Elems
    <3>1. CASE k = 1
      BY <3>1, <1>1
    <3>2. CASE k # 1
      <4>1. k - 1 \in 1 .. Len(Tail(s)) /\ Tail(s)[k - 1] = s[k]
        BY <3>2, <1>1, <1>2
      <4> QED BY <4>1 DEF Elems
    <3> QED BY <3>1, <3>2
  <2>2. \A y \in Elems(Tail(s)) \cup {Head(s)} : y \in Elems(s)
    BY <1>1, <1>2 DEF Elems
  <2> QED BY <2>1, <2>2
<1>4. ASSUME Distinct(s)
      PROVE  Distinct(Tail(s)) /\ (Head(s) \in Calls => Head(s) \notin Elems(Tail(s)))
  <2>1. Distinct(Tail(s))
    BY <1>1, <1>2, <1>4 DEF Distinct
  <2>2. \A k \in 1 .. Len(Tail(s)) : Head(s) \in Calls => Tail(s)[k] # Head(s)
    BY <1>1, <1>2, <1>4 DEF Distinct
  <2> QED BY <2>1, <2>2 DEF Elems
<1> QED BY <1>1, <1>3, <1>4

\* A new pool: nothing is queued, sent or answered.
LEMMA InitWInv == Init => WInv
<1> SUFFICES ASSUME Init PROVE WInv
  OBVIOUS
<1>1. Elems(<<>>) = {} /\ Distinct(<<>>)
  BY DEF Elems, Distinct
<1>2. TypeOK
  BY DEF Init, TypeOK
<1>3. Busy /\ Begun /\ Ended
  BY <1>1, PoolAssumption DEF Init, Busy, Begun, Ended
<1>4. SentOnce
  BY <1>1 DEF Init, SentOnce
<1>5. AnsweredOnce
  BY <1>1, PoolAssumption DEF Init, AnsweredOnce
<1> QED BY <1>2, <1>3, <1>4, <1>5 DEF WInv

\* The variables stay in their sets.
LEMMA TypeStep == WInv /\ [Next]_vars => TypeOK'
<1> SUFFICES ASSUME WInv, [Next]_vars PROVE TypeOK'
  OBVIOUS
<1> USE DEF TypeOK
<1>0. TypeOK /\ Busy
  BY DEF WInv
<1>1. ASSUME NEW i \in Calls, Put(i) PROVE TypeOK'
  <2>1. Append(tasks, i) \in Seq(Calls)
    BY <1>0
  <2> QED BY <1>0, <1>1, <2>1, Zenon DEF Put, pool, workers
<1>2. ASSUME NEW i \in Calls, Cancel(i) PROVE TypeOK'
  BY <1>0, <1>2 DEF Cancel, pool, workers, Failures
<1>3. ASSUME NEW i \in Calls, PutCancelled(i) PROVE TypeOK'
  BY <1>0, <1>3 DEF PutCancelled, Raise, pool, workers, Failures
<1>4. ASSUME NEW i \in Calls, Assigned(i) PROVE TypeOK'
  <2>1. process_future[i] \in Processes \/ process_future[i] \in Failures
    BY <1>0, <1>4 DEF Assigned, Failures
  <2>2. outcome' \in [Calls -> Calls \cup Failures \cup {Pending}]
    BY <1>0, <1>4, <2>1, Zenon DEF Assigned, Raise, Failures
  <2>3. \E s \in {"wait", "done"} : pc' = [pc EXCEPT ![i] = s]
    BY <1>4 DEF Assigned, Raise
  <2> QED BY <1>0, <1>4, <2>2, <2>3 DEF Assigned, pool, workers
<1>5. ASSUME NEW i \in Calls, Return(i) PROVE TypeOK'
  BY <1>0, <1>5 DEF Return, Raise, pool, workers
<1>6. ASSUME NEW i \in Calls, Kill(i) PROVE TypeOK'
  BY <1>0, <1>6 DEF Kill, Raise, pool, Failures
<1>7. ASSUME NEW p \in Processes, Authorize(p) PROVE TypeOK'
  BY <1>0, <1>7 DEF Authorize, callers
<1>8. ASSUME NEW p \in Processes, GetDone(p) PROVE TypeOK'
  <2>1. Tail(tasks) \in Seq(Calls)
    BY <1>0, <1>8 DEF GetDone
  <2>2. handler' \in [Processes -> {"none", "auth", "get", "reply", "closed"}]
    BY <1>0, <1>8 DEF GetDone, Loop
  <2> QED BY <1>0, <1>8, <2>1, <2>2 DEF GetDone, workers
<1>9. ASSUME NEW p \in Processes, Send(p) PROVE TypeOK'
  <2>1. PICK i \in Calls : /\ Take(p, i)
                           /\ request' = [request EXCEPT ![p] = Append(@, i)]
                           /\ job' = [job EXCEPT ![p] = i]
    BY <1>9, Zenon DEF Send
  <2>2. Tail(tasks) \in Seq(Calls) /\ Append(request[p], i) \in Seq(Calls)
    BY <1>0, <2>1 DEF Take
  <2>3. request' \in [Processes -> Seq(Calls)]
    BY <1>0, <2>1, <2>2
  <2> QED BY <1>0, <1>9, <2>1, <2>2, <2>3 DEF Send, Take
<1>10. ASSUME NEW p \in Processes, SendFails(p) PROVE TypeOK'
  <2>1. PICK i \in Calls : /\ Take(p, i)
                           /\ result_future' = [result_future EXCEPT ![i] = "unpicklable"]
    BY <1>10, PoolAssumption, Zenon DEF SendFails
  <2>2. Tail(tasks) \in Seq(Calls)
    BY <1>0, <2>1 DEF Take
  <2> QED BY <1>0, <1>10, <2>1, <2>2 DEF SendFails, Take, workers, Failures
<1>11. ASSUME NEW p \in Processes, Receive(p) PROVE TypeOK'
  <2>1. Tail(replies[p]) \in Seq(Answers) /\ Head(replies[p]) \in Answers
    BY <1>0, <1>11, TailFacts DEF Receive
  <2>2. replies' \in [Processes -> Seq(Answers)]
    BY <1>0, <1>11, <2>1 DEF Receive
  <2>3. result_future' \in [Calls -> Calls \cup Failures \cup {Pending}]
    BY <1>0, <1>11, <2>1, Zenon DEF Receive, Resolve, Answers, Failures
  <2>4. handler' \in [Processes -> {"none", "auth", "get", "reply", "closed"}]
    BY <1>0, <1>11 DEF Receive, Loop
  <2> QED BY <1>0, <1>11, <2>2, <2>3, <2>4 DEF Receive
<1>12. ASSUME NEW p \in Processes, Lost(p) PROVE TypeOK'
  BY <1>0, <1>12, Zenon DEF Lost, Resolve, workers, Failures
<1>13. CASE Close
  BY <1>0, <1>13 DEF Close, callers, workers
<1>14. CASE BadInitializer
  BY <1>0, <1>14 DEF BadInitializer, Reject, workers, Failures
<1>15. CASE CloseHandlers
  BY <1>0, <1>15 DEF CloseHandlers, callers, workers
<1>16. CASE CloseFutures
  BY <1>0, <1>16 DEF CloseFutures, Reject, workers, Failures
<1>17. ASSUME NEW p \in Processes, Connect(p) PROVE TypeOK'
  BY <1>0, <1>17 DEF Connect, Become, callers
<1>18. ASSUME NEW p \in Processes, Disconnected(p) PROVE TypeOK'
  BY <1>0, <1>18 DEF Disconnected, Become, callers, pool
<1>19. ASSUME NEW p \in Processes, Execute(p) PROVE TypeOK'
  <2>1. Tail(request[p]) \in Seq(Calls) /\ Head(request[p]) \in Calls
    BY <1>0, <1>19, TailFacts DEF Execute
  <2>2. request' \in [Processes -> Seq(Calls)]
    BY <1>0, <1>19, <2>1 DEF Execute
  <2>3. Head(request[p]) \in Elems(request[p])
    BY <1>0, <1>19, TailFacts DEF Execute
  <2>4. ran' \in [Calls -> {0, 1}]
    BY <1>0, <1>19, <2>1, <2>3 DEF Execute, WInv, SentOnce
  <2> QED BY <1>0, <1>19, <2>1, <2>2, <2>4 DEF Execute, Become, callers, pool
<1>20. ASSUME NEW p \in Processes, Answer(p) PROVE TypeOK'
  <2>1. Append(replies[p], running[p]) \in Seq(Answers)
    BY <1>0, <1>20, AppendFacts DEF Answer, Busy, Answers
  <2>2. replies' \in [Processes -> Seq(Answers)]
    BY <1>0, <1>20, <2>1 DEF Answer, Reply
  <2> QED BY <1>0, <1>20, <2>2 DEF Answer, Reply, Become, callers, pool
<1>21. ASSUME NEW p \in Processes, Answered(p) PROVE TypeOK'
  BY <1>0, <1>21 DEF Answered, Become, callers, pool
<1>22. ASSUME NEW p \in Processes, Signal(p) PROVE TypeOK'
  <2>1. Append(replies[p], "cancelled") \in Seq(Answers)
    BY <1>0, AppendFacts DEF Answers
  <2>2. replies' \in [Processes -> Seq(Answers)]
    BY <1>0, <1>22, <2>1, Zenon DEF Signal, Reply
  <2>3. running' \in [Processes -> Calls \cup {Pending}]
    BY <1>0, <1>22, Zenon DEF Signal, Reply
  <2>4. \E w \in {"receive", "failed"} : worker' = [worker EXCEPT ![p] = w]
    BY <1>22 DEF Signal, Become
  <2> QED BY <1>0, <1>22, <2>2, <2>3, <2>4 DEF Signal, callers, pool
<1>23. ASSUME NEW p \in Processes, Die(p) PROVE TypeOK'
  BY <1>0, <1>23 DEF Die, Become, callers, pool
<1>24. ASSUME NEW p \in Processes, Exit(p) PROVE TypeOK'
  BY <1>0, <1>24 DEF Exit, Become, callers, pool
<1>25. CASE ForkAll
  BY <1>0, <1>25 DEF ForkAll, Fork, callers, pool
<1>26. ASSUME NEW p \in Processes, Wait(p) PROVE TypeOK'
  BY <1>0, <1>26 DEF Wait, Fork, callers, pool
<1>27. CASE NoChildren
  BY <1>0, <1>27 DEF NoChildren, callers, pool, workers
<1>28. CASE Interrupt
  BY <1>0, <1>28 DEF Interrupt, callers, pool
<1>29. CASE UNCHANGED vars
  BY <1>0, <1>29 DEF vars, callers, pool, workers
<1> QED
  BY <1>1, <1>2, <1>3, <1>4, <1>5, <1>6, <1>7, <1>8, <1>9, <1>10, <1>11, <1>12, <1>13, <1>14,
     <1>15, <1>16, <1>17, <1>18, <1>19, <1>20, <1>21, <1>22, <1>23, <1>24, <1>25, <1>26, <1>27,
     <1>28, <1>29, Zenon
     DEF Next, CallerStep, HandlerStep, WorkerStep, CloseStep, SupervisorStep

\* The steps that touch no socket, no future and no function.
LEMMA Aside ==
    [Next]_vars =>
      \/ UNCHANGED <<process_future, result_future, request, running, replies, ran>>
      \/ \E i \in Calls : Cancel(i)
      \/ \E p \in Processes :
            \/ Send(p) \/ SendFails(p) \/ Receive(p) \/ Lost(p)
            \/ Execute(p) \/ Answer(p) \/ Signal(p)
      \/ BadInitializer \/ CloseFutures
<1> SUFFICES ASSUME [Next]_vars,
                    ~\E i \in Calls : Cancel(i),
                    ~\E p \in Processes : \/ Send(p) \/ SendFails(p) \/ Receive(p) \/ Lost(p)
                                          \/ Execute(p) \/ Answer(p) \/ Signal(p),
                    ~BadInitializer, ~CloseFutures
             PROVE  UNCHANGED <<process_future, result_future, request, running, replies, ran>>
  OBVIOUS
<1>1. ASSUME NEW i \in Calls, Put(i) \/ CallerStep(i)
      PROVE  UNCHANGED <<process_future, result_future, request, running, replies, ran>>
  BY <1>1 DEF CallerStep, Put, Assigned, Return, Kill, PutCancelled, workers
<1>2. ASSUME NEW p \in Processes, Authorize(p) \/ GetDone(p)
      PROVE  UNCHANGED <<process_future, result_future, request, running, replies, ran>>
  BY <1>2 DEF Authorize, GetDone, callers, workers
<1>3. ASSUME NEW p \in Processes, Connect(p) \/ Disconnected(p) \/ Answered(p) \/ Die(p) \/ Exit(p)
      PROVE  UNCHANGED <<process_future, result_future, request, running, replies, ran>>
  BY <1>3 DEF Connect, Disconnected, Answered, Die, Exit, callers, workers
<1>4. ASSUME Close \/ CloseHandlers
      PROVE  UNCHANGED <<process_future, result_future, request, running, replies, ran>>
  BY <1>4 DEF Close, CloseHandlers, callers, workers
<1>5. ASSUME SupervisorStep
      PROVE  UNCHANGED <<process_future, result_future, request, running, replies, ran>>
  BY <1>5, Zenon DEF SupervisorStep, ForkAll, Wait, NoChildren, Interrupt, callers, workers
<1>6. ASSUME UNCHANGED vars
      PROVE  UNCHANGED <<process_future, result_future, request, running, replies, ran>>
  BY <1>6 DEF vars, callers, workers
<1> QED BY <1>1, <1>2, <1>3, <1>4, <1>5, <1>6 DEF Next, HandlerStep, WorkerStep, CloseStep

\* Futures that are settled without an answer: a cancellation, a failure, close().
LEMMA SettledStep ==
    ASSUME WInv, UNCHANGED <<request, running, replies, ran>>,
           \A i \in Calls : \/ process_future'[i] = process_future[i]
                            \/ process_future[i] = Pending /\ process_future'[i] # Pending,
           \A i \in Calls : result_future'[i] = result_future[i] \/ result_future'[i] \notin Calls
    PROVE  SentOnce' /\ AnsweredOnce'
<1>0. TypeOK /\ SentOnce /\ AnsweredOnce
  BY DEF WInv
<1>1. \A p \in Processes : Elems(request[p]) \subseteq Calls
  BY <1>0 DEF TypeOK, Elems
<1>2. \A p \in Processes : p # Pending
  BY PoolAssumption
<1>3. SentOnce'
  BY <1>0, <1>1, <1>2 DEF SentOnce
<1>4. AnsweredOnce'
  BY <1>0, <1>2 DEF AnsweredOnce
<1> QED BY <1>3, <1>4

\* A call is sent once, its function runs once and its answer goes to one call.
LEMMA OnceStep == WInv /\ [Next]_vars => SentOnce' /\ AnsweredOnce'
<1> SUFFICES ASSUME WInv, [Next]_vars PROVE SentOnce' /\ AnsweredOnce'
  OBVIOUS
<1>0. TypeOK /\ Busy /\ SentOnce /\ AnsweredOnce
  BY DEF WInv
<1>P. \A p \in Processes : p # Pending
  BY PoolAssumption
<1>F. /\ Failures \cap Calls = {} /\ Pending \notin Calls /\ Pending \notin Failures
      /\ {"cancelled", "died", "unpicklable", "initializer"} \subseteq Failures
  BY PoolAssumption DEF Failures
<1>R. \A p \in Processes : Elems(request[p]) \subseteq Calls
  BY <1>0 DEF TypeOK, Elems
<1>A. \A p \in Processes : Elems(replies[p]) \subseteq Answers
  BY <1>0 DEF TypeOK, Elems
<1>1. CASE UNCHANGED <<process_future, result_future, request, running, replies, ran>>
  BY <1>1, SettledStep
<1>2. ASSUME NEW i \in Calls, Cancel(i) PROVE SentOnce' /\ AnsweredOnce'
  <2>1. UNCHANGED <<request, running, replies, ran>>
    BY <1>2 DEF Cancel, workers
  <2>2. \A j \in Calls : \/ process_future'[j] = process_future[j]
                         \/ process_future[j] = Pending /\ process_future'[j] # Pending
    BY <1>0, <1>2, <1>F DEF Cancel, TypeOK
  <2>3. \A j \in Calls : result_future'[j] = result_future[j] \/ result_future'[j] \notin Calls
    BY <1>0, <1>2, <1>F DEF Cancel, TypeOK
  <2> QED BY <2>1, <2>2, <2>3, SettledStep
<1>3. ASSUME NEW p \in Processes, Send(p) PROVE SentOnce' /\ AnsweredOnce'
  <2>1. PICK i \in Calls : /\ Take(p, i)
                           /\ request' = [request EXCEPT ![p] = Append(@, i)]
    BY <1>3, Zenon DEF Send
  <2>2. /\ process_future[i] = Pending /\ process_future' = [process_future EXCEPT ![i] = p]
        /\ UNCHANGED <<result_future, running, replies, ran>>
    BY <1>3, <2>1 DEF Send, Take
  <2>3. /\ process_future'[i] = p
        /\ \A j \in Calls : j # i => process_future'[j] = process_future[j]
    BY <1>0, <2>2 DEF TypeOK
  <2>4. ran[i] = 0
    BY <1>0, <2>2 DEF AnsweredOnce, TypeOK
  <2>5. \A q \in Processes : i \notin Elems(request[q])
    BY <1>0, <1>P, <2>2 DEF SentOnce
  <2>6. request'[p] = Append(request[p], i) /\ \A q \in Processes : q # p => request'[q] = request[q]
    BY <1>0, <2>1 DEF TypeOK
  <2>7. Elems(request'[p]) = Elems(request[p]) \cup {i} /\ Distinct(request'[p])
    <3>1. request[p] \in Seq(Calls) /\ Distinct(request[p])
      BY <1>0 DEF TypeOK, SentOnce
    <3> QED BY <3>1, <2>5, <2>6, AppendFacts
  <2>8. SentOnce'
    <3> SUFFICES ASSUME NEW q \in Processes
                 PROVE  /\ \A j \in Elems(request'[q]) : process_future'[j] = q /\ ran'[j] = 0
                        /\ Distinct(request'[q])
      BY DEF SentOnce
    <3>1. CASE q = p
      BY <3>1, <1>0, <1>R, <2>2, <2>3, <2>4, <2>5, <2>7 DEF SentOnce
    <3>2. CASE q # p
      BY <3>2, <1>0, <1>R, <2>2, <2>3, <2>5, <2>6 DEF SentOnce
    <3> QED BY <3>1, <3>2
  <2>9. AnsweredOnce'
    BY <1>0, <1>P, <2>2, <2>3, <2>4 DEF AnsweredOnce
  <2> QED BY <2>8, <2>9
<1>4. ASSUME NEW p \in Processes, SendFails(p) PROVE SentOnce' /\ AnsweredOnce'
  <2>1. PICK i \in Calls : /\ Take(p, i)
                           /\ result_future' = [result_future EXCEPT ![i] = "unpicklable"]
    BY <1>4, PoolAssumption, Zenon DEF SendFails
  <2>2. UNCHANGED <<request, running, replies, ran>>
    BY <1>4 DEF SendFails, workers
  <2>3. \A j \in Calls : \/ process_future'[j] = process_future[j]
                         \/ process_future[j] = Pending /\ process_future'[j] # Pending
    BY <1>0, <2>1, <1>P DEF Take, TypeOK
  <2>4. \A j \in Calls : result_future'[j] = result_future[j] \/ result_future'[j] \notin Calls
    BY <1>0, <2>1, <1>F DEF TypeOK
  <2> QED BY <2>2, <2>3, <2>4, SettledStep
<1>5. ASSUME NEW p \in Processes, Receive(p) PROVE SentOnce' /\ AnsweredOnce'
  <2> DEFINE x == Head(replies[p])
             i == job[p]
  <2>1. /\ replies[p] \in Seq(Answers) /\ replies[p] # <<>> /\ Distinct(replies[p])
        /\ UNCHANGED <<process_future, request, running, ran>> /\ i \in Calls
    BY <1>0, <1>5 DEF Receive, TypeOK, AnsweredOnce, Busy
  <2>2. replies'[p] = Tail(replies[p]) /\ \A q \in Processes : q # p => replies'[q] = replies[q]
    BY <1>0, <1>5 DEF Receive, TypeOK
  <2>3. /\ Elems(replies[p]) = Elems(replies'[p]) \cup {x} /\ Distinct(replies'[p])
        /\ x \in Calls => x \notin Elems(replies'[p])
    BY <2>1, <2>2, TailFacts
  <2>4. \A k \in Calls : result_future'[k] = result_future[k] \/ (k = i /\ result_future'[k] = x)
    BY <1>0, <1>5 DEF Receive, Resolve, TypeOK
  <2>5. SentOnce'
    BY <1>0, <2>1 DEF SentOnce
  <2>6. \A q \in Processes :
          /\ \A j \in Calls : running'[q] = j \/ j \in Elems(replies'[q]) =>
                process_future'[j] = q /\ ran'[j] = 1
          /\ running'[q] \notin Elems(replies'[q])
          /\ Distinct(replies'[q])
    BY <1>0, <2>1, <2>2, <2>3 DEF AnsweredOnce
  <2>7. x \in Calls => /\ ran[x] = 1 /\ process_future[x] = p
                       /\ \A q \in Processes : running[q] # x /\ x \notin Elems(replies'[q])
                       /\ \A k \in Calls : result_future[k] # x
    <3> SUFFICES ASSUME x \in Calls
                 PROVE  /\ ran[x] = 1 /\ process_future[x] = p
                        /\ \A q \in Processes : running[q] # x /\ x \notin Elems(replies'[q])
                        /\ \A k \in Calls : result_future[k] # x
      OBVIOUS
    <3>1. x \in Elems(replies[p])
      BY <2>3
    <3>2. /\ ran[x] = 1 /\ process_future[x] = p /\ running[p] # x
          /\ \A q \in Processes : running[q] = x \/ x \in Elems(replies[q]) => process_future[x] = q
          /\ \A k \in Calls : result_future[k] # x
      BY <1>0, <3>1 DEF AnsweredOnce
    <3> QED BY <2>2, <2>3, <3>2
  <2>8. \A k, j \in Calls : result_future'[k] = j =>
          /\ \A q \in Processes : running'[q] # j /\ j \notin Elems(replies'[q])
          /\ \A l \in Calls : result_future'[l] = j => l = k
    <3> SUFFICES ASSUME NEW k \in Calls, NEW j \in Calls, result_future'[k] = j
                 PROVE  /\ \A q \in Processes : running'[q] # j /\ j \notin Elems(replies'[q])
                        /\ \A l \in Calls : result_future'[l] = j => l = k
      OBVIOUS
    <3>1. CASE j = x
      BY <3>1, <2>1, <2>4, <2>7
    <3>2. CASE j # x
      BY <3>2, <1>0, <2>1, <2>2, <2>3, <2>4 DEF AnsweredOnce
    <3> QED BY <3>1, <3>2
  <2>9. \A k, j \in Calls : ran'[j] = 1 \/ result_future'[k] = j =>
          ran'[j] = 1 /\ process_future'[j] # Pending
    BY <1>0, <1>P, <2>1, <2>4, <2>7 DEF AnsweredOnce
  <2> QED BY <2>5, <2>6, <2>8, <2>9 DEF AnsweredOnce
<1>6. ASSUME NEW p \in Processes, Lost(p) PROVE SentOnce' /\ AnsweredOnce'
  <2>1. UNCHANGED <<process_future, request, running, replies, ran>>
    BY <1>6 DEF Lost, workers
  <2>2. \A j \in Calls : result_future'[j] = result_future[j] \/ result_future'[j] \notin Calls
    BY <1>0, <1>6, <1>F DEF Lost, Resolve, TypeOK
  <2> QED BY <2>1, <2>2, SettledStep
<1>7. ASSUME NEW p \in Processes, Execute(p) PROVE SentOnce' /\ AnsweredOnce'
  <2> DEFINE i == Head(request[p])
  <2>1. /\ request[p] \in Seq(Calls) /\ request[p] # <<>> /\ Distinct(request[p])
        /\ UNCHANGED <<process_future, result_future, replies>>
    BY <1>0, <1>7 DEF Execute, TypeOK, SentOnce, callers
  <2>2. request'[p] = Tail(request[p]) /\ \A q \in Processes : q # p => request'[q] = request[q]
    BY <1>0, <1>7 DEF Execute, TypeOK
  <2>3. /\ i \in Calls /\ Elems(request[p]) = Elems(request'[p]) \cup {i} /\ Distinct(request'[p])
        /\ i \notin Elems(request'[p])
    BY <2>1, <2>2, TailFacts
  <2>4. process_future[i] = p /\ ran[i] = 0
    BY <1>0, <2>3 DEF SentOnce
  <2>5. ran'[i] = 1 /\ \A j \in Calls : j # i => ran'[j] = ran[j]
    BY <1>0, <1>7, <2>3, <2>4 DEF Execute, TypeOK
  <2>6. running'[p] = i /\ \A q \in Processes : q # p => running'[q] = running[q]
    BY <1>0, <1>7 DEF Execute, TypeOK
  <2>7. SentOnce'
    <3> SUFFICES ASSUME NEW q \in Processes
                 PROVE  /\ \A j \in Elems(request'[q]) : process_future'[j] = q /\ ran'[j] = 0
                        /\ Distinct(request'[q])
      BY DEF SentOnce
    <3>1. CASE q = p
      BY <3>1, <1>0, <1>R, <2>1, <2>3, <2>5 DEF SentOnce
    <3>2. CASE q # p
      BY <3>2, <1>0, <1>R, <2>1, <2>2, <2>4, <2>5 DEF SentOnce
    <3> QED BY <3>1, <3>2
  <2>8. \A q \in Processes : i \notin Elems(replies[q])
    BY <1>0, <2>3, <2>4 DEF AnsweredOnce
  <2>9. \A k \in Calls : result_future[k] # i
    BY <1>0, <2>3, <2>4 DEF AnsweredOnce
  <2>10. AnsweredOnce'
    <3>1. \A q \in Processes :
          /\ \A j \in Calls : running'[q] = j \/ j \in Elems(replies'[q]) =>
                process_future'[j] = q /\ ran'[j] = 1
          /\ running'[q] \notin Elems(replies'[q])
          /\ Distinct(replies'[q])
      BY <1>0, <2>1, <2>4, <2>5, <2>6, <2>8 DEF AnsweredOnce
    <3>2. \A k, j \in Calls : result_future'[k] = j =>
          /\ \A q \in Processes : running'[q] # j /\ j \notin Elems(replies'[q])
          /\ \A l \in Calls : result_future'[l] = j => l = k
      BY <1>0, <2>1, <2>6, <2>9 DEF AnsweredOnce
    <3>3. \A k, j \in Calls : ran'[j] = 1 \/ result_future'[k] = j =>
          ran'[j] = 1 /\ process_future'[j] # Pending
      BY <1>0, <1>P, <2>1, <2>4, <2>5 DEF AnsweredOnce
    <3> QED BY <3>1, <3>2, <3>3 DEF AnsweredOnce
  <2> QED BY <2>7, <2>10
<1>8. ASSUME NEW p \in Processes, NEW answer \in Answers, Reply(p, answer),
             answer \in Calls => running[p] = answer,
             UNCHANGED <<process_future, result_future, request, ran>>
      PROVE  SentOnce' /\ AnsweredOnce'
  <2>1. replies'[p] = Append(replies[p], answer) /\ \A q \in Processes : q # p => replies'[q] = replies[q]
    BY <1>0, <1>8 DEF Reply, TypeOK
  <2>2. replies[p] \in Seq(Answers) /\ Distinct(replies[p])
    BY <1>0 DEF TypeOK, AnsweredOnce
  <2>3. answer \in Calls => answer \notin Elems(replies[p])
    BY <1>0, <1>8 DEF AnsweredOnce
  <2>4. Elems(replies'[p]) = Elems(replies[p]) \cup {answer} /\ Distinct(replies'[p])
    BY <2>1, <2>2, <2>3, AppendFacts
  <2>5. running'[p] = Pending /\ \A q \in Processes : q # p => running'[q] = running[q]
    BY <1>0, <1>8 DEF Reply, TypeOK
  <2>6. SentOnce'
    BY <1>0, <1>8 DEF SentOnce
  <2>7. Pending \notin Answers
    BY <1>F, PoolAssumption DEF Answers
  <2>8. \A q \in Processes :
          /\ \A j \in Calls : running'[q] = j \/ j \in Elems(replies'[q]) =>
                process_future'[j] = q /\ ran'[j] = 1
          /\ running'[q] \notin Elems(replies'[q])
          /\ Distinct(replies'[q])
    <3> SUFFICES ASSUME NEW q \in Processes
                 PROVE  /\ \A j \in Calls : running'[q] = j \/ j \in Elems(replies'[q]) =>
                              process_future'[j] = q /\ ran'[j] = 1
                        /\ running'[q] \notin Elems(replies'[q])
                        /\ Distinct(replies'[q])
      OBVIOUS
    <3>1. CASE q # p
      BY <3>1, <1>0, <1>8, <2>1, <2>5 DEF AnsweredOnce
    <3>2. CASE q = p
      <4>1. ASSUME NEW j \in Calls, running'[p] = j \/ j \in Elems(replies'[p])
            PROVE  running[p] = j \/ j \in Elems(replies[p])
        BY <4>1, <1>8, <1>F, <2>4, <2>5
      <4>2. \A j \in Calls : running[p] = j \/ j \in Elems(replies[p]) =>
              process_future[j] = p /\ ran[j] = 1
        BY <1>0 DEF AnsweredOnce
      <4>3. running'[p] \notin Elems(replies'[p])
        BY <1>A, <2>4, <2>5, <2>7
      <4> QED BY <3>2, <1>8, <2>4, <4>1, <4>2, <4>3
    <3> QED BY <3>1, <3>2
  <2>9. \A k, j \in Calls : result_future'[k] = j =>
          /\ \A q \in Processes : running'[q] # j /\ j \notin Elems(replies'[q])
          /\ \A l \in Calls : result_future'[l] = j => l = k
    <3> SUFFICES ASSUME NEW k \in Calls, NEW j \in Calls, result_future[k] = j
                 PROVE  /\ \A q \in Processes : running'[q] # j /\ j \notin Elems(replies'[q])
                        /\ \A l \in Calls : result_future[l] = j => l = k
      BY <1>8
    <3>1. j # answer
      <4>1. running[p] # j
        BY <1>0 DEF AnsweredOnce
      <4> QED BY <1>8, <4>1
    <3>2. /\ \A q \in Processes : running[q] # j /\ j \notin Elems(replies[q])
          /\ \A l \in Calls : result_future[l] = j => l = k
      BY <1>0 DEF AnsweredOnce
    <3>3. \A q \in Processes : running'[q] # j
      BY <3>2, <1>F, <2>5
    <3>4. \A q \in Processes : j \notin Elems(replies'[q])
      BY <3>1, <3>2, <2>1, <2>4, Zenon
    <3> QED BY <3>2, <3>3, <3>4
  <2>10. \A k, j \in Calls : ran'[j] = 1 \/ result_future'[k] = j =>
          ran'[j] = 1 /\ process_future'[j] # Pending
    BY <1>0, <1>8 DEF AnsweredOnce
  <2> QED BY <2>6, <2>8, <2>9, <2>10 DEF AnsweredOnce
<1>9. ASSUME NEW p \in Processes, Answer(p) PROVE SentOnce' /\ AnsweredOnce'
  <2>1. running[p] \in Answers
    BY <1>0, <1>9 DEF Answer, Busy, Answers
  <2>2. Reply(p, running[p]) /\ UNCHANGED <<process_future, result_future, request, ran>>
    BY <1>9 DEF Answer, callers
  <2> QED BY <2>1, <2>2, <1>8
<1>10. ASSUME NEW p \in Processes, Signal(p) PROVE SentOnce' /\ AnsweredOnce'
  <2>1. UNCHANGED <<process_future, result_future, request, ran>>
    BY <1>10 DEF Signal, callers
  <2>2. CASE Reply(p, "cancelled")
    <3>1. "cancelled" \in Answers /\ "cancelled" \notin Calls
      BY <1>F DEF Answers
    <3> QED BY <2>1, <2>2, <3>1, <1>8
  <2>3. CASE UNCHANGED <<running, replies>>
    BY <2>1, <2>3, SettledStep
  <2> QED BY <1>10, <2>2, <2>3 DEF Signal
<1>11. ASSUME BadInitializer \/ CloseFutures PROVE SentOnce' /\ AnsweredOnce'
  <2>1. UNCHANGED <<request, running, replies, ran>>
    BY <1>11 DEF BadInitializer, CloseFutures, workers
  <2>2. \A j \in Calls : \/ process_future'[j] = process_future[j]
                         \/ process_future[j] = Pending /\ process_future'[j] # Pending
    BY <1>11, <1>F DEF BadInitializer, CloseFutures, Reject
  <2>3. \A j \in Calls : result_future'[j] = result_future[j] \/ result_future'[j] \notin Calls
    BY <1>11, <1>F DEF BadInitializer, CloseFutures, Reject
  <2> QED BY <2>1, <2>2, <2>3, SettledStep
<1> QED BY <1>1, <1>2, <1>3, <1>4, <1>5, <1>6, <1>7, <1>9, <1>10, <1>11, Aside

\* A handler that waits and a process that runs know their call.
LEMMA BusyStep == WInv /\ [Next]_vars => Busy'
<1> SUFFICES ASSUME WInv, [Next]_vars PROVE Busy'
  OBVIOUS
<1>0. TypeOK /\ Busy
  BY DEF WInv
<1> USE DEF TypeOK, Busy
<1>1. CASE UNCHANGED <<handler, job, worker, running>>
  BY <1>0, <1>1
<1>2. ASSUME NEW i \in Calls, Put(i) \/ Cancel(i) \/ CallerStep(i) PROVE Busy'
  BY <1>1, <1>2, Zenon DEF Put, Cancel, CallerStep, Assigned, Return, Kill, PutCancelled, pool, workers
<1>3. ASSUME NEW p \in Processes, Authorize(p) PROVE Busy'
  BY <1>0, <1>3 DEF Authorize
<1>4. ASSUME NEW p \in Processes, GetDone(p) PROVE Busy'
  BY <1>0, <1>4 DEF GetDone, Loop, workers
<1>5. ASSUME NEW p \in Processes, Send(p) PROVE Busy'
  BY <1>0, <1>5 DEF Send
<1>6. ASSUME NEW p \in Processes, SendFails(p) PROVE Busy'
  BY <1>0, <1>6 DEF SendFails, workers
<1>7. ASSUME NEW p \in Processes, Receive(p) PROVE Busy'
  BY <1>0, <1>7 DEF Receive, Loop
<1>8. ASSUME NEW p \in Processes, Lost(p) PROVE Busy'
  BY <1>0, <1>8 DEF Lost, workers
<1>9. ASSUME NEW p \in Processes, Connect(p) PROVE Busy'
  BY <1>0, <1>9 DEF Connect, Become
<1>10. ASSUME NEW p \in Processes, Disconnected(p) PROVE Busy'
  BY <1>0, <1>10 DEF Disconnected, Become, pool
<1>11. ASSUME NEW p \in Processes, Execute(p) PROVE Busy'
  <2>1. Head(request[p]) \in Calls
    BY <1>0, <1>11, TailFacts DEF Execute
  <2> QED BY <1>0, <1>11, <2>1 DEF Execute, Become, pool
<1>12. ASSUME NEW p \in Processes, Answer(p) \/ Answered(p) PROVE Busy'
  <2>1. CASE Answer(p)
    BY <1>0, <2>1 DEF Answer, Become, Reply, pool
  <2>2. CASE Answered(p)
    BY <1>0, <2>2 DEF Answered, Become, pool
  <2> QED BY <1>12, <2>1, <2>2
<1>13. ASSUME NEW p \in Processes, Signal(p) PROVE Busy'
  <2>1. \A q \in Processes : worker'[q] = worker[q] \/ worker'[q] \in {"receive", "failed"}
    BY <1>0, <1>13 DEF Signal, Become
  <2>2. \A q \in Processes : running'[q] = running[q] \/ q = p
    BY <1>0, <1>13 DEF Signal, Reply
  <2>3. worker'[p] # "run"
    BY <1>0, <1>13 DEF Signal, Become
  <2> QED BY <1>0, <1>13, <2>1, <2>2, <2>3, Zenon DEF Signal, pool
<1>14. ASSUME NEW p \in Processes, Die(p) \/ Exit(p) PROVE Busy'
  BY <1>0, <1>14 DEF Die, Exit, Become, pool
<1>15. CASE Close \/ BadInitializer \/ CloseFutures
  BY <1>1, <1>15, Zenon DEF Close, BadInitializer, CloseFutures, workers
<1>16. CASE CloseHandlers
  BY <1>0, <1>16 DEF CloseHandlers, workers
<1>17. CASE SupervisorStep
  <2>1. CASE ForkAll
    BY <1>0, <2>1 DEF ForkAll, Fork, pool
  <2>2. ASSUME NEW p \in Processes, Wait(p) PROVE Busy'
    BY <1>0, <2>2 DEF Wait, Fork, pool
  <2>3. CASE NoChildren
    BY <1>1, <2>3 DEF NoChildren, pool, workers
  <2>4. CASE Interrupt
    BY <1>0, <2>4 DEF Interrupt, pool
  <2> QED BY <1>17, <2>1, <2>2, <2>3, <2>4 DEF SupervisorStep
<1>18. CASE UNCHANGED vars
  BY <1>1, <1>18 DEF vars, pool, workers
<1> QED
  BY <1>2, <1>3, <1>4, <1>5, <1>6, <1>7, <1>8, <1>9, <1>10, <1>11, <1>12, <1>13, <1>14, <1>15,
     <1>16, <1>17, <1>18, Zenon DEF Next, HandlerStep, WorkerStep, CloseStep

\* The steps of the processes and of close() leave the callers where they are, and put
\* nothing in the queue.
LEMMA OthersStep ==
    ASSUME WInv, [Next]_vars, ~\E i \in Calls : Put(i) \/ Cancel(i) \/ CallerStep(i)
    PROVE  /\ UNCHANGED <<pc, outcome>>
           /\ Elems(tasks') \subseteq Elems(tasks)
           /\ \A i \in Calls : process_future[i] = Pending /\ process_future'[i] # Pending =>
                 i \in Elems(tasks) \/ pc[i] # "idle"
           /\ \A i \in Calls : result_future[i] # Pending => result_future'[i] = result_future[i]
<1> DEFINE Goal == /\ UNCHANGED <<pc, outcome>>
                   /\ Elems(tasks') \subseteq Elems(tasks)
                   /\ \A i \in Calls : process_future[i] = Pending /\ process_future'[i] # Pending =>
                         i \in Elems(tasks) \/ pc[i] # "idle"
                   /\ \A i \in Calls : result_future[i] # Pending => result_future'[i] = result_future[i]
<1>0. TypeOK /\ Busy
  BY DEF WInv
<1>1. CASE UNCHANGED <<pc, process_future, result_future, outcome, tasks>>
  BY <1>1
<1>T. tasks # <<>> => Head(tasks) \in Elems(tasks) /\ Elems(Tail(tasks)) \subseteq Elems(tasks)
  BY <1>0, TailFacts DEF TypeOK
<1>2. ASSUME NEW p \in Processes, Authorize(p) PROVE Goal
  BY <1>1, <1>2, Zenon DEF Authorize, callers
<1>3. ASSUME NEW p \in Processes, GetDone(p) PROVE Goal
  BY <1>3, <1>T, Zenon DEF GetDone
<1>4. ASSUME NEW p \in Processes, Send(p) PROVE Goal
  <2>1. PICK i \in Calls : Take(p, i)
    BY <1>4, Zenon DEF Send
  <2>2. \A j \in Calls : process_future'[j] # process_future[j] => j \in Elems(tasks)
    BY <1>0, <1>T, <2>1 DEF Take, TypeOK
  <2>3. Elems(tasks') \subseteq Elems(tasks)
    BY <1>T, <2>1 DEF Take
  <2> QED BY <1>4, <2>2, <2>3, Zenon DEF Send
<1>5. ASSUME NEW p \in Processes, SendFails(p) PROVE Goal
  BY <1>0, <1>5, <1>T, SMTT(30) DEF SendFails, Take, TypeOK
<1>6. ASSUME NEW p \in Processes, Receive(p) \/ Lost(p) PROVE Goal
  <2>1. UNCHANGED <<pc, process_future, outcome, tasks>>
    BY <1>6 DEF Receive, Lost
  <2>2. \A i \in Calls : result_future[i] # Pending => result_future'[i] = result_future[i]
    BY <1>0, <1>6, SMTT(30) DEF Receive, Lost, Resolve, TypeOK
  <2> QED BY <2>1, <2>2
<1>7. ASSUME NEW p \in Processes, WorkerStep(p) \/ Die(p) \/ Exit(p) PROVE Goal
  BY <1>1, <1>7, Zenon
     DEF WorkerStep, Connect, Disconnected, Execute, Answer, Answered, Signal, Die, Exit, callers
<1>8. CASE Close \/ CloseHandlers
  BY <1>1, <1>8 DEF Close, CloseHandlers, callers
<1>9. CASE BadInitializer \/ CloseFutures
  BY <1>9 DEF BadInitializer, CloseFutures, Reject
<1>10. CASE SupervisorStep
  BY <1>1, <1>10, Zenon DEF SupervisorStep, ForkAll, Wait, NoChildren, Interrupt, callers
<1>11. CASE UNCHANGED vars
  BY <1>1, <1>11, Zenon DEF vars, callers
<1> QED
  BY <1>2, <1>3, <1>4, <1>5, <1>6, <1>7, <1>8, <1>9, <1>10, <1>11, Zenon DEF Next, HandlerStep, CloseStep

\* Only calls that were made are in the queue or with a process; and a call ends once.
LEMMA CallersStep == WInv /\ [Next]_vars => Begun' /\ Ended'
<1> SUFFICES ASSUME WInv, [Next]_vars PROVE Begun' /\ Ended'
  OBVIOUS
<1>0. TypeOK /\ Begun /\ Ended
  BY DEF WInv
<1>F. Failures \cap Calls = {} /\ Pending \notin Calls
  BY PoolAssumption
<1>E. Elems(tasks) \subseteq Calls
  BY <1>0, SMTT(30) DEF TypeOK, Elems
<1>1. CASE ~\E i \in Calls : Put(i) \/ Cancel(i) \/ CallerStep(i)
  <2>1. /\ UNCHANGED <<pc, outcome>>
        /\ Elems(tasks') \subseteq Elems(tasks)
        /\ \A i \in Calls : process_future[i] = Pending /\ process_future'[i] # Pending =>
              i \in Elems(tasks) \/ pc[i] # "idle"
        /\ \A i \in Calls : result_future[i] # Pending => result_future'[i] = result_future[i]
    BY <1>1, OthersStep
  <2>2. Begun'
    BY <1>0, <2>1 DEF Begun
  <2>3. Ended'
    BY <1>0, <1>F, <2>1 DEF Ended
  <2> QED BY <2>2, <2>3
<1>2. ASSUME NEW i \in Calls, Put(i) PROVE Begun' /\ Ended'
  <2>1. Elems(tasks') \subseteq Elems(tasks) \cup {i}
    <3>1. tasks' = tasks \/ tasks' = Append(tasks, i)
      BY <1>2 DEF Put
    <3>2. tasks \in Seq(Calls)
      BY <1>0 DEF TypeOK
    <3>3. Elems(Append(tasks, i)) = Elems(tasks) \cup {i}
      BY <3>2, AppendFacts
    <3> QED BY <3>1, <3>3, Zenon
  <2>2. pc'[i] # "idle" /\ pc'[i] # "done" /\ \A j \in Calls : j # i => pc'[j] = pc[j]
    BY <1>0, <1>2 DEF Put, TypeOK
  <2>3. Begun'
    BY <1>0, <1>2, <1>E, <2>1, <2>2 DEF Put, Begun
  <2>4. Ended'
    BY <1>0, <1>2, <2>2 DEF Put, Ended
  <2> QED BY <2>3, <2>4
<1>3. ASSUME NEW i \in Calls, Cancel(i) PROVE Begun' /\ Ended'
  <2>1. Begun'
    BY <1>0, <1>3 DEF Cancel, Begun, TypeOK
  <2>2. Ended'
    BY <1>0, <1>3, <1>F DEF Cancel, Ended, TypeOK
  <2> QED BY <2>1, <2>2
<1>4. ASSUME NEW i \in Calls, NEW o \in Calls \cup Failures, Raise(i, o), pc[i] # "idle",
             o \in Calls => result_future[i] = o,
             UNCHANGED <<process_future, result_future, tasks>>
      PROVE  Begun' /\ Ended'
  <2>1. Begun'
    BY <1>0, <1>4, <1>E DEF Raise, Begun, TypeOK
  <2>2. Ended'
    BY <1>0, <1>4 DEF Raise, Ended, TypeOK
  <2> QED BY <2>1, <2>2
<1>5. ASSUME NEW i \in Calls, PutCancelled(i) PROVE Begun' /\ Ended'
  <2>1. "cancelled" \in Failures /\ "cancelled" \notin Calls
    BY <1>F DEF Failures
  <2> QED BY <1>4, <1>5, <2>1 DEF PutCancelled
<1>6. ASSUME NEW i \in Calls, Assigned(i) PROVE Begun' /\ Ended'
  <2>1. /\ {"cancelled", "initializer"} \subseteq Failures /\ "cancelled" \notin Calls
        /\ "initializer" \notin Calls
    BY <1>F DEF Failures
  <2>2. CASE \E o \in {"cancelled", "initializer"} : Raise(i, o)
    BY <1>4, <1>6, <2>1, <2>2 DEF Assigned
  <2>3. CASE pc' = [pc EXCEPT ![i] = "wait"] /\ UNCHANGED outcome
    <3>1. Begun'
      BY <1>0, <1>6, <1>E, <2>3 DEF Assigned, Begun, TypeOK
    <3>2. Ended'
      BY <1>0, <1>6, <2>3 DEF Assigned, Ended, TypeOK
    <3> QED BY <3>1, <3>2
  <2>4. process_future[i] \in Processes \/ process_future[i] \in {"cancelled", "initializer"}
    BY <1>0, <1>6 DEF Assigned, TypeOK
  <2> QED BY <1>6, <2>2, <2>3, <2>4 DEF Assigned
<1>7. ASSUME NEW i \in Calls, Return(i) PROVE Begun' /\ Ended'
  <2>1. result_future[i] \in Calls \cup Failures
    BY <1>0, <1>7 DEF Return, TypeOK
  <2> QED BY <1>4, <1>7, <2>1 DEF Return
<1>8. ASSUME NEW i \in Calls, Kill(i) PROVE Begun' /\ Ended'
  <2>1. PICK o \in {"cancelled", "no_process"} : Raise(i, o)
    BY <1>8 DEF Kill
  <2>2. o \in Failures /\ o \notin Calls
    BY <1>F DEF Failures
  <2> QED BY <1>4, <1>8, <2>1, <2>2 DEF Kill
<1> QED BY <1>1, <1>2, <1>3, <1>5, <1>6, <1>7, <1>8 DEF CallerStep

\* WInv is an invariant.
LEMMA Invariance == Spec => []WInv
<1>1. WInv /\ [Next]_vars => WInv'
  BY TypeStep, BusyStep, CallersStep, OnceStep DEF WInv
<1> QED BY <1>1, InitWInv, PTL DEF Spec

-----------------------------------------------------------------------------
(* The refinement. *)

\* A caller that ends gives its call an outcome that the promise allows.
LEMMA EndStep ==
    ASSUME WInv, NEW i \in Calls, NEW o \in Calls \cup Failures, Raise(i, o),
           pc[i] \notin {"idle", "done"}, o \in Calls => result_future[i] = o, UNCHANGED ran
    PROVE  Promise!End(i)
<1>0. TypeOK /\ AnsweredOnce /\ Ended
  BY DEF WInv
<1>1. {j \in Calls : pc[j] # "idle"}' = {j \in Calls : pc[j] # "idle"}
  BY <1>0 DEF Raise, TypeOK
<1>2. outcome[i] = Pending
  BY <1>0 DEF Ended
<1>3. o \in Failures \cup {j \in Calls : ran[j] = 1 /\ \A k \in Calls : outcome[k] # j}
  <2> SUFFICES ASSUME o \in Calls PROVE ran[o] = 1 /\ \A k \in Calls : outcome[k] # o
    OBVIOUS
  <2>1. ran[o] = 1
    BY <1>0 DEF AnsweredOnce
  <2>2. ASSUME NEW k \in Calls, outcome[k] = o PROVE FALSE
    <3>1. result_future[k] = o
      BY <1>0, <2>2, SMTT(30) DEF Ended
    <3>2. k = i
      BY <1>0, <3>1 DEF AnsweredOnce
    <3> QED BY <1>2, <2>2, <3>2, PoolAssumption, SMTT(30)
  <2> QED BY <2>1, <2>2
<1>4. outcome' = [outcome EXCEPT ![i] = o]
  BY DEF Raise
<1> QED BY <1>1, <1>2, <1>3, <1>4, Zenon DEF Promise!End

\* Every step of the pool is a step of the promise or leaves it alone.
LEMMA PromiseStep ==
    WInv /\ [Next]_vars => [Promise!Next]_(<<{i \in Calls : pc[i] # "idle"}, ran, outcome>>)
<1> SUFFICES ASSUME WInv, [Next]_vars
             PROVE  \/ Promise!Next
                    \/ UNCHANGED <<{i \in Calls : pc[i] # "idle"}, ran, outcome>>
  OBVIOUS
<1> DEFINE begun == {i \in Calls : pc[i] # "idle"}
<1>0. TypeOK /\ Busy /\ Begun /\ SentOnce /\ Ended
  BY DEF WInv
<1>1. ASSUME NEW i \in Calls, Put(i) PROVE Promise!Next \/ UNCHANGED <<begun, ran, outcome>>
  <2>1. pc' = [pc EXCEPT ![i] = pc'[i]] /\ pc'[i] # "idle" /\ UNCHANGED <<ran, outcome>>
    BY <1>0, <1>1 DEF Put, TypeOK
  <2>2. begun' = begun \cup {i}
    BY <1>0, <2>1 DEF TypeOK
  <2>3. CASE i \in begun
    BY <2>1, <2>2, <2>3
  <2>4. CASE i \notin begun
    BY <2>1, <2>2, <2>4 DEF Promise!Next, Promise!Begin
  <2> QED BY <2>3, <2>4
<1>2. ASSUME NEW i \in Calls, Cancel(i) PROVE UNCHANGED <<begun, ran, outcome>>
  BY <1>2, Zenon DEF Cancel
<1>F. /\ {"cancelled", "initializer", "no_process"} \subseteq Failures
      /\ \A o \in Failures : o \notin Calls
  BY PoolAssumption DEF Failures
<1>3. ASSUME NEW i \in Calls, PutCancelled(i) PROVE Promise!End(i)
  BY <1>3, <1>F, EndStep DEF PutCancelled
<1>4. ASSUME NEW i \in Calls, Assigned(i) PROVE Promise!End(i) \/ UNCHANGED <<begun, ran, outcome>>
  <2>1. CASE \E o \in {"cancelled", "initializer"} : Raise(i, o)
    BY <1>4, <1>F, <2>1, EndStep DEF Assigned
  <2>2. CASE pc' = [pc EXCEPT ![i] = "wait"] /\ UNCHANGED outcome
    <3>1. begun' = begun
      BY <1>0, <1>4, <2>2 DEF Assigned, TypeOK
    <3> QED BY <1>4, <2>2, <3>1 DEF Assigned
  <2>3. process_future[i] \in Processes \/ process_future[i] \in {"cancelled", "initializer"}
    BY <1>0, <1>4 DEF Assigned, TypeOK
  <2> QED BY <1>4, <2>1, <2>2, <2>3 DEF Assigned
<1>5. ASSUME NEW i \in Calls, Return(i) PROVE Promise!End(i)
  <2>1. result_future[i] \in Calls \cup Failures
    BY <1>0, <1>5 DEF Return, TypeOK
  <2> QED BY <1>5, <2>1, EndStep DEF Return
<1>6. ASSUME NEW i \in Calls, Kill(i) PROVE Promise!End(i)
  <2>1. PICK o \in {"cancelled", "no_process"} : Raise(i, o)
    BY <1>6 DEF Kill
  <2> QED BY <1>6, <1>F, <2>1, EndStep DEF Kill
<1>7. ASSUME NEW p \in Processes, Execute(p) PROVE Promise!Next
  <2> DEFINE i == Head(request[p])
  <2>1. i \in Calls /\ i \in Elems(request[p])
    BY <1>0, <1>7, TailFacts DEF Execute, TypeOK
  <2>2. ran[i] = 0 /\ pc[i] # "idle"
    <3>1. process_future[i] = p /\ ran[i] = 0
      BY <1>0, <2>1, Zenon DEF SentOnce
    <3>2. p # Pending
      BY PoolAssumption
    <3> QED BY <1>0, <2>1, <3>1, <3>2 DEF Begun
  <2>3. ran' = [ran EXCEPT ![i] = 1] /\ UNCHANGED <<begun, outcome>>
    BY <1>0, <1>7, <2>1, <2>2, SMTT(30) DEF Execute, callers, TypeOK
  <2>4. Promise!Run(i)
    BY <2>1, <2>2, <2>3, Zenon DEF Promise!Run
  <2> QED BY <2>1, <2>4 DEF Promise!Next
<1>8. CASE /\ ~\E i \in Calls : Put(i) \/ Cancel(i) \/ CallerStep(i)
           /\ ~\E p \in Processes : Execute(p)
  <2>1. UNCHANGED <<pc, outcome>>
    BY <1>8, OthersStep, Zenon
  <2>2. UNCHANGED ran
    BY <1>8, Aside, Zenon
       DEF Cancel, Send, SendFails, Receive, Lost, Answer, Signal, BadInitializer, CloseFutures
  <2> QED BY <2>1, <2>2
<1>9. CASE \E i \in Calls : Put(i) \/ Cancel(i) \/ CallerStep(i)
  BY <1>1, <1>2, <1>3, <1>4, <1>5, <1>6, <1>9, Zenon DEF CallerStep, Promise!Next
<1> QED BY <1>7, <1>8, <1>9, Zenon

\* The pool keeps the promise of RemoteCalls: whatever is cancelled, closed or killed, the
\* function of a call is started at most once, a call ends at most once, and an answer comes
\* from a function that was started and is given to one call only.
THEOREM PromiseKept == Spec => KeepsPromise
<1>1. Init => Promise!Init
  <2>1. Init => {i \in Calls : pc[i] # "idle"} = {}
    BY DEF Init
  <2> QED BY <2>1 DEF Init, Promise!Init
<1> QED BY <1>1, Invariance, PromiseStep, PTL DEF Spec, KeepsPromise, Promise!Spec

-----------------------------------------------------------------------------
(* Own answers. *)

\* The handler and its process take turns: nothing is in the socket and nothing runs when the
\* handler has no call; else its call has been sent, runs, or has been answered.
Quiet(p) == request[p] = <<>> /\ replies[p] = <<>> /\ worker[p] # "run"
Sent(p) == request[p] = <<job[p]>> /\ replies[p] = <<>> /\ worker[p] # "run"
Called(p) == request[p] = <<>> /\ replies[p] = <<>> /\ (worker[p] = "run" => running[p] = job[p])
Replied(p) ==
    /\ request[p] = <<>> /\ worker[p] # "run"
    /\ replies[p] = <<job[p]>> \/ replies[p] = <<"cancelled">>

Turn(p) ==
    /\ worker[p] \in {"none", "connect", "auth"} =>
          /\ handler[p] = "none" \/ (handler[p] = "auth" /\ worker[p] = "auth")
          /\ request[p] = <<>> /\ replies[p] = <<>>
    /\ handler[p] \in {"auth", "get"} => Quiet(p)
    /\ handler[p] = "reply" => Sent(p) \/ Called(p) \/ Replied(p)

Turns == \A p \in Processes : Turn(p)

\* An answer is kept in the future of its own call.
Own == \A i \in Calls : result_future[i] \in Calls => result_future[i] = i

\* A connection that a step leaves alone, but for the end of its process, a function that has
\* been answered for, and the birth of the process.
LEMMA TurnStays ==
    ASSUME NEW p \in Processes, Turn(p),
           handler'[p] = handler[p], job'[p] = job[p], request'[p] = request[p],
           running'[p] = running[p], replies'[p] = replies[p],
           \/ worker'[p] = worker[p]
           \/ worker'[p] \in {"receive", "zero", "failed"}
           \/ worker[p] = "none" /\ worker'[p] = "connect"
    PROVE  Turn(p)'
BY Zenon DEF Turn, Quiet, Sent, Called, Replied

\* The turns are kept, unless a signal meets a worker that has just sent its answer.
LEMMA TurnsStep ==
    ASSUME "late_signal" \notin Faults, WInv, Turns, [Next]_vars
    PROVE  Turns'
<1>0. TypeOK
  BY DEF WInv
<1> USE DEF TypeOK
<1>1. CASE UNCHANGED <<handler, job, worker, request, running, replies>>
  BY <1>1, TurnStays, Zenon DEF Turns
<1>2. ASSUME NEW i \in Calls, Put(i) \/ Cancel(i) \/ CallerStep(i) PROVE Turns'
  BY <1>1, <1>2, Zenon DEF Put, Cancel, CallerStep, Assigned, Return, Kill, PutCancelled, pool, workers
<1>3. ASSUME NEW p \in Processes, UNCHANGED <<handler, job, request, running, replies>>,
             NEW w \in {"receive", "zero", "failed"}, Become(p, w)
      PROVE  Turns'
  BY <1>0, <1>3, TurnStays DEF Turns, Become
<1>4. ASSUME NEW p \in Processes, Turn(p)',
             \A q \in Processes \ {p} :
                /\ handler'[q] = handler[q] /\ job'[q] = job[q] /\ request'[q] = request[q]
                /\ running'[q] = running[q] /\ replies'[q] = replies[q] /\ worker'[q] = worker[q]
      PROVE  Turns'
  BY <1>4, TurnStays, Zenon DEF Turns
<1>5. ASSUME NEW p \in Processes, Authorize(p) PROVE Turns'
  <2>1. Turn(p)'
    BY <1>0, <1>5 DEF Authorize, Turns, Turn, Quiet, Sent, Called, Replied
  <2> QED BY <1>0, <1>4, <1>5, <2>1 DEF Authorize
<1>6. ASSUME NEW p \in Processes, GetDone(p) PROVE Turns'
  <2>1. handler'[p] \in {"get", "none"}
    BY <1>0, <1>6 DEF GetDone, Loop
  <2>2. Turn(p)'
    BY <1>0, <1>6, <2>1, Zenon DEF GetDone, Turns, Turn, Quiet, Sent, Called, Replied, workers
  <2> QED BY <1>0, <1>4, <1>6, <2>2 DEF GetDone, Loop, workers
<1>7. ASSUME NEW p \in Processes, Send(p) PROVE Turns'
  <2>1. PICK i \in Calls : /\ Take(p, i) /\ request' = [request EXCEPT ![p] = Append(@, i)]
                           /\ job' = [job EXCEPT ![p] = i]
    BY <1>7, Zenon DEF Send
  <2>2. Quiet(p) /\ worker[p] \notin {"none", "connect", "auth"}
    BY <2>1, Zenon DEF Take, Turns, Turn
  <2>3. Append(<<>>, i) = <<i>>
    OBVIOUS
  <2>4. request'[p] = <<i>> /\ job'[p] = i /\ handler'[p] = "reply"
    BY <1>0, <1>7, <2>1, <2>2, <2>3 DEF Send, Quiet
  <2>5. Turn(p)'
    BY <1>7, <2>2, <2>4, Zenon DEF Send, Quiet, Turn, Sent
  <2> QED BY <1>0, <1>4, <1>7, <2>1, <2>5 DEF Send
<1>8. ASSUME NEW p \in Processes, SendFails(p) PROVE Turns'
  <2>1. worker[p] \notin {"none", "connect", "auth"}
    BY <1>8, Zenon DEF SendFails, Take, Turns, Turn
  <2>2. Turn(p)'
    BY <1>0, <1>8, <2>1 DEF SendFails, Turn, workers
  <2> QED BY <1>0, <1>4, <1>8, <2>2 DEF SendFails, workers
<1>9. ASSUME NEW p \in Processes, Receive(p) PROVE Turns'
  <2>1. Replied(p) /\ worker[p] \notin {"none", "connect", "auth"}
    BY <1>9, Zenon DEF Receive, Turns, Turn, Sent, Called
  <2>2. Tail(replies[p]) = <<>>
    <3>1. \A x : Tail(<<x>>) = <<>>
      OBVIOUS
    <3> QED BY <2>1, <3>1, Zenon DEF Replied
  <2>3. replies'[p] = <<>> /\ handler'[p] \in {"get", "none"}
    BY <1>0, <1>9, <2>2 DEF Receive, Loop
  <2>4. Turn(p)'
    BY <1>9, <2>1, <2>3, Zenon DEF Receive, Replied, Turn, Quiet
  <2> QED BY <1>0, <1>4, <1>9, <2>4 DEF Receive, Loop
<1>10. ASSUME NEW p \in Processes, Lost(p) PROVE Turns'
  <2>1. Turn(p)'
    BY <1>0, <1>10 DEF Lost, Exited, Turn, workers
  <2> QED BY <1>0, <1>4, <1>10, <2>1 DEF Lost, workers
<1>11. ASSUME NEW p \in Processes, Connect(p) PROVE Turns'
  <2>1. Turn(p)'
    BY <1>0, <1>11 DEF Connect, Become, Turns, Turn, Quiet
  <2> QED BY <1>0, <1>4, <1>11, <2>1 DEF Connect, Become
<1>12. ASSUME NEW p \in Processes, Disconnected(p) PROVE Turns'
  BY <1>3, <1>12, Zenon DEF Disconnected, pool
<1>13. ASSUME NEW p \in Processes, Execute(p) PROVE Turns'
  <2>1. handler[p] \in {"auth", "get"} => FALSE
    BY <1>13, Zenon DEF Execute, Turns, Turn, Quiet
  <2>2. handler[p] = "reply" => request[p] = <<job[p]>> /\ replies[p] = <<>>
    BY <1>13, Zenon DEF Execute, Turns, Turn, Sent, Called, Replied
  <2>3. \A x : Head(<<x>>) = x /\ Tail(<<x>>) = <<>>
    OBVIOUS
  <2>4. handler[p] = "reply" => Called(p)'
    BY <1>0, <1>13, <2>2, <2>3, Zenon DEF Execute, Called, pool
  <2>5. Turn(p)'
    BY <1>0, <1>13, <2>1, <2>4 DEF Execute, Become, Turn, pool
  <2> QED BY <1>0, <1>4, <1>13, <2>5 DEF Execute, Become, pool
<1>14. ASSUME NEW p \in Processes, NEW x \in Calls \cup {"cancelled"}, worker[p] = "run", Reply(p, x),
              x # "cancelled" => x = running[p],
              NEW w \in {"sent", "receive"}, Become(p, w), UNCHANGED <<handler, job, request>>
       PROVE  Turns'
  <2>1. handler[p] \in {"auth", "get"} => FALSE
    BY <1>14, Zenon DEF Turns, Turn, Quiet
  <2>2. handler[p] = "reply" => request[p] = <<>> /\ replies[p] = <<>> /\ running[p] = job[p]
    BY <1>14, Zenon DEF Turns, Turn, Sent, Called, Replied
  <2>3. Append(<<>>, x) = <<x>>
    OBVIOUS
  <2>4. replies'[p] = Append(replies[p], x) /\ worker'[p] = w
    BY <1>0, <1>14 DEF Reply, Become
  <2>5. handler[p] = "reply" => Replied(p)'
    BY <1>14, <2>2, <2>3, <2>4, Zenon DEF Replied
  <2>6. Turn(p)'
    BY <1>14, <2>1, <2>4, <2>5, Zenon DEF Turn
  <2> QED BY <1>0, <1>4, <1>14, <2>6 DEF Reply, Become
<1>15. ASSUME NEW p \in Processes, Answer(p) PROVE Turns'
  <2>1. running[p] \in Calls
    BY <1>15 DEF Answer, WInv, Busy
  <2> QED BY <1>14, <1>15, <2>1, Zenon DEF Answer, pool
<1>16. ASSUME NEW p \in Processes, Answered(p) PROVE Turns'
  BY <1>3, <1>16 DEF Answered, pool
<1>17. ASSUME NEW p \in Processes, Signal(p) PROVE Turns'
  <2>1. CASE worker[p] = "run"
    BY <1>14, <1>17, <2>1 DEF Signal, pool
  <2>2. CASE worker[p] = "receive"
    BY <1>3, <1>17, <2>2 DEF Signal, pool
  <2> QED BY <1>17, <2>1, <2>2 DEF Signal
<1>18. ASSUME NEW p \in Processes, Die(p) \/ Exit(p) PROVE Turns'
  BY <1>3, <1>18, Zenon DEF Die, Exit, pool
<1>19. CASE Close \/ BadInitializer \/ CloseFutures
  BY <1>1, <1>19 DEF Close, BadInitializer, CloseFutures, workers
<1>20. CASE CloseHandlers
  BY <1>0, <1>20 DEF CloseHandlers, Turns, Turn, Quiet, workers
<1>21. ASSUME NEW P, Fork(P), UNCHANGED <<handler, job, request, running, replies>> PROVE Turns'
  BY <1>0, <1>21, TurnStays DEF Fork, Unforked, Turns
<1>22. CASE SupervisorStep
  <2>1. CASE ForkAll
    BY <1>21, <2>1 DEF ForkAll, pool
  <2>2. ASSUME NEW p \in Processes, Wait(p) PROVE Turns'
    <3>1. UNCHANGED worker \/ Fork({CHOOSE q \in Unforked : TRUE})
      BY <2>2 DEF Wait
    <3> QED BY <1>1, <1>21, <2>2, <3>1 DEF Wait, pool
  <2>3. CASE NoChildren
    BY <1>1, <2>3 DEF NoChildren, pool, workers
  <2>4. CASE Interrupt
    BY <1>0, <2>4, TurnStays DEF Interrupt, Turns, pool
  <2> QED BY <1>22, <2>1, <2>2, <2>3, <2>4 DEF SupervisorStep
<1>23. CASE UNCHANGED vars
  BY <1>1, <1>23 DEF vars, pool, workers
<1> QED
  BY <1>2, <1>5, <1>6, <1>7, <1>8, <1>9, <1>10, <1>11, <1>12, <1>13, <1>15, <1>16, <1>17, <1>18,
     <1>19, <1>20, <1>22, <1>23 DEF Next, HandlerStep, WorkerStep, CloseStep

\* What the handler receives then is the answer to the call that it has sent.
LEMMA OwnStep == ASSUME WInv, Turns, Own, [Next]_vars PROVE Own'
<1>0. TypeOK
  BY DEF WInv
<1>F. Failures \cap Calls = {} /\ {"cancelled", "died", "unpicklable", "initializer"} \subseteq Failures
  BY PoolAssumption DEF Failures
<1>1. CASE \A i \in Calls : result_future'[i] = result_future[i] \/ result_future'[i] \in Failures
  BY <1>F, <1>1 DEF Own
<1>2. ASSUME NEW i \in Calls, Cancel(i) PROVE Own'
  BY <1>0, <1>F, <1>1, <1>2 DEF Cancel, TypeOK
<1>3. ASSUME NEW p \in Processes, SendFails(p) PROVE Own'
  BY <1>0, <1>F, <1>1, <1>3 DEF SendFails, TypeOK
<1>4. ASSUME NEW p \in Processes, Lost(p) PROVE Own'
  BY <1>0, <1>F, <1>1, <1>4 DEF Lost, Resolve, TypeOK
<1>5. ASSUME NEW p \in Processes, Receive(p) PROVE Own'
  <2>1. Replied(p)
    BY <1>5, Zenon DEF Receive, Turns, Turn, Sent, Called
  <2>2. Head(replies[p]) = job[p] \/ Head(replies[p]) \in Failures
    BY <2>1, <1>F DEF Replied
  <2> QED BY <1>0, <1>5, <1>F, <2>2, Zenon DEF Receive, Resolve, Own, TypeOK
<1>6. CASE BadInitializer \/ CloseFutures
  BY <1>F, <1>1, <1>6 DEF BadInitializer, CloseFutures, Reject
<1>7. CASE UNCHANGED result_future
  BY <1>1, <1>7, SMTT(30)
<1>8. ASSUME NEW p \in Processes, Send(p) \/ Execute(p) \/ Answer(p) \/ Signal(p)
      PROVE  UNCHANGED result_future
  BY <1>8 DEF Send, Execute, Answer, Signal, callers
<1> QED BY <1>2, <1>3, <1>4, <1>5, <1>6, <1>7, <1>8, Aside

\* Where no signal meets a worker between its answer and its next request, a call that returns
\* returns what its own function has returned, whatever is cancelled, killed, closed or lost.
THEOREM OwnAnswers == ASSUME "late_signal" \notin Faults PROVE Spec => []OwnAnswer
<1>1. Init => Turns /\ Own
  BY PoolAssumption, SMTT(30) DEF Init, Turns, Turn, Quiet, Own
<1>2. WInv /\ Turns /\ Own /\ [Next]_vars => (Turns /\ Own)'
  BY TurnsStep, OwnStep
<1>3. WInv /\ Own => OwnAnswer
  BY Zenon DEF WInv, Ended, Own, OwnAnswer
<1> QED BY <1>1, <1>2, <1>3, Invariance, PTL DEF Spec
=============================================================================

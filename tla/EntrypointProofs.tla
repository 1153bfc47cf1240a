-------------------------- MODULE EntrypointProofs --------------------------
(***************************************************************************)
(* Proofs about Entrypoint, for every set of services and of signals.      *)
(***************************************************************************)
EXTENDS Entrypoint, TLAPS

\* What start_services() and _start_service() keep true: the place of a startup tells
\* how far the start() task has come.
StartInv ==
    /\ \A g \in Groups : group[g] \in {"idle", "pre"} => \A s \in Group(g) : starter[s] = "none"
    /\ \A s \in Services :
        /\ starter[s] \in {"none", "new"} => task[s] = "none"
        /\ starter[s] = "event" => ready[s]
        /\ starter[s] = "ok" => ready[s] /\ (task[s] \in Over \/ s \in tasks)
        /\ starter[s] = "failed" => task[s] \in Over \cup {"none"}

\* Only the coroutine that has set _closing gets as far as stop_services().
StopInv ==
    \A k \in Stoppers \ {"dynamic"} :
        /\ stopper[k] \in {"cancel", "pre"} => closing = k
        /\ \A s \in Services : stop[k][s] # "none" => closing = k

EInv == TypeOK /\ StartInv /\ StopInv

\* Before the entry point begins, no service has started or stopped (entrypoint.py).
LEMMA Initially == Init => EInv
<1> SUFFICES ASSUME Init PROVE EInv OBVIOUS
<1>1. TypeOK BY EntrypointAssumption DEF Init, TypeOK, Over, Services, Stoppers, Groups
<1>2. StartInv BY DEF Init, StartInv, Services, Groups, Group
<1>3. StopInv BY DEF Init, StopInv, Services, Stoppers
<1> QED BY <1>1, <1>2, <1>3 DEF EInv

\* Every step of starting and of stopping keeps the invariant (entrypoint.py).
LEMMA Inductive == EInv /\ [Next]_vars => EInv'
<1> SUFFICES ASSUME EInv, [Next]_vars PROVE EInv' OBVIOUS
<1> USE EntrypointAssumption DEF EInv, startVars, stopVars, Over, Services, Stoppers, Groups
<1>1. ASSUME NEW g \in Groups, StartGroup(g) PROVE EInv'
  <2>1. TypeOK' BY <1>1 DEF TypeOK, StartInv, StartGroup
  <2>2. StartInv' BY <1>1 DEF TypeOK, StartInv, StartGroup, Group
  <2>3. StopInv' BY <1>1 DEF TypeOK, StopInv, StartGroup
  <2> QED BY <2>1, <2>2, <2>3
<1>2. ASSUME NEW g \in Groups, CreateStarters(g) PROVE EInv'
  <2>1. TypeOK' BY <1>2 DEF TypeOK, StartInv, CreateStarters
  <2>2. StartInv' BY <1>2 DEF TypeOK, StartInv, CreateStarters, Group
  <2>3. StopInv' BY <1>2 DEF TypeOK, StopInv, CreateStarters
  <2> QED BY <2>1, <2>2, <2>3
<1>3. ASSUME NEW g \in Groups, GatherDone(g) PROVE EInv'
  <2>1. TypeOK' BY <1>3 DEF TypeOK, StartInv, GatherDone
  <2>2. StartInv' BY <1>3 DEF TypeOK, StartInv, GatherDone, Group
  <2>3. StopInv' BY <1>3 DEF TypeOK, StopInv, GatherDone
  <2> QED BY <2>1, <2>2, <2>3
<1>4. ASSUME NEW g \in Groups, GatherFails(g) PROVE EInv'
  <2>1. TypeOK' BY <1>4 DEF TypeOK, StartInv, GatherFails, Hit
  <2>2. StartInv' BY <1>4 DEF TypeOK, StartInv, GatherFails, Hit, Group
  <2>3. StopInv' BY <1>4 DEF TypeOK, StopInv, GatherFails, Hit
  <2> QED BY <2>1, <2>2, <2>3
<1>5. ASSUME NEW g \in Groups, GroupJoined(g) PROVE EInv'
  <2>1. TypeOK' BY <1>5, SMTT(60) DEF TypeOK, StartInv, GroupJoined, GroupOver
  <2>2. StartInv' BY <1>5 DEF TypeOK, StartInv, GroupJoined, GroupOver, Group
  <2>3. StopInv' BY <1>5 DEF TypeOK, StopInv, GroupJoined, GroupOver
  <2> QED BY <2>1, <2>2, <2>3
<1>6. ASSUME NEW g \in Groups, GroupEnds(g) PROVE EInv'
  <2>1. TypeOK' BY <1>6 DEF TypeOK, StartInv, GroupEnds
  <2>2. StartInv' BY <1>6 DEF TypeOK, StartInv, GroupEnds, Group
  <2>3. StopInv' BY <1>6 DEF TypeOK, StopInv, GroupEnds
  <2> QED BY <2>1, <2>2, <2>3
<1>7. ASSUME NEW g \in Groups, CancelStart(g) PROVE EInv'
  <2>1. TypeOK' BY <1>7, SMTT(60) DEF TypeOK, StartInv, CancelStart, Hit, GroupAfterCancel
  <2>2. StartInv' BY <1>7, SMTT(60) DEF TypeOK, StartInv, CancelStart, Hit, GroupAfterCancel, Group
  <2>3. StopInv' BY <1>7 DEF TypeOK, StopInv, CancelStart, Hit, GroupAfterCancel
  <2> QED BY <2>1, <2>2, <2>3
<1>8. ASSUME NEW s \in Services, Begin(s) PROVE EInv'
  <2>1. TypeOK' BY <1>8 DEF TypeOK, StartInv, Begin
  <2>2. StartInv' BY <1>8 DEF TypeOK, StartInv, Begin, Group
  <2>3. StopInv' BY <1>8 DEF TypeOK, StopInv, Begin
  <2> QED BY <2>1, <2>2, <2>3
<1>9. ASSUME NEW s \in Services, Wake(s) PROVE EInv'
  <2>1. TypeOK' BY <1>9 DEF TypeOK, StartInv, Wake
  <2>2. StartInv' BY <1>9 DEF TypeOK, StartInv, Wake, Group
  <2>3. StopInv' BY <1>9 DEF TypeOK, StopInv, Wake
  <2> QED BY <2>1, <2>2, <2>3
<1>10. ASSUME NEW s \in Services, Settle(s) PROVE EInv'
  <2>1. TypeOK' BY <1>10 DEF TypeOK, StartInv, Settle, Registered
  <2>2. StartInv' BY <1>10 DEF TypeOK, StartInv, Settle, Registered, Group
  <2>3. StopInv' BY <1>10 DEF TypeOK, StopInv, Settle, Registered
  <2> QED BY <2>1, <2>2, <2>3
<1>11. ASSUME NEW s \in Services, Cleanup(s) PROVE EInv'
  <2>1. TypeOK' BY <1>11 DEF TypeOK, StartInv, Cleanup, CleanupCancel, Cancel
  <2>2. StartInv' BY <1>11 DEF TypeOK, StartInv, Cleanup, CleanupCancel, Cancel, Group
  <2>3. StopInv' BY <1>11 DEF TypeOK, StopInv, Cleanup, CleanupCancel, Cancel
  <2> QED BY <2>1, <2>2, <2>3
<1>12. ASSUME NEW s \in Services, CleanedUp(s) PROVE EInv'
  <2>1. TypeOK' BY <1>12 DEF TypeOK, StartInv, CleanedUp, MayRaise
  <2>2. StartInv' BY <1>12 DEF TypeOK, StartInv, CleanedUp, MayRaise, Group
  <2>3. StopInv' BY <1>12 DEF TypeOK, StopInv, CleanedUp, MayRaise
  <2> QED BY <2>1, <2>2, <2>3
<1>13. ASSUME NEW s \in Services, SetReady(s) PROVE EInv'
  <2>1. TypeOK' BY <1>13 DEF TypeOK, StartInv, SetReady
  <2>2. StartInv' BY <1>13 DEF TypeOK, StartInv, SetReady, Group
  <2>3. StopInv' BY <1>13 DEF TypeOK, StopInv, SetReady
  <2> QED BY <2>1, <2>2, <2>3
<1>14. ASSUME NEW s \in Services, StartReturns(s) PROVE EInv'
  <2>1. TypeOK' BY <1>14 DEF TypeOK, StartInv, StartReturns
  <2>2. StartInv' BY <1>14 DEF TypeOK, StartInv, StartReturns, Group
  <2>3. StopInv' BY <1>14 DEF TypeOK, StopInv, StartReturns
  <2> QED BY <2>1, <2>2, <2>3
<1>15. ASSUME NEW s \in Services, StartFails(s) PROVE EInv'
  <2>1. TypeOK' BY <1>15 DEF TypeOK, StartInv, StartFails
  <2>2. StartInv' BY <1>15 DEF TypeOK, StartInv, StartFails, Group
  <2>3. StopInv' BY <1>15 DEF TypeOK, StopInv, StartFails
  <2> QED BY <2>1, <2>2, <2>3
<1>16. ASSUME NEW s \in Services, StartGivesUp(s) PROVE EInv'
  <2>1. TypeOK' BY <1>16 DEF TypeOK, StartInv, StartGivesUp
  <2>2. StartInv' BY <1>16 DEF TypeOK, StartInv, StartGivesUp, Group
  <2>3. StopInv' BY <1>16 DEF TypeOK, StopInv, StartGivesUp
  <2> QED BY <2>1, <2>2, <2>3
<1>17. ASSUME NEW i \in Interrupts, Interrupt(i) PROVE EInv'
  <2>1. TypeOK' BY <1>17 DEF TypeOK, StartInv, Interrupt
  <2>2. StartInv' BY <1>17 DEF TypeOK, StartInv, Interrupt, Group
  <2>3. StopInv' BY <1>17 DEF TypeOK, StopInv, Interrupt
  <2> QED BY <2>1, <2>2, <2>3
<1>18. ASSUME NEW i \in Interrupts, Timeout(i) PROVE EInv'
  <2>1. TypeOK' BY <1>18 DEF TypeOK, StartInv, Timeout, CancelStoppers, StopperAfterCancel, Cancel, Left, GivesUp
  <2>2. StartInv' BY <1>18 DEF TypeOK, StartInv, Timeout, CancelStoppers, StopperAfterCancel, Cancel, Left, GivesUp, Group
  <2>3. StopInv' BY <1>18 DEF TypeOK, StopInv, Timeout, CancelStoppers, StopperAfterCancel, Cancel, Left, GivesUp
  <2> QED BY <2>1, <2>2, <2>3
<1>19. ASSUME NEW k \in Stoppers, Shut(k) PROVE EInv'
  <2>1. TypeOK'
    <3>1. /\ task' \in [Services -> {"none", "running", "cancelling"} \cup Over]
          /\ \A s \in Services : task[s] # "none" => task'[s] # "none"
      BY <1>19 DEF TypeOK, Shut, Cancel
    <3>2. closing' \in Stoppers \cup {None} /\ mine' \in [Stoppers -> SUBSET Services]
      BY <1>19 DEF TypeOK, Shut
    <3>3. stopper' \in [Stoppers -> {"idle", "run", "cancel", "pre", "stopping", "join", "abort", "post",
                                    "gone", "executor", "close", "finish", "done"}]
      <4>1. \/ stopper' = [stopper EXCEPT ![k] = "cancel"] \/ stopper' = [stopper EXCEPT ![k] = "close"]
        BY <1>19 DEF Shut
      <4> DEFINE Places == {"idle", "run", "cancel", "pre", "stopping", "join", "abort", "post",
                            "gone", "executor", "close", "finish", "done"}
      <4>2. stopper \in [Stoppers -> Places] BY DEF TypeOK
      <4>3. "cancel" \in Places /\ "close" \in Places OBVIOUS
      <4> HIDE DEF Places
      <4>4. ASSUME NEW p \in Places PROVE [stopper EXCEPT ![k] = p] \in [Stoppers -> Places]
        BY <4>2
      <4>5. stopper' \in [Stoppers -> Places] BY <4>1, <4>3, <4>4
      <4> QED BY <4>5 DEF Places
    <3> QED BY <1>19, <3>1, <3>2, <3>3 DEF TypeOK, Shut, RestoreHandlers
  <2>2. StartInv' BY <1>19, SMTT(60) DEF TypeOK, StartInv, Shut, MustShut, Cancel, Group
  <2>3. StopInv' BY <1>19, SMTT(60) DEF TypeOK, StopInv, Shut, MustShut, Cancel
  <2> QED BY <2>1, <2>2, <2>3
<1>20. ASSUME NEW k \in Stoppers, TasksJoined(k) PROVE EInv'
  <2>1. TypeOK' BY <1>20, SMTT(60) DEF TypeOK, StartInv, TasksJoined
  <2>2. StartInv' BY <1>20, SMTT(60) DEF TypeOK, StartInv, TasksJoined, Group
  <2>3. StopInv' BY <1>20, SMTT(60) DEF TypeOK, StopInv, TasksJoined
  <2> QED BY <2>1, <2>2, <2>3
<1>21. ASSUME NEW k \in Stoppers, CallStops(k) PROVE EInv'
  <2>1. TypeOK' BY <1>21, SMTT(60) DEF TypeOK, StartInv, CallStops
  <2>2. StartInv' BY <1>21, SMTT(60) DEF TypeOK, StartInv, CallStops, Group
  <2>3. StopInv' BY <1>21, SMTT(60) DEF TypeOK, StopInv, CallStops
  <2> QED BY <2>1, <2>2, <2>3
<1>22. ASSUME NEW k \in Stoppers, StopsGathered(k) PROVE EInv'
  <2>1. TypeOK'
    <3>1. stop' \in [Stoppers -> [Services -> {"none", "running", "cancelling"} \cup Over]]
      BY <1>22, SMTT(60) DEF TypeOK, StopsGathered, Cancel
    <3>2. failed' \in [Stoppers -> {"no", "raised", "cancelled"}]
      <4>1. failed' = failed \/ failed' = [failed EXCEPT ![k] = IF failed[k] = "no" THEN "raised" ELSE failed[k]]
        BY <1>22 DEF StopsGathered
      <4> DEFINE Ends == {"no", "raised", "cancelled"}
      <4>2. failed \in [Stoppers -> Ends] BY DEF TypeOK
      <4>3. "raised" \in Ends OBVIOUS
      <4> HIDE DEF Ends
      <4>4. failed' \in [Stoppers -> Ends] BY <4>1, <4>2, <4>3
      <4> QED BY <4>4 DEF Ends
    <3>3. stopper' = [stopper EXCEPT ![k] = "join"] BY <1>22 DEF StopsGathered
    <3>4. UNCHANGED <<main, startVars, closing, handlers, mine, ctx, executor, loop_stop, struck, status>>
      BY <1>22 DEF StopsGathered
    <3> QED BY <3>1, <3>2, <3>3, <3>4 DEF TypeOK
  <2>2. StartInv' BY <1>22, SMTT(60) DEF TypeOK, StartInv, StopsGathered, Cancel, Group
  <2>3. StopInv' BY <1>22, SMTT(60) DEF TypeOK, StopInv, StopsGathered, Cancel
  <2> QED BY <2>1, <2>2, <2>3
<1>23. ASSUME NEW k \in Stoppers, StopsJoined(k) PROVE EInv'
  <2>1. TypeOK' BY <1>23 DEF TypeOK, StartInv, StopsJoined
  <2>2. StartInv' BY <1>23 DEF TypeOK, StartInv, StopsJoined, Group
  <2>3. StopInv' BY <1>23 DEF TypeOK, StopInv, StopsJoined
  <2> QED BY <2>1, <2>2, <2>3
<1>24. ASSUME NEW k \in Stoppers, StopsAborted(k) PROVE EInv'
  <2>1. TypeOK' BY <1>24 DEF TypeOK, StartInv, StopsAborted, Left
  <2>2. StartInv' BY <1>24 DEF TypeOK, StartInv, StopsAborted, Left, Group
  <2>3. StopInv' BY <1>24 DEF TypeOK, StopInv, StopsAborted, Left
  <2> QED BY <2>1, <2>2, <2>3
<1>25. ASSUME NEW k \in Stoppers, AfterStops(k) PROVE EInv'
  <2>1. TypeOK' BY <1>25, SMTT(60) DEF TypeOK, StartInv, AfterStops, Left
  <2>2. StartInv' BY <1>25, SMTT(60) DEF TypeOK, StartInv, AfterStops, Left, Group
  <2>3. StopInv' BY <1>25, SMTT(60) DEF TypeOK, StopInv, AfterStops, Left
  <2> QED BY <2>1, <2>2, <2>3
<1>26. ASSUME NEW k \in Stoppers, CancelBackground(k) PROVE EInv'
  <2>1. TypeOK' BY <1>26, SMTT(60) DEF TypeOK, StartInv, CancelBackground, CancelStoppers, StopperAfterCancel, Cancel, Left, GivesUp, Hit, GroupAfterCancel
  <2>2. StartInv' BY <1>26, SMTT(60) DEF TypeOK, StartInv, CancelBackground, CancelStoppers, StopperAfterCancel, Cancel, Left, GivesUp, Hit, GroupAfterCancel, Group
  <2>3. StopInv' BY <1>26 DEF TypeOK, StopInv, CancelBackground, CancelStoppers, StopperAfterCancel, Cancel, Left, GivesUp, Hit, GroupAfterCancel
  <2> QED BY <2>1, <2>2, <2>3
<1>27. ASSUME NEW k \in Stoppers, BackgroundJoined(k) PROVE EInv'
  <2>1. TypeOK' BY <1>27 DEF TypeOK, StartInv, BackgroundJoined
  <2>2. StartInv' BY <1>27 DEF TypeOK, StartInv, BackgroundJoined, Group
  <2>3. StopInv' BY <1>27 DEF TypeOK, StopInv, BackgroundJoined
  <2> QED BY <2>1, <2>2, <2>3
<1>28. ASSUME NEW k \in Stoppers, ExecutorDown(k) PROVE EInv'
  <2>1. TypeOK' BY <1>28 DEF TypeOK, StartInv, ExecutorDown
  <2>2. StartInv' BY <1>28 DEF TypeOK, StartInv, ExecutorDown, Group
  <2>3. StopInv' BY <1>28 DEF TypeOK, StopInv, ExecutorDown
  <2> QED BY <2>1, <2>2, <2>3
<1>29. ASSUME NEW k \in Stoppers, Close(k) PROVE EInv'
  <2>1. TypeOK' BY <1>29 DEF TypeOK, StartInv, Close
  <2>2. StartInv' BY <1>29 DEF TypeOK, StartInv, Close, Group
  <2>3. StopInv' BY <1>29 DEF TypeOK, StopInv, Close
  <2> QED BY <2>1, <2>2, <2>3
<1>30. ASSUME NEW k \in Stoppers, Finish(k) PROVE EInv'
  <2>1. TypeOK' BY <1>30 DEF TypeOK, StartInv, Finish, StopsLoop
  <2>2. StartInv' BY <1>30 DEF TypeOK, StartInv, Finish, StopsLoop, Group
  <2>3. StopInv' BY <1>30 DEF TypeOK, StopInv, Finish, StopsLoop
  <2> QED BY <2>1, <2>2, <2>3
<1>31. ASSUME NEW k \in Stoppers, NEW s \in Services, StopReturns(k, s) PROVE EInv'
  <2>1. TypeOK' BY <1>31 DEF TypeOK, StartInv, StopReturns, StopBecomes
  <2>2. StartInv' BY <1>31 DEF TypeOK, StartInv, StopReturns, StopBecomes, Group
  <2>3. StopInv' BY <1>31, SMTT(60) DEF TypeOK, StopInv, StopReturns, StopBecomes
  <2> QED BY <2>1, <2>2, <2>3
<1>32. ASSUME NEW k \in Stoppers, NEW s \in Services, StopFails(k, s) PROVE EInv'
  <2>1. TypeOK' BY <1>32, SMTT(60) DEF TypeOK, StartInv, StopFails, StopBecomes
  <2>2. StartInv' BY <1>32 DEF TypeOK, StartInv, StopFails, StopBecomes, Group
  <2>3. StopInv' BY <1>32 DEF TypeOK, StopInv, StopFails, StopBecomes
  <2> QED BY <2>1, <2>2, <2>3
<1>33. ASSUME NEW k \in Stoppers, NEW s \in Services, StopGivesUp(k, s) PROVE EInv'
  <2>1. TypeOK' BY <1>33, SMTT(60) DEF TypeOK, StartInv, StopGivesUp, StopBecomes
  <2>2. StartInv' BY <1>33 DEF TypeOK, StartInv, StopGivesUp, StopBecomes, Group
  <2>3. StopInv' BY <1>33, SMTT(60) DEF TypeOK, StopInv, StopGivesUp, StopBecomes
  <2> QED BY <2>1, <2>2, <2>3
<1>34. CASE StopDynamic
  <2>1. TypeOK' BY <1>34, SMTT(60) DEF TypeOK, StartInv, StopDynamic
  <2>2. StartInv' BY <1>34 DEF TypeOK, StartInv, StopDynamic, Group
  <2>3. StopInv' BY <1>34 DEF TypeOK, StopInv, StopDynamic
  <2> QED BY <2>1, <2>2, <2>3
<1>35. CASE Entered
  <2>1. TypeOK' BY <1>35 DEF TypeOK, StartInv, Entered
  <2>2. StartInv' BY <1>35 DEF TypeOK, StartInv, Entered, Group
  <2>3. StopInv' BY <1>35 DEF TypeOK, StopInv, Entered
  <2> QED BY <2>1, <2>2, <2>3
<1>36. CASE EnterFails
  <2>1. TypeOK' BY <1>36 DEF TypeOK, StartInv, EnterFails
  <2>2. StartInv' BY <1>36 DEF TypeOK, StartInv, EnterFails, Group
  <2>3. StopInv' BY <1>36 DEF TypeOK, StopInv, EnterFails
  <2> QED BY <2>1, <2>2, <2>3
<1>37. CASE ExitBody
  <2>1. TypeOK' BY <1>37 DEF TypeOK, StartInv, ExitBody
  <2>2. StartInv' BY <1>37 DEF TypeOK, StartInv, ExitBody, Group
  <2>3. StopInv' BY <1>37 DEF TypeOK, StopInv, ExitBody
  <2> QED BY <2>1, <2>2, <2>3
<1>38. CASE CloseLoop
  <2>1. TypeOK' BY <1>38, SMTT(60) DEF TypeOK, StartInv, CloseLoop
  <2>2. StartInv' BY <1>38 DEF TypeOK, StartInv, CloseLoop, Group
  <2>3. StopInv' BY <1>38, SMTT(60) DEF TypeOK, StopInv, CloseLoop
  <2> QED BY <2>1, <2>2, <2>3
<1>39. CASE UNCHANGED vars BY <1>39, SMTT(60) DEF vars, TypeOK, StartInv, StopInv
<1> QED
  BY <1>1, <1>2, <1>3, <1>4, <1>5, <1>6, <1>7, <1>8, <1>9, <1>10, <1>11, <1>12, <1>13,
     <1>14, <1>15, <1>16, <1>17, <1>18, <1>19, <1>20, <1>21, <1>22, <1>23, <1>24, <1>25,
     <1>26, <1>27, <1>28, <1>29, <1>30, <1>31, <1>32, <1>33, <1>34, <1>35, <1>36, <1>37,
     <1>38, <1>39 DEF Next, Starting, Stopping

\* The invariant holds all along, whatever services fail or are cancelled (entrypoint.py).
THEOREM Invariance == Spec => []EInv
BY Initially, Inductive, PTL DEF Spec

\* Every variable keeps its type; in particular a startup that has begun has its task.
THEOREM TypeCorrect == Spec => []TypeOK
<1>1. EInv => TypeOK BY DEF EInv
<1> QED BY <1>1, Invariance, PTL

\* Signals and the end of the body race for the shutdown, and yet at most one
\* coroutine calls the stop() of a service.
THEOREM StopCalledOnce == Spec => []StopOnce
<1>1. EInv => StopOnce BY DEF EInv, StopInv, StopOnce
<1> QED BY <1>1, Invariance, PTL

\* POST_START is called when each start() of the group is over, or belongs to a service
\* that is ready and is registered in _tasks.
THEOREM StartupJoined == Spec => JoinedBeforePostStart
<1> DEFINE Called(g) == group[g] \notin {"post", "undo"} /\ group'[g] \in {"post", "undo"}
           Joined(g) == \A s \in Group(g) : task[s] \in {"running", "cancelling"} => ready[s] /\ s \in tasks
<1>1. ASSUME EInv, [Next]_vars, NEW g \in Groups, Called(g) PROVE Joined(g)
  <2>1. \A s \in Group(g) : starter[s] \in {"ok", "failed"}
    <3> USE <1>1 DEF EInv, TypeOK, startVars, stopVars
    <3>1. CASE \E h \in Groups : GatherDone(h) BY <3>1 DEF GatherDone
    <3>2. CASE \E h \in Groups : GroupJoined(h) BY <3>2 DEF GroupJoined, GroupOver
    <3>3. CASE \E h \in Groups : StartGroup(h) \/ CreateStarters(h) \/ GatherFails(h) \/ GroupEnds(h)
      BY <3>3, SMTT(60) DEF StartGroup, CreateStarters, GatherFails, GroupEnds
    <3>4. CASE \E h \in Groups : CancelStart(h) BY <3>4 DEF CancelStart, GroupAfterCancel
    <3>5. CASE \E k \in Stoppers : CancelBackground(k)
      <4>1. g = "dynamic" \/ group'[g] = group[g] BY <3>5 DEF CancelBackground
      <4>2. group'["dynamic"] \in {"failed", GroupAfterCancel("dynamic")} BY <3>5 DEF CancelBackground, Groups
      <4> QED BY <4>1, <4>2 DEF GroupAfterCancel
    <3>6. CASE UNCHANGED group BY <3>6
    <3>7. ASSUME NEW s \in Services, \/ Begin(s) \/ Wake(s) \/ Settle(s) \/ Cleanup(s) \/ CleanedUp(s)
                                      \/ SetReady(s) \/ StartReturns(s) \/ StartFails(s) \/ StartGivesUp(s)
          PROVE UNCHANGED group
      BY <3>7 DEF Begin, Wake, Settle, Cleanup, CleanedUp, SetReady, StartReturns, StartFails, StartGivesUp
    <3>8. ASSUME NEW k \in Stoppers,
                 \/ Shut(k) \/ TasksJoined(k) \/ CallStops(k) \/ StopsGathered(k) \/ StopsJoined(k)
                 \/ StopsAborted(k) \/ AfterStops(k) \/ BackgroundJoined(k) \/ ExecutorDown(k) \/ Close(k)
                 \/ Finish(k) \/ \E s \in Services : StopReturns(k, s) \/ StopFails(k, s) \/ StopGivesUp(k, s)
          PROVE UNCHANGED group
      BY <3>8 DEF Shut, TasksJoined, CallStops, StopsGathered, StopsJoined, StopsAborted, AfterStops,
                  BackgroundJoined, ExecutorDown, Close, Finish, StopReturns, StopFails, StopGivesUp, StopBecomes
    <3>9. ASSUME \/ \E i \in Interrupts : Interrupt(i) \/ Timeout(i)
                 \/ StopDynamic \/ Entered \/ EnterFails \/ ExitBody \/ CloseLoop \/ UNCHANGED vars
          PROVE UNCHANGED group
      BY <3>9 DEF Interrupt, Timeout, StopDynamic, Entered, EnterFails, ExitBody, CloseLoop, vars
    <3> QED BY <3>1, <3>2, <3>3, <3>4, <3>5, <3>6, <3>7, <3>8, <3>9 DEF Next, Starting, Stopping
  <2> QED BY <1>1, <2>1 DEF EInv, StartInv, Over, Group, Services
<1>2. EInv /\ [Next]_vars => [\A g \in Groups : Called(g) => Joined(g)]_vars
  BY <1>1
<1> QED BY <1>2, Invariance, PTL DEF Spec, JoinedBeforePostStart
=============================================================================

-------------------------- MODULE AggregatorProofs --------------------------
(***************************************************************************)
(* Safety of the aggregator for any number of calls, any max_count and any *)
(* pattern of timeouts and cancellations.                                  *)
(***************************************************************************)
EXTENDS Aggregator, TLAPS

\* A call that has been made is in the batch it has captured, and only there.
Membership ==
    \A c \in Calls :
        /\ pc[c] = "idle" => batch[c] = None /\ members[c] = <<>>
        /\ pc[c] # "idle" =>
            /\ batch[c] \in Calls
            /\ \E k \in 1 .. Len(members[batch[c]]) : members[batch[c]][k] = c
        /\ pc[c] = "idle" <=> future[c] = "none"
        /\ Len(members[c]) <= MaxCount
        /\ \A k \in 1 .. Len(members[c]) :
            pc[members[c][k]] # "idle" /\ batch[members[c][k]] = c

\* The batch that takes calls has room, and none of its callers has gone past
\* the wait.
Collecting ==
    current # None =>
        /\ Len(members[current]) < MaxCount /\ pc[current] # "idle"
        /\ \A c \in Calls : batch[c] = current =>
            pc[c] \in {"wait", "cancelled"} /\ Pending(c)

\* Whoever executes holds the lock.
ExecutorLocks == \A c \in Calls : pc[c] = "exec" => batch[c] \in locked

IInv ==
    /\ TypeOK /\ Membership /\ Collecting /\ ExecutorLocks /\ OneExecution
    /\ ExecutesWholeBatch /\ NeverBlocks /\ SameFate /\ ExecutesUnanswered

\* Appending a call to a batch keeps the earlier calls where they are.
LEMMA AppendFacts ==
    ASSUME NEW S, NEW s \in Seq(S), NEW x \in S
    PROVE  /\ Append(s, x) \in Seq(S)
           /\ Len(Append(s, x)) = Len(s) + 1
           /\ Append(s, x)[Len(s) + 1] = x
           /\ \A k \in 1 .. Len(s) : Append(s, x)[k] = s[k]
           /\ Range(Append(s, x)) = Range(s) \cup {x}
  <1>1. /\ Append(s, x) \in Seq(S)
        /\ Len(Append(s, x)) = Len(s) + 1
        /\ Append(s, x)[Len(s) + 1] = x
        /\ \A k \in 1 .. Len(s) : Append(s, x)[k] = s[k]
    OBVIOUS
  <1>2. Len(s) \in Nat
    OBVIOUS
  <1>3. Range(Append(s, x)) = Range(s) \cup {x}
    <2> DEFINE a == Append(s, x)
    <2> HIDE DEF a
    <2>1. /\ Len(a) = Len(s) + 1 /\ a[Len(s) + 1] = x
          /\ \A k \in 1 .. Len(s) : a[k] = s[k]
      BY <1>1 DEF a
    <2>2. 1 .. Len(a) = (1 .. Len(s)) \cup {Len(s) + 1}
      BY <2>1, <1>2
    <2>3. Range(a) = Range(s) \cup {x}
      BY <2>1, <2>2 DEF Range
    <2> QED  BY <2>3 DEF a
  <1> QED  BY <1>1, <1>3

\* A new aggregator has no batch and no call (aggregate.py).
LEMMA InitIInv == Init => IInv
  <1> SUFFICES ASSUME Init PROVE IInv
    OBVIOUS
  <1>0. \A b \in Calls : members[b] = <<>> /\ Len(members[b]) = 0 /\ 1 .. Len(members[b]) = {}
    <2>1. Len(<<>>) = 0 /\ 1 .. 0 = {}
      OBVIOUS
    <2>2. \A b \in Calls : members[b] = <<>>
      BY DEF Init
    <2> QED  BY <2>1, <2>2, Zenon
  <1>1. TypeOK
    BY DEF Init, TypeOK, Labels, Outcomes
  <1>2. Membership
    <2>2. \A c \in Calls : pc[c] = "idle" /\ batch[c] = None /\ future[c] = "none"
      BY DEF Init
    <2>3. \A b \in Calls : Len(members[b]) <= MaxCount
      <3>1. 0 <= MaxCount
        BY MaxCountAssumption
      <3> QED  BY <1>0, <3>1, Zenon
    <2> QED  BY <1>0, <2>2, <2>3, Zenon DEF Membership
  <1>3. Collecting /\ ExecutorLocks /\ OneExecution /\ ExecutesWholeBatch /\ NeverBlocks
    BY DEF Init, Collecting, ExecutorLocks, OneExecution, ExecutesWholeBatch, NeverBlocks
  <1>4. \A b \in Calls : Range(members[b]) = {}
    BY <1>0, Zenon DEF Range
  <1>5. SameFate /\ ExecutesUnanswered
    BY <1>4 DEF Init, SameFate, ExecutesUnanswered
  <1> QED  BY <1>1, <1>2, <1>3, <1>5 DEF IInv

\* The members of a batch are the calls that have captured it.
LEMMA RangeFacts ==
    ASSUME TypeOK, Membership
    PROVE  /\ \A b \in Calls : Range(members[b]) \subseteq Calls
           /\ \A b \in Calls : \A d \in Range(members[b]) : batch[d] = b /\ pc[d] # "idle"
           /\ \A c \in Calls : pc[c] # "idle" => batch[c] \in Calls /\ c \in Range(members[batch[c]])
  <1>1. \A b \in Calls : \A k \in 1 .. Len(members[b]) : members[b][k] \in Calls
    BY DEF TypeOK
  <1>2. \A b \in Calls : Range(members[b]) \subseteq Calls
    BY <1>1 DEF Range
  <1>3. \A b \in Calls : \A d \in Range(members[b]) : batch[d] = b /\ pc[d] # "idle"
    BY DEF Membership, Range
  <1>4. \A c \in Calls : pc[c] # "idle" => batch[c] \in Calls /\ c \in Range(members[batch[c]])
    BY DEF Membership, Range
  <1> QED  BY <1>2, <1>3, <1>4

\* A caller past its wait queues for the lock, or takes it.
LEMMA EnterStep ==
    ASSUME IInv, NEW c \in Calls, pc[c] \in {"wait", "lock"},
           UNCHANGED <<members, batch, future, event, expired>>,
           current' \in {current, None}, current' # batch[c],
           \/ pc' = [pc EXCEPT ![c] = "lock"] /\ UNCHANGED <<locked, given>>
           \/ batch[c] \notin locked /\ Acquire(c, batch[c])
    PROVE  IInv'
  <1>i. /\ TypeOK /\ Membership /\ Collecting /\ ExecutorLocks /\ OneExecution
        /\ ExecutesWholeBatch /\ NeverBlocks /\ SameFate /\ ExecutesUnanswered
    BY DEF IInv
  <1>0. /\ batch[c] \in Calls /\ c \in Range(members[batch[c]])
        /\ \A b \in Calls : Range(members[b]) \subseteq Calls
        /\ \A b \in Calls : \A d \in Range(members[b]) : batch[d] = b
    BY <1>i, RangeFacts
  <1>1. \/ pc' = [pc EXCEPT ![c] = "lock"] /\ UNCHANGED <<locked, given>>
        \/ /\ batch[c] \notin locked /\ Pending(c) /\ locked' = locked \cup {batch[c]}
           /\ pc' = [pc EXCEPT ![c] = "exec"]
           /\ given' = [given EXCEPT ![c] = members[batch[c]]]
        \/ pc' = [pc EXCEPT ![c] = "returned"] /\ UNCHANGED <<locked, given>>
    BY DEF Acquire, MustExecute, AwaitLabel, Pending
  <1>a. /\ \A e \in Calls : e # c => pc'[e] = pc[e] /\ given'[e] = given[e]
        /\ pc'[c] \in {"lock", "exec", "returned"}
        /\ locked \subseteq locked' /\ locked' \subseteq locked \cup {batch[c]}
    BY <1>i, <1>1 DEF TypeOK
  <1>b. pc'[c] = "exec" => /\ batch[c] \notin locked /\ batch[c] \in locked' /\ Pending(c)
                           /\ given'[c] = members[batch[c]]
    BY <1>i, <1>1 DEF TypeOK
  <1>2. TypeOK'
    <2>0. /\ pc \in [Calls -> Labels] /\ given \in [Calls -> Seq(Calls)] /\ locked \subseteq Calls
          /\ {"lock", "exec", "returned"} \subseteq Labels
      BY <1>i DEF TypeOK, Labels
    <2>1. pc' \in [Calls -> Labels]
      <3>1. ASSUME NEW p \in Labels PROVE [pc EXCEPT ![c] = p] \in [Calls -> Labels]
        BY <2>0
      <3> QED BY <1>1, <2>0, <3>1
    <2>2. locked' \subseteq Calls
      BY <1>0, <1>1, <2>0
    <2>3. members[batch[c]] \in Seq(Calls)
      BY <1>i, <1>0 DEF TypeOK
    <2>4. given' \in [Calls -> Seq(Calls)]
      <3>1. [given EXCEPT ![c] = members[batch[c]]] \in [Calls -> Seq(Calls)]
        BY <2>0, <2>3
      <3> QED BY <1>1, <2>0, <3>1
    <2> QED  BY <1>i, <2>1, <2>2, <2>4 DEF TypeOK
  <1>3. \A d \in Calls : (pc[d] = "idle") <=> (pc'[d] = "idle")
    BY <1>i, <1>1 DEF TypeOK
  <1>4. Membership'
    <2>1. \A b \in Calls : \A k \in 1 .. Len(members[b]) : members[b][k] \in Calls
      BY <1>i DEF TypeOK
    <2>2. members' = members /\ batch' = batch /\ future' = future
      OBVIOUS
    <2>3. ASSUME NEW d \in Calls
          PROVE  /\ pc'[d] = "idle" => batch'[d] = None /\ members'[d] = <<>>
                 /\ pc'[d] # "idle" =>
                    /\ batch'[d] \in Calls
                    /\ \E k \in 1 .. Len(members'[batch'[d]]) : members'[batch'[d]][k] = d
                 /\ pc'[d] = "idle" <=> future'[d] = "none"
                 /\ Len(members'[d]) <= MaxCount
      BY <1>i, <1>3, <2>2 DEF Membership
    <2>4. ASSUME NEW d \in Calls, NEW k \in 1 .. Len(members[d])
          PROVE  pc'[members[d][k]] # "idle" /\ batch[members[d][k]] = d
      <3>1. pc[members[d][k]] # "idle" /\ batch[members[d][k]] = d
        BY <1>i DEF Membership
      <3>2. members[d][k] \in Calls
        BY <2>1
      <3> QED BY <1>3, <3>1, <3>2
    <2> QED  BY <2>2, <2>3, <2>4 DEF Membership
  <1>5. Collecting'
    BY <1>i, <1>0, <1>3, <1>a DEF Collecting, Pending, TypeOK
  <1>6. ExecutorLocks' /\ OneExecution'
    BY <1>i, <1>a, <1>b DEF ExecutorLocks, OneExecution
  <1>9. ExecutesWholeBatch' /\ NeverBlocks'
    BY <1>i, <1>a, <1>b DEF ExecutesWholeBatch, NeverBlocks
  <1>7. SameFate'
    BY <1>i DEF SameFate, Range
  <1>8. ExecutesUnanswered'
    <2> SUFFICES ASSUME ~Async, NEW e \in Calls, pc'[e] = "exec",
                        NEW d \in Range(members[batch[e]])
                 PROVE  Pending(d)
      BY DEF ExecutesUnanswered, Pending, Range
    <2>1. CASE e = c
      <3>1. Pending(c)
        BY <1>i, <1>1, <2>1 DEF TypeOK
      <3> QED  BY <1>i, <1>0, <2>1, <3>1 DEF SameFate, Pending
    <2>2. CASE e # c
      <3>1. pc[e] = "exec"
        BY <1>i, <1>1, <2>2 DEF TypeOK
      <3> QED  BY <1>i, <3>1 DEF ExecutesUnanswered
    <2> QED  BY <2>1, <2>2
  <1> QED  BY <1>2, <1>4, <1>5, <1>6, <1>7, <1>8, <1>9 DEF IInv

\* A call joins the current batch, or starts a new one.
LEMMA CallStep ==
    ASSUME IInv, NEW c \in Calls, Call(c)
    PROVE  IInv'
  <1> DEFINE b == IF current = None THEN c ELSE current
  <1>i. /\ TypeOK /\ Membership /\ Collecting /\ ExecutorLocks /\ OneExecution
        /\ ExecutesWholeBatch /\ NeverBlocks /\ SameFate /\ ExecutesUnanswered
    BY DEF IInv
  <1>1. /\ pc[c] = "idle" /\ b \in Calls /\ batch[c] = None
        /\ current # None => b = current
        /\ current = None => b = c
    BY <1>i DEF Call, TypeOK, Membership
  <1>2. /\ members' = [members EXCEPT ![b] = Append(members[b], c)]
        /\ batch' = [batch EXCEPT ![c] = b]
        /\ future' = [future EXCEPT ![c] = "pending"]
        /\ UNCHANGED expired
        /\ IF IsFull(b)
           THEN event' = event \cup {b} /\ current' = None /\ Enter(c, b)
           ELSE /\ current' = b /\ pc' = [pc EXCEPT ![c] = "wait"]
                /\ UNCHANGED <<event, locked, given>>
    BY DEF Call
  <1>3. /\ members[b] \in Seq(Calls) /\ Len(members[b]) \in Nat
        /\ Len(members[b]) < MaxCount
        /\ \A d \in Calls : batch[d] = b =>
            pc[d] \in {"wait", "cancelled"} /\ Pending(d)
    <2>1. members[b] \in Seq(Calls)
      BY <1>i, <1>1 DEF TypeOK
    <2>2. Len(members[b]) \in Nat
      BY <2>1
    <2>3. CASE current # None
      BY <1>i, <1>1, <2>1, <2>2, <2>3 DEF Collecting
    <2>4. CASE current = None
      <3>1. members[c] = <<>> /\ Len(members[c]) = 0
        BY <1>i, <1>1 DEF Membership
      <3>2. \A d \in Calls : batch[d] # c
        <4> SUFFICES ASSUME NEW d \in Calls, batch[d] = c PROVE FALSE
          OBVIOUS
        <4>1. pc[d] # "idle"
          BY <1>i, NoneAssumption DEF Membership
        <4> QED  BY <1>i, <4>1, <3>1 DEF Membership
      <3> QED  BY <1>1, <2>1, <2>4, <3>1, <3>2, MaxCountAssumption
    <2> QED  BY <2>3, <2>4
  <1> HIDE DEF b
  <1>4. /\ members'[b] \in Seq(Calls)
        /\ Len(members'[b]) = Len(members[b]) + 1
        /\ members'[b][Len(members[b]) + 1] = c
        /\ \A k \in 1 .. Len(members[b]) : members'[b][k] = members[b][k]
        /\ Range(members'[b]) = Range(members[b]) \cup {c}
        /\ \A a \in Calls : a # b => members'[a] = members[a]
    <2>1. members'[b] = Append(members[b], c) /\ \A a \in Calls : a # b => members'[a] = members[a]
      BY <1>i, <1>1, <1>2 DEF TypeOK
    <2>2. members[b] \in Seq(Calls)
      BY <1>3
    <2>3. /\ Append(members[b], c) \in Seq(Calls)
          /\ Len(Append(members[b], c)) = Len(members[b]) + 1
          /\ Append(members[b], c)[Len(members[b]) + 1] = c
          /\ \A k \in 1 .. Len(members[b]) : Append(members[b], c)[k] = members[b][k]
          /\ Range(Append(members[b], c)) = Range(members[b]) \cup {c}
      BY <2>2, AppendFacts
    <2> QED  BY <2>1, <2>3, Zenon
  <1>5. /\ batch'[c] = b /\ future'[c] = "pending"
        /\ \A e \in Calls : e # c => batch'[e] = batch[e] /\ future'[e] = future[e]
    BY <1>i, <1>2 DEF TypeOK
  <1>6. \/ /\ pc' = [pc EXCEPT ![c] = "exec"] /\ b \notin locked
           /\ locked' = locked \cup {b} /\ given' = [given EXCEPT ![c] = members'[b]]
           /\ current' = None
        \/ pc' = [pc EXCEPT ![c] = "lock"] /\ UNCHANGED <<locked, given>> /\ current' = None
        \/ /\ pc' = [pc EXCEPT ![c] = "wait"] /\ UNCHANGED <<locked, given>>
           /\ current' = b /\ Len(members'[b]) # MaxCount
    BY <1>2, <1>5 DEF IsFull, Enter, Acquire, MustExecute, Contended
  <1>a. /\ \A e \in Calls : e # c => pc'[e] = pc[e] /\ given'[e] = given[e]
        /\ pc'[c] \in {"lock", "exec", "wait"}
        /\ locked \subseteq locked' /\ locked' \subseteq locked \cup {b}
        /\ current' \in {b, None}
    BY <1>i, <1>6 DEF TypeOK
  <1>b. pc'[c] = "exec" => b \notin locked /\ b \in locked' /\ given'[c] = members'[b]
    BY <1>i, <1>6 DEF TypeOK
  <1>c. current' # None => pc'[c] = "wait" /\ current' = b /\ Len(members'[b]) # MaxCount
    BY <1>i, <1>6 DEF TypeOK
  <1>d. \A e \in Calls : pc[e] = "exec" => e # c /\ batch[e] # b
    BY <1>1, <1>3
  <1>7. TypeOK'
    <2>1. members' \in [Calls -> Seq(Calls)] /\ event' \subseteq Calls
      BY <1>i, <1>1, <1>2, <1>3 DEF TypeOK, Enter
    <2>2. batch' \in [Calls -> Calls \cup {None}]
          /\ future' \in [Calls -> Outcomes \cup {"none", "pending"}]
      BY <1>i, <1>1, <1>2 DEF TypeOK
    <2>3. pc' \in [Calls -> Labels] /\ locked' \subseteq Calls /\ current' \in Calls \cup {None}
      BY <1>i, <1>1, <1>6 DEF TypeOK, Labels
    <2>4. given' \in [Calls -> Seq(Calls)]
      BY <1>i, <1>4, <1>6 DEF TypeOK
    <2> QED  BY <1>i, <1>2, <2>1, <2>2, <2>3, <2>4 DEF TypeOK
  <1>8. Membership'
    <2>1. pc'[b] # "idle"
      BY <1>i, <1>1, <1>a DEF Collecting
    <2>2. \A e \in Calls : pc'[e] = "idle" => batch'[e] = None /\ members'[e] = <<>>
      BY <1>i, <1>1, <1>4, <1>5, <1>a, <2>1 DEF Membership
    <2>3. \A e \in Calls : pc'[e] # "idle" =>
            /\ batch'[e] \in Calls
            /\ \E k \in 1 .. Len(members'[batch'[e]]) : members'[batch'[e]][k] = e
      <3> SUFFICES ASSUME NEW e \in Calls, pc'[e] # "idle"
                   PROVE  /\ batch'[e] \in Calls
                          /\ \E k \in 1 .. Len(members'[batch'[e]]) : members'[batch'[e]][k] = e
        OBVIOUS
      <3>1. CASE e = c
        <4>1. Len(members[b]) + 1 \in 1 .. Len(members'[b])
          BY <1>3, <1>4
        <4> QED  BY <1>1, <1>4, <1>5, <3>1, <4>1
      <3>2. CASE e # c
        <4>1. batch'[e] = batch[e] /\ pc[e] # "idle"
          BY <1>5, <1>a, <3>2
        <4>2. PICK k \in 1 .. Len(members[batch[e]]) : members[batch[e]][k] = e
          BY <1>i, <4>1 DEF Membership
        <4>3. batch[e] \in Calls
          BY <1>i, <4>1 DEF Membership
        <4>4. CASE batch[e] = b
          <5>1. k \in 1 .. Len(members'[b])
            BY <1>3, <1>4, <4>2, <4>4
          <5> QED  BY <1>4, <4>1, <4>2, <4>3, <4>4, <5>1
        <4>5. CASE batch[e] # b
          BY <1>4, <4>1, <4>2, <4>3, <4>5
        <4> QED  BY <4>4, <4>5
      <3> QED  BY <3>1, <3>2
    <2>4. \A e \in Calls : (pc'[e] = "idle" <=> future'[e] = "none")
      BY <1>i, <1>5, <1>a DEF Membership
    <2>5. \A e \in Calls : Len(members'[e]) <= MaxCount
      BY <1>i, <1>3, <1>4, MaxCountAssumption DEF Membership
    <2>6. \A e \in Calls : \A k \in 1 .. Len(members'[e]) :
            pc'[members'[e][k]] # "idle" /\ batch'[members'[e][k]] = e
      <3> SUFFICES ASSUME NEW e \in Calls, NEW k \in 1 .. Len(members'[e])
                   PROVE  pc'[members'[e][k]] # "idle" /\ batch'[members'[e][k]] = e
        OBVIOUS
      <3>0. \A a \in Calls : \A j \in 1 .. Len(members[a]) : members[a][j] \in Calls
        BY <1>i DEF TypeOK
      <3>1. \A a \in Calls : \A j \in 1 .. Len(members[a]) :
                /\ members[a][j] # c
                /\ pc'[members[a][j]] # "idle" /\ batch'[members[a][j]] = a
        BY <1>i, <1>1, <1>5, <1>a, <3>0, NoneAssumption DEF Membership
      <3>2. CASE e # b
        BY <1>4, <3>1, <3>2
      <3>3. CASE e = b
        <4>1. k = Len(members[b]) + 1 \/ k \in 1 .. Len(members[b])
          BY <1>3, <1>4, <3>3
        <4> QED  BY <1>1, <1>4, <1>5, <1>a, <3>1, <3>3, <4>1
      <3> QED  BY <3>2, <3>3
    <2> QED  BY <2>2, <2>3, <2>4, <2>5, <2>6, Zenon DEF Membership
  <1>9. Collecting'
    <2> SUFFICES ASSUME current' # None PROVE Collecting'
      BY DEF Collecting
    <2>1. current' = b /\ pc'[c] = "wait" /\ Len(members'[b]) < MaxCount
      BY <1>3, <1>4, <1>c, MaxCountAssumption
    <2>2. pc'[b] # "idle"
      BY <1>i, <1>1, <1>a DEF Collecting
    <2>3. \A e \in Calls : batch'[e] = b => pc'[e] \in {"wait", "cancelled"} /\ future'[e] = "pending"
      BY <1>3, <1>5, <1>a, <2>1 DEF Pending
    <2> QED  BY <2>1, <2>2, <2>3 DEF Collecting, Pending
  <1>10. ExecutorLocks' /\ OneExecution'
    BY <1>i, <1>5, <1>a, <1>b, <1>d DEF ExecutorLocks, OneExecution
  <1>11. NeverBlocks'
    BY <1>i, <1>a DEF NeverBlocks
  <1>12. ExecutesWholeBatch'
    <2>1. \A e \in Calls : pc[e] = "exec" => batch[e] \in Calls
      BY <1>i DEF Membership
    <2> QED  BY <1>i, <1>4, <1>5, <1>a, <1>b, <1>d, <2>1 DEF ExecutesWholeBatch
  <1>r. /\ \A a \in Calls : Range(members[a]) \subseteq Calls
        /\ \A a \in Calls : \A d \in Range(members[a]) : batch[d] = a /\ d # c
    BY <1>i, <1>1, RangeFacts
  <1>s. \A a \in Calls : a # b => Range(members'[a]) = Range(members[a])
    BY <1>4 DEF Range
  <1>t. \A d \in Range(members'[b]) : future'[d] = "pending"
    BY <1>1, <1>3, <1>4, <1>5, <1>r DEF Pending
  <1>13. SameFate'
    BY <1>i, <1>5, <1>r, <1>s, <1>t DEF SameFate
  <1>14. ExecutesUnanswered'
    <2> SUFFICES ASSUME ~Async, NEW e \in Calls, pc'[e] = "exec",
                        NEW d \in Range(members'[batch'[e]])
                 PROVE  future'[d] = "pending"
      BY DEF ExecutesUnanswered, Pending
    <2>1. CASE e = c
      BY <1>5, <1>t, <2>1
    <2>2. CASE e # c
      <3>1. pc[e] = "exec" /\ batch'[e] = batch[e] /\ batch[e] # b /\ batch[e] \in Calls
        BY <1>i, <1>5, <1>a, <1>d, <2>2 DEF Membership
      <3> QED  BY <1>i, <1>5, <1>r, <1>s, <3>1 DEF ExecutesUnanswered, Pending
    <2> QED  BY <2>1, <2>2
  <1> QED  BY <1>7, <1>8, <1>9, <1>10, <1>11, <1>12, <1>13, <1>14 DEF IInv

\* The executor of a batch is done with it: every future of the batch is done,
\* and nothing else has changed.
LEMMA EndStep ==
    ASSUME IInv, NEW c \in Calls, pc[c] = "exec", EndExecute(c),
           future' \in [Calls -> Outcomes \cup {"none", "pending"}],
           \A d \in Range(members[batch[c]]) : future'[d] \in Outcomes,
           \A d \in Calls : d \notin Range(members[batch[c]]) => future'[d] = future[d],
           ~Async => \A d, e \in Range(members[batch[c]]) : future'[d] = "error" => future'[e] = "error"
    PROVE  IInv'
  <1>i. /\ TypeOK /\ Membership /\ Collecting /\ ExecutorLocks /\ OneExecution
        /\ ExecutesWholeBatch /\ NeverBlocks /\ SameFate /\ ExecutesUnanswered
    BY DEF IInv
  <1>0. /\ batch[c] \in Calls /\ c \in Range(members[batch[c]])
        /\ \A b \in Calls : Range(members[b]) \subseteq Calls
        /\ \A b \in Calls : \A d \in Range(members[b]) : batch[d] = b /\ pc[d] # "idle"
    BY <1>i, RangeFacts
  <1>1. /\ pc' = [pc EXCEPT ![c] = "returned"] /\ locked' = locked \ {batch[c]}
        /\ UNCHANGED <<current, members, event, expired, batch, given>>
    BY <1>0 DEF EndExecute, AwaitLabel, Outcomes
  <1>a. pc'[c] = "returned" /\ \A e \in Calls : e # c => pc'[e] = pc[e]
    BY <1>i, <1>1 DEF TypeOK
  <1>2. TypeOK'
    BY <1>i, <1>1 DEF TypeOK, Labels
  <1>3. \A e \in Calls : (pc[e] = "idle" <=> pc'[e] = "idle") /\ (future'[e] = "none" <=> future[e] = "none")
    <2>1. \A e \in Calls : (pc[e] = "idle" <=> pc'[e] = "idle")
      BY <1>a
    <2>2. \A e \in Calls : (future'[e] = "none" <=> future[e] = "none")
      BY <1>i, <1>0 DEF Membership, Outcomes
    <2> QED  BY <2>1, <2>2
  <1>4. Membership'
    <2>1. \A b \in Calls : \A k \in 1 .. Len(members[b]) : members[b][k] \in Calls
      BY <1>i DEF TypeOK
    <2> QED  BY <1>i, <1>1, <1>3, <2>1, SMTT(60) DEF Membership
  <1>5. Collecting'
    <2> SUFFICES ASSUME current # None PROVE Collecting'
      BY <1>1 DEF Collecting
    <2>1. batch[c] # current /\ current \in Calls
      BY <1>i DEF Collecting, TypeOK
    <2>2. \A d \in Calls : batch[d] = current => d # c /\ future'[d] = future[d]
      BY <1>0, <2>1
    <2> QED  BY <1>i, <1>1, <1>3, <1>a, <2>1, <2>2 DEF Collecting, Pending
  <1>6. ExecutorLocks' /\ OneExecution'
    BY <1>i, <1>1, <1>a DEF ExecutorLocks, OneExecution
  <1>7. ExecutesWholeBatch' /\ NeverBlocks'
    BY <1>i, <1>1, <1>a DEF ExecutesWholeBatch, NeverBlocks
  <1>8. \A b \in Calls : b # batch[c] => \A d \in Range(members[b]) : future'[d] = future[d]
    BY <1>0
  <1>9. SameFate'
    <2> SUFFICES ASSUME ~Async, NEW b \in Calls, NEW d \in Range(members[b]), NEW e \in Range(members[b])
                 PROVE  /\ future'[d] = "error" => future'[e] = "error"
                        /\ future'[d] = "pending" => future'[e] = "pending"
      BY <1>1 DEF SameFate
    <2>1. CASE b = batch[c]
      BY <2>1 DEF Outcomes
    <2>2. CASE b # batch[c]
      BY <1>i, <1>8, <2>2 DEF SameFate
    <2> QED  BY <2>1, <2>2
  <1>10. ExecutesUnanswered'
    <2> SUFFICES ASSUME ~Async, NEW e \in Calls, pc'[e] = "exec", NEW d \in Range(members[batch[e]])
                 PROVE  future'[d] = "pending"
      BY <1>1 DEF ExecutesUnanswered, Pending
    <2>1. pc[e] = "exec" /\ batch[e] # batch[c] /\ batch[e] \in Calls
      BY <1>i, <1>a, SMTT(60) DEF OneExecution, Membership
    <2> QED  BY <1>i, <1>8, <2>1, SMTT(60) DEF ExecutesUnanswered, Pending
  <1> QED  BY <1>2, <1>4, <1>5, <1>6, <1>7, <1>9, <1>10 DEF IInv

\* The first elements of a sequence are elements of it.
LEMMA SubSeqFacts ==
    ASSUME NEW S, NEW s \in Seq(S), NEW n \in 0 .. Len(s)
    PROVE  Range(SubSeq(s, 1, n)) \subseteq Range(s)
  <1>1. /\ Len(SubSeq(s, 1, n)) = n
        /\ \A k \in 1 .. n : SubSeq(s, 1, n)[k] = s[k] /\ k \in 1 .. Len(s)
    OBVIOUS
  <1> QED  BY <1>1 DEF Range

\* The function returns, with as many results as it likes, or raises.
LEMMA FuncEndsStep ==
    ASSUME IInv, NEW c \in Calls, FuncEnds(c)
    PROVE  IInv'
  <1>i. /\ TypeOK /\ Membership /\ ExecutesWholeBatch /\ ExecutesUnanswered
    BY DEF IInv
  <1>1. pc[c] = "exec" /\ EndExecute(c)
    BY DEF FuncEnds, FuncRaises, FuncReturns
  <1>0. /\ batch[c] \in Calls
        /\ Range(members[batch[c]]) \subseteq Calls
        /\ \A d \in Range(members[batch[c]]) : pc[d] # "idle"
    BY <1>i, <1>1, RangeFacts
  <1>2. \A d \in Range(members[batch[c]]) : ~Pending(d) => future[d] \in Outcomes
    BY <1>i, <1>0 DEF TypeOK, Membership, Pending
  <1>3. ~Async => \A d \in Range(members[batch[c]]) : Pending(d)
    BY <1>i, <1>1 DEF ExecutesUnanswered
  <1>4. CASE FuncRaises(c)
    <2>1. future' = [d \in Calls |-> IF d \in Range(members[batch[c]]) /\ Pending(d) THEN "error" ELSE future[d]]
      BY <1>4 DEF FuncRaises, Fill
    <2>2. future' \in [Calls -> Outcomes \cup {"none", "pending"}]
      BY <1>i, <2>1 DEF TypeOK, Outcomes
    <2>3. \A d \in Range(members[batch[c]]) : future'[d] \in Outcomes
      BY <1>0, <1>2, <2>1 DEF Outcomes
    <2>4. \A d \in Calls : d \notin Range(members[batch[c]]) => future'[d] = future[d]
      BY <2>1
    <2>5. ~Async => \A d \in Range(members[batch[c]]) : future'[d] = "error"
      BY <1>0, <1>3, <2>1
    <2> QED  BY <1>1, <2>2, <2>3, <2>4, <2>5, EndStep
  <1>5. ASSUME NEW n \in 0 .. Len(given[c]), FuncReturns(c, n) PROVE IInv'
    <2> DEFINE served == Range(SubSeq(given[c], 1, n))
    <2>1. future' = [d \in Calls |->
                        IF d \in served /\ Pending(d) THEN "result"
                        ELSE [e \in Calls |-> IF e \in Range(members[batch[c]]) /\ Pending(e) THEN "unset" ELSE future[e]][d]]
      BY <1>5 DEF FuncReturns, Answered, Fill
    <2>2. served \subseteq Range(members[batch[c]])
      <3>1. given[c] = members[batch[c]] /\ given[c] \in Seq(Calls)
        BY <1>i, <1>1 DEF ExecutesWholeBatch, TypeOK
      <3>2. Range(SubSeq(given[c], 1, n)) \subseteq Range(given[c])
        BY <3>1, SubSeqFacts
      <3> QED  BY <3>1, <3>2
    <2> HIDE DEF served
    <2>3. \A d \in Calls : future'[d] = IF d \in served /\ Pending(d) THEN "result"
                                        ELSE IF d \in Range(members[batch[c]]) /\ Pending(d) THEN "unset"
                                        ELSE future[d]
      BY <2>1
    <2>4. future' \in [Calls -> Outcomes \cup {"none", "pending"}]
      BY <1>i, <2>1, <2>3 DEF TypeOK, Outcomes
    <2>5. \A d \in Range(members[batch[c]]) : future'[d] \in Outcomes
      BY <1>0, <1>2, <2>3 DEF Outcomes
    <2>6. \A d \in Calls : d \notin Range(members[batch[c]]) => future'[d] = future[d]
      BY <2>2, <2>3
    <2>7. ~Async => \A d \in Range(members[batch[c]]) : future'[d] # "error"
      BY <1>0, <1>3, <2>3
    <2> QED  BY <1>1, <2>4, <2>5, <2>6, <2>7, EndStep
  <1> QED  BY <1>4, <1>5 DEF FuncEnds

\* aggregate_async: a future is set while the function runs.
LEMMA FuncSetsStep ==
    ASSUME IInv, NEW c \in Calls, NEW d \in Calls, FuncSets(c, d)
    PROVE  IInv'
  <1>i. /\ TypeOK /\ Membership /\ Collecting /\ ExecutorLocks /\ OneExecution
        /\ ExecutesWholeBatch /\ NeverBlocks
    BY DEF IInv
  <1>1. /\ Async /\ pc[c] = "exec" /\ d \in Range(given[c]) /\ Pending(d)
        /\ UNCHANGED <<current, members, event, expired, locked, pc, batch, given>>
    BY DEF FuncSets
  <1>2. /\ future' \in [Calls -> Outcomes \cup {"none", "pending"}]
        /\ future'[d] \in Outcomes
        /\ \A e \in Calls : e # d => future'[e] = future[e]
    BY <1>i DEF FuncSets, TypeOK, Outcomes
  <1>3. batch[d] = batch[c] /\ pc[d] # "idle"
    BY <1>i, <1>1, RangeFacts, SMTT(60) DEF ExecutesWholeBatch
  <1>4. \A e \in Calls : (future'[e] = "none" <=> future[e] = "none")
    BY <1>1, <1>2 DEF Pending, Outcomes
  <1>5. TypeOK'
    BY <1>i, <1>1, <1>2 DEF TypeOK
  <1>6. Membership'
    BY <1>i, <1>1, <1>4 DEF Membership
  <1>7. Collecting'
    BY <1>i, <1>1, <1>2, <1>3 DEF Collecting, Pending
  <1>8. ExecutorLocks' /\ OneExecution' /\ ExecutesWholeBatch' /\ NeverBlocks'
    BY <1>i, <1>1 DEF ExecutorLocks, OneExecution, ExecutesWholeBatch, NeverBlocks
  <1>9. SameFate' /\ ExecutesUnanswered'
    BY <1>1 DEF SameFate, ExecutesUnanswered
  <1> QED  BY <1>5, <1>6, <1>7, <1>8, <1>9 DEF IInv

\* A cancelled caller leaves its argument behind and gives the lock back.
LEMMA CancelStep ==
    ASSUME IInv, NEW c \in Calls, Cancel(c)
    PROVE  IInv'
  <1>i. /\ TypeOK /\ Membership /\ Collecting /\ ExecutorLocks /\ OneExecution
        /\ ExecutesWholeBatch /\ NeverBlocks /\ SameFate /\ ExecutesUnanswered
    BY DEF IInv
  <1>1. /\ pc[c] \in {"wait", "lock", "exec"} /\ pc' = [pc EXCEPT ![c] = "cancelled"]
        /\ locked' = IF pc[c] = "exec" THEN locked \ {batch[c]} ELSE locked
        /\ UNCHANGED <<current, members, event, expired, batch, future, given>>
    BY DEF Cancel, Unlocked
  <1>a. pc'[c] = "cancelled" /\ \A e \in Calls : e # c => pc'[e] = pc[e]
    BY <1>i, <1>1 DEF TypeOK
  <1>2. TypeOK'
    BY <1>i, <1>1 DEF TypeOK, Labels
  <1>3. \A e \in Calls : (pc[e] = "idle" <=> pc'[e] = "idle")
    BY <1>1, <1>a
  <1>4. Membership'
    <2>1. \A b \in Calls : \A k \in 1 .. Len(members[b]) : members[b][k] \in Calls
      BY <1>i DEF TypeOK
    <2> QED  BY <1>i, <1>1, <1>3, <2>1 DEF Membership
  <1>5. Collecting'
    BY <1>i, <1>1, <1>3, <1>a DEF Collecting, Pending, TypeOK
  <1>6. ExecutorLocks' /\ OneExecution'
    BY <1>i, <1>1, <1>a DEF ExecutorLocks, OneExecution
  <1>7. ExecutesWholeBatch' /\ NeverBlocks'
    BY <1>i, <1>1, <1>a DEF ExecutesWholeBatch, NeverBlocks
  <1>8. SameFate'
    BY <1>i, <1>1 DEF SameFate
  <1>9. ExecutesUnanswered'
    BY <1>i, <1>1, <1>a DEF ExecutesUnanswered, Pending
  <1> QED  BY <1>2, <1>4, <1>5, <1>6, <1>7, <1>8, <1>9 DEF IInv

\* Nothing the invariant talks about changes.
LEMMA FrameStep ==
    ASSUME IInv, UNCHANGED <<current, members, event, locked, pc, batch, future, given>>,
           expired' \subseteq Calls
    PROVE  IInv'
  <1>1. TypeOK'
    BY DEF IInv, TypeOK
  <1>2. Membership' /\ Collecting'
    BY DEF IInv, Membership, Collecting, Pending
  <1>3. ExecutorLocks' /\ OneExecution' /\ ExecutesWholeBatch' /\ NeverBlocks'
    BY DEF IInv, ExecutorLocks, OneExecution, ExecutesWholeBatch, NeverBlocks
  <1>4. SameFate' /\ ExecutesUnanswered'
    BY DEF IInv, SameFate, ExecutesUnanswered, Pending, Range
  <1> QED  BY <1>1, <1>2, <1>3, <1>4 DEF IInv

\* The inductive invariant holds of every reachable state.
THEOREM Invariance == Spec => []IInv
  <1>1. IInv /\ [Next]_vars => IInv'
    <2> SUFFICES ASSUME IInv, [Next]_vars PROVE IInv'
      OBVIOUS
    <2>i. TypeOK /\ Membership /\ Collecting
      BY DEF IInv
    <2>1. ASSUME NEW c \in Calls, Call(c) PROVE IInv'
      BY <2>1, CallStep
    <2>2. ASSUME NEW c \in Calls, Wake(c) PROVE IInv'
      <3>1. /\ pc[c] = "wait" /\ batch[c] \in Calls
            /\ current' \in {current, None} /\ current' # batch[c]
            /\ UNCHANGED <<members, batch, future, event, expired>> /\ Enter(c, batch[c])
        BY <2>i, <2>2, NoneAssumption DEF Wake, AfterWake, Membership
      <3> QED  BY <3>1, EnterStep DEF Enter, Contended
    <2>3. ASSUME NEW c \in Calls, Acquired(c) PROVE IInv'
      <3>1. /\ pc[c] = "lock" /\ batch[c] \notin locked /\ Acquire(c, batch[c])
            /\ current' = current /\ UNCHANGED <<members, batch, future, event, expired>>
        BY <2>3 DEF Acquired
      <3>2. current' # batch[c]
        BY <2>i, <3>1, NoneAssumption DEF Collecting, Membership
      <3> QED  BY <3>1, <3>2, EnterStep
    <2>4. ASSUME NEW c \in Calls, FuncEnds(c) PROVE IInv'
      BY <2>4, FuncEndsStep
    <2>5. ASSUME NEW c \in Calls, NEW d \in Calls, FuncSets(c, d) PROVE IInv'
      BY <2>5, FuncSetsStep
    <2>6. ASSUME NEW c \in Calls, Cancel(c) PROVE IInv'
      BY <2>6, CancelStep
    <2>7. ASSUME NEW c \in Calls, Expire(c) PROVE IInv'
      BY <2>i, <2>7, FrameStep DEF Expire, TypeOK
    <2>8. CASE UNCHANGED vars
      BY <2>i, <2>8, FrameStep DEF vars, TypeOK
    <2> QED  BY <2>1, <2>2, <2>3, <2>4, <2>5, <2>6, <2>7, <2>8 DEF Next
  <1> QED  BY InitIInv, <1>1, PTL DEF Spec

\* Type correctness of the aggregator.
THEOREM TypeCorrect == Spec => []TypeOK
  BY Invariance, PTL DEF IInv

\* The lock of a batch admits one execution of the function at a time.
THEOREM OneAtATime == Spec => []OneExecution
  BY Invariance, PTL DEF IInv

\* An executed batch is closed: the function is given all of its arguments.
THEOREM WholeBatch == Spec => []ExecutesWholeBatch
  BY Invariance, PTL DEF IInv

\* `await future` finds the future done.
THEOREM AwaitNeverBlocks == Spec => []NeverBlocks
  BY Invariance, PTL DEF IInv

\* An execution fails for all callers of its batch or for none.
THEOREM CommonFate == Spec => []SameFate
  BY Invariance, PTL DEF IInv

\* A function that has ended is not called again for the same batch.
THEOREM NoSecondExecution == Spec => []ExecutesUnanswered
  BY Invariance, PTL DEF IInv

\* The function is never given more than max_count arguments.
THEOREM BoundedBatch == Spec => []AtMostMaxCount
  <1>1. IInv => AtMostMaxCount
    BY SMTT(60) DEF IInv, ExecutesWholeBatch, Membership, AtMostMaxCount
  <1> QED  BY Invariance, <1>1, PTL
=============================================================================

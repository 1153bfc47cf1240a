----------------------------- MODULE PoolProofs -----------------------------
(***************************************************************************)
(* Theorems about Pool, for every number of clients, instances and slots:  *)
(* whatever fails, is cancelled or is closed, an instance serves one       *)
(* client at a time, and is alive while it does unless its check has       *)
(* raised; and until a check raises the instances stay within maxsize.     *)
(***************************************************************************)
EXTENDS Pool, FiniteSetTheorems, TLAPS

\* What a sequence holds, and that it holds nothing twice.
Elems(s) == {s[k] : k \in 1 .. Len(s)}
Distinct(s) == \A j, k \in 1 .. Len(s) : s[j] = s[k] => j = k

\* An element put at the end of a queue.
LEMMA AppendFacts ==
    ASSUME NEW S, NEW s \in Seq(S), NEW x \in S
    PROVE  /\ Append(s, x) \in Seq(S) /\ Append(s, x) # <<>>
           /\ Elems(Append(s, x)) = Elems(s) \cup {x}
           /\ Distinct(s) /\ x \notin Elems(s) => Distinct(Append(s, x))
<1>1. /\ Append(s, x) \in Seq(S) /\ Len(Append(s, x)) = Len(s) + 1
      /\ Append(s, x)[Len(s) + 1] = x /\ \A k \in 1 .. Len(s) : Append(s, x)[k] = s[k]
  OBVIOUS
<1>2. Len(s) \in Nat
  OBVIOUS
<1>3. Elems(Append(s, x)) = Elems(s) \cup {x}
  <2>1. \A y \in Elems(Append(s, x)) : y \in Elems(s) \cup {x}
    BY <1>1, <1>2 DEF Elems
  <2>2. \A y \in Elems(s) \cup {x} : y \in Elems(Append(s, x))
    BY <1>1, <1>2 DEF Elems
  <2> QED BY <2>1, <2>2
<1>4. ASSUME Distinct(s), x \notin Elems(s) PROVE Distinct(Append(s, x))
  BY <1>1, <1>2, <1>4 DEF Elems, Distinct
<1>5. Append(s, x) # <<>>
  BY <1>1, <1>2
<1> QED BY <1>1, <1>3, <1>4, <1>5

\* The first element taken from a queue.
LEMMA TailFacts ==
    ASSUME NEW S, NEW s \in Seq(S), s # <<>>
    PROVE  /\ Tail(s) \in Seq(S) /\ Head(s) \in S
           /\ Elems(s) = Elems(Tail(s)) \cup {Head(s)}
           /\ Distinct(s) => Distinct(Tail(s)) /\ Head(s) \notin Elems(Tail(s))
<1>1. /\ Tail(s) \in Seq(S) /\ Len(Tail(s)) = Len(s) - 1 /\ Head(s) = s[1] /\ Head(s) \in S
      /\ \A k \in 1 .. Len(s) - 1 : Tail(s)[k] = s[k + 1]
  OBVIOUS
<1>2. Len(s) \in Nat /\ Len(s) >= 1
  OBVIOUS
<1>3. Elems(s) = Elems(Tail(s)) \cup {Head(s)}
  <2>1. \A y \in Elems(s) : y \in Elems(Tail(s)) \cup {Head(s)}
    <3> SUFFICES ASSUME NEW k \in 1 .. Len(s) PROVE s[k] \in Elems(Tail(s)) \cup {Head(s)}
      BY DEF Elems
    <3>1. CASE k = 1
      BY <3>1, <1>1
    <3>2. CASE k # 1
      <4>1. k - 1 \in 1 .. Len(Tail(s)) /\ Tail(s)[k - 1] = s[k]
        BY <3>2, <1>1, <1>2
      <4> QED BY <4>1 DEF Elems
    <3> QED BY <3>1, <3>2
  <2>2. \A y \in Elems(Tail(s)) \cup {Head(s)} : y \in Elems(s)
    BY <1>1, <1>2 DEF Elems
  <2> QED BY <2>1, <2>2
<1>4. ASSUME Distinct(s) PROVE Distinct(Tail(s)) /\ Head(s) \notin Elems(Tail(s))
  <2>1. \A j, k \in 1 .. Len(Tail(s)) : Tail(s)[j] = Tail(s)[k] => j = k
    BY <1>1, <1>2, <1>4 DEF Distinct
  <2>2. \A k \in 1 .. Len(Tail(s)) : Tail(s)[k] # Head(s)
    BY <1>1, <1>2, <1>4 DEF Distinct
  <2> QED BY <2>1, <2>2 DEF Distinct, Elems
<1> QED BY <1>1, <1>3, <1>4

\* The instances on their way to the recycler, with it, or destroyed.
Gone == Elems(recycle_bin) \cup ({recycler} \ {Nothing}) \cup destroyed

\* A client has an instance exactly while it checks or uses one.
Hands ==
    \A c \in Clients :
        IF pc[c] \in {"check", "use"} THEN inst[c] \in Born ELSE inst[c] = Nothing

\* An instance is with one client, or once in the queue.
Alone ==
    /\ \A c, d \in Clients : inst[c] = inst[d] /\ inst[c] # Nothing => c = d
    /\ \A c \in Clients : inst[c] \notin Elems(instances)
    /\ Distinct(instances)

\* While the pool is open, nothing that is gone is with a client or in the queue, but
\* for instances whose check has raised.
Alive ==
    closing = "open" =>
        /\ \A c \in Clients : inst[c] \in Gone => inst[c] \in doubtful
        /\ Elems(instances) \cap Gone \subseteq doubtful

PInv == TypeOK /\ Hands /\ Alone /\ Alive

\* What the theorems assume about the constants.
Assumptions == SizesAssumption /\ FaultsAssumption

\* A new pool is empty and nobody has anything.
LEMMA InitPInv == ASSUME Assumptions PROVE Init => PInv
<1> SUFFICES ASSUME Init PROVE PInv
  OBVIOUS
<1>1. born = 0 /\ Born = {} /\ <<>> \in Seq(Born) /\ Elems(<<>>) = {} /\ Distinct(<<>>)
  BY DEF Init, Born, Elems, Distinct
<1>2. TypeOK
  BY <1>1 DEF Init, TypeOK, Labels, Assumptions, SizesAssumption
<1>3. Hands /\ Alone
  BY <1>1 DEF Init, Hands, Alone
<1>4. Alive
  BY <1>1 DEF Init, Alive, Gone
<1> QED BY <1>2, <1>3, <1>4 DEF PInv

\* What the invariant says is what AloneAndAlive asks for.
LEMMA PInvImplies == ASSUME Assumptions, PInv PROVE AloneAndAlive
<1>1. /\ instances \in Seq(Born) /\ recycle_bin \in Seq(Born)
      /\ \A c \in Clients : pc[c] = "use" => inst[c] # Nothing
  BY DEF PInv, TypeOK, Hands, Born, Assumptions, FaultsAssumption
<1>2. \A i : InQueue(i) <=> i \in Elems(instances)
  BY DEF InQueue, Elems
<1>3. \A i : i # Nothing /\ InBin(i) => i \in Gone
  BY DEF InBin, Gone, Elems
<1>4. \A i \in Born : i # Nothing
  BY DEF Born, Assumptions, FaultsAssumption
<1>5. \A i : i \in destroyed => i \in Gone
  BY DEF Gone
<1>6. ASSUME closing = "open"
      PROVE  \A i \in Born \ doubtful :
                InQueue(i) \/ (\E c \in Clients : pc[c] = "use" /\ inst[c] = i) =>
                    ~InBin(i) /\ i \notin destroyed
  BY <1>1, <1>2, <1>3, <1>4, <1>5, <1>6 DEF PInv, Alive
<1> QED BY <1>2, <1>6 DEF PInv, Alone, AloneAndAlive, Distinct

\* Everything that is gone was an instance.
LEMMA NothingFacts == ASSUME Assumptions, PInv PROVE Gone \subseteq Born /\ Nothing \notin Born
<1>1. /\ recycle_bin \in Seq(Born) /\ recycler \in Born \cup {Nothing} /\ destroyed \subseteq Born
  BY DEF PInv, TypeOK
<1>2. Elems(recycle_bin) \subseteq Born
  BY <1>1 DEF Elems
<1>3. Nothing \notin Born
  BY DEF Born, Assumptions, FaultsAssumption
<1> QED BY <1>1, <1>2, <1>3 DEF Gone

\* A client takes the first instance of a queue in which no other client's instance
\* is, and nothing twice, or waits if it is empty.
LEMMA TakeStep ==
    ASSUME Assumptions, PInv, NEW c \in Clients, NEW q \in Seq(Born'), GetFrom(c, q),
           born' \in Nat, Born \subseteq Born', Gone' = Gone, UNCHANGED <<closing, doubtful>>,
           Distinct(q), \A d \in Clients \ {c} : inst[d] \notin Elems(q),
           closing = "open" => Elems(q) \cap Gone \subseteq doubtful
    PROVE  /\ Hands' /\ Alone' /\ Alive'
           /\ instances' \in Seq(Born') /\ pc' \in [Clients -> Labels]
           /\ inst' \in [Clients -> Born' \cup {Nothing}]
<1>1. /\ pc \in [Clients -> Labels] /\ inst \in [Clients -> Born \cup {Nothing}]
      /\ Nothing \notin Born' /\ Nothing \notin Gone
  <2>1. Nothing \notin Born'
    BY DEF Born, Assumptions, FaultsAssumption
  <2> QED BY <2>1, NothingFacts DEF PInv, TypeOK
<1>2. CASE q = <<>>
  <2>1. /\ instances' = <<>> /\ Elems(instances') = {} /\ Distinct(instances')
        /\ pc' = [pc EXCEPT ![c] = "get"] /\ inst' = [inst EXCEPT ![c] = Nothing]
    BY <1>2 DEF GetFrom, Hold, Elems, Distinct
  <2>2. Hands'
    BY <1>1, <2>1 DEF PInv, Hands
  <2>3. Alone'
    BY <1>1, <2>1 DEF PInv, Alone
  <2>4. Alive'
    BY <1>1, <2>1 DEF PInv, Alive
  <2> QED BY <1>1, <1>2, <2>1, <2>2, <2>3, <2>4 DEF Labels
<1>3. CASE q # <<>>
  <2> DEFINE h == Head(q)
  <2>1. /\ instances' = Tail(q) /\ pc' = [pc EXCEPT ![c] = "check"]
        /\ inst' = [inst EXCEPT ![c] = h]
    BY <1>3 DEF GetFrom, Hold, IdleAfterGet
  <2>2. /\ instances' \in Seq(Born') /\ h \in Born' /\ Elems(q) = Elems(instances') \cup {h}
        /\ Distinct(instances') /\ h \notin Elems(instances')
    BY <1>3, <2>1, TailFacts
  <2> HIDE DEF h
  <2>3. Hands'
    BY <1>1, <2>1, <2>2 DEF PInv, Hands
  <2>4. Alone'
    <3>1. \A d \in Clients \ {c} : inst'[d] = inst[d] /\ inst[d] # h /\ inst[d] \notin Elems(instances')
      BY <1>1, <2>1, <2>2
    <3>2. inst'[c] = h
      BY <1>1, <2>1
    <3> QED BY <2>2, <3>1, <3>2 DEF PInv, Alone
  <2>5. Alive'
    BY <1>1, <2>1, <2>2 DEF PInv, Alive
  <2> QED BY <1>1, <2>1, <2>2, <2>3, <2>4, <2>5 DEF Labels
<1> QED BY <1>2, <1>3

\* A client leaves its instance, which goes back to the queue, is gone, or is left.
LEMMA LeaveStep ==
    ASSUME Assumptions, PInv, NEW c \in Clients, NEW label \in {"idle", "create"},
           Hold(c, label, Nothing), born' = born, UNCHANGED <<closing, doubtful>>, Nothing \notin Gone',
           \/ instances' = instances /\ Gone' \ Gone \subseteq {inst[c]}
           \/ inst[c] \in Born /\ instances' = Append(instances, inst[c]) /\ Gone' = Gone
    PROVE  /\ Hands' /\ Alone' /\ Alive'
           /\ instances' \in Seq(Born) /\ pc' \in [Clients -> Labels]
           /\ inst' \in [Clients -> Born \cup {Nothing}]
<1>1. /\ pc \in [Clients -> Labels] /\ inst \in [Clients -> Born \cup {Nothing}]
      /\ instances \in Seq(Born) /\ Nothing \notin Born /\ Born' = Born
  BY NothingFacts DEF PInv, TypeOK, Born
<1>2. pc' = [pc EXCEPT ![c] = label] /\ inst' = [inst EXCEPT ![c] = Nothing]
  BY DEF Hold
<1>3. /\ instances' \in Seq(Born) /\ Distinct(instances') /\ Nothing \notin Elems(instances')
      /\ \A d \in Clients \ {c} : inst[d] \notin Elems(instances')
  <2>1. Nothing \notin Elems(instances)
    BY <1>1 DEF Elems
  <2>2. CASE instances' = instances
    BY <1>1, <2>1, <2>2 DEF PInv, Alone
  <2>3. CASE inst[c] \in Born /\ instances' = Append(instances, inst[c])
    <3>1. /\ instances' \in Seq(Born) /\ Elems(instances') = Elems(instances) \cup {inst[c]}
          /\ Distinct(instances')
      BY <1>1, <2>3, AppendFacts DEF PInv, Alone
    <3>2. \A d \in Clients \ {c} : inst[d] # inst[c] /\ inst[d] \notin Elems(instances)
      BY <1>1, <2>3 DEF PInv, Alone
    <3> QED BY <1>1, <2>1, <2>3, <3>1, <3>2
  <2> QED BY <2>2, <2>3
<1>4. Hands'
  BY <1>1, <1>2 DEF PInv, Hands
<1>5. Alone'
  BY <1>1, <1>2, <1>3 DEF PInv, Alone
<1>6. Alive'
  <2> SUFFICES ASSUME closing = "open"
               PROVE  /\ \A d \in Clients : inst'[d] \in Gone' => inst'[d] \in doubtful
                      /\ Elems(instances') \cap Gone' \subseteq doubtful
    BY DEF Alive
  <2>1. \A d \in Clients : inst[d] \in Gone => inst[d] \in doubtful
    BY DEF PInv, Alive
  <2>2. Elems(instances) \cap Gone \subseteq doubtful
    BY DEF PInv, Alive
  <2>3. CASE instances' = instances /\ Gone' \ Gone \subseteq {inst[c]}
    <3>1. \A d \in Clients \ {c} : inst'[d] = inst[d] /\ (inst[d] = Nothing \/ inst[d] # inst[c])
      BY <1>1, <1>2 DEF PInv, Alone
    <3>2. inst'[c] = Nothing
      BY <1>1, <1>2
    <3>3. inst[c] \notin Elems(instances)
      BY DEF PInv, Alone
    <3> QED BY <2>1, <2>2, <2>3, <3>1, <3>2, <3>3
  <2>4. CASE inst[c] \in Born /\ instances' = Append(instances, inst[c]) /\ Gone' = Gone
    <3>1. Elems(instances') = Elems(instances) \cup {inst[c]}
      BY <1>1, <2>4, AppendFacts
    <3> QED BY <1>1, <1>2, <2>1, <2>2, <2>4, <3>1
  <2> QED BY <2>3, <2>4
<1> QED BY <1>1, <1>2, <1>3, <1>4, <1>5, <1>6 DEF Labels

\* The types of the queues and of the hands are given by TakeStep and LeaveStep.
Others ==
    /\ semaphore \in Nat /\ len \in Int /\ born \in 0 .. Instances
    /\ recycle_bin \in Seq(Born)
    /\ used \subseteq Born /\ expired \subseteq Born /\ destroyed \subseteq Born /\ doubtful \subseteq Born
    /\ recycler \in Born \cup {Nothing}
    /\ closing \in {"open", "closing", "closed"}

\* An instance that is recycled joins those that are gone.
LEMMA RecycleFacts ==
    ASSUME Assumptions, PInv, NEW i \in Born, Recycle(i), UNCHANGED <<recycler, destroyed, born>>
    PROVE  /\ Gone' = Gone \cup {i} /\ Nothing \notin Gone' /\ recycle_bin' \in Seq(Born)
           /\ len' \in Int /\ expired' \subseteq Born
<1>1. recycle_bin' \in Seq(Born) /\ Elems(recycle_bin') = Elems(recycle_bin) \cup {i}
  BY AppendFacts DEF Recycle, PInv, TypeOK
<1>2. Gone' = Gone \cup {i}
  BY <1>1 DEF Gone
<1>3. len' \in Int /\ expired' \subseteq Born
  BY DEF Recycle, CountAfterRecycle, PInv, TypeOK
<1> QED BY <1>1, <1>2, <1>3, NothingFacts

\* A client acquires, or waits no longer, or creates an instance.
LEMMA AcquireSteps ==
    ASSUME Assumptions, PInv, NEW c \in Clients, Acquire(c) \/ Created(c) \/ Get(c)
    PROVE  PInv'
<1> USE DEF Assumptions, SizesAssumption
<1>1. TypeOK /\ Hands /\ Alone /\ Alive /\ Others
  BY DEF PInv, TypeOK, Others
<1>2. \A d \in Clients : inst[d] \notin Elems(instances)
  BY <1>1 DEF Alone
<1>3. ASSUME NEW q \in Seq(Born), q = instances, GetFrom(c, q),
             UNCHANGED <<doubtful, recycle_bin, recycler, destroyed, born, closing>>
      PROVE  /\ Hands' /\ Alone' /\ Alive'
             /\ instances' \in Seq(Born') /\ pc' \in [Clients -> Labels]
             /\ inst' \in [Clients -> Born' \cup {Nothing}]
  <2>1. Gone' = Gone /\ Born' = Born /\ born' \in Nat
    BY <1>1, <1>3 DEF Gone, Born, Others
  <2>2. Distinct(q) /\ (closing = "open" => Elems(q) \cap Gone \subseteq doubtful)
    BY <1>1, <1>3 DEF Alone, Alive
  <2> QED BY <1>2, <1>3, <2>1, <2>2, TakeStep
<1>4. CASE Acquire(c) /\ semaphore > 0
  <2>1. /\ semaphore' = semaphore - 1 /\ Hold(c, "create", Nothing) /\ UNCHANGED instances
        /\ UNCHANGED <<doubtful, len, used, recycle_bin, recycler, expired, destroyed, born, closing>>
    BY <1>4 DEF Acquire, Acquiring, SemaphoreAfterAcquire
  <2>2. Others' /\ Born' = Born /\ Gone' = Gone
    BY <1>1, <1>4, <2>1 DEF Others, Born, Gone
  <2>3. Nothing \notin Gone'
    BY <2>2, NothingFacts
  <2>4. Hands' /\ Alone' /\ Alive' /\ instances' \in Seq(Born) /\ pc' \in [Clients -> Labels]
        /\ inst' \in [Clients -> Born \cup {Nothing}]
    BY <2>1, <2>2, <2>3, LeaveStep
  <2> QED BY <2>2, <2>4 DEF PInv, TypeOK, Others
<1>5. CASE Acquire(c) /\ ~(semaphore > 0)
  <2>1. /\ semaphore' = semaphore /\ GetFrom(c, instances)
        /\ UNCHANGED <<doubtful, len, used, recycle_bin, recycler, expired, destroyed, born, closing>>
    BY <1>5 DEF Acquire, Acquiring
  <2>2. Others' /\ instances \in Seq(Born)
    BY <1>1, <2>1 DEF Others, Born, TypeOK
  <2> QED BY <1>3, <2>1, <2>2 DEF PInv, TypeOK, Others
<1>6. CASE Get(c)
  <2>1. /\ GetFrom(c, instances)
        /\ UNCHANGED <<doubtful, semaphore, len, used, recycle_bin, recycler, expired, destroyed, born, closing>>
    BY <1>6 DEF Get
  <2>2. Others' /\ instances \in Seq(Born)
    BY <1>1, <2>1 DEF Others, Born, TypeOK
  <2> QED BY <1>3, <2>1, <2>2 DEF PInv, TypeOK, Others
<1>7. CASE Created(c)
  <2>1. /\ born' = born + 1 /\ born < Instances /\ len' = len + 1
        /\ GetFrom(c, Append(instances, born'))
        /\ UNCHANGED <<doubtful, semaphore, used, recycle_bin, recycler, expired, destroyed, closing>>
    BY <1>7 DEF Created
  <2>2. born \in Nat /\ born' \in 0 .. Instances /\ Born' = Born \cup {born'} /\ born' \notin Born
    BY <1>1, <2>1 DEF Others, Born
  <2>3. Seq(Born) \subseteq Seq(Born')
    BY <2>2
  <2>4. Others'
    BY <1>1, <2>1, <2>2, <2>3 DEF Others
  <2>5. instances \in Seq(Born) /\ Elems(instances) \subseteq Born
    BY <1>1 DEF TypeOK, Elems
  <2> DEFINE q == Append(instances, born')
  <2>6. /\ q \in Seq(Born') /\ Elems(q) = Elems(instances) \cup {born'} /\ Distinct(q)
    BY <1>1, <2>2, <2>3, <2>5, AppendFacts DEF Alone
  <2>7. Gone' = Gone /\ Gone \subseteq Born /\ born' \notin Gone
    BY <2>1, <2>2, NothingFacts DEF Gone
  <2>8. \A d \in Clients \ {c} : inst[d] \notin Elems(q)
    <3>1. \A d \in Clients : inst[d] \in Born \cup {Nothing}
      BY <1>1 DEF TypeOK
    <3>2. born' # Nothing
      BY <2>2 DEF FaultsAssumption
    <3> QED BY <1>2, <2>2, <2>6, <3>1, <3>2
  <2>9. closing = "open" => Elems(q) \cap Gone \subseteq doubtful
    BY <1>1, <2>6, <2>7 DEF Alive
  <2>10. GetFrom(c, q) /\ born' \in Nat /\ Born \subseteq Born' /\ UNCHANGED <<closing, doubtful>>
    BY <2>1, <2>2
  <2> HIDE DEF q
  <2>11. Hands' /\ Alone' /\ Alive' /\ instances' \in Seq(Born') /\ pc' \in [Clients -> Labels]
         /\ inst' \in [Clients -> Born' \cup {Nothing}]
    BY <2>6, <2>7, <2>8, <2>9, <2>10, TakeStep
  <2> QED BY <2>4, <2>11 DEF PInv, TypeOK, Others
<1> QED BY <1>4, <1>5, <1>6, <1>7

\* A client is done with the check of its instance, or with the instance.
LEMMA HandSteps ==
    ASSUME Assumptions, PInv, NEW c \in Clients,
           \/ Checked(c) \/ CheckFalse(c) \/ CheckRaises(c)
           \/ ReleaseExpired(c) \/ Release(c) \/ Abandon(c)
    PROVE  PInv'
<1>1. TypeOK /\ Hands /\ Alone /\ Alive /\ Others
  BY DEF PInv, TypeOK, Others
<1>2. ASSUME pc[c] \in {"check", "use"} PROVE inst[c] \in Born
  BY <1>1, <1>2 DEF Hands
<1>3. CASE Checked(c)
  <2>1. /\ inst[c] \in Born /\ used' = used \cup {inst[c]} /\ pc' = [pc EXCEPT ![c] = "use"]
        /\ inst' = [inst EXCEPT ![c] = inst[c]]
        /\ UNCHANGED <<doubtful, semaphore, len, instances, recycle_bin, recycler, expired, destroyed, born, closing>>
    BY <1>2, <1>3 DEF Checked, Hold
  <2>2. inst' = inst /\ Born' = Born /\ Gone' = Gone
    BY <1>1, <2>1 DEF TypeOK, Born, Gone
  <2>3. TypeOK'
    BY <1>1, <2>1, <2>2 DEF TypeOK, Labels
  <2>4. Hands'
    BY <1>1, <2>1, <2>2 DEF Hands, TypeOK
  <2> QED BY <1>1, <2>1, <2>2, <2>3, <2>4 DEF PInv, Alone, Alive
<1>4. CASE CheckFalse(c)
  <2>1. /\ inst[c] \in Born /\ Recycle(inst[c]) /\ used' = used \ {inst[c]}
        /\ UNCHANGED <<doubtful, recycler, destroyed, born, closing>>
    BY <1>2, <1>4 DEF CheckFalse
  <2>2. AfterRecycle > 0 /\ AfterRecycle - 1 = semaphore
    BY <1>1 DEF AfterRecycle, Others
  <2>3. semaphore' = semaphore /\ Hold(c, "create", Nothing) /\ UNCHANGED instances
    BY <1>4, <2>2 DEF CheckFalse, Acquiring, SemaphoreAfterAcquire
  <2>4. /\ Gone' = Gone \cup {inst[c]} /\ Nothing \notin Gone' /\ recycle_bin' \in Seq(Born)
        /\ len' \in Int /\ expired' \subseteq Born
    BY <2>1, RecycleFacts
  <2>5. Hands' /\ Alone' /\ Alive' /\ instances' \in Seq(Born) /\ pc' \in [Clients -> Labels]
        /\ inst' \in [Clients -> Born \cup {Nothing}]
    BY <2>1, <2>3, <2>4, LeaveStep
  <2>6. Others' /\ Born' = Born
    BY <1>1, <2>1, <2>3, <2>4 DEF Others, Born
  <2> QED BY <2>5, <2>6 DEF PInv, TypeOK, Others
<1>7. CASE CheckRaises(c)
  <2>1. /\ inst[c] \in Born /\ Recycle(inst[c]) /\ used' = used \cup {inst[c]}
        /\ semaphore' = semaphore + 1 /\ pc' = [pc EXCEPT ![c] = "use"]
        /\ inst' = [inst EXCEPT ![c] = inst[c]] /\ doubtful' = doubtful \cup {inst[c]}
        /\ UNCHANGED <<instances, recycler, destroyed, born, closing>>
    BY <1>2, <1>7 DEF CheckRaises, Hold, AfterRecycle
  <2>2. inst' = inst /\ Born' = Born
    BY <1>1, <2>1 DEF TypeOK, Born
  <2>3. /\ Gone' = Gone \cup {inst[c]} /\ recycle_bin' \in Seq(Born)
        /\ len' \in Int /\ expired' \subseteq Born
    BY <2>1, RecycleFacts
  <2>4. TypeOK'
    <3>1. semaphore' \in Nat /\ pc' \in [Clients -> Labels]
      BY <1>1, <2>1 DEF TypeOK, Labels
    <3> QED BY <1>1, <2>1, <2>2, <2>3, <3>1 DEF TypeOK
  <2>5. Hands'
    BY <1>1, <2>1, <2>2 DEF Hands, TypeOK
  <2>6. Alive'
    BY <1>1, <2>1, <2>2, <2>3 DEF Alive
  <2> QED BY <1>1, <2>1, <2>2, <2>4, <2>5, <2>6 DEF PInv, Alone
<1>5. CASE ReleaseExpired(c)
  <2>1. /\ inst[c] \in Born /\ Recycle(inst[c]) /\ used' = used \ {inst[c]}
        /\ semaphore' = semaphore + 1 /\ Hold(c, "idle", Nothing) /\ UNCHANGED instances
        /\ UNCHANGED <<doubtful, recycler, destroyed, born, closing>>
    BY <1>2, <1>5 DEF ReleaseExpired, AfterRecycle, IdleAfterRecycle
  <2>2. /\ Gone' = Gone \cup {inst[c]} /\ Nothing \notin Gone' /\ recycle_bin' \in Seq(Born)
        /\ len' \in Int /\ expired' \subseteq Born
    BY <2>1, RecycleFacts
  <2>3. Hands' /\ Alone' /\ Alive' /\ instances' \in Seq(Born) /\ pc' \in [Clients -> Labels]
        /\ inst' \in [Clients -> Born \cup {Nothing}]
    BY <2>1, <2>2, LeaveStep
  <2>4. Born' = Born
    BY <2>1 DEF Born
  <2>5. semaphore' \in Nat
    BY <1>1, <2>1 DEF Others
  <2>6. Others'
    BY <1>1, <2>1, <2>2, <2>4, <2>5 DEF Others
  <2> QED BY <2>3, <2>4, <2>6 DEF PInv, TypeOK, Others
<1>6. CASE Release(c) \/ Abandon(c)
  <2>1. /\ Hold(c, "idle", Nothing) /\ used' \subseteq used
        /\ UNCHANGED <<doubtful, semaphore, len, recycle_bin, recycler, expired, destroyed, born, closing>>
        /\ \/ instances' = instances
           \/ inst[c] \in Born /\ instances' = Append(instances, inst[c])
    BY <1>2, <1>6 DEF Release, Abandon, IdleAfterRelease
  <2>2. Gone' = Gone /\ Born' = Born /\ Nothing \notin Gone'
    BY <2>1, NothingFacts DEF Gone, Born
  <2>3. Hands' /\ Alone' /\ Alive' /\ instances' \in Seq(Born) /\ pc' \in [Clients -> Labels]
        /\ inst' \in [Clients -> Born \cup {Nothing}]
    BY <2>1, <2>2, LeaveStep
  <2>4. Others'
    BY <1>1, <2>1, <2>2 DEF Others
  <2> QED BY <2>2, <2>3, <2>4 DEF PInv, TypeOK, Others
<1> QED BY <1>3, <1>4, <1>5, <1>6, <1>7

\* The steps of the clock, of the recycler and of close().
LEMMA PoolSteps ==
    ASSUME Assumptions, PInv,
           \/ \E i \in Born : Expire(i)
           \/ RecyclerTake \/ RecyclerDone \/ Close \/ CloseEnds
    PROVE  PInv'
<1>1. TypeOK /\ Hands /\ Alone /\ Alive
  BY DEF PInv
<1>2. CASE \E i \in Born : Expire(i)
  <2>1. /\ expired' \subseteq Born
        /\ UNCHANGED <<doubtful, semaphore, len, instances, used, recycle_bin, recycler, destroyed, born, pc, inst, closing>>
    BY <1>1, <1>2 DEF Expire, TypeOK
  <2> QED BY <1>1, <2>1 DEF PInv, TypeOK, Hands, Alone, Alive, Gone, Born
<1>3. CASE RecyclerTake
  <2>1. /\ recycler = Nothing /\ recycle_bin # <<>> /\ recycler' = Head(recycle_bin)
        /\ recycle_bin' = Tail(recycle_bin)
        /\ UNCHANGED <<doubtful, semaphore, len, instances, used, expired, destroyed, born, pc, inst, closing>>
    BY <1>3 DEF RecyclerTake
  <2>2. /\ recycle_bin' \in Seq(Born) /\ recycler' \in Born
        /\ Elems(recycle_bin) = Elems(recycle_bin') \cup {recycler'}
    BY <1>1, <2>1, TailFacts DEF TypeOK
  <2>3. Gone' = Gone
    BY <2>1, <2>2, NothingFacts DEF Gone
  <2> QED BY <1>1, <2>1, <2>2, <2>3 DEF PInv, TypeOK, Hands, Alone, Alive, Born
<1>4. CASE RecyclerDone
  <2>1. /\ recycler # Nothing /\ destroyed' = destroyed \cup {recycler} /\ recycler' = Nothing
        /\ UNCHANGED <<doubtful, semaphore, len, instances, used, recycle_bin, expired, born, pc, inst, closing>>
    BY <1>4 DEF RecyclerDone
  <2>2. Gone' = Gone
    BY <2>1 DEF Gone
  <2> QED BY <1>1, <2>1, <2>2 DEF PInv, TypeOK, Hands, Alone, Alive, Born
<1>5. CASE Close
  <2>1. /\ closing' = "closing" /\ destroyed' = destroyed \cup used \cup Elems(instances)
        /\ used' = {} /\ instances' = <<>>
        /\ UNCHANGED <<doubtful, semaphore, len, recycle_bin, recycler, expired, born, pc, inst>>
    BY <1>5 DEF Close, Elems
  <2>2. /\ Elems(instances') = {} /\ Distinct(instances') /\ instances' \in Seq(Born)
        /\ Elems(instances) \subseteq Born
    BY <1>1, <2>1 DEF TypeOK, Elems, Distinct
  <2>3. TypeOK'
    BY <1>1, <2>1, <2>2 DEF TypeOK, Born
  <2> QED BY <1>1, <2>1, <2>2, <2>3 DEF PInv, Hands, Alone, Alive, Born
<1>6. CASE CloseEnds
  <2>1. /\ closing' = "closed"
        /\ UNCHANGED <<doubtful, semaphore, len, instances, used, recycle_bin, recycler, expired, destroyed, born, pc, inst>>
    BY <1>6 DEF CloseEnds
  <2> QED BY <1>1, <2>1 DEF PInv, TypeOK, Hands, Alone, Alive, Born
<1> QED BY <1>2, <1>3, <1>4, <1>5, <1>6

\* Every step keeps the invariant: one lemma per group of actions.
LEMMA PInvStep == ASSUME Assumptions, PInv, [Next]_vars PROVE PInv'
<1>1. CASE UNCHANGED vars
  BY <1>1 DEF vars, PInv, TypeOK, Hands, Alone, Alive, Gone, Born
<1> QED BY <1>1, AcquireSteps, HandSteps, PoolSteps DEF Next, ClientStep

\* The invariant holds in every state, whatever fails, is cancelled or is closed.
THEOREM Invariance == ASSUME Assumptions PROVE Spec => []PInv
<1>1. Init => PInv
  BY InitPInv
<1>2. PInv /\ [Next]_vars => PInv'
  BY PInvStep
<1> QED BY <1>1, <1>2, PTL DEF Spec

\* Every variable keeps its type; above all the semaphore never goes below zero.
THEOREM TypeCorrect == ASSUME Assumptions PROVE Spec => []TypeOK
BY Invariance, PTL DEF PInv

\* __acquire(), __release() and the recycler: an instance serves one client at a time,
\* whatever fails, and while the pool is open it is not destroyed, nor about to be, unless
\* its check has raised.
THEOREM OneLivingUser == ASSUME Assumptions PROVE Spec => []AloneAndAlive
<1>1. PInv => AloneAndAlive
  BY PInvImplies
<1> QED BY <1>1, Invariance, PTL

-----------------------------------------------------------------------------
InHands == {inst[c] : c \in Clients}

\* The instances that have a slot: those that live, and those that a client or the
\* queue still has after close() has destroyed them.
Occupied == {i \in Born : i \notin Gone \/ i \in Elems(instances) \cup InHands}

\* Slots are free, promised to a client that creates an instance, or occupied; and
\* len(pool) counts the instances that live.
Account ==
    /\ Cardinality(Occupied) + Cardinality(Creating) + semaphore <= MaxSize
    /\ closing = "open" => len = Cardinality(Born \ Gone)

\* The account of the slots is right until a check raises.
SInv == doubtful = {} => Account

Finite == IsFiniteSet(Clients)

\* The sets that are counted are finite.
LEMMA FiniteFacts ==
    ASSUME Finite, PInv
    PROVE  /\ IsFiniteSet(Born) /\ IsFiniteSet(Occupied) /\ IsFiniteSet(Creating)
           /\ IsFiniteSet(Born \ Gone)
           /\ Cardinality(Occupied) \in Nat /\ Cardinality(Creating) \in Nat
           /\ Cardinality(Born \ Gone) \in Nat
<1>1. IsFiniteSet(Born)
  BY FS_Interval DEF Born, PInv, TypeOK
<1>2. IsFiniteSet(Occupied) /\ IsFiniteSet(Born \ Gone)
  BY <1>1, FS_Subset DEF Occupied
<1>3. IsFiniteSet(Creating)
  BY FS_Subset DEF Creating, Finite
<1> QED BY <1>1, <1>2, <1>3, FS_CardinalityType

\* At first every slot is free.
LEMMA InitSInv == ASSUME Assumptions PROVE Init => SInv
<1> SUFFICES ASSUME Init PROVE Account
  BY DEF SInv
<1>1. Occupied = {} /\ Creating = {} /\ Born \ Gone = {}
  BY DEF Init, Occupied, Creating, Born
<1>2. Cardinality({}) = 0
  BY FS_EmptySet
<1>3. semaphore = MaxSize /\ len = 0 /\ MaxSize \in Nat
  BY DEF Init, Assumptions, SizesAssumption
<1> QED BY <1>1, <1>2, <1>3 DEF Account

\* The invariants say what SizeIsBounded asks for.
LEMMA SInvImplies == ASSUME Assumptions, Finite, PInv, SInv PROVE SizeIsBounded
<1>1. Live = Born \ Gone
  <2>1. \A i \in Born : InBin(i) <=> i \in Elems(recycle_bin) \cup ({recycler} \ {Nothing})
    BY NothingFacts DEF InBin, Elems
  <2> QED BY <2>1 DEF Live, Gone
<1>2. Cardinality(Live) <= Cardinality(Occupied)
  BY <1>1, FiniteFacts, FS_Subset DEF Occupied
<1>3. Cardinality(Live) \in Nat /\ Cardinality(Occupied) \in Nat /\ Cardinality(Creating) \in Nat
  BY <1>1, FiniteFacts
<1>4. semaphore \in Nat /\ MaxSize \in Nat
  BY DEF PInv, TypeOK, Assumptions, SizesAssumption
<1> QED BY <1>1, <1>2, <1>3, <1>4 DEF SInv, Account, SizeIsBounded

\* A client that has nothing takes an instance from a queue, or waits: what was in the
\* queue or in somebody's hands still is.
LEMMA TakeKeeps ==
    ASSUME Assumptions, PInv, NEW c \in Clients, NEW S, NEW q \in Seq(S), GetFrom(c, q),
           inst[c] = Nothing, Nothing \notin S
    PROVE  /\ \A i : i # Nothing => (i \in Elems(instances') \cup InHands' <=> i \in Elems(q) \cup InHands)
           /\ Creating' = Creating \ {c}
<1>1. pc \in [Clients -> Labels] /\ inst \in [Clients -> Born \cup {Nothing}]
  BY DEF PInv, TypeOK
<1>2. CASE q = <<>>
  <2>1. /\ instances' = q /\ pc' = [pc EXCEPT ![c] = "get"] /\ inst' = [inst EXCEPT ![c] = Nothing]
    BY <1>2 DEF GetFrom, Hold
  <2>2. inst' = inst
    BY <1>1, <2>1
  <2> QED BY <1>1, <2>1, <2>2 DEF InHands, Creating
<1>3. CASE q # <<>>
  <2> DEFINE h == Head(q)
  <2>1. /\ instances' = Tail(q) /\ pc' = [pc EXCEPT ![c] = "check"] /\ inst' = [inst EXCEPT ![c] = h]
    BY <1>3 DEF GetFrom, Hold, IdleAfterGet
  <2>2. Elems(q) = Elems(instances') \cup {h}
    BY <1>3, <2>1, TailFacts
  <2> HIDE DEF h
  <2>3. \A i : i # Nothing => (i \in InHands' <=> i = h \/ i \in InHands)
    BY <1>1, <2>1 DEF InHands
  <2> QED BY <1>1, <2>1, <2>2, <2>3 DEF Creating
<1> QED BY <1>2, <1>3

\* A client leaves its instance: what it had is in no other hands.
LEMMA LeaveKeeps ==
    ASSUME Assumptions, PInv, NEW c \in Clients, NEW label, Hold(c, label, Nothing)
    PROVE  /\ \A i : i # Nothing => (i \in InHands' <=> i \in InHands /\ i # inst[c])
           /\ Creating' = IF label = "create" THEN Creating \cup {c} ELSE Creating \ {c}
<1>1. /\ pc \in [Clients -> Labels] /\ inst \in [Clients -> Born \cup {Nothing}]
      /\ pc' = [pc EXCEPT ![c] = label] /\ inst' = [inst EXCEPT ![c] = Nothing]
  BY DEF PInv, TypeOK, Hold
<1>2. \A d \in Clients \ {c} : inst[d] = inst[c] => inst[d] = Nothing
  BY DEF PInv, Alone
<1>3. \A i : i # Nothing => (i \in InHands' <=> i \in InHands /\ i # inst[c])
  <2>1. \A d \in Clients \ {c} : inst'[d] = inst[d]
    BY <1>1
  <2>2. inst'[c] = Nothing
    BY <1>1
  <2> QED BY <1>2, <2>1, <2>2 DEF InHands
<1>4. Creating' = IF label = "create" THEN Creating \cup {c} ELSE Creating \ {c}
  BY <1>1 DEF Creating
<1> QED BY <1>3, <1>4

\* A client acquires, or waits no longer: a slot of the semaphore becomes a promise.
LEMMA AcquireSizes ==
    ASSUME Assumptions, Finite, PInv, doubtful = {}, Account, NEW c \in Clients, Acquire(c) \/ Get(c)
    PROVE  Account'
<1>1. /\ UNCHANGED <<len, recycle_bin, recycler, destroyed, born, closing>>
      /\ pc[c] \in {"idle", "get"} /\ inst[c] = Nothing
  BY DEF Acquire, Get, PInv, Hands
<1>2. Born' = Born /\ Gone' = Gone /\ Nothing \notin Born
  BY <1>1, NothingFacts DEF Born, Gone
<1>3. /\ instances \in Seq(Born) /\ semaphore \in Nat /\ MaxSize \in Nat
      /\ pc \in [Clients -> Labels] /\ c \notin Creating
  BY <1>1 DEF PInv, TypeOK, Assumptions, SizesAssumption, Creating
<1>4. CASE Acquire(c) /\ semaphore > 0
  <2>1. semaphore' = semaphore - 1 /\ Hold(c, "create", Nothing) /\ UNCHANGED instances
    BY <1>4 DEF Acquire, Acquiring, SemaphoreAfterAcquire
  <2>2. /\ \A i : i # Nothing => (i \in InHands' <=> i \in InHands)
        /\ Creating' = Creating \cup {c}
    BY <1>1, <2>1, LeaveKeeps
  <2>3. Occupied' = Occupied
    BY <1>2, <2>1, <2>2 DEF Occupied
  <2>4. Cardinality(Creating') = Cardinality(Creating) + 1
    BY <1>3, <2>2, FiniteFacts, FS_AddElement
  <2> QED BY <1>1, <1>2, <1>3, <2>1, <2>3, <2>4, FiniteFacts DEF Account
<1>5. CASE ~(Acquire(c) /\ semaphore > 0)
  <2>1. semaphore' = semaphore /\ GetFrom(c, instances)
    BY <1>5 DEF Acquire, Acquiring, Get
  <2>2. /\ \A i : i # Nothing => (i \in Elems(instances') \cup InHands' <=> i \in Elems(instances) \cup InHands)
        /\ Creating' = Creating \ {c}
    BY <1>1, <1>2, <1>3, <2>1, TakeKeeps
  <2>3. Occupied' = Occupied /\ Creating' = Creating
    BY <1>2, <1>3, <2>2 DEF Occupied
  <2> QED BY <1>1, <1>2, <2>1, <2>3 DEF Account
<1> QED BY <1>4, <1>5

\* A promise becomes an instance.
LEMMA CreatedSizes ==
    ASSUME Assumptions, Finite, PInv, doubtful = {}, Account, NEW c \in Clients, Created(c)
    PROVE  Account'
<1> DEFINE q == Append(instances, born')
<1>1. /\ pc[c] = "create" /\ born' = born + 1 /\ len' = len + 1 /\ GetFrom(c, q)
      /\ UNCHANGED <<semaphore, recycle_bin, recycler, destroyed, closing>>
  BY DEF Created
<1>2. /\ born \in Nat /\ len \in Int /\ semaphore \in Nat /\ MaxSize \in Nat
      /\ instances \in Seq(Born) /\ inst[c] = Nothing /\ c \in Creating
      /\ \A d \in Clients : inst[d] \in Born \cup {Nothing}
  BY <1>1 DEF PInv, TypeOK, Hands, Assumptions, SizesAssumption, Creating
<1>3. /\ Born' = Born \cup {born'} /\ born' \notin Born /\ Gone' = Gone /\ Gone \subseteq Born
      /\ Nothing \notin Born /\ born' # Nothing
  <2>1. Born' = Born \cup {born'} /\ born' \notin Born
    BY <1>1, <1>2 DEF Born
  <2>2. born' # Nothing
    BY <1>1, <1>2 DEF Assumptions, FaultsAssumption
  <2> QED BY <1>1, <2>1, <2>2, NothingFacts DEF Gone
<1>4. q \in Seq(Born') /\ Elems(q) = Elems(instances) \cup {born'}
  <2>1. instances \in Seq(Born')
    BY <1>2, <1>3
  <2> QED BY <1>3, <2>1, AppendFacts
<1> HIDE DEF q
<1>5. /\ \A i : i # Nothing => (i \in Elems(instances') \cup InHands' <=> i \in Elems(q) \cup InHands)
      /\ Creating' = Creating \ {c}
  BY <1>1, <1>2, <1>3, <1>4, TakeKeeps
<1>6. Occupied' = Occupied \cup {born'} /\ born' \notin Occupied
  BY <1>3, <1>4, <1>5 DEF Occupied
<1>7. (Born \ Gone)' = (Born \ Gone) \cup {born'} /\ born' \notin Born \ Gone
  BY <1>3
<1>8. /\ Cardinality(Occupied') = Cardinality(Occupied) + 1
      /\ Cardinality((Born \ Gone)') = Cardinality(Born \ Gone) + 1
  BY <1>6, <1>7, FiniteFacts, FS_AddElement
<1>9. Cardinality(Creating') = Cardinality(Creating) - 1
  BY <1>2, <1>5, FiniteFacts, FS_RemoveElement
<1> QED BY <1>1, <1>2, <1>8, <1>9, FiniteFacts DEF Account

\* An instance is recycled: its slot is free again, or promised to the client that
\* found it broken.
LEMMA RecycleSizes ==
    ASSUME Assumptions, Finite, PInv, doubtful = {}, Account, NEW c \in Clients, CheckFalse(c) \/ ReleaseExpired(c)
    PROVE  Account'
<1> DEFINE i == inst[c]
<1>1. /\ pc[c] \in {"check", "use"} /\ Recycle(i) /\ UNCHANGED <<recycler, destroyed, born, closing>>
  BY DEF CheckFalse, ReleaseExpired
<1>2. /\ i \in Born /\ i \notin Elems(instances) /\ (closing = "open" => i \notin Gone)
      /\ semaphore \in Nat /\ len \in Int /\ MaxSize \in Nat /\ c \notin Creating
  BY <1>1 DEF PInv, TypeOK, Hands, Alone, Alive, Assumptions, SizesAssumption, Creating
<1>3. Gone' = Gone \cup {i} /\ Born' = Born /\ len' = len - 1 /\ Nothing \notin Born
  BY <1>1, <1>2, RecycleFacts, NothingFacts DEF Born, Recycle, CountAfterRecycle
<1>4. /\ UNCHANGED instances
      /\ \/ Hold(c, "create", Nothing) /\ semaphore' = semaphore
         \/ Hold(c, "idle", Nothing) /\ semaphore' = semaphore + 1
  <2>1. AfterRecycle > 0 /\ AfterRecycle - 1 = semaphore /\ AfterRecycle = semaphore + 1
    BY <1>2 DEF AfterRecycle
  <2> QED BY <2>1 DEF CheckFalse, ReleaseExpired, Acquiring, SemaphoreAfterAcquire, IdleAfterRecycle
<1>5. /\ \A j : j # Nothing => (j \in InHands' <=> j \in InHands /\ j # i)
      /\ \/ Creating' = Creating \cup {c} /\ semaphore' = semaphore
         \/ Creating' = Creating /\ semaphore' = semaphore + 1
  BY <1>2, <1>4, LeaveKeeps
<1>6. Occupied' = Occupied \ {i} /\ i \in Occupied
  <2>1. i \in InHands
    BY DEF InHands
  <2> HIDE DEF i
  <2> QED BY <1>2, <1>3, <1>4, <1>5, <2>1 DEF Occupied
<1>7. Cardinality(Occupied') = Cardinality(Occupied) - 1
  BY <1>6, FiniteFacts, FS_RemoveElement
<1>8. \/ Cardinality(Creating') = Cardinality(Creating) + 1 /\ semaphore' = semaphore
      \/ Cardinality(Creating') = Cardinality(Creating) /\ semaphore' = semaphore + 1
  BY <1>2, <1>5, FiniteFacts, FS_AddElement
<1>9. closing = "open" => Cardinality((Born \ Gone)') = Cardinality(Born \ Gone) - 1
  <2> SUFFICES ASSUME closing = "open"
               PROVE  Cardinality((Born \ Gone)') = Cardinality(Born \ Gone) - 1
    OBVIOUS
  <2>1. (Born \ Gone)' = (Born \ Gone) \ {i} /\ i \in Born \ Gone
    BY <1>2, <1>3
  <2>2. IsFiniteSet(Born \ Gone)
    BY FiniteFacts
  <2> HIDE DEF i
  <2> QED BY <2>1, <2>2, FS_RemoveElement
<1>10. Cardinality(Occupied') + Cardinality(Creating') + semaphore' <= MaxSize
  BY <1>2, <1>7, <1>8, FiniteFacts DEF Account
<1>11. closing' = "open" => len' = Cardinality((Born \ Gone)')
  <2>1. closing' = closing
    BY <1>1
  <2>2. len' = len - 1 /\ len \in Int
    BY <1>2, <1>3
  <2>3. closing = "open" => len = Cardinality(Born \ Gone)
    BY DEF Account
  <2> HIDE DEF i
  <2> QED BY <2>1, <2>2, <2>3, <1>9
<1> QED BY <1>10, <1>11 DEF Account

\* An instance that is handed out, put back or abandoned keeps its slot, or loses it
\* for good.
LEMMA HandSizes ==
    ASSUME Assumptions, Finite, PInv, doubtful = {}, Account, NEW c \in Clients, Checked(c) \/ Release(c) \/ Abandon(c)
    PROVE  Account'
<1>1. UNCHANGED <<semaphore, len, recycle_bin, recycler, destroyed, born, closing>>
  BY DEF Checked, Release, Abandon
<1>2. Born' = Born /\ Gone' = Gone /\ Nothing \notin Born
  BY <1>1, NothingFacts DEF Born, Gone
<1>3. Occupied' \subseteq Occupied /\ Creating' \subseteq Creating
  <2>1. CASE Checked(c)
    <3>1. /\ pc' = [pc EXCEPT ![c] = "use"] /\ inst' = [inst EXCEPT ![c] = inst[c]]
          /\ UNCHANGED instances /\ pc \in [Clients -> Labels] /\ inst \in [Clients -> Born \cup {Nothing}]
      BY <2>1 DEF Checked, Hold, PInv, TypeOK
    <3>2. inst' = inst /\ Creating' \subseteq Creating
      BY <3>1 DEF Creating
    <3> QED BY <1>2, <3>1, <3>2 DEF Occupied, InHands
  <2>2. CASE Release(c) \/ Abandon(c)
    <3>1. /\ Hold(c, "idle", Nothing)
          /\ \/ instances' = instances
             \/ inst[c] \in Born /\ instances' = Append(instances, inst[c])
      BY <2>2 DEF Release, Abandon, IdleAfterRelease, PInv, Hands
    <3>2. /\ \A i : i # Nothing => (i \in InHands' <=> i \in InHands /\ i # inst[c])
          /\ Creating' = Creating \ {c}
      BY <3>1, LeaveKeeps
    <3>3. inst[c] \in InHands
      BY DEF InHands
    <3>4. Elems(instances') \subseteq Elems(instances) \cup {inst[c]}
      <4>1. instances \in Seq(Born)
        BY DEF PInv, TypeOK
      <4>2. CASE instances' = instances
        BY <4>2
      <4>3. CASE inst[c] \in Born /\ instances' = Append(instances, inst[c])
        BY <4>1, <4>3, AppendFacts
      <4> QED BY <3>1, <4>2, <4>3
    <3> QED BY <1>2, <3>2, <3>3, <3>4 DEF Occupied
  <2> QED BY <2>1, <2>2
<1>4. Cardinality(Occupied') <= Cardinality(Occupied) /\ Cardinality(Creating') <= Cardinality(Creating)
  BY <1>3, FiniteFacts, FS_Subset
<1>5. Cardinality(Occupied') \in Nat /\ Cardinality(Creating') \in Nat /\ semaphore \in Nat /\ MaxSize \in Nat
  BY <1>3, FiniteFacts, FS_Subset, FS_CardinalityType DEF PInv, TypeOK, Assumptions, SizesAssumption
<1> QED BY <1>1, <1>2, <1>4, <1>5, FiniteFacts DEF Account

\* The clock, the recycler and close() leave the slots alone.
LEMMA OtherSizes ==
    ASSUME Assumptions, Finite, PInv, doubtful = {}, Account,
           \/ \E i \in Born : Expire(i)
           \/ RecyclerTake \/ RecyclerDone \/ Close \/ CloseEnds
    PROVE  Account'
<1>1. /\ UNCHANGED <<semaphore, len, born, pc, inst>>
      /\ closing' = "open" => closing = "open"
  BY DEF Expire, RecyclerTake, RecyclerDone, Close, CloseEnds
<1>2. Creating' = Creating /\ InHands' = InHands /\ Born' = Born
  BY <1>1 DEF Creating, InHands, Born
<1>3. /\ Gone \subseteq Gone' /\ Elems(instances') \subseteq Elems(instances)
      /\ closing' = "open" => Gone' = Gone
  <2>1. CASE (\E i \in Born : Expire(i)) \/ CloseEnds
    BY <2>1 DEF Expire, CloseEnds, Gone
  <2>2. CASE RecyclerTake
    <3>1. /\ recycler = Nothing /\ recycle_bin # <<>> /\ recycler' = Head(recycle_bin)
          /\ recycle_bin' = Tail(recycle_bin) /\ UNCHANGED <<instances, destroyed>>
      BY <2>2 DEF RecyclerTake
    <3>2. recycler' \in Born /\ Elems(recycle_bin) = Elems(recycle_bin') \cup {recycler'}
      BY <3>1, TailFacts DEF PInv, TypeOK
    <3> QED BY <3>1, <3>2, NothingFacts DEF Gone
  <2>3. CASE RecyclerDone
    BY <2>3 DEF RecyclerDone, Gone
  <2>4. CASE Close
    <3>1. /\ closing' = "closing" /\ destroyed' = destroyed \cup used \cup Elems(instances)
          /\ instances' = <<>> /\ UNCHANGED <<recycle_bin, recycler>>
      BY <2>4 DEF Close, Elems
    <3>2. Elems(<<>>) = {}
      BY DEF Elems
    <3> QED BY <3>1, <3>2 DEF Gone
  <2> QED BY <2>1, <2>2, <2>3, <2>4
<1>4. Occupied' \subseteq Occupied
  BY <1>2, <1>3 DEF Occupied
<1>5. Cardinality(Occupied') <= Cardinality(Occupied) /\ Cardinality(Occupied') \in Nat
  BY <1>4, FiniteFacts, FS_Subset, FS_CardinalityType
<1>6. semaphore \in Nat /\ MaxSize \in Nat
  BY DEF PInv, TypeOK, Assumptions, SizesAssumption
<1> QED BY <1>1, <1>2, <1>3, <1>5, <1>6, FiniteFacts DEF Account

\* Every step keeps the account of the slots.
LEMMA SInvStep == ASSUME Assumptions, Finite, PInv, SInv, [Next]_vars PROVE SInv'
<1> SUFFICES ASSUME doubtful' = {} PROVE Account'
  BY DEF SInv
<1>1. ASSUME NEW c \in Clients PROVE ~CheckRaises(c)
  BY DEF CheckRaises
<1>2. doubtful = {}
  BY <1>1 DEF Next, vars, ClientStep, Acquire, Created, Get, Checked, CheckFalse, ReleaseExpired,
              Release, Abandon, Expire, RecyclerTake, RecyclerDone, Close, CloseEnds
<1>3. Account
  BY <1>2 DEF SInv
<1>4. CASE UNCHANGED vars
  BY <1>3, <1>4 DEF vars, Account, Occupied, Creating, InHands, Gone, Born
<1> QED BY <1>1, <1>2, <1>3, <1>4, AcquireSizes, CreatedSizes, RecycleSizes, HandSizes, OtherSizes
        DEF Next, ClientStep

\* "maxsize" and len(pool): however many clients acquire, are cancelled, release, fail to
\* create an instance or find one broken, the instances that live and those being created
\* are never more than maxsize, and while the pool is open _len counts those that live, in
\* every state up to the first check that raises.
THEOREM NeverTooMany == ASSUME Assumptions, Finite PROVE Spec => []SizeIsBounded
<1>1. Init => SInv
  BY InitSInv
<1>2. PInv /\ SInv /\ [Next]_vars => SInv'
  BY SInvStep
<1>3. PInv /\ SInv => SizeIsBounded
  BY SInvImplies
<1> QED BY <1>1, <1>2, <1>3, Invariance, PTL DEF Spec
=============================================================================

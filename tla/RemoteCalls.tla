---------------------------- MODULE RemoteCalls ----------------------------
(***************************************************************************)
(* What a pool of worker processes promises about the calls it is given,   *)
(* whatever crashes or is cancelled: a function is started at most once,   *)
(* a call ends at most once, and an answer comes from a function that has  *)
(* been started and is given to one call only.                             *)
(***************************************************************************)
CONSTANTS
    Calls,
    Failures,   \* what a call may raise that is not its function's doing
    Pending     \* the outcome of a call that has not ended

VARIABLES
    begun,      \* the calls that have been made
    ran,        \* how often the function of a call has been started
    outcome     \* the call whose answer a call was given, a failure, or Pending

Init ==
    /\ begun = {} /\ ran = [i \in Calls |-> 0]
    /\ outcome = [i \in Calls |-> Pending]

Begin(i) ==
    /\ i \notin begun
    /\ begun' = begun \cup {i}
    /\ UNCHANGED <<ran, outcome>>

\* The function may run after its call was cancelled.
Run(i) ==
    /\ i \in begun /\ ran[i] = 0
    /\ ran' = [ran EXCEPT ![i] = 1]
    /\ UNCHANGED <<begun, outcome>>

End(i) ==
    /\ i \in begun /\ outcome[i] = Pending
    /\ \E o \in Failures \cup {j \in Calls : ran[j] = 1 /\ \A k \in Calls : outcome[k] # j} :
          outcome' = [outcome EXCEPT ![i] = o]
    /\ UNCHANGED <<begun, ran>>

Next == \E i \in Calls : Begin(i) \/ Run(i) \/ End(i)

Spec == Init /\ [][Next]_<<begun, ran, outcome>>
=============================================================================

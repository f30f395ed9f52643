--------------------------- MODULE Register_proofs ---------------------------
(***************************************************************************)
(* Theorems about Register: its types, the renewal that precedes the       *)
(* expiry, and the pace of the attempts, for all durations.                *)
(***************************************************************************)
EXTENDS Register, TLAPS

(* The arithmetic of refresh_after: never 0, and before the expiry for all *)
(* expiries but 0 and 1.                                                   *)
THEOREM RefreshBeforeExpiry ==
  ASSUME NEW g \in Nat
  PROVE  /\ RefreshAfter(g) \in Nat \ {0}
         /\ g >= 2 => RefreshAfter(g) < g
  BY DEF RefreshAfter, Greatest

(* The arithmetic of next_backoff: it stays between its two bounds.        *)
LEMMA BackoffInRange ==
  ASSUME NEW b \in InitialBackoff..MaxBackoff
  PROVE  NextBackoff(b) \in InitialBackoff..MaxBackoff
  BY BackoffAssumption DEF NextBackoff, Least

(* Every variable keeps its type; in particular no timer is slept below 0  *)
(* and the backoff stays between its bounds.                               *)
THEOREM TypeCorrect == Spec => []TypeOK
<1>1. Init => TypeOK
  <2> SUFFICES ASSUME Init PROVE TypeOK
    OBVIOUS
  <2>1. backoff \in InitialBackoff..MaxBackoff /\ timer \in Nat /\ bound \in Nat
    BY BackoffAssumption, TimeoutAssumption DEF Init
  <2>2. evq \in Seq({"Registered", "RegisterFailed"})
    BY DEF Init
  <2> QED
    BY <2>1, <2>2 DEF Init, TypeOK
<1>2. TypeOK /\ [Next]_vars => TypeOK'
  <2> SUFFICES ASSUME TypeOK, [Next]_vars PROVE TypeOK'
    OBVIOUS
  <2> USE DEF TypeOK
  <2>1. CASE Accepts
    BY <2>1, GrantsAssumption DEF Accepts, loopVars, uiVars, Codes
  <2>2. CASE Refuses
    BY <2>2 DEF Refuses, loopVars, uiVars
  <2>3. CASE Loses
    BY <2>3, GrantsAssumption DEF Loses, loopVars, uiVars
  <2>4. CASE NetworkChanges
    BY <2>4 DEF NetworkChanges, loopVars, uiVars
  <2>5. CASE Answered
    <3>1. RefreshAfter(Requested) \in Nat
      BY RefreshBeforeExpiry, RequestedAssumption
    <3>2. backoff \in Nat
      BY BackoffAssumption
    <3>3. CASE answer = "OK" /\ Succeeded
      BY <2>5, <3>1, <3>3 DEF Answered, Succeeded, SetRegistered
    <3>4. CASE Failed
      BY <2>5, <3>2, <3>4 DEF Answered, Failed
    <3> QED
      BY <2>5, <3>3, <3>4 DEF Answered
  <2>6. CASE RefusedForGood
    BY <2>6 DEF RefusedForGood, SetRegistered
  <2>7. CASE NextCycle
    BY <2>7, BackoffInRange, BackoffAssumption, TimeoutAssumption
    DEF NextCycle, netVars, uiVars
  <2>8. CASE CycleDropped
    BY <2>8, TimeoutAssumption DEF CycleDropped, uiVars
  <2>9. CASE UnregisterTimedOut
    BY <2>9 DEF UnregisterTimedOut, netVars, uiVars
  <2>10. CASE StatusChanged
    <3>1. evq' \in Seq({"Registered", "RegisterFailed"})
      BY <2>10 DEF StatusChanged
    <3>2. status' \in [registered : BOOLEAN, changed : BOOLEAN]
      BY <2>10 DEF StatusChanged
    <3> QED
      BY <2>10, <3>1, <3>2 DEF StatusChanged, loopVars, netVars
  <2>11. CASE WorkerStops
    BY <2>11 DEF WorkerStops, loopVars, netVars
  <2>12. CASE WorkerGone
    BY <2>12 DEF WorkerGone, loopVars, netVars
  <2>13. CASE Deliver
    BY <2>13 DEF Deliver, loopVars, netVars
  <2>14. CASE Tick
    BY <2>14 DEF Tick, Due, Greatest, uiVars
  <2>15. CASE UNCHANGED vars
    BY <2>15 DEF vars, loopVars, netVars, uiVars
  <2> QED
    BY <2>1, <2>2, <2>3, <2>4, <2>5, <2>6, <2>7, <2>8, <2>9, <2>10, <2>11,
       <2>12, <2>13, <2>14, <2>15
    DEF Next, LoopStep, Over
<1> QED
  BY <1>1, <1>2, PTL DEF Spec

-----------------------------------------------------------------------------
(* What the registrar must do for us: grant more than the renewal takes.   *)
GrantsOutliveRenewal == \A g \in Grants : RefreshAfter(Requested) < g

(* BoundWhileAsleep alone is not inductive: the renewal has to fit into    *)
(* what is left of the binding, from the moment the 200 OK is on its way.  *)
BindingInv ==
  /\ loop = "waiting" /\ cycle = "Registered" => timer < bound
  /\ answer = "OK" => loop = "trying" /\ RefreshAfter(Requested) < bound

(* If every grant outlives the renewal, the renewal fits into the binding. *)
THEOREM BindingInvariant ==
  ASSUME GrantsOutliveRenewal
  PROVE  Spec => []BindingInv
<1>1. Init => BindingInv
  BY DEF Init, BindingInv
<1>2. TypeOK /\ BindingInv /\ [Next]_vars => BindingInv'
  <2> SUFFICES ASSUME TypeOK, BindingInv, [Next]_vars PROVE BindingInv'
    OBVIOUS
  <2>0. RefreshAfter(Requested) \in Nat
    BY RefreshBeforeExpiry, RequestedAssumption
  <2> USE DEF BindingInv
  <2>1. CASE Accepts
    BY <2>1 DEF Accepts, Asked, loopVars, GrantsOutliveRenewal
  <2>2. CASE Refuses
    BY <2>2 DEF Refuses, Asked, loopVars
  <2>3. CASE Loses
    BY <2>3 DEF Loses, Asked, loopVars
  <2>4. CASE Answered
    BY <2>4, <2>0 DEF Answered, Succeeded, Failed
  <2>5. CASE RefusedForGood
    BY <2>5 DEF RefusedForGood
  <2>6. CASE NextCycle
    BY <2>6 DEF NextCycle, netVars
  <2>7. CASE CycleDropped
    BY <2>7 DEF CycleDropped
  <2>8. CASE UnregisterTimedOut
    BY <2>8 DEF UnregisterTimedOut, netVars
  <2>9. CASE Tick
    BY <2>9 DEF Tick, Due, Codes, Greatest, TypeOK
  <2>10. CASE UNCHANGED <<loopVars, answer, bound>>
    BY <2>10 DEF loopVars
  <2> QED
    BY <2>1, <2>2, <2>3, <2>4, <2>5, <2>6, <2>7, <2>8, <2>9, <2>10
    DEF Next, LoopStep, Over, vars, netVars, NetworkChanges, StatusChanged,
        WorkerStops, WorkerGone, Deliver
<1> QED
  BY <1>1, <1>2, TypeCorrect, PTL DEF Spec

(* Under the same condition the registrar knows the client whenever it     *)
(* sleeps off a success.                                                   *)
THEOREM ReachableWhileAsleep ==
  ASSUME GrantsOutliveRenewal
  PROVE  Spec => []BoundWhileAsleep
<1>1. TypeOK /\ BindingInv => BoundWhileAsleep
  BY DEF TypeOK, BindingInv, BoundWhileAsleep
<1> QED
  BY <1>1, TypeCorrect, BindingInvariant, PTL

(* Whatever is granted or refused, the next attempt is at least a second   *)
(* away, and after a failure at most MAX_BACKOFF.                          *)
THEOREM PacedAttempts == Spec => AttemptsArePaced
<1>1. TypeOK /\ [Next]_vars
        => (loop = "trying" /\ loop' = "waiting"
              => timer' >= 1 /\ (cycle' = "Retry" => timer' <= MaxBackoff))
  <2> SUFFICES ASSUME TypeOK, [Next]_vars, loop = "trying", loop' = "waiting"
               PROVE  timer' >= 1 /\ (cycle' = "Retry" => timer' <= MaxBackoff)
    OBVIOUS
  <2>1. Answered
    BY DEF Next, vars, Accepts, Refuses, Loses, NetworkChanges, LoopStep,
           RefusedForGood, NextCycle, CycleDropped, UnregisterTimedOut, StatusChanged,
           WorkerStops, WorkerGone, Deliver, Tick, Over, loopVars
  <2>2. RefreshAfter(Requested) \in Nat \ {0}
    BY RefreshBeforeExpiry, RequestedAssumption
  <2>3. backoff >= 1 /\ backoff <= MaxBackoff
    BY BackoffAssumption DEF TypeOK
  <2>4. CASE Succeeded
    BY <2>2, <2>4 DEF Succeeded
  <2>5. CASE Failed
    BY <2>3, <2>5 DEF Failed
  <2> QED
    BY <2>1, <2>4, <2>5 DEF Answered
<1> QED
  BY <1>1, TypeCorrect, PTL DEF Spec, AttemptsArePaced
=============================================================================

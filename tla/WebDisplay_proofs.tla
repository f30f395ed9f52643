-------------------------- MODULE WebDisplay_proofs --------------------------
(***************************************************************************)
(* Theorems about WebDisplay, for any number of sessions.                  *)
(***************************************************************************)
EXTENDS WebDisplay, TLAPS

(* What the place of the task says of entry, request and stream; with it   *)
(* the safety property is inductive.                                       *)
Places ==
  /\ \A s \in Sessions : entry[s] = "none" => request[s] = "none" /\ task[s] = "none"
  /\ \A s \in Sessions : request[s] = "inserted" => task[s] = "none"
  /\ \A s \in Sessions : task[s] \in {"none", "resolving", "starting"} => state[s] = "none"
  /\ \A s \in Sessions : state[s] = "none" => camera[s] = "none"
  /\ \A s \in stored : entry[s] \in {"stored", "removed"} /\ task[s] \in {"polling", "over"}
  /\ \A s \in Sessions : entry[s] = "stored" => s \in stored
  /\ \A s \in Sessions : stopper[s] # "nobody" => s \in stored /\ entry[s] = "removed"
  /\ \A s \in stored : state[s] # "none"
  /\ \A s \in Sessions : task[s] \in {"storing", "polling"} => state[s] # "none"

RegistryInv == TypeOK /\ Places /\ StoredIsStopped

(* Both DELETE and stop_all are at stop() with the handle they take out.   *)
LEMMA RemovalKeepsInv ==
  ASSUME RegistryInv, NEW s \in Sessions, NEW who \in {"handler", "main"},
         Registered(s), Remove(s, who),
         UNCHANGED <<request, task, streamVars, told, stored, main, server>>,
         ids' \subseteq Sessions
  PROVE  RegistryInv'
<1> USE DEF RegistryInv, TypeOK, Places, StoredIsStopped, Terminal, streamVars
<1>1. CASE entry[s] = "stored"
  BY <1>1 DEF Remove, Becomes
<1>2. CASE entry[s] = "open"
  BY <1>2 DEF Remove, Becomes
<1> QED
  BY <1>1, <1>2 DEF Registered

(* A stop() that returns leaves a stream whose state is terminal.          *)
LEMMA StopKeepsInv ==
  ASSUME RegistryInv, NEW s \in Sessions, StopHandle(s)
  PROVE  RegistryInv'
<1> USE DEF RegistryInv, TypeOK, Places, StoredIsStopped, Terminal, StopHandle, exitVars
<1>1. CASE Terminal(s)
  BY <1>1 DEF Becomes
<1>2. CASE ~Terminal(s)
  BY <1>2 DEF Becomes
<1> QED
  BY <1>1, <1>2

(* What the threads of a stream do to it concerns no removal.              *)
LEMMA StreamKeepsInv ==
  ASSUME RegistryInv, NEW s \in Sessions,
         StreamFails(s) \/ Disconnects(s) \/ Connects(s) \/ ThreadEnds(s)
  PROVE  RegistryInv'
<1> USE DEF RegistryInv, TypeOK, Places, StoredIsStopped, Terminal, exitVars, Becomes
<1>1. CASE StreamFails(s)
  BY <1>1 DEF StreamFails
<1>2. CASE Disconnects(s)
  BY <1>2 DEF Disconnects
<1>3. CASE Connects(s)
  BY <1>3 DEF Connects
<1>4. CASE ThreadEnds(s)
  BY <1>4 DEF ThreadEnds
<1> QED
  BY <1>1, <1>2, <1>3, <1>4

(* The safety property of the registry holds in every state, with the      *)
(* places that explain it.                                                 *)
THEOREM RegistryInvariant == Spec => []RegistryInv
<1>1. Init => RegistryInv
  BY DEF Init, RegistryInv, TypeOK, Places, StoredIsStopped
<1>2. RegistryInv /\ [Next]_vars => RegistryInv'
  <2> SUFFICES ASSUME RegistryInv, [Next]_vars PROVE RegistryInv'
    OBVIOUS
  <2> USE DEF RegistryInv, TypeOK, Places, StoredIsStopped, Terminal, exitVars, streamVars, Becomes
  <2>1. ASSUME NEW s \in Sessions, CreateSession(s) PROVE RegistryInv'
    BY <2>1 DEF CreateSession
  <2>2. ASSUME NEW s \in Sessions, FinishRequest(s) PROVE RegistryInv'
    BY <2>2 DEF FinishRequest
  <2>3. ASSUME NEW s \in Sessions, DeleteSession(s) PROVE RegistryInv'
    <3>1. /\ UNCHANGED <<request, task, streamVars, told, stored, main, server>>
          /\ ids' \subseteq Sessions /\ Registered(s) /\ Remove(s, "handler")
      BY <2>3 DEF DeleteSession
    <3> QED
      BY <3>1, RemovalKeepsInv
  <2>4. ASSUME NEW s \in Sessions, ResolveUri(s) PROVE RegistryInv'
    BY <2>4 DEF ResolveUri, TaskEnds
  <2>5. ASSUME NEW s \in Sessions, StartStream(s) PROVE RegistryInv'
    BY <2>5 DEF StartStream, TaskEnds
  <2>6. ASSUME NEW s \in Sessions, StoreHandle(s) PROVE RegistryInv'
    BY <2>6 DEF StoreHandle, SetHandle, Registered
  <2>7. ASSUME NEW s \in Sessions, PollOver(s) PROVE RegistryInv'
    BY <2>7 DEF PollOver, TaskEnds
  <2>8. CASE StopNext
    <3>1. PICK s \in ids : ids' = ids \ {s}
                           /\ IF Registered(s) THEN Remove(s, "main") ELSE UNCHANGED <<entry, stopper>>
      BY <2>8 DEF StopNext
    <3>2. UNCHANGED <<request, task, streamVars, told, stored, main, server>>
      BY <2>8 DEF StopNext
    <3>3. CASE Registered(s)
      BY <3>1, <3>2, <3>3, RemovalKeepsInv
    <3>4. CASE ~Registered(s)
      BY <3>1, <3>2, <3>4
    <3> QED
      BY <3>3, <3>4
  <2>9. CASE Signal \/ SecondSignal \/ CollectIds \/ AllStopped \/ Exit \/ ServerDrained
    BY <2>9 DEF Signal, SecondSignal, CollectIds, AllStopped, Exit, ServerDrained, sessionVars
  <2>10. CASE UNCHANGED vars
    BY <2>10 DEF vars, sessionVars
  <2> QED
    BY <2>1, <2>2, <2>3, <2>4, <2>5, <2>6, <2>7, <2>8, <2>9, <2>10, StopKeepsInv, StreamKeepsInv
    DEF Next, TaskStep, ShutdownStep, Finished
<1> QED
  BY <1>1, <1>2, PTL DEF Spec

(* However many sessions are created, deleted and shut down at once, a     *)
(* stream the registry ever held outlives its entry only while whoever     *)
(* removed that entry is at stop().                                        *)
THEOREM NoStoredStreamOutlivesItsEntry == Spec => []StoredIsStopped
<1>1. RegistryInv => StoredIsStopped
  BY DEF RegistryInv
<1> QED
  BY <1>1, RegistryInvariant, PTL
=============================================================================

--------------------------- MODULE Ingest_proofs ---------------------------
(***************************************************************************)
(* Ingest for any number of threads that call stop() and any limit on the  *)
(* attempts: the outcome, the callback and the camera of a session keep    *)
(* the promise of Stream, and a failure is always due.                     *)
(***************************************************************************)
EXTENDS Ingest, TLAPS

(* What Transition may do to the state and to the frozen conclusion.       *)
LEMMA TransitionFreezes ==
  ASSUME TypeOK, Frozen, NEW to \in StreamState, Transition(to)
  PROVE  /\ state' \in StreamState
         /\ terminal' \in Outcome \cup {NoOutcome}
         /\ Frozen'
         /\ state \in Terminal => UNCHANGED <<state, terminal>>
         /\ state' = state \/ state' = to
         /\ UNCHANGED state => UNCHANGED terminal
<1>1. CASE <<state, to>> \notin CanTransition
  BY <1>1 DEF TypeOK, Frozen, Transition
<1>2. CASE <<state, to>> \in CanTransition
  <2>1. state \notin Terminal /\ to # state
    BY <1>2 DEF CanTransition, Terminal
  <2>2. state' = to /\ terminal = NoOutcome
    BY <1>2, <2>1 DEF Transition, Frozen
  <2>3. CASE to \in Terminal
    <3>1. terminal' = [outcome |-> to, error |-> IF to = "Failed" THEN lastError ELSE "None"]
      BY <1>2, <2>2, <2>3 DEF Transition
    <3>2. terminal' \in Outcome
      BY <2>3, <3>1 DEF Outcome, TypeOK
    <3> QED
      BY <2>1, <2>2, <2>3, <3>1, <3>2 DEF Frozen
  <2>4. CASE to \notin Terminal
    <3>1. terminal' = terminal
      BY <1>2, <2>2, <2>4 DEF Transition
    <3> QED
      BY <2>1, <2>2, <2>4, <3>1 DEF Frozen
  <2> QED
    BY <2>3, <2>4
<1> QED
  BY <1>1, <1>2

(* A stream that fails does so with the last error.                        *)
LEMMA FailureTakesLastError ==
  ASSUME Frozen, state # "Failed", Transition("Failed"), state' = "Failed"
  PROVE  terminal'.outcome = "Failed" /\ terminal'.error = lastError
<1>1. <<state, "Failed">> \in CanTransition
  BY DEF Transition
<1>2. terminal = NoOutcome
  BY <1>1 DEF CanTransition, Frozen, Terminal
<1> QED
  BY <1>1, <1>2 DEF Transition, Terminal

\* A session starts with its invariant.
LEMMA InitInv == Init => SessionInv
<1>1. Init => TypeOK
  <2> SUFFICES ASSUME Init PROVE TypeOK
    OBVIOUS
  <2>1. waiter \in [Threads -> {"out", "check", "gap", "asleep", "expired"}]
    BY DEF Init
  <2>2. caller \in [Callers -> {"idle", "store", "notify", "teardown", "transition", "returned"}]
    BY DEF Init
  <2>3. state \in StreamState /\ attempt \in 0..MaxAttempts
    BY MaxAttemptsAssumption DEF Init, StreamState
  <2> QED
    BY <2>1, <2>2, <2>3 DEF Init, TypeOK
<1>2. Init => Frozen /\ ThreadKnows /\ FailureIsDue
  BY DEF Init, Frozen, ThreadKnows, FailureIsDue, NoOutcome, Terminal
<1> QED
  BY <1>1, <1>2 DEF SessionInv

(* The session thread watches its bus.                                     *)
LEMMA WatchInv ==
  ASSUME SessionInv, Watch \/ Pop
  PROVE  SessionInv'
<1> USE DEF SessionInv
<1>1. CASE Watch
  <2>1. TypeOK'
    BY <1>1 DEF Watch, Go, handleVars, pipeVars, TypeOK
  <2>2. Frozen' /\ FailureIsDue'
    BY <1>1 DEF Watch, handleVars, Frozen, FailureIsDue
  <2>3. ThreadKnows'
    BY <1>1 DEF Watch, Go, handleVars, pipeVars, ThreadKnows
  <2> QED
    BY <2>1, <2>2, <2>3
<1>2. CASE Pop
  <2>1. CASE UNCHANGED <<state, terminal>>
    <3>1. TypeOK'
      BY <1>2, <2>1, MaxAttemptsAssumption DEF Pop, Go, pipeVars, TypeOK
    <3>2. state # "Failed" /\ terminal.outcome # "Failed"
      BY <1>2 DEF Pop, Go, ThreadKnows, Frozen, NoOutcome, Terminal
    <3>3. Frozen' /\ FailureIsDue'
      BY <2>1, <3>2 DEF Frozen, FailureIsDue
    <3>4. ThreadKnows'
      BY <1>2, <2>1, <3>2 DEF Pop, Go, pipeVars, ThreadKnows, Errors
    <3> QED
      BY <3>1, <3>3, <3>4
  <2>2. CASE Go("pop", "watch") /\ Transition("Playing") /\ attempt' = 0 /\ UNCHANGED lastError
    <3>1. /\ state' \in StreamState /\ terminal' \in Outcome \cup {NoOutcome}
          /\ Frozen'
          /\ state' = state \/ state' = "Playing"
          /\ UNCHANGED state => UNCHANGED terminal
      BY <2>2, TransitionFreezes DEF StreamState
    <3>2. terminal.outcome # "Failed"
      BY <2>2 DEF Frozen, ThreadKnows, Go, NoOutcome, Terminal
    <3> QED
      BY <1>2, <2>2, <3>1, <3>2, MaxAttemptsAssumption
      DEF Pop, Go, pipeVars, TypeOK, Frozen, ThreadKnows, FailureIsDue, NoOutcome, Terminal
  <2> QED
    BY <1>2, <2>1, <2>2 DEF Pop
<1> QED
  BY <1>1, <1>2

(* It gives up, or takes the pipeline down and goes for another attempt.   *)
LEMMA FailedInv ==
  ASSUME SessionInv, StreamFailed \/ Retry
  PROVE  SessionInv'
<1> USE DEF SessionInv
<1>1. state # "Failed" /\ told = NoOutcome /\ ~fresh /\ lastError # "None"
  BY DEF StreamFailed, Retry, ThreadKnows, Go
<1>2. CASE Go(sess, "exit") /\ Transition("Failed")
           /\ (lastError = "auth" \/ attempt = MaxAttempts)
           /\ UNCHANGED <<lastError, hook, told, flag, waiter, pipe, fresh, slot, attempt, caller>>
  <2>1. /\ state' \in StreamState /\ terminal' \in Outcome \cup {NoOutcome}
        /\ Frozen'
        /\ state' = state \/ state' = "Failed"
        /\ UNCHANGED state => UNCHANGED terminal
    BY <1>2, TransitionFreezes DEF StreamState, Terminal
  <2>2. TypeOK' /\ ThreadKnows'
    BY <1>1, <1>2, <2>1 DEF Go, TypeOK, ThreadKnows
  <2>3. FailureIsDue'
    BY <1>1, <1>2, <2>1, FailureTakesLastError DEF FailureIsDue, Frozen, NoOutcome, Terminal
  <2> QED
    BY <2>1, <2>2, <2>3
<1>3. CASE StreamFailed
  <2>1. CASE lastError # "auth"
    BY <1>1, <1>3, <2>1
    DEF StreamFailed, Go, pipeVars, TypeOK, Frozen, ThreadKnows, FailureIsDue, NoOutcome
  <2> QED
    BY <1>2, <1>3, <2>1 DEF StreamFailed, Go
<1>4. CASE Retry
  <2>1. CASE Exhausted
    <3>1. attempt = MaxAttempts
      BY <2>1, MaxAttemptsAssumption DEF Exhausted, TypeOK
    <3>2. /\ Go("retry", "exit") /\ Transition("Failed")
          /\ UNCHANGED <<lastError, hook, told, flag, waiter, pipeVars, attempt, caller>>
      BY <1>4, <2>1 DEF Retry
    <3> QED
      BY <1>2, <3>1, <3>2 DEF Go, pipeVars
  <2>2. CASE ~Exhausted
    <3>1. /\ Go("retry", "backoff") /\ Transition("Reconnecting") /\ attempt' = attempt + 1
          /\ WaitAt("session", "out", "check")
          /\ UNCHANGED <<lastError, hook, told, flag, pipeVars, caller>>
      BY <1>4, <2>2 DEF Retry
    <3>2. /\ state' \in StreamState /\ terminal' \in Outcome \cup {NoOutcome}
          /\ Frozen'
          /\ state' = state \/ state' = "Reconnecting"
          /\ UNCHANGED state => UNCHANGED terminal
      BY <3>1, TransitionFreezes DEF StreamState, Terminal
    <3>3. attempt' \in 0..MaxAttempts
      BY <2>2, <3>1, MaxAttemptsAssumption DEF Exhausted, TypeOK
    <3>4. terminal'.outcome # "Failed"
      BY <1>1, <3>2 DEF Frozen, NoOutcome, Terminal
    <3> QED
      BY <1>1, <3>1, <3>2, <3>3, <3>4
      DEF Go, WaitAt, pipeVars, TypeOK, ThreadKnows, FailureIsDue
  <2> QED
    BY <2>1, <2>2
<1> QED
  BY <1>3, <1>4

(* The waits and the reconnection; the new pipeline is up before it is     *)
(* the session thread's.                                                   *)
LEMMA ReconnectInv ==
  ASSUME SessionInv,
         \/ WaitGoesOn("session") \/ WaitGoesOn("ticker") \/ Ticker
         \/ BackoffOver \/ Rebuild \/ Build \/ Swap
  PROVE  SessionInv'
<1> USE DEF SessionInv
<1>1. CASE WaitGoesOn("session") \/ WaitGoesOn("ticker") \/ Ticker
  <2>1. waiter' \in [Threads -> {"out", "check", "gap", "asleep", "expired"}]
    BY <1>1 DEF WaitGoesOn, Ticker, Interrupted, WaitAt, TypeOK
  <2>2. UNCHANGED <<handleVars, flag, pipeVars, sessVars, caller>>
    BY <1>1 DEF WaitGoesOn, Ticker
  <2> QED
    BY <2>1, <2>2
    DEF handleVars, pipeVars, sessVars, TypeOK, Frozen, ThreadKnows, FailureIsDue
<1>2. CASE BackoffOver
  BY <1>2 DEF BackoffOver, Interrupted, WaitAt, Go, handleVars, pipeVars,
              TypeOK, Frozen, ThreadKnows, FailureIsDue
<1>3. CASE Rebuild
  <2>1. /\ state' \in StreamState /\ terminal' \in Outcome \cup {NoOutcome}
        /\ Frozen'
        /\ state' = state \/ state' = "Connecting"
        /\ UNCHANGED state => UNCHANGED terminal
    BY <1>3, TransitionFreezes DEF Rebuild, StreamState
  <2>2. terminal'.outcome # "Failed"
    BY <1>3, <2>1 DEF Rebuild, Go, ThreadKnows, Frozen, NoOutcome, Terminal
  <2> QED
    BY <1>3, <2>1, <2>2 DEF Rebuild, Go, pipeVars, TypeOK, ThreadKnows, FailureIsDue
<1>4. CASE Build
  <2>1. lastError' \in Errors \cup {"None"} /\ fresh' \in BOOLEAN
    BY <1>4 DEF Build, TypeOK
  <2>2. TypeOK'
    BY <1>4, <2>1 DEF Build, Go, TypeOK
  <2>3. Frozen' /\ FailureIsDue'
    BY <1>4 DEF Build, Frozen, FailureIsDue
  <2>4. ThreadKnows'
    BY <1>4 DEF Build, Go, ThreadKnows, Errors
  <2> QED
    BY <2>2, <2>3, <2>4
<1>5. CASE Swap
  <2>1. TypeOK'
    BY <1>5 DEF Swap, Go, handleVars, TypeOK
  <2>2. Frozen' /\ FailureIsDue'
    BY <1>5 DEF Swap, handleVars, Frozen, FailureIsDue
  <2>3. ThreadKnows'
    BY <1>5 DEF Swap, Go, handleVars, ThreadKnows
  <2> QED
    BY <2>1, <2>2, <2>3
<1> QED
  BY <1>1, <1>2, <1>3, <1>4, <1>5

(* The session thread leaves: teardown, slot, conclusion, callback.        *)
LEMMA LeaveInv ==
  ASSUME SessionInv, Exit \/ Clear \/ Close \/ Tell
  PROVE  SessionInv'
<1> USE DEF SessionInv
<1>1. CASE Exit \/ Clear
  <2>1. TypeOK'
    BY <1>1 DEF Exit, Clear, Go, handleVars, TypeOK
  <2>2. Frozen' /\ FailureIsDue'
    BY <1>1 DEF Exit, Clear, handleVars, Frozen, FailureIsDue
  <2>3. ThreadKnows'
    BY <1>1 DEF Exit, Clear, Go, handleVars, ThreadKnows
  <2> QED
    BY <2>1, <2>2, <2>3
<1>2. CASE Close
  <2>1. UNCHANGED <<lastError, hook, told, flag, waiter, pipeVars, attempt, caller>>
        /\ Go("close", "tell")
    BY <1>2 DEF Close
  <2>2. CASE state \in Terminal
    BY <1>2, <2>1, <2>2
    DEF Close, Go, pipeVars, TypeOK, Frozen, ThreadKnows, FailureIsDue
  <2>3. CASE state \notin Terminal
    <3>1. Transition("Ended")
      BY <1>2, <2>3 DEF Close
    <3>2. state' = "Ended"
      BY <2>3, <3>1 DEF Transition, CanTransition, Terminal, TypeOK, StreamState
    <3>3. state' \in StreamState /\ terminal' \in Outcome \cup {NoOutcome} /\ Frozen'
      BY <3>1, TransitionFreezes DEF StreamState, Terminal
    <3> QED
      BY <2>1, <3>2, <3>3 DEF Go, pipeVars, TypeOK, Frozen, ThreadKnows, FailureIsDue, Terminal
  <2> QED
    BY <2>2, <2>3
<1>3. CASE Tell
  BY <1>3 DEF Tell, Go, pipeVars, TypeOK, Frozen, ThreadKnows, FailureIsDue
<1> QED
  BY <1>1, <1>2, <1>3

(* Whoever calls stop(), at whatever step.                                 *)
LEMMA StopInv ==
  ASSUME SessionInv, NEW c \in Callers, StopEntered(c) \/ StopGoesOn(c)
  PROVE  SessionInv'
<1> USE DEF SessionInv
<1>1. caller' \in [Callers -> {"idle", "store", "notify", "teardown", "transition", "returned"}]
  BY DEF StopEntered, StopGoesOn, StopStored, StopNotified, StopToreDown, StopReturned,
         CallerAt, TypeOK
<1>2. CASE StopEntered(c) \/ StopStored(c)
  <2>1. hook' \in BOOLEAN /\ flag' \in BOOLEAN
    BY <1>2 DEF StopEntered, StopStored, handleVars, TypeOK
  <2>2. UNCHANGED <<state, lastError, terminal, told, waiter, pipeVars, sessVars>>
    BY <1>2 DEF StopEntered, StopStored, handleVars
  <2>3. TypeOK'
    BY <1>1, <2>1, <2>2 DEF pipeVars, sessVars, TypeOK
  <2>4. Frozen' /\ FailureIsDue' /\ ThreadKnows'
    BY <2>2 DEF pipeVars, sessVars, Frozen, ThreadKnows, FailureIsDue
  <2> QED
    BY <2>3, <2>4
<1>3. CASE StopNotified(c)
  <2>1. waiter' \in [Threads -> {"out", "check", "gap", "asleep", "expired"}]
    BY <1>3 DEF StopNotified, TypeOK
  <2> QED
    BY <1>1, <1>3, <2>1 DEF StopNotified, handleVars, pipeVars, sessVars,
                            TypeOK, Frozen, ThreadKnows, FailureIsDue
<1>4. CASE StopToreDown(c)
  BY <1>1, <1>4 DEF StopToreDown, handleVars, sessVars, TypeOK, Frozen, ThreadKnows, FailureIsDue
<1>5. CASE StopReturned(c)
  <2>1. /\ state' \in StreamState /\ terminal' \in Outcome \cup {NoOutcome}
        /\ Frozen'
        /\ state \in Terminal => UNCHANGED <<state, terminal>>
        /\ state' = state \/ state' = "Ended"
        /\ UNCHANGED state => UNCHANGED terminal
    BY <1>5, TransitionFreezes DEF StopReturned, StreamState, Terminal
  <2>2. UNCHANGED <<lastError, hook, told, flag, waiter, pipe, fresh, slot, attempt, sess>>
    BY <1>5 DEF StopReturned, pipeVars, sessVars
  <2>3. ThreadKnows'
    BY <2>1, <2>2 DEF ThreadKnows, Terminal
  <2>4. FailureIsDue'
    BY <2>1, <2>2 DEF FailureIsDue, Frozen, Terminal
  <2> QED
    BY <1>1, <2>1, <2>2, <2>3, <2>4 DEF TypeOK
<1> QED
  BY <1>2, <1>3, <1>4, <1>5 DEF StopGoesOn

\* No step of the session, the camera or the timers spoils it.
LEMMA NextInv == SessionInv /\ [Next]_vars => SessionInv'
<1> SUFFICES ASSUME SessionInv, [Next]_vars PROVE SessionInv'
  OBVIOUS
<1>1. CASE UNCHANGED vars
  BY <1>1 DEF vars, handleVars, pipeVars, sessVars,
              SessionInv, TypeOK, Frozen, ThreadKnows, FailureIsDue
<1>2. CASE \E c \in Callers : StopEntered(c) \/ StopGoesOn(c)
  BY <1>2, StopInv
<1>3. CASE SessionStep \/ WaitGoesOn("ticker") \/ Ticker
  BY <1>3, WatchInv, FailedInv, ReconnectInv, LeaveInv DEF SessionStep
<1> QED
  BY <1>1, <1>2, <1>3 DEF Next, Over

(* The inductive invariant of the session.                                 *)
THEOREM SessionInvariant == Spec => []SessionInv
<1> QED
  BY InitInv, NextInv, PTL DEF Spec

(* Every variable keeps its type; the attempts stay within their limit.    *)
THEOREM TypeCorrect == Spec => []TypeOK
<1>1. SessionInv => TypeOK
  BY DEF SessionInv
<1> QED
  BY <1>1, SessionInvariant, PTL

(* A stream fails only for its credentials or with all attempts spent.     *)
THEOREM FailsOnlyWhenDue == Spec => []FailureIsDue
<1>1. SessionInv => FailureIsDue
  BY DEF SessionInv
<1> QED
  BY <1>1, SessionInvariant, PTL

-----------------------------------------------------------------------------
(* The promise of Stream.                                                  *)

(* A transition decides the outcome, or the owner sees nothing of it.      *)
LEMMA TransitionDecides ==
  ASSUME TypeOK, Frozen, NEW to \in StreamState, Transition(to),
         UNCHANGED <<pipe, fresh, told>>
  PROVE  [Promise!StreamNext]_Promise!streamVars
<1>1. CASE UNCHANGED terminal
  BY <1>1 DEF Promise!streamVars
<1>2. CASE terminal' # terminal
  <2>1. terminal = NoOutcome /\ to \in Terminal
    BY <1>2 DEF Transition
  <2>2. terminal'.outcome = to
    BY <1>2, <2>1 DEF Transition
  <2>3. Promise!Decide(to)
    BY <2>1, <2>2 DEF Promise!Decide, NoOutcome
  <2> QED
    BY <2>1, <2>3 DEF Promise!StreamNext, Promise!Outcomes, Terminal
<1> QED
  BY <1>1, <1>2

(* The camera may come and go as long as the owner has not been told.      *)
LEMMA CameraMoves ==
  ASSUME TypeOK, TypeOK', UNCHANGED <<terminal, told>>,
         told = NoOutcome \/ ~(pipe' \/ fresh') \/ UNCHANGED <<pipe, fresh>>
  PROVE  [Promise!StreamNext]_Promise!streamVars
<1>1. CASE UNCHANGED <<pipe, fresh>>
  BY <1>1 DEF Promise!streamVars
<1>2. CASE ~(pipe' \/ fresh')
  <2>1. Promise!Disconnect
    BY <1>2 DEF Promise!Disconnect
  <2> QED
    BY <2>1 DEF Promise!StreamNext
<1>3. CASE told = NoOutcome /\ (pipe' \/ fresh')
  <2>1. (pipe' \/ fresh') = TRUE
    BY <1>3
  <2>2. Promise!Connect
    BY <1>3, <2>1 DEF Promise!Connect, NoOutcome
  <2> QED
    BY <2>2 DEF Promise!StreamNext
<1> QED
  BY <1>1, <1>2, <1>3

(* When the owner is told, there is an outcome and no pipeline is left.    *)
LEMMA TellTells ==
  ASSUME SessionInv, Tell
  PROVE  Promise!Tell
<1>1. terminal.outcome \in Terminal /\ told = NoOutcome /\ pipe = FALSE /\ fresh = FALSE
  BY DEF SessionInv, Frozen, ThreadKnows, Tell, Go, TypeOK
<1>2. told' = terminal /\ UNCHANGED <<terminal, pipe, fresh>>
  BY DEF Tell, pipeVars
<1> QED
  BY <1>1, <1>2 DEF Promise!Tell, NoOutcome, Terminal

(* Every step of the session is one of Stream's, or none.                  *)
LEMMA StepKeepsPromise ==
  SessionInv /\ SessionInv' /\ [Next]_vars => [Promise!StreamNext]_Promise!streamVars
<1> SUFFICES ASSUME SessionInv, SessionInv', [Next]_vars
             PROVE  [Promise!StreamNext]_Promise!streamVars
  OBVIOUS
<1> USE DEF SessionInv
<1>1. CASE \/ UNCHANGED vars \/ Watch \/ Clear \/ BackoffOver \/ Ticker
           \/ WaitGoesOn("session") \/ WaitGoesOn("ticker")
           \/ \E c \in Callers : StopEntered(c) \/ StopStored(c) \/ StopNotified(c)
  <2>1. UNCHANGED <<terminal, told, pipe, fresh>>
    BY <1>1 DEF vars, Watch, Clear, BackoffOver, Ticker, WaitGoesOn, StopEntered, StopStored,
                StopNotified, handleVars, pipeVars
  <2> QED
    BY <2>1, CameraMoves
<1>2. CASE Pop \/ Retry \/ Rebuild \/ Close \/ \E c \in Callers : StopReturned(c)
  <2>1. UNCHANGED <<pipe, fresh, told>>
    BY <1>2 DEF Pop, Retry, Rebuild, Close, StopReturned, pipeVars
  <2>2. CASE UNCHANGED terminal
    BY <2>1, <2>2, CameraMoves
  <2>3. CASE \E to \in StreamState : Transition(to)
    BY <2>1, <2>3, TransitionDecides
  <2> QED
    BY <1>2, <2>2, <2>3 DEF Pop, Retry, Rebuild, Close, StopReturned, StreamState, Terminal
<1>3. CASE StreamFailed
  <2>1. CASE lastError = "auth"
    <3>1. UNCHANGED <<pipe, fresh, told>> /\ Transition("Failed") /\ "Failed" \in StreamState
      BY <1>3, <2>1 DEF StreamFailed, StreamState, Terminal
    <3> QED
      BY <3>1, TransitionDecides
  <2>2. CASE lastError # "auth"
    <3>1. UNCHANGED <<terminal, told>> /\ told = NoOutcome
      BY <1>3, <2>2 DEF StreamFailed, Go, ThreadKnows
    <3> QED
      BY <3>1, CameraMoves
  <2> QED
    BY <2>1, <2>2
<1>4. CASE Build \/ Swap
  <2>1. UNCHANGED <<terminal, told>> /\ told = NoOutcome
    BY <1>4 DEF Build, Swap, Go, ThreadKnows, handleVars
  <2> QED
    BY <2>1, CameraMoves
<1>5. CASE Exit
  <2>1. UNCHANGED <<terminal, told>> /\ told = NoOutcome
    BY <1>5 DEF Exit, Go, ThreadKnows, handleVars
  <2> QED
    BY <2>1, CameraMoves
<1>6. CASE Tell
  BY <1>6, TellTells DEF Promise!StreamNext
<1>7. CASE \E c \in Callers : StopToreDown(c)
  <2>1. UNCHANGED <<terminal, told, fresh>> /\ (pipe' = pipe \/ pipe' = FALSE)
    BY <1>7 DEF StopToreDown, handleVars, TypeOK
  <2>2. fresh => told = NoOutcome
    BY DEF ThreadKnows
  <2> QED
    BY <2>1, <2>2, CameraMoves
<1> QED
  BY <1>1, <1>2, <1>3, <1>4, <1>5, <1>6, <1>7 DEF Next, SessionStep, StopGoesOn, Over

(* However stop(), failures and reconnections cross, the session keeps the *)
(* promise: one outcome, told once, with the camera released.              *)
THEOREM SessionKeepsPromise == Spec => StreamPromise
<1>1. Init => Promise!StreamInit
  BY DEF Init, Promise!StreamInit, NoOutcome
<1> QED
  BY <1>1, StepKeepsPromise, SessionInvariant, PTL
  DEF Spec, StreamPromise, Promise!StreamSpec
=============================================================================

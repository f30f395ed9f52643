------------------------------- MODULE Ingest -------------------------------
(***************************************************************************)
(* One RTSP session of crates/ipcam-gst/src/ingest: the session thread     *)
(* (session.rs, bus.rs), the statistics thread (bus.rs), the handle with   *)
(* its state machine and its stop signal (stats.rs), and the threads that  *)
(* call GstStreamHandle::stop.                                             *)
(*                                                                         *)
(* start() has returned: the handle is not shared before its stop hook is  *)
(* set.  A step lasts from one lock, atomic access or blocking call to the *)
(* next.  Frame counters and the number of reconnects are left out.        *)
(***************************************************************************)
EXTENDS Naturals

CONSTANTS Callers,      \* threads that may call stop()
          MaxAttempts   \* ReconnectPolicy.max_attempts, when there is one

ASSUME MaxAttemptsAssumption == MaxAttempts \in Nat

VARIABLES
  state,      \* Inner.state
  lastError,  \* Inner.stats.last_error, by kind
  terminal,   \* Inner.terminal: the outcome and the error frozen with it
  hook,       \* Inner.stop_hook is still there
  told,       \* what on_terminal was called with
  flag,       \* StopSignal.flag
  waiter,     \* where a thread stands in wait_or_stop
  pipe,       \* the session thread's pipeline is not in Null
  fresh,      \* a rebuilt pipeline that is not in the slot yet
  slot,       \* SharedPipeline holds the session thread's pipeline
  attempt,    \* reconnect attempts since the stream last played
  sess,       \* where the session thread stands
  caller      \* where each caller stands in stop()

handleVars == <<state, lastError, terminal, hook, told>>
pipeVars   == <<pipe, fresh, slot>>
sessVars   == <<attempt, sess>>
vars       == <<handleVars, flag, waiter, pipeVars, sessVars, caller>>

-----------------------------------------------------------------------------
Terminal == {"Failed", "Ended"}
StreamState == {"Connecting", "Playing", "Reconnecting"} \cup Terminal

(* Of an error text the code asks one thing: is it an authentication error. *)
Errors == {"auth", "other"}

NoOutcome == [outcome |-> "None", error |-> "None"]
Outcome == [outcome : Terminal, error : Errors \cup {"None"}]

Threads == {"session", "ticker"}

TypeOK ==
  /\ state \in StreamState
  /\ lastError \in Errors \cup {"None"}
  /\ terminal \in Outcome \cup {NoOutcome}
  /\ hook \in BOOLEAN
  /\ told \in Outcome \cup {NoOutcome}
  /\ flag \in BOOLEAN
  /\ waiter \in [Threads -> {"out", "check", "gap", "asleep", "expired"}]
  /\ pipe \in BOOLEAN /\ fresh \in BOOLEAN /\ slot \in BOOLEAN
  /\ attempt \in 0..MaxAttempts
  /\ sess \in {"watch", "pop", "failed", "retry", "backoff", "rebuild", "build", "swap",
               "exit", "clear", "close", "tell", "done"}
  /\ caller \in [Callers -> {"idle", "store", "notify", "teardown", "transition", "returned"}]

Init ==
  /\ state = "Connecting"
  /\ lastError = "None"
  /\ terminal = NoOutcome
  /\ hook = TRUE
  /\ told = NoOutcome
  /\ flag = FALSE
  /\ waiter = [t \in Threads |-> IF t = "ticker" THEN "check" ELSE "out"]
  /\ pipe = TRUE /\ fresh = FALSE /\ slot = TRUE
  /\ attempt = 0
  /\ sess = "watch"
  /\ caller = [c \in Callers |-> "idle"]

-----------------------------------------------------------------------------
(* The handle.                                                             *)

CanTransition ==
  {<<"Connecting", "Playing">>, <<"Connecting", "Failed">>, <<"Connecting", "Ended">>,
   <<"Playing", "Reconnecting">>, <<"Playing", "Failed">>, <<"Playing", "Ended">>,
   <<"Reconnecting", "Connecting">>, <<"Reconnecting", "Failed">>, <<"Reconnecting", "Ended">>}

(* A legal move changes the state, and a terminal one freezes the outcome  *)
(* with the error of that moment; any other move is ignored.               *)
Transition(to) ==
  IF <<state, to>> \in CanTransition
  THEN /\ state' = to
       /\ terminal' = IF terminal # NoOutcome \/ to \notin Terminal THEN terminal
                      ELSE [outcome |-> to, error |-> IF to = "Failed" THEN lastError ELSE "None"]
  ELSE UNCHANGED <<state, terminal>>

-----------------------------------------------------------------------------
(* wait_or_stop, on the session thread (backoff) and the statistics thread. *)
(* The lock is held from the check to the wait, but stop() does not take it. *)

WaitAt(t, here, there) == waiter[t] = here /\ waiter' = [waiter EXCEPT ![t] = there]

WaitGoesOn(t) ==
  /\ \/ ~flag /\ WaitAt(t, "check", "gap")
     \/ WaitAt(t, "gap", "asleep")
     \/ WaitAt(t, "asleep", "expired")
  /\ UNCHANGED <<handleVars, flag, pipeVars, sessVars, caller>>

Interrupted(t) == flag /\ (WaitAt(t, "check", "out") \/ WaitAt(t, "expired", "out"))

Ticker ==
  /\ \/ Interrupted("ticker")
     \/ ~flag /\ WaitAt("ticker", "expired", "check")
  /\ UNCHANGED <<handleVars, flag, pipeVars, sessVars, caller>>

-----------------------------------------------------------------------------
(* The session thread.                                                     *)

Go(here, there) == sess = here /\ sess' = there

(* Bug: only an empty bus is the moment to look at the signal.             *)
WatchUnstoppable ==
  /\ Go("watch", "pop")
  /\ UNCHANGED <<handleVars, flag, waiter, pipeVars, attempt, caller>>

Watch ==
  /\ Go("watch", IF flag THEN "exit" ELSE "pop")
  /\ UNCHANGED <<handleVars, flag, waiter, pipeVars, attempt, caller>>

(* timed_pop: nothing for 250 ms or a message of no interest; the pipeline *)
(* reached Playing; an error or EOS.                                       *)
Pop ==
  /\ \/ Go("pop", "watch") /\ UNCHANGED <<state, terminal, lastError, attempt>>
     \/ Go("pop", "watch") /\ Transition("Playing") /\ attempt' = 0 /\ UNCHANGED lastError
     \/ \E e \in Errors :
          Go("pop", "failed") /\ lastError' = e /\ UNCHANGED <<state, terminal, attempt>>
  /\ UNCHANGED <<hook, told, flag, waiter, pipeVars, caller>>

StreamFailed ==
  /\ \/ lastError = "auth" /\ Go("failed", "exit") /\ Transition("Failed") /\ UNCHANGED pipe
     \/ lastError # "auth" /\ Go("failed", "retry") /\ pipe' = FALSE /\ UNCHANGED <<state, terminal>>
  /\ UNCHANGED <<lastError, hook, told, flag, waiter, fresh, slot, attempt, caller>>

(* Bug: the limit is compared with the attempts begun, this one included.  *)
ExhaustedEarly == attempt + 1 >= MaxAttempts

Exhausted == attempt >= MaxAttempts

Retry ==
  /\ \/ Exhausted /\ Go("retry", "exit") /\ Transition("Failed") /\ UNCHANGED <<attempt, waiter>>
     \/ /\ ~Exhausted
        /\ Go("retry", "backoff")
        /\ Transition("Reconnecting")
        /\ attempt' = attempt + 1
        /\ WaitAt("session", "out", "check")
  /\ UNCHANGED <<lastError, hook, told, flag, pipeVars, caller>>

BackoffOver ==
  /\ \/ Go("backoff", "exit") /\ Interrupted("session")
     \/ Go("backoff", "rebuild") /\ ~flag /\ WaitAt("session", "expired", "out")
  /\ UNCHANGED <<handleVars, flag, pipeVars, attempt, caller>>

Rebuild ==
  /\ Go("rebuild", "build")
  /\ Transition("Connecting")
  /\ UNCHANGED <<lastError, hook, told, flag, waiter, pipeVars, attempt, caller>>

(* Bug: every rebuild starts the count anew.                               *)
BuildForgetful ==
  /\ attempt' = 0
  /\ \/ Go("build", "swap") /\ fresh' = TRUE /\ UNCHANGED lastError
     \/ Go("build", "retry") /\ lastError' = "other" /\ UNCHANGED fresh
  /\ UNCHANGED <<state, terminal, hook, told, flag, waiter, pipe, slot, caller>>

(* try_rebuild_pipeline; its error text is not looked into.                *)
Build ==
  /\ \/ Go("build", "swap") /\ fresh' = TRUE /\ UNCHANGED lastError
     \/ \E e \in Errors : Go("build", "retry") /\ lastError' = e /\ UNCHANGED fresh
  /\ UNCHANGED <<state, terminal, hook, told, flag, waiter, pipe, slot, attempt, caller>>

Swap ==
  /\ Go("swap", "watch")
  /\ pipe' = TRUE
  /\ fresh' = FALSE
  /\ UNCHANGED <<handleVars, flag, waiter, slot, attempt, caller>>

(* Bug: the pipeline is left to whoever called stop().                     *)
ExitUntorn ==
  /\ Go("exit", "clear")
  /\ UNCHANGED <<handleVars, flag, waiter, pipeVars, attempt, caller>>

Exit ==
  /\ Go("exit", "clear")
  /\ pipe' = FALSE
  /\ UNCHANGED <<handleVars, flag, waiter, fresh, slot, attempt, caller>>

Clear ==
  /\ Go("clear", "close")
  /\ slot' = FALSE
  /\ UNCHANGED <<handleVars, flag, waiter, pipe, fresh, attempt, caller>>

(* Bug: the thread trusts stop() to have decided.                          *)
CloseUndecided ==
  /\ Go("close", "tell")
  /\ UNCHANGED <<handleVars, flag, waiter, pipeVars, attempt, caller>>

Close ==
  /\ Go("close", "tell")
  /\ IF state \in Terminal THEN UNCHANGED <<state, terminal>> ELSE Transition("Ended")
  /\ UNCHANGED <<lastError, hook, told, flag, waiter, pipeVars, attempt, caller>>

Tell ==
  /\ Go("tell", "done")
  /\ told' = terminal
  /\ UNCHANGED <<state, lastError, terminal, hook, flag, waiter, pipeVars, attempt, caller>>

-----------------------------------------------------------------------------
(* stop(): the early return, the hook taken once and run outside the lock  *)
(* (flag, wake-up, teardown of the pipeline in the slot), the transition.  *)

CallerAt(c, here, there) == caller[c] = here /\ caller' = [caller EXCEPT ![c] = there]

StopEntered(c) ==
  /\ \/ state \in Terminal /\ CallerAt(c, "idle", "returned") /\ UNCHANGED hook
     \/ state \notin Terminal /\ hook /\ CallerAt(c, "idle", "store") /\ hook' = FALSE
     \/ state \notin Terminal /\ ~hook /\ CallerAt(c, "idle", "transition") /\ UNCHANGED hook
  /\ UNCHANGED <<state, lastError, terminal, told, flag, waiter, pipeVars, sessVars>>

StopStored(c) ==
  /\ CallerAt(c, "store", "notify")
  /\ flag' = TRUE
  /\ UNCHANGED <<handleVars, waiter, pipeVars, sessVars>>

(* Condvar::notify_all reaches the threads that are asleep now.            *)
StopNotified(c) ==
  /\ CallerAt(c, "notify", "teardown")
  /\ waiter' = [t \in Threads |-> IF waiter[t] = "asleep" THEN "check" ELSE waiter[t]]
  /\ UNCHANGED <<handleVars, flag, pipeVars, sessVars>>

StopToreDown(c) ==
  /\ CallerAt(c, "teardown", "transition")
  /\ pipe' = (pipe /\ ~slot)
  /\ UNCHANGED <<handleVars, flag, waiter, fresh, slot, sessVars>>

StopReturned(c) ==
  /\ CallerAt(c, "transition", "returned")
  /\ Transition("Ended")
  /\ UNCHANGED <<lastError, hook, told, flag, waiter, pipeVars, sessVars>>

-----------------------------------------------------------------------------
SessionStep ==
  \/ Watch \/ Pop \/ StreamFailed \/ Retry \/ WaitGoesOn("session") \/ BackoffOver
  \/ Rebuild \/ Build \/ Swap \/ Exit \/ Clear \/ Close \/ Tell

StopGoesOn(c) == StopStored(c) \/ StopNotified(c) \/ StopToreDown(c) \/ StopReturned(c)

(* Both threads have returned, and nobody is left to call.                 *)
Over ==
  /\ sess = "done" /\ waiter["ticker"] = "out"
  /\ \A c \in Callers : caller[c] = "returned"
  /\ UNCHANGED vars

Next ==
  \/ SessionStep
  \/ WaitGoesOn("ticker")
  \/ Ticker
  \/ \E c \in Callers : StopEntered(c) \/ StopGoesOn(c)
  \/ Over

Spec == Init /\ [][Next]_vars

(* Threads run, timed waits end; nobody has to call stop(), and the camera *)
(* owes nothing.                                                           *)
Fairness ==
  /\ WF_vars(SessionStep)
  /\ WF_vars(WaitGoesOn("ticker") \/ Ticker)
  /\ \A c \in Callers : WF_vars(StopGoesOn(c))

FairSpec == Spec /\ Fairness

-----------------------------------------------------------------------------
(* Safety.                                                                 *)

(* However stop(), failures and reconnections cross, the owner sees one    *)
(* outcome that never changes, is told of that one, once, and only when no *)
(* pipeline, rebuilt ones included, holds the camera any more.             *)
Promise == INSTANCE Stream WITH
  outcome <- terminal.outcome,
  camera  <- pipe \/ fresh,
  told    <- told.outcome
StreamPromise == Promise!StreamSpec

(* A stream is given up only for its credentials or when the attempts are  *)
(* spent, never earlier, and the owner gets the reason with it (the policy *)
(* is the only authority on when a stream has failed).                     *)
FailureIsDue ==
  terminal.outcome = "Failed" =>
    /\ terminal.error # "None"
    /\ terminal.error = "auth" \/ attempt = MaxAttempts

(* What makes the two inductive: the conclusion is frozen with the state,  *)
(* and from place to place the session thread knows what it holds.         *)
Frozen ==
  /\ state \in Terminal => terminal.outcome = state
  /\ state \notin Terminal => terminal = NoOutcome

ThreadKnows ==
  /\ sess \in {"failed", "retry"} => lastError # "None"
  /\ fresh => sess = "swap"
  /\ state = "Failed" => sess \in {"exit", "clear", "close", "tell", "done"}
  /\ sess \in {"clear", "close", "tell", "done"} => ~pipe
  /\ sess \in {"tell", "done"} => state \in Terminal
  /\ told = IF sess = "done" THEN terminal ELSE NoOutcome

SessionInv == TypeOK /\ Frozen /\ ThreadKnows /\ FailureIsDue

-----------------------------------------------------------------------------
(* Liveness, under FairSpec.                                               *)

(* stop() ends the session whatever it is doing: popping, backing off,     *)
(* rebuilding or failing.                                                  *)
StopEndsSession == (\E c \in Callers : caller[c] = "returned") ~> sess = "done"

(* Whoever decided the outcome, the callback is called with it.            *)
OutcomeIsTold == terminal # NoOutcome ~> told = terminal

(* A camera that never plays again is not retried for ever.                *)
RetriesEnd == []<>(sess = "retry") => []<>(state = "Playing")

=============================================================================

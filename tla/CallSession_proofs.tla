-------------------------- MODULE CallSession_proofs ------------------------
(***************************************************************************)
(* Safety of the calls, for every set of calls and every queue bound:      *)
(* the line and its invariant, the screen and the call log, the refinement *)
(* of CallLine, and the monitor page beside the calls.                     *)
(***************************************************************************)
EXTENDS Monitor, TLAPS

-----------------------------------------------------------------------------
(* Part 1.  The line: LineInv, and what follows from it.                   *)

(* The queues keep their types.                                            *)
LEMMA PostType ==
  ASSUME NEW c \in Calls, NEW type \in {"Incoming", "Confirmed"} \cup EndEvents,
         evq \in Seq(Events), Post(type, c)
  PROVE  evq' \in Seq(Events)
<1>1. [type |-> type, call |-> c] \in Events
  BY DEF Events
<1>2. Append(evq, [type |-> type, call |-> c]) \in Seq(Events)
  BY <1>1
<1> QED
  BY <1>2 DEF Post

\* A command sent leaves a queue of commands.
LEMMA SendType ==
  ASSUME NEW c \in Calls, NEW cmd \in {"Dial"} \cup Keys, cmdq \in Seq(Cmds), Send(cmd, c)
  PROVE  cmdq' \in Seq(Cmds)
<1>1. [cmd |-> cmd, call |-> c] \in Cmds
  BY DEF Cmds
<1>2. Append(cmdq, [cmd |-> cmd, call |-> c]) \in Seq(Cmds)
  BY <1>1
<1> QED
  BY <1>2 DEF Send

\* A key that is tried leaves a bounded queue of keys, full or not.
LEMMA TrySendType ==
  ASSUME NEW key \in Keys, ctl \in Seq(Keys), Len(ctl) <= CtlCap, TrySend(key)
  PROVE  ctl' \in Seq(Keys) /\ Len(ctl') <= CtlCap
BY CtlCapAssumption DEF TrySend

\* A key that is received leaves a bounded queue of keys.
LEMMA ReceivedType ==
  ASSUME NEW key, ctl \in Seq(Keys), Len(ctl) <= CtlCap, Received(key)
  PROVE  ctl' \in Seq(Keys) /\ Len(ctl') <= CtlCap
BY CtlCapAssumption DEF Received

\* A call starts with no keys.
LEMMA EmptyCtl == <<>> \in Seq(Keys) /\ Len(<<>>) <= CtlCap
BY CtlCapAssumption

\* The page that ends a call keeps its types.
LEMMA EndCallType ==
  ASSUME AppTypeOK, EndCall
  PROVE  AppTypeOK'
<1>1. unsaved' \in Seq(CallRecords)
  <2>1. CASE phase = "Idle"
    BY <2>1 DEF AppTypeOK, EndCall, PushCallRecord
  <2>2. CASE phase # "Idle"
    <3>1. CallRecord \in CallRecords
      BY <2>2 DEF AppTypeOK, CallRecord, CallRecords
    <3>2. Append(unsaved, CallRecord) \in Seq(CallRecords)
      BY <3>1 DEF AppTypeOK
    <3> QED
      BY <2>2, <3>2 DEF EndCall, PushCallRecord
  <2> QED
    BY <2>1, <2>2
<1> QED
  BY <1>1 DEF AppTypeOK, EndCall, Phase, CallDir

(* Every operation of the UI state machine keeps its types.                *)
LEMMA AppStepType ==
  ASSUME AppTypeOK,
         NEW c \in Calls,
         \/ DialFor(c) \/ Accept \/ Reject \/ Hangup
         \/ OnIncoming(c) \/ OnConfirmed \/ OnTerminated \/ OnFailed
         \/ UNCHANGED appVars
  PROVE  AppTypeOK'
<1>1. CASE DialFor(c)
  BY <1>1 DEF AppTypeOK, DialFor, Phase, CallDir
<1>2. CASE Accept \/ UNCHANGED appVars
  BY <1>2 DEF AppTypeOK, Accept, appVars
<1>3. CASE Reject \/ Hangup \/ OnTerminated \/ OnFailed
  BY <1>3, EndCallType DEF Reject, Hangup, OnTerminated, OnFailed
<1>4. CASE OnIncoming(c)
  BY <1>4 DEF AppTypeOK, OnIncoming, Phase, CallDir, appVars
<1>5. CASE OnConfirmed
  BY <1>5 DEF AppTypeOK, OnConfirmed, Phase, CallDir, appVars
<1> QED
  BY <1>1, <1>2, <1>3, <1>4, <1>5

(* Moving one call to another place keeps the two functions typed.         *)
LEMMA MoveType ==
  ASSUME TypeOK, NEW c \in Calls
  PROVE  /\ \A s \in TaskState : GoTo(c, s) => task' \in [Calls -> TaskState]
         /\ \A d \in DialogState : DialogBecomes(c, d) => dialog' \in [Calls -> DialogState]
BY DEF TypeOK, GoTo, DialogBecomes

(* Type correctness, part by part.  The variables a step leaves alone are   *)
(* typed because they were.                                                *)
LEMMA UserStepType ==
  ASSUME TypeOK, UserStep
  PROVE  TypeOK'
<1>1. ASSUME NEW c \in Calls, UserDial(c) PROVE TypeOK'
  <2>1. AppTypeOK'
    BY <1>1, AppStepType DEF UserDial, TypeOK
  <2>2. cmdq' \in Seq(Cmds)
    BY <1>1, SendType DEF UserDial, TypeOK
  <2>3. task' \in [Calls -> TaskState]
    BY <1>1, MoveType DEF UserDial, TaskState
  <2>4. kind' \in [Calls -> {"none", "out", "in"}]
    BY <1>1 DEF UserDial, TypeOK
  <2> QED
    BY <1>1, <2>1, <2>2, <2>3, <2>4 DEF UserDial, TypeOK, lineVars
<1>2. CASE UserAccept \/ UserReject \/ UserHangup
  <2>1. PICK key \in Keys : Send(key, subject) /\ subject \in Calls
    BY <1>2 DEF UserAccept, UserReject, UserHangup, UserKey, Keys, Accept, Reject, Hangup,
                TypeOK, AppTypeOK
  <2>2. cmdq' \in Seq(Cmds)
    BY <2>1, SendType DEF TypeOK
  <2>3. AppTypeOK'
    BY <1>2, <2>1, AppStepType DEF UserAccept, UserReject, UserHangup, UserKey, TypeOK
  <2> QED
    BY <1>2, <2>2, <2>3
    DEF UserAccept, UserReject, UserHangup, UserKey, TypeOK, lineVars, callVars
<1>3. CASE UserClose
  BY <1>3 DEF UserClose, TypeOK, AppTypeOK, appVars, workerVars, lineVars, callVars
<1> QED
  BY <1>1, <1>2, <1>3 DEF UserStep

\* An event the page takes keeps every type.
LEMMA DeliverType ==
  ASSUME TypeOK, Deliver
  PROVE  TypeOK'
<1>1. Head(evq).call \in Calls /\ evq' \in Seq(Events)
  <2>1. Head(evq) \in Events /\ evq' \in Seq(Events)
    BY DEF Deliver, TypeOK
  <2> QED
    BY <2>1 DEF Events
<1>2. AppTypeOK'
  BY <1>1, AppStepType DEF Deliver, TypeOK
<1> QED
  BY <1>1, <1>2 DEF Deliver, TypeOK, workerVars, lineVars, callVars

\* A step of the worker keeps every type.
LEMMA WorkerStepType ==
  ASSUME TypeOK, WorkerStep
  PROVE  TypeOK'
<1>1. ASSUME NextCmd
      PROVE  /\ cmdq' \in Seq(Cmds)
             /\ Head(cmdq).call \in Calls
             /\ Head(cmdq).cmd \in {"Dial"} \cup Keys
  <2>1. Head(cmdq) \in Cmds /\ cmdq' \in Seq(Cmds)
    BY <1>1 DEF NextCmd, TypeOK
  <2> QED
    BY <2>1 DEF Cmds
<1>2. AppTypeOK' /\ window' \in {"open", "joining", "closed"}
  BY DEF WorkerStep, HandleDial, HandleKey, ResidentLoopExits, Stop,
         RuntimeDropped, IncomingCall, TypeOK, AppTypeOK, uiVars, appVars
<1>3. CASE HandleDial
  <2> DEFINE c == Head(cmdq).call
  <2>1. c \in Calls /\ cmdq' \in Seq(Cmds)
    BY <1>1, <1>3 DEF HandleDial
  <2>2. CASE RefuseDial(c)
    <3>1. evq' \in Seq(Events)
      BY <2>1, <2>2, PostType DEF RefuseDial, TypeOK, EndEvents
    <3>2. task' \in [Calls -> TaskState]
      BY <2>1, <2>2, MoveType DEF RefuseDial, TaskState
    <3> QED
      BY <1>2, <1>3, <2>1, <2>2, <3>1, <3>2 DEF HandleDial, RefuseDial, TypeOK
  <2>3. CASE Claim(c) /\ UNCHANGED evq
    <3>1. task' \in [Calls -> TaskState]
      BY <2>1, <2>3, MoveType DEF Claim, TaskState, Live
    <3> QED
      BY <1>2, <1>3, <2>1, <2>3, <3>1, CtlCapAssumption DEF HandleDial, Claim, TypeOK
  <2> QED
    BY <1>3, <2>2, <2>3 DEF HandleDial
<1>4. CASE HandleKey
  <2>1. ctl' \in Seq(Keys) /\ Len(ctl') <= CtlCap
    BY <1>4, TrySendType DEF HandleKey, TypeOK
  <2>2. cmdq' \in Seq(Cmds)
    BY <1>1, <1>4 DEF HandleKey
  <2> QED
    BY <1>2, <1>4, <2>1, <2>2 DEF HandleKey, TypeOK, callVars
<1>5. CASE ResidentLoopExits
  <2>1. Stop
    BY <1>5 DEF ResidentLoopExits
  <2>2. ctl' \in Seq(Keys) /\ Len(ctl') <= CtlCap
    BY <2>1, TrySendType DEF Stop, TypeOK, Keys
  <2> QED
    BY <1>2, <2>1, <2>2 DEF Stop, TypeOK, callVars
<1>6. CASE RuntimeDropped
  <2>1. task' \in [Calls -> TaskState]
    BY <1>6 DEF RuntimeDropped, TypeOK, TaskState
  <2> QED
    BY <1>2, <1>6, <2>1, CtlCapAssumption DEF RuntimeDropped, TypeOK
<1>7. ASSUME NEW c \in Calls, IncomingCall(c) PROVE TypeOK'
  <2>1. kind' \in [Calls -> {"none", "out", "in"}]
    BY <1>7 DEF IncomingCall, TypeOK
  <2>2. task' \in [Calls -> TaskState]
    BY <1>7, MoveType DEF IncomingCall, Claim, TaskState, Live
  <2>3. dialog' \in [Calls -> DialogState]
    BY <1>7, MoveType DEF IncomingCall, DialogState, Over
  <2>4. slot' \in Calls \cup {NoCall} /\ routes' \subseteq Calls
    BY <1>7 DEF IncomingCall, Claim, TypeOK
  <2>5. ctl' \in Seq(Keys) /\ Len(ctl') <= CtlCap
    BY <1>7, EmptyCtl DEF IncomingCall, Claim, TypeOK
  <2> QED
    BY <1>2, <1>7, <2>1, <2>2, <2>3, <2>4, <2>5 DEF IncomingCall, TypeOK, workerVars
<1> QED
  BY <1>3, <1>4, <1>5, <1>6, <1>7 DEF WorkerStep

\* A step of the network keeps every type.
LEMMA NetworkStepType ==
  ASSUME TypeOK, NetworkStep
  PROVE  TypeOK'
<1>1. PICK c \in Calls : PeerAnswers(c) \/ PeerEnds(c)
  BY DEF NetworkStep
<1>2. dialog' \in [Calls -> DialogState]
  BY <1>1, MoveType DEF PeerAnswers, PeerEnds, DialogState, Over
<1> QED
  BY <1>1, <1>2
  DEF PeerAnswers, PeerEnds, TypeOK, AppTypeOK, uiVars, appVars, workerVars, lineVars

\* A step of the task of a call keeps every type.
LEMMA TaskStepType ==
  ASSUME TypeOK, NEW c \in Calls, TaskStep(c)
  PROVE  TypeOK'
<1>1. UNCHANGED <<appVars, window, cmdq, worker, kind>>
  BY DEF TaskStep, Ring, PeerCancelled, Decline, RingTimeout, AnswerCall, StartInvite,
         InviteAnswered, InviteRefused, InviteKey, CancelDone, MediaUp, PeerHungUp, TalkKey,
         ByeDone, PostEnd, Release, uiVars, workerVars, lineVars
<1>2. task' \in [Calls -> TaskState]
  BY MoveType
  DEF TaskStep, Ring, PeerCancelled, Decline, RingTimeout, AnswerCall, StartInvite,
      InviteAnswered, InviteRefused, InviteKey, CancelDone, MediaUp, PeerHungUp, TalkKey,
      ByeDone, PostEnd, Release, TaskState, Live, TypeOK
<1>3. dialog' \in [Calls -> DialogState]
  BY MoveType
  DEF TaskStep, Ring, PeerCancelled, Decline, RingTimeout, AnswerCall, StartInvite,
      InviteAnswered, InviteRefused, InviteKey, CancelDone, MediaUp, PeerHungUp, TalkKey,
      ByeDone, PostEnd, Release, Rejected, DialogState, Over, TypeOK
<1>4. evq' \in Seq(Events)
  BY PostType
  DEF TaskStep, Ring, PeerCancelled, Decline, RingTimeout, AnswerCall, StartInvite,
      InviteAnswered, InviteRefused, InviteKey, CancelDone, MediaUp, PeerHungUp, TalkKey,
      ByeDone, PostEnd, Release, EndEvents, TypeOK
<1>5. ctl' \in Seq(Keys) /\ Len(ctl') <= CtlCap
  BY ReceivedType, EmptyCtl
  DEF TaskStep, Ring, PeerCancelled, Decline, RingTimeout, AnswerCall, StartInvite,
      InviteAnswered, InviteRefused, InviteKey, CancelDone, MediaUp, PeerHungUp, TalkKey,
      ByeDone, PostEnd, Release, lineVars, TypeOK
<1>6. slot' \in Calls \cup {NoCall} /\ routes' \subseteq Calls /\ media' \subseteq Calls
  BY DEF TaskStep, Ring, PeerCancelled, Decline, RingTimeout, AnswerCall, StartInvite,
         InviteAnswered, InviteRefused, InviteKey, CancelDone, MediaUp, PeerHungUp, TalkKey,
         ByeDone, PostEnd, Release, lineVars, TypeOK
<1> QED
  BY <1>1, <1>2, <1>3, <1>4, <1>5, <1>6 DEF TypeOK, AppTypeOK, appVars

\* Every step keeps every type.
LEMMA NextType == TypeOK /\ [Next]_vars => TypeOK'
<1> SUFFICES ASSUME TypeOK, [Next]_vars PROVE TypeOK'
  OBVIOUS
<1>1. CASE UNCHANGED vars
  BY <1>1 DEF TypeOK, AppTypeOK, vars, uiVars, appVars, workerVars, lineVars, callVars
<1>2. CASE RunReturns
  BY <1>2 DEF RunReturns, TypeOK, AppTypeOK, appVars, workerVars, lineVars, callVars
<1> QED
  BY <1>1, <1>2, UserStepType, DeliverType, WorkerStepType, NetworkStepType, TaskStepType
  DEF Next, Exited

\* The initial state has the right types.
LEMMA InitType == Init => TypeOK
<1> SUFFICES ASSUME Init PROVE TypeOK
  OBVIOUS
<1>1. \A S : <<>> \in Seq(S)
  OBVIOUS
<1>2. AppTypeOK
  BY <1>1 DEF Init, AppInit, AppTypeOK, Phase, CallDir
<1>3. evq \in Seq(Events) /\ cmdq \in Seq(Cmds)
  BY <1>1 DEF Init
<1> QED
  BY <1>2, <1>3, EmptyCtl DEF Init, TypeOK, TaskState, DialogState

(* Every variable of the session keeps its type: the channel of a call is   *)
(* never over its capacity, and every queued command or event names a call. *)
THEOREM TypeCorrect == Spec => []TypeOK
BY InitType, NextType, PTL DEF Spec

-----------------------------------------------------------------------------
(* Who holds the line.                                                     *)

(* A Dial waiting in the queue is that of a call whose task does not exist  *)
(* yet, and no call is dialled twice.                                      *)
DialInv ==
  /\ \A i \in DOMAIN cmdq :
       cmdq[i].cmd = "Dial" => task[cmdq[i].call] = "dialled" /\ kind[cmdq[i].call] = "out"
  /\ \A i, j \in DOMAIN cmdq :
       cmdq[i].cmd = "Dial" /\ cmdq[j].cmd = "Dial" /\ cmdq[i].call = cmdq[j].call => i = j

(* A step of a task is a step of a live one, and only Release ends it.     *)
LEMMA TaskStepLive ==
  ASSUME TypeOK, NEW c \in Calls, TaskStep(c)
  PROVE  /\ task[c] \in Live
         /\ \/ task' = task /\ slot' = slot
            \/ \E s \in Live : task' = [task EXCEPT ![c] = s] /\ slot' = slot
            \/ task[c] = "posted" /\ task' = [task EXCEPT ![c] = "done"] /\ slot' = NoCall
<1>1. CASE Release(c)
  BY <1>1 DEF Release, At, GoTo, Live
<1>2. CASE InviteKey(c) \/ TalkKey(c)
  BY <1>2 DEF InviteKey, TalkKey, At, AtOut, GoTo, Live
<1>3. CASE Ring(c) \/ PeerCancelled(c) \/ Decline(c) \/ RingTimeout(c) \/ AnswerCall(c)
  BY <1>3 DEF Ring, PeerCancelled, Decline, RingTimeout, AnswerCall, AtIn, GoTo, lineVars, Live
<1>4. CASE StartInvite(c) \/ InviteAnswered(c) \/ InviteRefused(c) \/ CancelDone(c)
  BY <1>4 DEF StartInvite, InviteAnswered, InviteRefused, CancelDone, AtOut, GoTo, lineVars, Live
<1>5. CASE MediaUp(c) \/ PeerHungUp(c) \/ ByeDone(c) \/ PostEnd(c)
  BY <1>5 DEF MediaUp, PeerHungUp, ByeDone, PostEnd, At, GoTo, lineVars, Live
<1> QED
  BY <1>1, <1>2, <1>3, <1>4, <1>5 DEF TaskStep

(* The other steps, as the slot and the tasks see them.                    *)
LEMMA OtherStepsQuiet ==
  ASSUME \/ UserAccept \/ UserReject \/ UserHangup \/ UserClose \/ RunReturns \/ Deliver \/ HandleKey
         \/ ResidentLoopExits \/ NetworkStep \/ Exited \/ UNCHANGED vars
  PROVE  UNCHANGED <<slot, task, kind, routes, media>>
BY DEF UserAccept, UserReject, UserHangup, UserKey, UserClose, RunReturns, Deliver, HandleKey,
       ResidentLoopExits, Stop, NetworkStep, PeerAnswers, PeerEnds, Exited,
       vars, lineVars, callVars

\* A Dial that waits in the queue goes on waiting for a task that is to come.
LEMMA DialStep ==
  ASSUME TypeOK, DialInv, [Next]_vars
  PROVE  DialInv'
<1> USE DEF DialInv
<1>0. \A i \in DOMAIN cmdq : cmdq[i] \in Cmds
  BY DEF TypeOK
<1>1. ASSUME cmdq' = cmdq, UNCHANGED kind,
             \A i \in DOMAIN cmdq : cmdq[i].cmd = "Dial"
                => task'[cmdq[i].call] = task[cmdq[i].call]
      PROVE  DialInv'
  BY <1>1
<1>2. ASSUME NextCmd, UNCHANGED kind,
             \A i \in DOMAIN cmdq : i # 1 /\ cmdq[i].cmd = "Dial"
                => task'[cmdq[i].call] = task[cmdq[i].call]
      PROVE  DialInv'
  <2>1. /\ DOMAIN cmdq = 1..Len(cmdq) /\ DOMAIN cmdq' = 1..(Len(cmdq) - 1)
        /\ \A i \in DOMAIN cmdq' : cmdq'[i] = cmdq[i + 1] /\ i + 1 \in DOMAIN cmdq /\ i + 1 # 1
    BY <1>2 DEF NextCmd, TypeOK
  <2> QED
    BY <1>2, <2>1
<1>3. ASSUME NEW key \in Keys, NEW c, Send(key, c), UNCHANGED <<task, kind>>
      PROVE  DialInv'
  <2>1. /\ DOMAIN cmdq = 1..Len(cmdq) /\ DOMAIN cmdq' \subseteq 1..(Len(cmdq) + 1)
        /\ \A i \in DOMAIN cmdq' : cmdq'[i].cmd = "Dial" => i \in DOMAIN cmdq /\ cmdq'[i] = cmdq[i]
    BY <1>3 DEF Send, Keys, TypeOK
  <2> QED
    BY <1>3, <2>1
<1>4. ASSUME NEW c \in Calls, UserDial(c) PROVE DialInv'
  <2>1. task[c] = "none" /\ task' = [task EXCEPT ![c] = "dialled"] /\ task'[c] = "dialled"
    BY <1>4 DEF UserDial, GoTo, TypeOK
  <2>2. kind'[c] = "out" /\ \A d \in Calls \ {c} : kind'[d] = kind[d] /\ task'[d] = task[d]
    BY <1>4, <2>1 DEF UserDial, TypeOK
  <2>3. \A i \in DOMAIN cmdq : cmdq[i].cmd = "Dial" => cmdq[i].call \in Calls \ {c}
    BY <1>0, <2>1 DEF Cmds
  <2>4. CASE worker = "gone"
    BY <1>4, <2>2, <2>3, <2>4 DEF UserDial, Send
  <2>5. CASE worker # "gone"
    <3>1. /\ DOMAIN cmdq = 1..Len(cmdq) /\ DOMAIN cmdq' = 1..(Len(cmdq) + 1)
          /\ \A i \in DOMAIN cmdq : cmdq'[i] = cmdq[i]
          /\ cmdq'[Len(cmdq) + 1] = [cmd |-> "Dial", call |-> c]
      BY <1>4, <2>5 DEF UserDial, Send, TypeOK
    <3>2. \A i \in DOMAIN cmdq' : i \in DOMAIN cmdq \/ i = Len(cmdq) + 1
      BY <3>1 DEF TypeOK
    <3>3. cmdq'[Len(cmdq) + 1].cmd = "Dial" /\ cmdq'[Len(cmdq) + 1].call = c
      BY <3>1
    <3>4. ASSUME NEW i \in DOMAIN cmdq', cmdq'[i].cmd = "Dial"
          PROVE  \/ i \in DOMAIN cmdq /\ cmdq'[i] = cmdq[i] /\ cmdq[i].call \in Calls \ {c}
                 \/ i = Len(cmdq) + 1 /\ cmdq'[i].call = c
      BY <2>3, <3>1, <3>2, <3>3, <3>4
    <3>5. \A i \in DOMAIN cmdq' : cmdq'[i].cmd = "Dial"
            => task'[cmdq'[i].call] = "dialled" /\ kind'[cmdq'[i].call] = "out"
      BY <2>1, <2>2, <3>4
    <3>6. \A i, j \in DOMAIN cmdq' :
            cmdq'[i].cmd = "Dial" /\ cmdq'[j].cmd = "Dial" /\ cmdq'[i].call = cmdq'[j].call
              => i = j
      BY <3>4
    <3> QED
      BY <3>5, <3>6
  <2> QED
    BY <2>4, <2>5
<1>5. CASE UserAccept \/ UserReject \/ UserHangup
  BY <1>3, <1>5 DEF UserAccept, UserReject, UserHangup, UserKey, Keys, callVars
<1>6. CASE UserClose \/ RunReturns \/ Deliver \/ ResidentLoopExits \/ NetworkStep \/ Exited
           \/ UNCHANGED vars
  BY <1>1, <1>6
  DEF UserClose, RunReturns, Deliver, ResidentLoopExits, Stop, NetworkStep, PeerAnswers,
      PeerEnds, Exited, vars, workerVars, callVars
<1>7. CASE HandleKey
  BY <1>2, <1>7 DEF HandleKey, callVars
<1>8. CASE HandleDial
  <2> DEFINE c == Head(cmdq).call
  <2>1. cmdq # <<>> /\ c = cmdq[1].call /\ cmdq[1].cmd = "Dial" /\ 1 \in DOMAIN cmdq
    BY <1>8 DEF HandleDial, NextCmd, TypeOK
  <2>2. \A i \in DOMAIN cmdq : i # 1 /\ cmdq[i].cmd = "Dial" => cmdq[i].call # c
    BY <2>1
  <2>3. \E s \in TaskState : task' = [task EXCEPT ![c] = s]
    BY <1>8 DEF HandleDial, RefuseDial, Claim, GoTo, TaskState, Live
  <2>4. \A d \in Calls : d # c => task'[d] = task[d]
    BY <2>3 DEF TypeOK
  <2>5. \A i \in DOMAIN cmdq : cmdq[i].call \in Calls
    BY <1>0 DEF Cmds
  <2>6. NextCmd /\ UNCHANGED kind
    BY <1>8 DEF HandleDial
  <2> QED
    BY <1>2, <2>2, <2>4, <2>5, <2>6
<1>9. CASE RuntimeDropped
  BY <1>9 DEF RuntimeDropped
<1>10. ASSUME NEW c \in Calls, IncomingCall(c) PROVE DialInv'
  <2>1. \A d \in Calls : d # c => task'[d] = task[d] /\ kind'[d] = kind[d]
    BY <1>10 DEF IncomingCall, Claim, GoTo, TypeOK
  <2>2. \A i \in DOMAIN cmdq : cmdq[i].cmd = "Dial" => cmdq[i].call \in Calls \ {c}
    BY <1>0, <1>10 DEF IncomingCall, Cmds
  <2>3. cmdq' = cmdq
    BY <1>10 DEF IncomingCall, workerVars
  <2> QED
    BY <2>1, <2>2, <2>3
<1>11. ASSUME NEW c \in Calls, TaskStep(c) PROVE DialInv'
  <2>1. task[c] \in Live /\ \A d \in Calls : d # c => task'[d] = task[d]
    BY <1>11, TaskStepLive DEF TypeOK
  <2>2. \A i \in DOMAIN cmdq : cmdq[i].cmd = "Dial" => cmdq[i].call \in Calls \ {c}
    BY <1>0, <2>1 DEF Cmds, Live
  <2>3. cmdq' = cmdq /\ kind' = kind
    BY <1>11
    DEF TaskStep, Ring, PeerCancelled, Decline, RingTimeout, AnswerCall, StartInvite,
        InviteAnswered, InviteRefused, InviteKey, CancelDone, MediaUp, PeerHungUp, TalkKey,
        ByeDone, PostEnd, Release, workerVars
  <2> QED
    BY <1>1, <2>1, <2>2, <2>3
<1> QED
  BY <1>4, <1>5, <1>6, <1>7, <1>8, <1>9, <1>10, <1>11 DEF Next, UserStep, WorkerStep

(* The slot belongs to the one live task after every step.                 *)
LEMMA SlotOwnerStep ==
  ASSUME TypeOK, DialInv, SlotOwner, [Next]_vars
  PROVE  SlotOwner'
<1> USE DEF SlotOwner
<1>1. CASE UserAccept \/ UserReject \/ UserHangup \/ UserClose \/ RunReturns \/ Deliver \/ HandleKey
           \/ ResidentLoopExits \/ NetworkStep \/ Exited \/ UNCHANGED vars
  BY <1>1, OtherStepsQuiet
<1>2. ASSUME NEW c \in Calls, UserDial(c) PROVE SlotOwner'
  BY <1>2 DEF UserDial, GoTo, lineVars, TypeOK, Live
<1>3. CASE HandleDial
  <2> DEFINE c == Head(cmdq).call
  <2>1. c \in Calls /\ task[c] = "dialled"
    <3>1. 1 \in DOMAIN cmdq /\ Head(cmdq) = cmdq[1] /\ cmdq[1] \in Cmds
      BY <1>3 DEF HandleDial, NextCmd, TypeOK
    <3> QED
      BY <1>3, <3>1 DEF HandleDial, DialInv, Cmds
  <2>2. CASE RefuseDial(c)
    BY <2>1, <2>2 DEF RefuseDial, GoTo, TypeOK, Live
  <2>3. CASE slot = NoCall /\ Claim(c)
    BY <2>1, <2>3, NoCallAssumption DEF Claim, GoTo, TypeOK, Live
  <2> QED
    BY <1>3, <2>2, <2>3 DEF HandleDial
<1>4. CASE RuntimeDropped
  BY <1>4, NoCallAssumption DEF RuntimeDropped, Live
<1>5. ASSUME NEW c \in Calls, IncomingCall(c) PROVE SlotOwner'
  BY <1>5, NoCallAssumption DEF IncomingCall, Claim, GoTo, TypeOK, Live
<1>6. ASSUME NEW c \in Calls, TaskStep(c) PROVE SlotOwner'
  BY <1>6, TaskStepLive, NoCallAssumption DEF TypeOK, Live
<1> QED
  BY <1>1, <1>2, <1>3, <1>4, <1>5, <1>6 DEF Next, UserStep, WorkerStep

(* What is true of one call at every moment: a call being talked on was    *)
(* answered, a received one is answered before its task ends, and routes   *)
(* and media exist only while the task needs them.                         *)
CallInv(c) ==
  /\ task[c] \in {"mediaStart", "talking", "closing"} => dialog[c] \notin {"none", "early"}
  /\ kind[c] = "in" => dialog[c] # "none"
  /\ kind[c] = "in" /\ task[c] \in {"refused", "endOk", "endErr", "posted", "done"}
       => dialog[c] # "early"
  /\ task[c] \in {"mediaStart", "talking"} => c \in routes
  /\ kind[c] = "in" /\ task[c] \in {"starting", "ringing"} => c \in routes
  /\ c \in routes => task[c] \in Live \ {"posted"}
  /\ c \in media => /\ task[c] \in {"talking", "closing", "endOk", "endErr"}
                    /\ dialog[c] \notin {"none", "early"}

(* A task, and the network for a call, touch nothing of another call.       *)
LEMMA TaskStepLocal ==
  ASSUME TypeOK, NEW c \in Calls, TaskStep(c), NEW d \in Calls, d # c, CallInv(d)
  PROVE  CallInv(d)'
<1>1. task'[d] = task[d] /\ dialog'[d] = dialog[d] /\ kind' = kind
  BY DEF TaskStep, Ring, PeerCancelled, Decline, RingTimeout, AnswerCall, StartInvite,
         InviteAnswered, InviteRefused, InviteKey, CancelDone, MediaUp, PeerHungUp, TalkKey,
         ByeDone, PostEnd, Release, Rejected, GoTo, DialogBecomes, TypeOK
<1>2. (d \in routes' <=> d \in routes) /\ (d \in media' <=> d \in media)
  BY DEF TaskStep, Ring, PeerCancelled, Decline, RingTimeout, AnswerCall, StartInvite,
         InviteAnswered, InviteRefused, InviteKey, CancelDone, MediaUp, PeerHungUp, TalkKey,
         ByeDone, PostEnd, Release, lineVars
<1> QED
  BY <1>1, <1>2 DEF CallInv

\* The task of a call keeps what is known of its own call.
LEMMA TaskStepCallInv ==
  ASSUME TypeOK, NEW c \in Calls, TaskStep(c), CallInv(c)
  PROVE  CallInv(c)'
<1> USE DEF CallInv, At, AtIn, AtOut, GoTo, DialogBecomes, Rejected, Over, Live, DialogState,
            TypeOK
<1>1. CASE Ring(c) \/ PeerCancelled(c)
  BY <1>1 DEF Ring, PeerCancelled, lineVars
<1>2. CASE Decline(c) \/ RingTimeout(c)
  BY <1>2 DEF Decline, RingTimeout, lineVars
<1>3. CASE AnswerCall(c)
  BY <1>3 DEF AnswerCall
<1>4. CASE StartInvite(c) \/ InviteRefused(c)
  BY <1>4 DEF StartInvite, InviteRefused, lineVars
<1>5. CASE InviteAnswered(c)
  BY <1>5 DEF InviteAnswered
<1>6. CASE InviteKey(c)
  BY <1>6 DEF InviteKey
<1>7. CASE CancelDone(c)
  BY <1>7 DEF CancelDone, lineVars
<1>8. CASE MediaUp(c)
  BY <1>8 DEF MediaUp
<1>9. CASE PeerHungUp(c) \/ ByeDone(c)
  BY <1>9 DEF PeerHungUp, ByeDone, lineVars
<1>10. CASE TalkKey(c)
  BY <1>10 DEF TalkKey
<1>11. CASE PostEnd(c) \/ Release(c)
  BY <1>11 DEF PostEnd, Release
<1> QED
  BY <1>1, <1>2, <1>3, <1>4, <1>5, <1>6, <1>7, <1>8, <1>9, <1>10, <1>11 DEF TaskStep

\* No step spoils what is known of a call, its own or another.
LEMMA CallInvStep ==
  ASSUME TypeOK, DialInv, SlotOwner, \A c \in Calls : CallInv(c), [Next]_vars
  PROVE  \A c \in Calls : CallInv(c)'
<1> SUFFICES ASSUME NEW d \in Calls PROVE CallInv(d)'
  OBVIOUS
<1>0. CallInv(d)
  OBVIOUS
<1> USE DEF CallInv
<1>1. CASE UserAccept \/ UserReject \/ UserHangup \/ UserClose \/ RunReturns \/ Deliver \/ HandleKey
           \/ ResidentLoopExits \/ Exited \/ UNCHANGED vars
  <2>1. UNCHANGED <<slot, task, kind, routes, media, dialog>>
    BY <1>1
    DEF UserAccept, UserReject, UserHangup, UserKey, UserClose, RunReturns, Deliver, HandleKey,
        ResidentLoopExits, Stop, Exited, vars, lineVars, callVars
  <2> QED
    BY <1>0, <2>1
<1>2. ASSUME NEW c \in Calls, UserDial(c) PROVE CallInv(d)'
  BY <1>0, <1>2 DEF UserDial, GoTo, lineVars, TypeOK, Live
<1>3. CASE HandleDial
  <2> DEFINE c == Head(cmdq).call
  <2>1. c \in Calls /\ task[c] = "dialled" /\ kind[c] = "out"
    <3>1. 1 \in DOMAIN cmdq /\ Head(cmdq) = cmdq[1] /\ cmdq[1] \in Cmds
      BY <1>3 DEF HandleDial, NextCmd, TypeOK
    <3> QED
      BY <1>3, <3>1 DEF HandleDial, DialInv, Cmds
  <2>2. UNCHANGED <<routes, media, kind, dialog>>
    BY <1>3 DEF HandleDial
  <2>3. task' = [task EXCEPT ![c] = "refused"] \/ task' = [task EXCEPT ![c] = "starting"]
    BY <1>3 DEF HandleDial, RefuseDial, Claim, GoTo
  <2> QED
    BY <1>0, <2>1, <2>2, <2>3 DEF TypeOK, Live
<1>4. CASE RuntimeDropped
  BY <1>0, <1>4 DEF RuntimeDropped, Live
<1>5. ASSUME NEW c \in Calls, IncomingCall(c) PROVE CallInv(d)'
  <2>1. CASE d = c
    BY <1>0, <1>5, <2>1 DEF IncomingCall, Claim, GoTo, DialogBecomes, TypeOK, Live
  <2>2. CASE d # c
    BY <1>0, <1>5, <2>2 DEF IncomingCall, Claim, GoTo, DialogBecomes, TypeOK
  <2> QED
    BY <2>1, <2>2
<1>6. CASE NetworkStep
  BY <1>0, <1>6
  DEF NetworkStep, PeerAnswers, PeerEnds, DialogBecomes, lineVars, TypeOK
<1>7. ASSUME NEW c \in Calls, TaskStep(c) PROVE CallInv(d)'
  BY <1>0, <1>7, TaskStepLocal, TaskStepCallInv
<1> QED
  BY <1>1, <1>2, <1>3, <1>4, <1>5, <1>6, <1>7 DEF Next, UserStep, WorkerStep

(* The inductive invariant.                                                *)
LineInv == TypeOK /\ DialInv /\ SlotOwner /\ \A c \in Calls : CallInv(c)

\* What the worker, the tasks, the slot and the dial command agree on in
\* every reachable state (session/worker.rs, outgoing.rs, incoming.rs); the other theorems rest on it.
THEOREM LineInvariant == Spec => []LineInv
<1>1. Init => LineInv
  <2>1. ASSUME Init PROVE DialInv
    BY <2>1 DEF Init, DialInv
  <2>2. ASSUME Init PROVE SlotOwner /\ \A c \in Calls : CallInv(c)
    BY <2>2, NoCallAssumption DEF Init, SlotOwner, CallInv, Live
  <2> QED
    BY <2>1, <2>2, InitType DEF LineInv
<1>2. LineInv /\ [Next]_vars => LineInv'
  BY NextType, DialStep, SlotOwnerStep, CallInvStep DEF LineInv
<1> QED
  BY <1>1, <1>2, PTL DEF Spec

(* No two calls ever run at once, and only the call on the line runs.      *)
THEOREM OneCallAtATime == Spec => []SlotOwner
BY LineInvariant, PTL DEF LineInv

(* Microphone and camera stream only for the answered call on the line.    *)
THEOREM MediaSafe == Spec => []MediaFollowsCall
<1>1. LineInv => MediaFollowsCall
  BY DEF LineInv, SlotOwner, CallInv, MediaFollowsCall, TypeOK, Live
<1> QED
  BY <1>1, LineInvariant, PTL

(* re-INVITEs reach the call in conversation, and no other.                *)
THEOREM RoutesSafe == Spec => []RoutesFollowCall
<1>1. LineInv => RoutesFollowCall
  BY DEF LineInv, SlotOwner, CallInv, RoutesFollowCall, TypeOK, Live
<1> QED
  BY <1>1, LineInvariant, PTL

(* No caller is left without a final answer to its INVITE.                 *)
THEOREM EveryCallerAnswered == Spec => []CallerAnswered
<1>1. LineInv => CallerAnswered
  BY DEF LineInv, CallInv, CallerAnswered
<1> QED
  BY <1>1, LineInvariant, PTL

-----------------------------------------------------------------------------
(* Part 2.  What the screen shows is backed, and a call is logged once.    *)

OnCall == \E c \in Calls : slot = c /\ task[c] # "posted"

EndAfter(i) == \E j \in DOMAIN evq : j > i /\ evq[j].type \in EndEvents

(* NoOrphanUi is not inductive: an Incoming event still queued will turn    *)
(* the screen on, so it must be backed too, by its call or by an end event  *)
(* behind it; and a call that has posted its end backs nothing any more.    *)
Backed == phase # "Idle" => HasDial \/ HasEnd(evq) \/ OnCall
IncomingBacked == \A i \in DOMAIN evq : evq[i].type = "Incoming" => EndAfter(i) \/ OnCall
ScreenInv == worker = "running" /\ window = "open" => Backed /\ IncomingBacked

-----------------------------------------------------------------------------
(* The event queue.                                                        *)
LEMMA PostAppends ==
  ASSUME evq \in Seq(Events), NEW type, NEW c, Post(type, c), window = "open"
  PROVE  /\ DOMAIN evq = 1..Len(evq) /\ DOMAIN evq' = 1..(Len(evq) + 1) /\ Len(evq) \in Nat
         /\ \A i \in DOMAIN evq : evq'[i] = evq[i]
         /\ evq'[Len(evq) + 1] = [type |-> type, call |-> c]
BY DEF Post

(* An end event that is posted backs the screen and all that is queued.    *)
LEMMA EndPosted ==
  ASSUME evq \in Seq(Events), NEW type \in EndEvents, NEW c, Post(type, c), window = "open"
  PROVE  Backed' /\ IncomingBacked'
<1> DEFINE n == Len(evq) + 1
<1>1. n \in DOMAIN evq' /\ evq'[n] = [type |-> type, call |-> c]
      /\ \A i \in DOMAIN evq' : i < n \/ i = n
  BY PostAppends
<1>2. evq'[n].type = type
  BY <1>1
<1>3. HasEnd(evq')
  BY <1>1, <1>2 DEF HasEnd
<1>4. \A i \in DOMAIN evq' : evq'[i].type = "Incoming" => i < n
  BY <1>1, <1>2 DEF EndEvents
<1>5. IncomingBacked'
  <2>1. ASSUME NEW i \in DOMAIN evq', evq'[i].type = "Incoming" PROVE EndAfter(i)'
    BY <1>1, <1>2, <1>4, <2>1, PostAppends DEF EndAfter
  <2> QED
    BY <2>1 DEF IncomingBacked
<1> QED
  BY <1>3, <1>5 DEF Backed

\* An event taken from the queue moves the others up by one.
LEMMA TailShift ==
  ASSUME evq \in Seq(Events), evq # <<>>, evq' = Tail(evq)
  PROVE  /\ DOMAIN evq = 1..Len(evq) /\ DOMAIN evq' = 1..(Len(evq) - 1) /\ Len(evq) \in Nat \ {0}
         /\ \A i \in DOMAIN evq' : evq'[i] = evq[i + 1]
         /\ Head(evq) = evq[1]
OBVIOUS

\* An event that is not the end of a call leaves the end that is queued.
LEMMA TailKeepsEnd ==
  ASSUME evq \in Seq(Events), evq # <<>>, evq' = Tail(evq)
  PROVE  /\ HasEnd(evq) /\ Head(evq).type \notin EndEvents => HasEnd(evq')
         /\ \A i \in DOMAIN evq' : EndAfter(i + 1) => EndAfter(i)'
         /\ EndAfter(1) => HasEnd(evq')
<1>1. ASSUME NEW j \in DOMAIN evq, j > 1
      PROVE  j - 1 \in DOMAIN evq' /\ evq'[j - 1] = evq[j]
  BY <1>1, TailShift
<1>2. ASSUME HasEnd(evq), Head(evq).type \notin EndEvents PROVE HasEnd(evq')
  <2>1. PICK j \in DOMAIN evq : evq[j].type \in EndEvents
    BY <1>2 DEF HasEnd
  <2>2. j > 1
    BY <1>2, <2>1, TailShift
  <2> QED
    BY <1>1, <2>1, <2>2 DEF HasEnd
<1>3. ASSUME NEW i \in DOMAIN evq', EndAfter(i + 1) PROVE EndAfter(i)'
  <2>1. PICK j \in DOMAIN evq : j > i + 1 /\ evq[j].type \in EndEvents
    BY <1>3 DEF EndAfter
  <2>2. j > 1 /\ j - 1 > i
    BY <2>1, TailShift
  <2> QED
    BY <1>1, <2>1, <2>2 DEF EndAfter
<1>4. ASSUME EndAfter(1) PROVE HasEnd(evq')
  BY <1>1, <1>4 DEF EndAfter, HasEnd
<1> QED
  BY <1>2, <1>3, <1>4

(* The command queue: a key behind a dial, and a key taken before it.      *)
LEMMA KeyAppended ==
  ASSUME cmdq \in Seq(Cmds), NEW m, cmdq' = Append(cmdq, m)
  PROVE  HasDial => HasDial'
<1>1. \A i \in DOMAIN cmdq : i \in DOMAIN cmdq' /\ cmdq'[i] = cmdq[i]
  OBVIOUS
<1> QED
  BY <1>1 DEF HasDial

\* A key that is taken leaves a dial command that is queued.
LEMMA KeyTaken ==
  ASSUME cmdq \in Seq(Cmds), cmdq # <<>>, cmdq' = Tail(cmdq), Head(cmdq).cmd # "Dial"
  PROVE  HasDial => HasDial'
<1>1. /\ DOMAIN cmdq = 1..Len(cmdq) /\ DOMAIN cmdq' = 1..(Len(cmdq) - 1) /\ Len(cmdq) \in Nat \ {0}
      /\ \A i \in DOMAIN cmdq' : cmdq'[i] = cmdq[i + 1]
      /\ Head(cmdq) = cmdq[1]
  OBVIOUS
<1>2. ASSUME NEW i \in DOMAIN cmdq, cmdq[i].cmd = "Dial"
      PROVE  i - 1 \in DOMAIN cmdq' /\ cmdq'[i - 1] = cmdq[i]
  <2>1. i > 1
    BY <1>1, <1>2
  <2> QED
    BY <1>1, <2>1
<1> QED
  BY <1>2 DEF HasDial

-----------------------------------------------------------------------------
(* The steps.                                                              *)
LEMMA DeliverBacked ==
  ASSUME LineInv, Deliver, Backed, IncomingBacked
  PROVE  Backed' /\ IncomingBacked'
<1>0. evq \in Seq(Events) /\ evq # <<>> /\ evq' = Tail(evq)
  BY DEF Deliver, LineInv, TypeOK
<1>1. (HasDial' <=> HasDial) /\ (OnCall' <=> OnCall)
  BY DEF Deliver, HasDial, OnCall, workerVars, lineVars, callVars
<1>2. IncomingBacked'
  <2>1. ASSUME NEW i \in DOMAIN evq', evq'[i].type = "Incoming" PROVE EndAfter(i)' \/ OnCall'
    <3>1. i + 1 \in DOMAIN evq /\ evq[i + 1].type = "Incoming"
      BY <1>0, <2>1, TailShift
    <3> QED
      BY <1>0, <1>1, <3>1, TailKeepsEnd DEF IncomingBacked
  <2> QED
    BY <2>1 DEF IncomingBacked
<1>3. Backed'
  <2>1. CASE Head(evq).type \in EndEvents
    BY <2>1 DEF Deliver, EndEvents, OnTerminated, OnFailed, EndCall, Backed
  <2>2. CASE Head(evq).type = "Incoming"
    <3>1. EndAfter(1) \/ OnCall
      BY <1>0, <2>2, TailShift DEF IncomingBacked
    <3> QED
      BY <1>0, <1>1, <3>1, TailKeepsEnd DEF Backed
  <2>3. CASE Head(evq).type = "Confirmed"
    <3>1. phase' # "Idle" => phase # "Idle"
      BY <2>3 DEF Deliver, OnConfirmed, appVars
    <3>2. Head(evq).type \notin EndEvents
      BY <2>3 DEF EndEvents
    <3> QED
      BY <1>0, <1>1, <3>1, <3>2, TailKeepsEnd DEF Backed
  <2> QED
    BY <2>1, <2>2, <2>3 DEF Deliver, EndEvents
<1> QED
  BY <1>2, <1>3

\* What a task does leaves the screen of a call backed by a call or its end.
LEMMA TaskBacked ==
  ASSUME LineInv, NEW c \in Calls, TaskStep(c), Backed, IncomingBacked, window = "open"
  PROVE  Backed' /\ IncomingBacked'
<1>1. slot = c
  BY TaskStepLive DEF LineInv, SlotOwner
<1>2. CASE PostEnd(c)
  BY <1>2, EndPosted DEF PostEnd, EndEvents, LineInv, TypeOK
<1>3. CASE Release(c)
  <2>1. ~OnCall
    BY <1>1, <1>3 DEF Release, At, OnCall
  <2>2. UNCHANGED <<phase, evq, cmdq>>
    BY <1>3 DEF Release, uiVars, appVars, workerVars
  <2> QED
    BY <2>1, <2>2 DEF Backed, IncomingBacked, HasDial, HasEnd, EndAfter
<1>4. CASE ~ (PostEnd(c) \/ Release(c))
  <2>1. slot' = c
    BY <1>1, <1>4
    DEF TaskStep, Ring, PeerCancelled, Decline, RingTimeout, AnswerCall, StartInvite,
        InviteAnswered, InviteRefused, InviteKey, CancelDone, MediaUp, PeerHungUp, TalkKey,
        ByeDone, lineVars
  <2>2. task'[c] # "posted"
    BY <1>4
    DEF TaskStep, Ring, PeerCancelled, Decline, RingTimeout, AnswerCall, StartInvite,
        InviteAnswered, InviteRefused, InviteKey, CancelDone, MediaUp, PeerHungUp, TalkKey,
        ByeDone, At, AtIn, AtOut, GoTo, LineInv, TypeOK
  <2>3. OnCall'
    BY <2>1, <2>2 DEF OnCall
  <2> QED
    BY <2>3 DEF Backed, IncomingBacked
<1> QED
  BY <1>2, <1>3, <1>4

\* No step takes the screen's backing away.
LEMMA ScreenStep ==
  ASSUME LineInv, ScreenInv, [Next]_vars
  PROVE  ScreenInv'
<1> SUFFICES ASSUME worker' = "running", window' = "open" PROVE Backed' /\ IncomingBacked'
  BY DEF ScreenInv
<1>1. CASE UserClose \/ RunReturns \/ ResidentLoopExits \/ RuntimeDropped \/ Exited
  BY <1>1 DEF UserClose, RunReturns, ResidentLoopExits, Stop, RuntimeDropped, Exited, vars,
              uiVars, workerVars
<1>2. CASE ~ (UserClose \/ RunReturns \/ ResidentLoopExits \/ RuntimeDropped \/ Exited)
  <2>0. window = "open" /\ worker = "running"
    BY <1>2
    DEF Next, UserStep, WorkerStep, NetworkStep, UserDial, UserAccept, UserReject, UserHangup,
        UserKey, Deliver, HandleDial, HandleKey, IncomingCall, PeerAnswers, PeerEnds, TaskStep,
        Ring, PeerCancelled, Decline, RingTimeout, AnswerCall, StartInvite, InviteAnswered,
        InviteRefused, InviteKey, CancelDone, MediaUp, PeerHungUp, TalkKey, ByeDone, PostEnd,
        Release, vars, uiVars, workerVars
  <2>1. Backed /\ IncomingBacked
    BY <2>0 DEF ScreenInv
  <2>2. ASSUME NEW c \in Calls, UserDial(c) PROVE Backed' /\ IncomingBacked'
    <3>1. HasDial'
      <4>1. cmdq' = Append(cmdq, [cmd |-> "Dial", call |-> c]) /\ cmdq \in Seq(Cmds)
        BY <2>0, <2>2 DEF UserDial, Send, LineInv, TypeOK
      <4>2. Len(cmdq) + 1 \in DOMAIN cmdq' /\ cmdq'[Len(cmdq) + 1] = [cmd |-> "Dial", call |-> c]
        BY <4>1
      <4> QED
        BY <4>2 DEF HasDial
    <3>2. OnCall => OnCall'
      BY <2>2 DEF UserDial, OnCall, GoTo, lineVars, LineInv, TypeOK, SlotOwner, Live
    <3> QED
      BY <2>1, <2>2, <3>1, <3>2 DEF UserDial, Backed, IncomingBacked, EndAfter
  <2>3. CASE UserAccept \/ UserReject \/ UserHangup
    <3>1. HasDial => HasDial'
      <4>1. \E key \in Keys : cmdq' = Append(cmdq, [cmd |-> key, call |-> subject])
        BY <2>0, <2>3 DEF UserAccept, UserReject, UserHangup, UserKey, Send, Keys
      <4> QED
        BY <4>1, KeyAppended DEF LineInv, TypeOK
    <3>2. UNCHANGED <<evq, slot, task>>
      BY <2>3 DEF UserAccept, UserReject, UserHangup, UserKey, lineVars, callVars
    <3>3. phase' # "Idle" => phase # "Idle"
      BY <2>3
      DEF UserAccept, UserReject, UserHangup, UserKey, Accept, Reject, Hangup, EndCall, appVars
    <3> QED
      BY <2>1, <3>1, <3>2, <3>3 DEF Backed, IncomingBacked, HasEnd, EndAfter, OnCall
  <2>4. CASE Deliver
    BY <2>1, <2>4, DeliverBacked
  <2>5. CASE HandleDial
    <3> DEFINE c == Head(cmdq).call
    <3>1. CASE RefuseDial(c)
      BY <2>0, <3>1, EndPosted DEF RefuseDial, EndEvents, LineInv, TypeOK
    <3>2. CASE Claim(c)
      <4>1. c \in Calls
        <5>1. Head(cmdq) \in Cmds
          BY <2>5 DEF HandleDial, NextCmd, LineInv, TypeOK
        <5> QED
          BY <5>1 DEF Cmds
      <4>2. slot' = c /\ task'[c] = "starting"
        BY <3>2, <4>1 DEF Claim, GoTo, LineInv, TypeOK
      <4> QED
        BY <4>1, <4>2 DEF Backed, IncomingBacked, OnCall
    <3> QED
      BY <2>5, <3>1, <3>2 DEF HandleDial
  <2>6. CASE HandleKey
    <3>1. HasDial => HasDial'
      BY <2>6, KeyTaken DEF HandleKey, NextCmd, Keys, LineInv, TypeOK
    <3>2. UNCHANGED <<phase, evq, slot, task>>
      BY <2>6 DEF HandleKey, uiVars, appVars, callVars
    <3> QED
      BY <2>1, <3>1, <3>2 DEF Backed, IncomingBacked, HasEnd, EndAfter, OnCall
  <2>7. ASSUME NEW c \in Calls, IncomingCall(c) PROVE Backed' /\ IncomingBacked'
    <3>1. OnCall => OnCall'
      BY <2>7, NoCallAssumption
      DEF IncomingCall, Claim, GoTo, OnCall, LineInv, TypeOK, SlotOwner, Live
    <3>2. UNCHANGED <<phase, evq, cmdq>>
      BY <2>7 DEF IncomingCall, uiVars, appVars, workerVars
    <3> QED
      BY <2>1, <3>1, <3>2 DEF Backed, IncomingBacked, HasDial, HasEnd, EndAfter
  <2>8. CASE NetworkStep \/ UNCHANGED vars
    <3>1. UNCHANGED <<phase, evq, cmdq, slot, task>>
      BY <2>8
      DEF NetworkStep, PeerAnswers, PeerEnds, vars, uiVars, appVars, workerVars, lineVars, callVars
    <3> QED
      BY <2>1, <3>1 DEF Backed, IncomingBacked, HasDial, HasEnd, EndAfter, OnCall
  <2>9. ASSUME NEW c \in Calls, TaskStep(c) PROVE Backed' /\ IncomingBacked'
    BY <2>0, <2>1, <2>9, TaskBacked
  <2> QED
    BY <1>2, <2>2, <2>3, <2>4, <2>5, <2>6, <2>7, <2>8, <2>9 DEF Next, UserStep, WorkerStep
<1> QED
  BY <1>1, <1>2

(* The screen never shows a call that nothing backs.                       *)
THEOREM ScreenBacked == Spec => []NoOrphanUi
<1>1. Init => ScreenInv
  BY DEF Init, AppInit, ScreenInv, Backed, IncomingBacked
<1>2. LineInv /\ ScreenInv /\ [Next]_vars => ScreenInv'
  BY ScreenStep
<1>3. LineInv /\ ScreenInv => NoOrphanUi
  BY NoCallAssumption DEF ScreenInv, Backed, NoOrphanUi, OnCall
<1> QED
  BY <1>1, <1>2, <1>3, LineInvariant, PTL DEF Spec

-----------------------------------------------------------------------------
(* The call log.  A call comes to the screen once: by its dial, or by the   *)
(* one Incoming event of its task.                                         *)
Unlogged(c) == \A i \in DOMAIN unsaved : unsaved[i].call # c
Announces(i, c) == evq[i].type = "Incoming" /\ evq[i].call = c
Waiting(c) == task[c] = "none" \/ (kind[c] = "in" /\ task[c] = "starting")

(* A call whose task has not announced it is neither on screen nor queued   *)
(* nor logged; one that is queued is neither on screen nor logged, and      *)
(* queued once; the one on screen is not logged.                           *)
WaitingFresh ==
  \A c \in Calls : Waiting(c) =>
    subject # c /\ Unlogged(c) /\ \A i \in DOMAIN evq : ~Announces(i, c)
QueuedFresh ==
  \A c \in Calls, i \in DOMAIN evq : Announces(i, c) =>
    subject # c /\ Unlogged(c) /\ \A j \in DOMAIN evq : Announces(j, c) => i = j
RecordInv == WaitingFresh /\ QueuedFresh /\ Unlogged(subject) /\ OneRecordPerCall

(* The Incoming events queued after a step are those of before, k places on. *)
Shifted(k) ==
  \A i \in DOMAIN evq' :
    /\ i \in Nat
    /\ evq'[i].type = "Incoming" => i + k \in DOMAIN evq /\ evq'[i] = evq[i + k]

(* A step that neither shows nor logs nor announces a call.                *)
LEMMA RecordKept ==
  ASSUME RecordInv, NEW k \in Nat, Shifted(k), UNCHANGED <<subject, unsaved>>,
         \A c \in Calls : Waiting(c)' => Waiting(c)
  PROVE  RecordInv'
<1>1. \A c \in Calls, i \in DOMAIN evq' : Announces(i, c)' => i + k \in DOMAIN evq /\ Announces(i + k, c)
  BY DEF Shifted, Announces
<1>2. \A c : Unlogged(c)' <=> Unlogged(c)
  BY DEF Unlogged
<1>3. WaitingFresh'
  BY <1>1, <1>2 DEF WaitingFresh, RecordInv
<1>4. QueuedFresh'
  <2> SUFFICES ASSUME NEW c \in Calls, NEW i \in DOMAIN evq', Announces(i, c)'
               PROVE  /\ subject # c /\ Unlogged(c)
                      /\ \A j \in DOMAIN evq' : Announces(j, c)' => i = j
    BY <1>2 DEF QueuedFresh
  <2>1. Announces(i + k, c) /\ i + k \in DOMAIN evq
    BY <1>1
  <2>2. ASSUME NEW j \in DOMAIN evq', Announces(j, c)' PROVE i = j
    <3>1. i + k = j + k
      BY <1>1, <2>1, <2>2 DEF QueuedFresh, RecordInv
    <3> QED
      BY <3>1 DEF Shifted
  <2> QED
    BY <2>1, <2>2 DEF QueuedFresh, RecordInv
<1> QED
  BY <1>2, <1>3, <1>4 DEF RecordInv, OneRecordPerCall

(* The call on screen ends there, and is logged.                           *)
LEMMA RecordMade ==
  ASSUME RecordInv, AppTypeOK, EndCall, NEW k \in Nat, Shifted(k), UNCHANGED <<task, kind>>
  PROVE  RecordInv'
<1>0. \A c \in Calls : Waiting(c)' <=> Waiting(c)
  BY DEF Waiting
<1>1. CASE phase = "Idle"
  BY <1>0, <1>1, RecordKept DEF EndCall, PushCallRecord, AppTypeOK
<1>2. CASE phase # "Idle"
  <2>1. unsaved' = Append(unsaved, CallRecord) /\ CallRecord.call = subject /\ subject \in Calls
    BY <1>2 DEF EndCall, PushCallRecord, CallRecord, AppTypeOK
  <2>2. /\ \A i \in DOMAIN unsaved : i \in DOMAIN unsaved' /\ unsaved'[i] = unsaved[i]
        /\ \A i \in DOMAIN unsaved' : i \in DOMAIN unsaved \/ unsaved'[i] = CallRecord
        /\ \A i, j \in DOMAIN unsaved' : i \in DOMAIN unsaved \/ j \in DOMAIN unsaved \/ i = j
    BY <2>1 DEF AppTypeOK
  <2>3. \A c \in Calls : Unlogged(c) /\ subject # c => Unlogged(c)'
    BY <2>1, <2>2 DEF Unlogged
  <2>4. \A c \in Calls, i \in DOMAIN evq' :
          Announces(i, c)' => i + k \in DOMAIN evq /\ Announces(i + k, c)
    BY DEF Shifted, Announces
  <2>5. subject' = NoCall
    BY DEF EndCall
  <2>6. WaitingFresh'
    BY <1>0, <2>3, <2>4, <2>5, NoCallAssumption DEF WaitingFresh, RecordInv
  <2>7. QueuedFresh'
    <3> SUFFICES ASSUME NEW c \in Calls, NEW i \in DOMAIN evq', Announces(i, c)'
                 PROVE  /\ subject' # c /\ Unlogged(c)'
                        /\ \A j \in DOMAIN evq' : Announces(j, c)' => i = j
      BY DEF QueuedFresh
    <3>1. Announces(i + k, c) /\ i + k \in DOMAIN evq
      BY <2>4
    <3>2. subject # c /\ Unlogged(c)
      BY <3>1 DEF QueuedFresh, RecordInv
    <3>3. ASSUME NEW j \in DOMAIN evq', Announces(j, c)' PROVE i = j
      <4>1. i + k = j + k
        BY <2>4, <3>1, <3>3 DEF QueuedFresh, RecordInv
      <4> QED
        BY <4>1 DEF Shifted
    <3> QED
      BY <2>3, <2>5, <3>2, <3>3, NoCallAssumption
  <2>8. Unlogged(subject)'
    <3>1. \A i \in DOMAIN unsaved : unsaved[i].call \in Calls
      <4>1. \A i \in DOMAIN unsaved : unsaved[i] \in CallRecords
        BY DEF AppTypeOK
      <4> QED
        BY <4>1 DEF CallRecords
    <3>2. \A i \in DOMAIN unsaved' : unsaved'[i].call \in Calls
      BY <2>1, <2>2, <3>1
    <3> QED
      BY <2>5, <3>2, NoCallAssumption DEF Unlogged
  <2>9. OneRecordPerCall'
    BY <2>1, <2>2 DEF OneRecordPerCall, Unlogged, RecordInv
  <2> QED
    BY <2>6, <2>7, <2>8, <2>9 DEF RecordInv
<1> QED
  BY <1>1, <1>2

(* A call comes to the screen that is not logged and no longer waits or is  *)
(* queued.                                                                 *)
LEMMA RecordShown ==
  ASSUME RecordInv, NEW c \in Calls, subject' = c, UNCHANGED unsaved, Unlogged(c),
         \A i \in DOMAIN evq' : ~Announces(i, c)',
         NEW k \in Nat, Shifted(k), \A d \in Calls : Waiting(d)' => Waiting(d) /\ d # c
  PROVE  RecordInv'
<1>1. \A d \in Calls, i \in DOMAIN evq' : Announces(i, d)' => i + k \in DOMAIN evq /\ Announces(i + k, d)
  BY DEF Shifted, Announces
<1>2. \A d : Unlogged(d)' <=> Unlogged(d)
  BY DEF Unlogged
<1>3. WaitingFresh'
  BY <1>1, <1>2 DEF WaitingFresh, RecordInv
<1>4. QueuedFresh'
  <2> SUFFICES ASSUME NEW d \in Calls, NEW i \in DOMAIN evq', Announces(i, d)'
               PROVE  /\ d # c /\ Unlogged(d)
                      /\ \A j \in DOMAIN evq' : Announces(j, d)' => i = j
    BY <1>2 DEF QueuedFresh
  <2>1. Announces(i + k, d) /\ i + k \in DOMAIN evq
    BY <1>1
  <2>2. ASSUME NEW j \in DOMAIN evq', Announces(j, d)' PROVE i = j
    <3>1. i + k = j + k
      BY <1>1, <2>1, <2>2 DEF QueuedFresh, RecordInv
    <3> QED
      BY <3>1 DEF Shifted
  <2> QED
    BY <2>1, <2>2 DEF QueuedFresh, RecordInv
<1> QED
  BY <1>2, <1>3, <1>4 DEF RecordInv, OneRecordPerCall

(* How the steps move the queue.                                           *)
LEMMA SameQueue ==
  ASSUME evq \in Seq(Events), UNCHANGED evq
  PROVE  Shifted(0)
BY DEF Shifted

\* Taking an event shifts the queue by one.
LEMMA TailShifted ==
  ASSUME evq \in Seq(Events), evq # <<>>, evq' = Tail(evq)
  PROVE  Shifted(1)
BY TailShift DEF Shifted

\* Posting an event moves nothing that is queued.
LEMMA PostShifted ==
  ASSUME evq \in Seq(Events), NEW type \in {"Confirmed"} \cup EndEvents, NEW c, Post(type, c)
  PROVE  Shifted(0)
<1>1. CASE window = "open"
  <2> DEFINE n == Len(evq) + 1
  <2>1. /\ DOMAIN evq = 1..Len(evq) /\ DOMAIN evq' = 1..n /\ Len(evq) \in Nat
        /\ \A i \in DOMAIN evq : evq'[i] = evq[i]
        /\ evq'[n] = [type |-> type, call |-> c]
    BY <1>1 DEF Post
  <2>2. evq'[n].type # "Incoming"
    BY <2>1 DEF EndEvents
  <2>3. \A i \in DOMAIN evq' : i \in Nat /\ i + 0 = i /\ (i \in DOMAIN evq \/ i = n)
    BY <2>1
  <2> QED
    BY <2>1, <2>2, <2>3 DEF Shifted
<1>2. CASE window # "open"
  BY <1>2, SameQueue DEF Post
<1> QED
  BY <1>1, <1>2

(* The event a ringing call posts is the first of that call.               *)
LEMMA RingRecord ==
  ASSUME LineInv, RecordInv, NEW c \in Calls, Ring(c)
  PROVE  RecordInv'
<1>0. evq \in Seq(Events) /\ task \in [Calls -> TaskState]
  BY DEF LineInv, TypeOK
<1>1. UNCHANGED <<subject, unsaved, kind>>
  BY DEF Ring, uiVars, appVars
<1>2. task[c] = "starting" /\ kind[c] = "in" /\ task'[c] \in {"ringing", "endErr"}
      /\ \A d \in Calls : d # c => task'[d] = task[d]
  BY <1>0 DEF Ring, AtIn, GoTo
<1>3. \A d \in Calls : Waiting(d)' => Waiting(d) /\ d # c
  BY <1>1, <1>2 DEF Waiting
<1>4. CASE UNCHANGED evq
  BY <1>0, <1>1, <1>3, <1>4, SameQueue, RecordKept
<1>5. CASE Post("Incoming", c) /\ window = "open"
  <2> DEFINE n == Len(evq) + 1
  <2>1. /\ \A i \in DOMAIN evq' : i \in DOMAIN evq \/ i = n
        /\ \A i \in DOMAIN evq : evq'[i] = evq[i]
        /\ evq'[n] = [type |-> "Incoming", call |-> c]
    BY <1>0, <1>5, PostAppends
  <2>2. \A d \in Calls, i \in DOMAIN evq' :
          Announces(i, d)' => (i \in DOMAIN evq /\ Announces(i, d)) \/ (i = n /\ d = c)
    BY <2>1 DEF Announces
  <2>3. \A d : Unlogged(d)' <=> Unlogged(d)
    BY <1>1 DEF Unlogged
  <2>4. subject # c /\ Unlogged(c) /\ \A i \in DOMAIN evq : ~Announces(i, c)
    BY <1>2 DEF RecordInv, WaitingFresh, Waiting
  <2>5. WaitingFresh'
    BY <1>1, <1>3, <2>2, <2>3 DEF WaitingFresh, RecordInv
  <2>6. QueuedFresh'
    BY <1>1, <2>2, <2>3, <2>4 DEF QueuedFresh, RecordInv
  <2> QED
    BY <1>1, <2>3, <2>5, <2>6 DEF RecordInv, OneRecordPerCall
<1> QED
  BY <1>4, <1>5 DEF Ring, Post

\* No step makes a second record of a call possible.
LEMMA RecordStep ==
  ASSUME LineInv, RecordInv, [Next]_vars
  PROVE  RecordInv'
<1>0. evq \in Seq(Events) /\ AppTypeOK /\ task \in [Calls -> TaskState]
  BY DEF LineInv, TypeOK
<1>1. ASSUME NEW c \in Calls, UserDial(c) PROVE RecordInv'
  <2>1. /\ subject' = c /\ UNCHANGED <<unsaved, evq>>
        /\ task[c] = "none" /\ task' = [task EXCEPT ![c] = "dialled"]
        /\ \A d \in Calls : d # c => kind'[d] = kind[d]
    BY <1>1 DEF UserDial, DialFor, GoTo, LineInv, TypeOK
  <2>2. Unlogged(c) /\ \A i \in DOMAIN evq : ~Announces(i, c)
    BY <2>1 DEF RecordInv, WaitingFresh, Waiting
  <2>3. \A i \in DOMAIN evq' : ~Announces(i, c)'
    BY <2>1, <2>2 DEF Announces
  <2>4. \A d \in Calls : Waiting(d)' => Waiting(d) /\ d # c
    BY <1>0, <2>1 DEF Waiting
  <2> QED
    BY <1>0, <2>1, <2>2, <2>3, <2>4, SameQueue, RecordShown
<1>2. CASE UserAccept
  <2>1. UNCHANGED <<subject, unsaved, evq, task, kind>>
    BY <1>2 DEF UserAccept, UserKey, Accept, appVars, callVars
  <2> QED
    BY <1>0, <2>1, SameQueue, RecordKept DEF Waiting
<1>3. CASE UserReject \/ UserHangup
  <2>1. EndCall /\ UNCHANGED <<evq, task, kind>>
    BY <1>3 DEF UserReject, UserHangup, UserKey, Reject, Hangup, callVars
  <2> QED
    BY <1>0, <2>1, SameQueue, RecordMade
<1>4. CASE Deliver
  <2>1. evq # <<>> /\ evq' = Tail(evq) /\ UNCHANGED <<task, kind>>
    BY <1>4 DEF Deliver, callVars
  <2>2. Shifted(1)
    BY <1>0, <2>1, TailShifted
  <2>3. \A c \in Calls : Waiting(c)' <=> Waiting(c)
    BY <2>1 DEF Waiting
  <2>4. CASE OnTerminated \/ OnFailed
    BY <1>0, <2>1, <2>2, <2>4, RecordMade DEF OnTerminated, OnFailed
  <2>5. CASE UNCHANGED <<subject, unsaved>>
    BY <2>2, <2>3, <2>5, RecordKept
  <2>6. CASE Head(evq).type = "Incoming" /\ OnIncoming(Head(evq).call) /\ phase = "Idle"
    <3>0. Head(evq) = evq[1] /\ 1 \in DOMAIN evq /\ evq[1] \in Events
      BY <1>0, <2>1
    <3>1. PICK c \in Calls : c = Head(evq).call /\ Announces(1, c)
      BY <2>6, <3>0 DEF Announces, Events
    <3>2. subject' = c /\ UNCHANGED unsaved
      BY <2>6, <3>1 DEF OnIncoming
    <3>3. Unlogged(c) /\ (\A j \in DOMAIN evq : Announces(j, c) => 1 = j) /\ ~Waiting(c)
      BY <3>0, <3>1 DEF RecordInv, QueuedFresh, WaitingFresh
    <3>4. ASSUME NEW i \in DOMAIN evq', Announces(i, c)' PROVE FALSE
      <4>1. i + 1 \in DOMAIN evq /\ evq[i + 1] = evq'[i] /\ i + 1 # 1
        BY <1>0, <2>1, TailShift
      <4>2. evq'[i].type = "Incoming" /\ evq'[i].call = c
        BY <2>1, <3>4 DEF Announces
      <4> QED
        BY <3>3, <4>1, <4>2 DEF Announces
    <3> QED
      BY <2>2, <2>3, <3>2, <3>3, <3>4, RecordShown
  <2> QED
    BY <1>4, <2>4, <2>5, <2>6 DEF Deliver, OnIncoming, OnConfirmed, appVars
<1>5. CASE HandleDial
  <2> DEFINE c == Head(cmdq).call
  <2>1. c \in Calls /\ task[c] = "dialled" /\ kind[c] = "out"
    <3>1. 1 \in DOMAIN cmdq /\ Head(cmdq) = cmdq[1] /\ cmdq[1] \in Cmds
      BY <1>5 DEF HandleDial, NextCmd, LineInv, TypeOK
    <3> QED
      BY <1>5, <3>1 DEF HandleDial, LineInv, DialInv, Cmds
  <2>2. UNCHANGED <<subject, unsaved, kind>>
    BY <1>5 DEF HandleDial, uiVars, appVars
  <2>3. task' = [task EXCEPT ![c] = "refused"] \/ task' = [task EXCEPT ![c] = "starting"]
    BY <1>5 DEF HandleDial, RefuseDial, Claim, GoTo
  <2>4. \A d \in Calls : Waiting(d)' => Waiting(d)
    BY <1>0, <2>1, <2>2, <2>3 DEF Waiting
  <2>5. Shifted(0)
    BY <1>0, <1>5, SameQueue, PostShifted DEF HandleDial, RefuseDial, EndEvents
  <2> QED
    BY <2>2, <2>4, <2>5, RecordKept
<1>6. CASE HandleKey \/ ResidentLoopExits \/ NetworkStep \/ Exited \/ RunReturns \/ UNCHANGED vars
  <2>1. UNCHANGED <<subject, unsaved, evq, task, kind>>
    BY <1>6
    DEF HandleKey, ResidentLoopExits, Stop, NetworkStep, PeerAnswers, PeerEnds, Exited, RunReturns,
        vars, uiVars, appVars, callVars
  <2> QED
    BY <1>0, <2>1, SameQueue, RecordKept DEF Waiting
<1>7. CASE UserClose
  <2>1. UNCHANGED <<subject, unsaved, task, kind>> /\ evq' = <<>>
    BY <1>7 DEF UserClose, appVars, callVars
  <2>2. Shifted(0)
    BY <2>1 DEF Shifted
  <2> QED
    BY <2>1, <2>2, RecordKept DEF Waiting
<1>8. CASE RuntimeDropped
  <2>1. UNCHANGED <<subject, unsaved, evq, kind>>
        /\ task' = [c \in Calls |-> IF task[c] \in Live THEN "aborted" ELSE task[c]]
    BY <1>8 DEF RuntimeDropped, uiVars, appVars
  <2>2. \A c \in Calls : Waiting(c)' => Waiting(c)
    BY <2>1 DEF Waiting
  <2> QED
    BY <1>0, <2>1, <2>2, SameQueue, RecordKept
<1>9. ASSUME NEW c \in Calls, IncomingCall(c) PROVE RecordInv'
  <2>1. UNCHANGED <<subject, unsaved, evq>>
    BY <1>9 DEF IncomingCall, uiVars, appVars
  <2>2. \A d \in Calls : d # c => task'[d] = task[d] /\ kind'[d] = kind[d]
    BY <1>9 DEF IncomingCall, Claim, GoTo, LineInv, TypeOK
  <2>3. Waiting(c)
    BY <1>9 DEF IncomingCall, Waiting
  <2>4. \A d \in Calls : Waiting(d)' => Waiting(d)
    BY <2>2, <2>3 DEF Waiting
  <2> QED
    BY <1>0, <2>1, <2>4, SameQueue, RecordKept
<1>10. ASSUME NEW c \in Calls, TaskStep(c) PROVE RecordInv'
  <2>1. CASE Ring(c)
    BY <2>1, RingRecord
  <2>2. CASE ~Ring(c)
    <3>1. UNCHANGED <<subject, unsaved, kind>>
      BY <1>10, <2>2
      DEF TaskStep, PeerCancelled, Decline, RingTimeout, AnswerCall, StartInvite, InviteAnswered,
          InviteRefused, InviteKey, CancelDone, MediaUp, PeerHungUp, TalkKey, ByeDone, PostEnd,
          Release, uiVars, appVars
    <3>2. UNCHANGED evq \/ \E type \in {"Confirmed"} \cup EndEvents : Post(type, c)
      BY <1>10, <2>2
      DEF TaskStep, PeerCancelled, Decline, RingTimeout, AnswerCall, StartInvite, InviteAnswered,
          InviteRefused, InviteKey, CancelDone, MediaUp, PeerHungUp, TalkKey, ByeDone, PostEnd,
          Release, EndEvents
    <3>3. Shifted(0)
      BY <1>0, <3>2, SameQueue, PostShifted
    <3>4. task[c] \in Live /\ task'[c] \notin {"none", "starting"}
          /\ \A d \in Calls : d # c => task'[d] = task[d]
      <4>1. task[c] \in Live /\ \A d \in Calls : d # c => task'[d] = task[d]
        BY <1>0, <1>10, TaskStepLive DEF LineInv
      <4>2. task'[c] \notin {"none", "starting"}
        BY <1>0, <1>10, <2>2
        DEF TaskStep, PeerCancelled, Decline, RingTimeout, AnswerCall, StartInvite, InviteAnswered,
            InviteRefused, InviteKey, CancelDone, MediaUp, PeerHungUp, TalkKey, ByeDone, PostEnd,
            Release, At, AtIn, AtOut, GoTo
      <4> QED
        BY <4>1, <4>2
    <3>5. \A d \in Calls : Waiting(d)' => Waiting(d)
      BY <3>1, <3>4 DEF Waiting
    <3> QED
      BY <3>1, <3>3, <3>5, RecordKept
  <2> QED
    BY <2>1, <2>2
<1> QED
  BY <1>1, <1>2, <1>3, <1>4, <1>5, <1>6, <1>7, <1>8, <1>9, <1>10 DEF Next, UserStep, WorkerStep

(* However late the events of a call arrive, and whatever the user presses  *)
(* meanwhile, the log has at most one record of it (app.rs:176-177).       *)
THEOREM CallLoggedOnce == Spec => []OneRecordPerCall
<1>1. Init => RecordInv
  BY NoCallAssumption
  DEF Init, AppInit, RecordInv, WaitingFresh, QueuedFresh, Unlogged, OneRecordPerCall
<1>2. LineInv /\ RecordInv /\ [Next]_vars => RecordInv'
  BY RecordStep
<1>3. RecordInv => OneRecordPerCall
  BY DEF RecordInv
<1> QED
  BY <1>1, <1>2, <1>3, LineInvariant, PTL DEF Spec

-----------------------------------------------------------------------------
(* Part 3.  The call sessions implement the exclusive line of CallLine.    *)

Served == {c \in Calls : task[c] \in Live \cup {"done", "aborted"}}

(* Steps that leave the slot, the tasks and the media alone are stutters.  *)
LEMMA QuietStutters ==
  ASSUME UNCHANGED <<slot, task, media>>
  PROVE  UNCHANGED Line!lineVars
BY DEF Line!lineVars

\* The line starts free.
LEMMA LineRefinesInit == Init => Line!LineInit
BY DEF Init, Line!LineInit, Live

\* A step of a task is a step of the line, or nothing to it.
LEMMA LineRefinesTask ==
  ASSUME LineInv, NEW c \in Calls, TaskStep(c)
  PROVE  Line!LineNext \/ UNCHANGED Line!lineVars
<1>1. slot = c /\ task[c] \in Live
  BY TaskStepLive DEF LineInv, SlotOwner
<1>2. Served' = Served
  BY TaskStepLive, <1>1 DEF LineInv, TypeOK, Served, Live
<1>3. media \subseteq {c}
  BY <1>1 DEF LineInv, TypeOK, CallInv, SlotOwner, Live
<1>4. CASE MediaUp(c)
  <2>1. media' = media \/ media' = {slot}
    BY <1>1, <1>3, <1>4 DEF MediaUp
  <2>2. slot' = slot /\ slot # NoCall
    BY <1>1, <1>4, NoCallAssumption DEF MediaUp
  <2> QED
    BY <1>2, <2>1, <2>2 DEF Line!LineNext, Line!StartStreaming, Line!lineVars, Served
<1>5. CASE PostEnd(c)
  <2>1. media' = {} /\ slot' = slot
    BY <1>3, <1>5 DEF PostEnd
  <2> QED
    BY <1>2, <2>1 DEF Line!LineNext, Line!StopStreaming, Served
<1>6. CASE Release(c)
  <2>1. task[c] = "posted"
    BY <1>6 DEF Release, At
  <2>2. media = {}
    BY <1>3, <2>1 DEF LineInv, CallInv
  <2>3. slot' = NoCall /\ media' = media
    BY <1>6 DEF Release
  <2> QED
    BY <1>2, <2>2, <2>3 DEF Line!LineNext, Line!Free, Served
<1>7. CASE ~ (MediaUp(c) \/ PostEnd(c) \/ Release(c))
  <2>1. slot' = slot /\ media' = media
    BY <1>7
    DEF TaskStep, Ring, PeerCancelled, Decline, RingTimeout, AnswerCall, StartInvite,
        InviteAnswered, InviteRefused, InviteKey, CancelDone, PeerHungUp, TalkKey, ByeDone,
        lineVars
  <2> QED
    BY <1>2, <2>1 DEF Line!lineVars, Served
<1> QED
  BY <1>4, <1>5, <1>6, <1>7

\* Every step is a step of the line, or nothing to it.
LEMMA LineRefinesNext ==
  ASSUME LineInv, [Next]_vars
  PROVE  Line!LineNext \/ UNCHANGED Line!lineVars
<1>1. CASE UserAccept \/ UserReject \/ UserHangup \/ UserClose \/ RunReturns \/ Deliver \/ HandleKey
           \/ ResidentLoopExits \/ NetworkStep \/ Exited \/ UNCHANGED vars
  BY <1>1, OtherStepsQuiet, QuietStutters
<1>2. ASSUME NEW c \in Calls, UserDial(c) PROVE UNCHANGED Line!lineVars
  <2>1. Served' = Served
    BY <1>2 DEF UserDial, GoTo, Served, LineInv, TypeOK, Live
  <2> QED
    BY <1>2, <2>1 DEF UserDial, lineVars, Line!lineVars, Served
<1>3. CASE HandleDial
  <2> DEFINE c == Head(cmdq).call
  <2>1. c \in Calls /\ task[c] = "dialled"
    <3>1. 1 \in DOMAIN cmdq /\ Head(cmdq) = cmdq[1] /\ cmdq[1] \in Cmds
      BY <1>3 DEF HandleDial, NextCmd, LineInv, TypeOK
    <3> QED
      BY <1>3, <3>1 DEF HandleDial, LineInv, DialInv, Cmds
  <2>2. CASE RefuseDial(c)
    <3>1. Served' = Served
      BY <2>1, <2>2 DEF RefuseDial, GoTo, Served, LineInv, TypeOK, Live
    <3> QED
      BY <1>3, <2>2, <3>1 DEF HandleDial, RefuseDial, Line!lineVars, Served
  <2>3. CASE slot = NoCall /\ Claim(c)
    <3>1. Served' = Served \cup {c} /\ c \notin Served
      BY <2>1, <2>3 DEF Claim, GoTo, Served, LineInv, TypeOK, Live
    <3>2. slot = NoCall /\ slot' = c /\ media' = media
      BY <1>3, <2>3 DEF HandleDial, Claim
    <3> QED
      BY <2>1, <3>1, <3>2 DEF Line!LineNext, Line!Claim, Served
  <2> QED
    BY <1>3, <2>2, <2>3 DEF HandleDial
<1>4. CASE RuntimeDropped
  <2>1. Served' = Served
    BY <1>4 DEF RuntimeDropped, Served, LineInv, TypeOK, Live
  <2>2. slot' = NoCall /\ media' = {}
    BY <1>4 DEF RuntimeDropped
  <2> QED
    BY <2>1, <2>2 DEF Line!LineNext, Line!Abandon, Served
<1>5. ASSUME NEW c \in Calls, IncomingCall(c) PROVE Line!LineNext \/ UNCHANGED Line!lineVars
  <2>1. CASE slot # NoCall /\ GoTo(c, "refused") /\ slot' = slot
    <3>1. Served' = Served
      BY <1>5, <2>1 DEF IncomingCall, GoTo, Served, LineInv, TypeOK, Live
    <3> QED
      BY <1>5, <2>1, <3>1 DEF IncomingCall, Line!lineVars, Served
  <2>2. CASE slot = NoCall /\ Claim(c)
    <3>1. Served' = Served \cup {c} /\ c \notin Served
      BY <1>5, <2>2 DEF IncomingCall, Claim, GoTo, Served, LineInv, TypeOK, Live
    <3>2. slot = NoCall /\ slot' = c /\ media' = media
      BY <1>5, <2>2 DEF IncomingCall, Claim
    <3> QED
      BY <3>1, <3>2 DEF Line!LineNext, Line!Claim, Served
  <2> QED
    BY <1>5, <2>1, <2>2 DEF IncomingCall
<1>6. ASSUME NEW c \in Calls, TaskStep(c) PROVE Line!LineNext \/ UNCHANGED Line!lineVars
  BY <1>6, LineRefinesTask
<1> QED
  BY <1>1, <1>2, <1>3, <1>4, <1>5, <1>6 DEF Next, UserStep, WorkerStep

(* The slot, the call tasks and the media handles implement one exclusive   *)
(* line that no call gets twice and that is free of media when it changes   *)
(* hands.                                                                  *)
THEOREM SessionImplementsLine == Spec => LineSpec
<1>1. LineInv /\ [Next]_vars => [Line!LineNext]_Line!lineVars
  BY LineRefinesNext
<1> QED
  BY <1>1, LineRefinesInit, LineInvariant, PTL DEF Spec, LineSpec, Line!LineSpec

-----------------------------------------------------------------------------
(* Part 4.  The monitor page, for any number of calls, cameras and views:  *)
(* the calls run beside it as they do alone, and the controller, the side  *)
(* bar and the dial callback keep the views in order.                      *)

(* Every step of the composition is one of the session's, or none.         *)
LEMMA StepOfSession == [MonitorNext]_allVars => [Next]_vars
<1> SUFFICES ASSUME [MonitorNext]_allVars PROVE [Next]_vars
  OBVIOUS
<1>1. CASE UNCHANGED allVars
  BY <1>1 DEF allVars
<1>2. CASE CallTakesPicture \/ RestOfSession \/ CloseWindow \/ Exited
  BY <1>2 DEF CallTakesPicture, RestOfSession, CloseWindow, Next, UserStep
<1>3. CASE OpenPage \/ LeavePage
  BY <1>3 DEF OpenPage, LeavePage
<1>4. CASE \E v \in Views : ViewFails(v) \/ PostFailure(v) \/ DeliverFailure(v)
  BY <1>4 DEF ViewFails, PostFailure, DeliverFailure
<1>5. CASE \E v \in Views, cam \in Cameras : Select(v, cam)
  BY <1>5 DEF Select
<1> QED
  BY <1>1, <1>2, <1>3, <1>4, <1>5 DEF MonitorNext

(* The monitor takes nothing from the calls: what is proved of a session   *)
(* alone holds with the page in use.                                       *)
THEOREM SessionUndisturbed == MonitorSpec => Spec
<1>1. MonitorInit => Init
  BY DEF MonitorInit
<1> QED
  BY <1>1, StepOfSession, PTL DEF MonitorSpec, Spec

(* One line, media and routes stay in order with the monitor in use.       *)
THEOREM LineKeptBesideMonitor == MonitorSpec => [](SlotOwner /\ MediaFollowsCall /\ RoutesFollowCall)
<1> QED
  BY SessionUndisturbed, OneCallAtATime, MediaSafe, RoutesSafe, PTL

-----------------------------------------------------------------------------
(* The inductive invariant of the monitor.                                 *)
MonitorInv ==
  /\ MonitorTypeOK
  /\ RunningIsHeld
  /\ SelectionIsLive
  /\ DialSilencesMonitor

\* No camera runs at first.
LEMMA MonitorInitInv == MonitorInit => MonitorInv
BY DEF MonitorInit, Init, AppInit, MonitorInv, MonitorTypeOK, RunningIsHeld, SelectionIsLive,
       DialSilencesMonitor, Life

(* After MonitorController::stop no view runs.                             *)
LEMMA StopSilences ==
  ASSUME MonitorTypeOK, RunningIsHeld
  PROVE  /\ Stopped \in [Views -> Life]
         /\ \A v \in Views : Stopped[v] # "running"
BY DEF MonitorTypeOK, RunningIsHeld, Stopped, Life

(* A step that stops the monitor, whatever it does to the call.            *)
LEMMA ResetInv ==
  ASSUME MonitorInv, StopAndReset, page' \in {"monitor", "other"}, UNCHANGED <<camera, failures>>
  PROVE  MonitorInv'
<1>1. \A v \in Views : view'[v] # "running"
  BY StopSilences DEF MonitorInv, StopAndReset
<1>2. MonitorTypeOK'
  BY StopSilences DEF MonitorInv, MonitorTypeOK, StopAndReset
<1>3. SelectionIsLive'
  BY DEF StopAndReset, SelectionIsLive
<1> QED
  BY <1>1, <1>2, <1>3 DEF MonitorInv, RunningIsHeld, DialSilencesMonitor

(* A step of the session that leaves the monitor alone: it may end the     *)
(* call on screen, but it does not begin one the user dialled.             *)
LEMMA SessionStepInv ==
  ASSUME MonitorInv, UNCHANGED monitorVars, window' = "open" => window = "open",
         phase' # "Idle" /\ dir' = "Outgoing" => phase # "Idle" /\ dir = "Outgoing"
  PROVE  MonitorInv'
BY DEF MonitorInv, monitorVars, MonitorTypeOK, RunningIsHeld, SelectionIsLive,
       DialSilencesMonitor

(* What the other steps of the session do to the screen.                   *)
LEMMA RestKeepsDialled ==
  ASSUME RestOfSession
  PROVE  /\ window' = "open" => window = "open"
         /\ phase' # "Idle" /\ dir' = "Outgoing" => phase # "Idle" /\ dir = "Outgoing"
<1>1. CASE UserReject \/ UserHangup
  BY <1>1 DEF UserReject, UserHangup, UserKey, Reject, Hangup, EndCall
<1>2. CASE Deliver \/ RunReturns
  BY <1>2 DEF Deliver, RunReturns, OnIncoming, OnConfirmed, OnTerminated, OnFailed, EndCall, appVars
<1>3. CASE WorkerStep
  BY <1>3 DEF WorkerStep, HandleDial, HandleKey, ResidentLoopExits, Stop,
              RuntimeDropped, IncomingCall, uiVars, appVars
<1>4. CASE NetworkStep
  BY <1>4 DEF NetworkStep, PeerAnswers, PeerEnds, uiVars, appVars
<1>5. CASE \E c \in Calls : TaskStep(c)
  BY <1>5 DEF TaskStep, Ring, PeerCancelled, Decline, RingTimeout, AnswerCall, StartInvite,
              InviteAnswered, InviteRefused, InviteKey, CancelDone, MediaUp, PeerHungUp,
              TalkKey, ByeDone, PostEnd, Release, uiVars, appVars
<1> QED
  BY <1>1, <1>2, <1>3, <1>4, <1>5 DEF RestOfSession

(* The page of the monitor.                                                *)
LEMMA SelectInv ==
  ASSUME MonitorInv, NEW v \in Views, NEW cam \in Cameras, Select(v, cam)
  PROVE  MonitorInv'
<1>1. CASE StopAndReset /\ UNCHANGED camera
  BY <1>1, ResetInv DEF Select, MonitorInv, MonitorTypeOK
<1>2. CASE Start(v, cam) /\ selected' = cam
  <2>1. /\ view' = [Stopped EXCEPT ![v] = "running"]
        /\ camera' = [camera EXCEPT ![v] = cam] /\ current' = v /\ selected' = cam
        /\ UNCHANGED <<page, failures, phase, window, dir>> /\ phase = "Idle"
    BY <1>2 DEF Select, Start, OnMonitorPage, vars, uiVars, appVars
  <2>2. \A u \in Views : view'[u] = "running" <=> u = v
    BY <2>1, StopSilences DEF MonitorInv
  <2>3. MonitorTypeOK'
    BY <2>1, StopSilences DEF MonitorInv, MonitorTypeOK, Life
  <2>4. SelectionIsLive'
    BY <2>1, <2>2, NoViewAssumption DEF MonitorInv, MonitorTypeOK, SelectionIsLive
  <2> QED
    BY <2>1, <2>2, <2>3, <2>4 DEF MonitorInv, RunningIsHeld, DialSilencesMonitor
<1> QED
  BY <1>1, <1>2 DEF Select

(* A view that fails, its callback, and the delivery of its event.         *)
LEMMA FailureInv ==
  ASSUME MonitorInv, NEW v \in Views, ViewFails(v) \/ PostFailure(v) \/ DeliverFailure(v)
  PROVE  MonitorInv'
<1>1. UNCHANGED <<phase, dir, window, page, current, camera>>
  BY DEF ViewFails, PostFailure, DeliverFailure, vars, uiVars, appVars
<1>2. CASE ViewFails(v) \/ PostFailure(v)
  <2>1. /\ selected' = selected
        /\ \/ view' = [view EXCEPT ![v] = "failed"] /\ failures' = failures
           \/ /\ view' = [view EXCEPT ![v] = "told"]
              /\ failures' = IF window = "open" THEN failures \cup {v} ELSE failures
    BY <1>2 DEF ViewFails, PostFailure
  <2>2. MonitorTypeOK'
    BY <1>1, <2>1 DEF MonitorInv, MonitorTypeOK, Life
  <2>3. RunningIsHeld' /\ DialSilencesMonitor'
    BY <1>1, <2>1 DEF MonitorInv, MonitorTypeOK, RunningIsHeld, DialSilencesMonitor
  <2>4. SelectionIsLive'
    BY <1>1, <2>1 DEF MonitorInv, MonitorTypeOK, SelectionIsLive
  <2> QED
    BY <2>2, <2>3, <2>4 DEF MonitorInv
<1>3. CASE DeliverFailure(v)
  <2>1. /\ UNCHANGED view /\ failures' = failures \ {v} /\ window = "open"
        /\ selected' = IF selected = camera[v] THEN NoCamera ELSE selected
    BY <1>3 DEF DeliverFailure
  <2>2. MonitorTypeOK'
    BY <1>1, <2>1 DEF MonitorInv, MonitorTypeOK
  <2>3. SelectionIsLive'
    BY <1>1, <2>1 DEF MonitorInv, SelectionIsLive
  <2> QED
    BY <1>1, <2>1, <2>2, <2>3 DEF MonitorInv, RunningIsHeld, DialSilencesMonitor
<1> QED
  BY <1>2, <1>3

\* No step of the page, the controller or a call spoils the invariant.
LEMMA MonitorNextInv == MonitorInv /\ [MonitorNext]_allVars => MonitorInv'
<1> SUFFICES ASSUME MonitorInv, [MonitorNext]_allVars PROVE MonitorInv'
  OBVIOUS
<1>1. CASE UNCHANGED allVars
  BY <1>1, SessionStepInv DEF allVars, vars, uiVars, appVars
<1>2. CASE CallTakesPicture /\ UNCHANGED <<page, camera, failures>>
  BY <1>2, ResetInv DEF CallTakesPicture, MonitorInv, MonitorTypeOK
<1>3. CASE RestOfSession /\ UNCHANGED monitorVars
  BY <1>3, RestKeepsDialled, SessionStepInv
<1>4. CASE CloseWindow /\ UNCHANGED <<page, selected, current, view, camera>>
  <2>1. window' = "joining" /\ failures' = {} /\ UNCHANGED <<phase, dir>>
    BY <1>4 DEF CloseWindow, UserClose, appVars
  <2> QED
    BY <1>4, <2>1 DEF MonitorInv, MonitorTypeOK, RunningIsHeld, SelectionIsLive,
                      DialSilencesMonitor
<1>5. CASE Exited /\ UNCHANGED monitorVars
  BY <1>5, SessionStepInv DEF Exited, vars, uiVars, appVars
<1>6. CASE OpenPage
  BY <1>6 DEF OpenPage, vars, uiVars, appVars, MonitorInv, MonitorTypeOK, RunningIsHeld,
              SelectionIsLive, DialSilencesMonitor
<1>7. CASE LeavePage
  BY <1>7, ResetInv DEF LeavePage
<1>8. CASE \E v \in Views : ViewFails(v) \/ PostFailure(v) \/ DeliverFailure(v)
  BY <1>8, FailureInv
<1>9. CASE \E v \in Views, cam \in Cameras : Select(v, cam)
  BY <1>9, SelectInv
<1> QED
  BY <1>1, <1>2, <1>3, <1>4, <1>5, <1>6, <1>7, <1>8, <1>9 DEF MonitorNext

\* What the camera page holds, runs and highlights agree in every reachable
\* state, beside any call (camera/mod.rs).
THEOREM MonitorInvariant == MonitorSpec => []MonitorInv
<1> QED
  BY MonitorInitInv, MonitorNextInv, PTL DEF MonitorSpec

(* At most one camera runs, the one the controller can still stop.         *)
THEOREM OneCameraAtATime == MonitorSpec => []RunningIsHeld
<1>1. MonitorInv => RunningIsHeld
  BY DEF MonitorInv
<1> QED
  BY <1>1, MonitorInvariant, PTL

(* The highlighted camera runs, or its failure is on its way.              *)
THEOREM HighlightIsLive == MonitorSpec => []SelectionIsLive
<1>1. MonitorInv => SelectionIsLive
  BY DEF MonitorInv
<1> QED
  BY <1>1, MonitorInvariant, PTL

(* No camera runs under a call the user dialled.                           *)
THEOREM DialSilences == MonitorSpec => []DialSilencesMonitor
<1>1. MonitorInv => DialSilencesMonitor
  BY DEF MonitorInv
<1> QED
  BY <1>1, MonitorInvariant, PTL
=============================================================================

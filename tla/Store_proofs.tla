---------------------------- MODULE Store_proofs ----------------------------
(***************************************************************************)
(* The database file, for any devices, savers, contacts, calls and limits: *)
(* the table of cameras (Cameras) and those of the call records and the    *)
(* contacts (CallLog).  No statement of one touches a table of the other.  *)
(***************************************************************************)
EXTENDS CallLog, Cameras, FiniteSetTheorems, WellFoundedInduction, TLAPS

-----------------------------------------------------------------------------
(* Part 1.  Cameras.                                                       *)

Offered == [host : Hosts \cup {NoHost}, kind : Kinds]
Row == [id : Nat, host : Hosts \cup {NoHost}, kind : Kinds]
Decision == [do : {"insert", "update", "skip"}, id : Nat]
Thread == [at : {"none", "asking", "merging", "adding", "writing", "listing", "saved", "failed"},
           camera : Offered, victims : SUBSET Row, decision : Decision, list : SUBSET Row]

CamerasTypeOK ==
    /\ cameras \subseteq Row /\ lastCamera \in Nat /\ adds \in Nat
    /\ shown \subseteq Row
    /\ page \in [at : {"none", "write", "refresh"}, camera : Offered, decision : Decision]
    /\ thread \in [Openers -> Thread]

(* An id is given out once, to one device.                                 *)
IdsAreUnique ==
    /\ \A r \in cameras : r.id <= lastCamera
    /\ \A r, s \in cameras : r.id = s.id => r = s

(* What was read earlier: the rows and the id of a row to be updated.      *)
Means(id, host) ==
    /\ id <= lastCamera
    /\ \A c \in cameras : c.id = id => c.host = host

RowsMean(rs) == \A r \in rs : Means(r.id, r.host)

DecisionMeans(d, camera) == d.do = "update" => Means(d.id, camera.host)

ReadEarlier ==
    /\ RowsMean(shown)
    /\ DecisionMeans(page.decision, page.camera)
    /\ \A t \in Openers :
          /\ RowsMean(thread[t].victims) /\ RowsMean(thread[t].list)
          /\ thread[t].at = "writing" => DecisionMeans(thread[t].decision, thread[t].camera)

CamerasInv == CamerasTypeOK /\ IdsAreUnique /\ ReadEarlier

(* A step that gives no old id to another device keeps what ids mean.      *)
IdsKeep ==
    /\ lastCamera' >= lastCamera
    /\ \A c \in cameras' : c.id > lastCamera \/ \E old \in cameras : old.id = c.id /\ old.host = c.host

\* An id that means a device goes on meaning it.
LEMMA MeansKept ==
  ASSUME CamerasTypeOK, CamerasTypeOK', IdsKeep, NEW id \in Nat, NEW host, Means(id, host)
  PROVE  Means(id, host)'
BY DEF CamerasTypeOK, IdsKeep, Means, Row

\* Rows that were read go on meaning their devices.
LEMMA RowsKept ==
  ASSUME CamerasTypeOK, CamerasTypeOK', IdsKeep, NEW rs \in SUBSET Row, RowsMean(rs)
  PROVE  \A r \in rs : Means(r.id, r.host)'
BY MeansKept DEF RowsMean, Row

(* The rows of the table mean their devices, and so does what is decided   *)
(* on them.                                                                *)
LEMMA TableMeans ==
  ASSUME CamerasTypeOK, IdsAreUnique
  PROVE  /\ RowsMean(cameras)
         /\ \A camera \in Offered : \A d \in Decisions(cameras, camera) :
                d \in Decision /\ DecisionMeans(d, camera)
<1>1. RowsMean(cameras)
  BY DEF RowsMean, Means, IdsAreUnique
<1>2. ASSUME NEW camera \in Offered, NEW d \in Decisions(cameras, camera)
      PROVE  d \in Decision /\ DecisionMeans(d, camera)
  BY <1>1, <1>2 DEF Decisions, DecisionMeans, Decision, SameHost, RowsMean, CamerasTypeOK, Row
<1> QED
  BY <1>1, <1>2

(* Carrying out a decision on a table that may have changed since.         *)
LEMMA CarryKeeps ==
  ASSUME CamerasTypeOK, IdsAreUnique, NEW camera \in Offered, NEW d \in Decision,
         DecisionMeans(d, camera), Carry(camera, d)
  PROVE  cameras' \subseteq Row /\ lastCamera' \in Nat /\ IdsAreUnique' /\ IdsKeep
<1> USE DEF CamerasTypeOK, IdsAreUnique, IdsKeep, Row, Offered
<1>1. CASE d.do = "insert"
  <2> DEFINE new == [id |-> lastCamera + 1, host |-> camera.host, kind |-> camera.kind]
  <2>1. lastCamera' = lastCamera + 1 /\ cameras' = cameras \cup {new}
    BY <1>1 DEF Carry, NextCamera
  <2>2. new \in Row /\ new.id = lastCamera + 1
    OBVIOUS
  <2> QED
    BY <2>1, <2>2
<1>2. CASE d.do = "update"
  <2> DEFINE new == [id |-> d.id, host |-> camera.host, kind |-> camera.kind]
  <2>1. lastCamera' = lastCamera /\ cameras' = { IF r.id = d.id THEN new ELSE r : r \in cameras }
    BY <1>2 DEF Carry
  <2>2. new \in Row /\ new.id = d.id /\ new.host = camera.host
    BY DEF Decision
  <2>3. \A c \in cameras : c.id = d.id => c.host = camera.host
    BY <1>2 DEF DecisionMeans, Means
  <2> HIDE DEF new
  <2>4. \A c \in cameras' : \E old \in cameras : old.id = c.id /\ old.host = c.host
                                 /\ (c = old \/ (c = new /\ old.id = d.id))
    BY <2>1, <2>2, <2>3
  <2>5. cameras' \subseteq Row
    BY <2>1, <2>2
  <2> QED
    BY <2>1, <2>2, <2>4, <2>5
<1>3. CASE d.do = "skip"
  BY <1>3 DEF Carry, table
<1> QED
  BY <1>1, <1>2, <1>3 DEF Decision

\* A step that leaves the table alone keeps its ids.
LEMMA TableUntouched ==
  ASSUME CamerasTypeOK, IdsAreUnique, UNCHANGED table
  PROVE  cameras' \subseteq Row /\ lastCamera' \in Nat /\ IdsAreUnique' /\ IdsKeep
BY DEF CamerasTypeOK, IdsAreUnique, IdsKeep, table, Row

\* Deleting a row gives no id to another device.
LEMMA RowsDeleted ==
  ASSUME CamerasTypeOK, IdsAreUnique, NEW id,
         cameras' = { c \in cameras : c.id # id }, UNCHANGED lastCamera
  PROVE  cameras' \subseteq Row /\ lastCamera' \in Nat /\ IdsAreUnique' /\ IdsKeep
BY DEF CamerasTypeOK, IdsAreUnique, IdsKeep, Row

(* A step may remember what was remembered already, and rows of the table. *)
OldOrRead(rs) == \A r \in rs : Means(r.id, r.host) \/ r \in cameras'

\* What threads and the page remember was read before, or is read now.
LEMMA MemoryKept ==
  ASSUME CamerasTypeOK, CamerasTypeOK', IdsKeep, IdsAreUnique',
         OldOrRead(shown'), DecisionMeans(page'.decision, page'.camera),
         \A t \in Openers :
            /\ OldOrRead(thread'[t].victims) /\ OldOrRead(thread'[t].list)
            /\ thread'[t].at = "writing" => DecisionMeans(thread'[t].decision, thread'[t].camera)
  PROVE  ReadEarlier'
<1>1. \A id \in Nat : \A host : Means(id, host) => Means(id, host)'
  BY MeansKept
<1>2. \A r \in cameras' : Means(r.id, r.host)'
  BY DEF IdsAreUnique, Means
<1>3. ASSUME NEW rs \in SUBSET Row, OldOrRead(rs)
      PROVE  \A r \in rs : Means(r.id, r.host)'
  BY <1>1, <1>2, <1>3 DEF OldOrRead, Row
<1>4. ASSUME NEW d \in Decision, NEW camera, DecisionMeans(d, camera)
      PROVE  d.do = "update" => Means(d.id, camera.host)'
  BY <1>1, <1>4 DEF DecisionMeans, Decision
<1>5. RowsMean(shown)'
  BY <1>3 DEF RowsMean, CamerasTypeOK
<1>6. DecisionMeans(page.decision, page.camera)'
  BY <1>4 DEF DecisionMeans, CamerasTypeOK
<1>7. ASSUME NEW t \in Openers
      PROVE  /\ RowsMean(thread[t].victims)' /\ RowsMean(thread[t].list)'
             /\ (thread[t].at = "writing" => DecisionMeans(thread[t].decision, thread[t].camera))'
  <2>1. thread'[t].victims \in SUBSET Row /\ thread'[t].list \in SUBSET Row
        /\ thread'[t].decision \in Decision
    BY DEF CamerasTypeOK, Thread
  <2> QED
    BY <1>3, <1>4, <2>1 DEF RowsMean, DecisionMeans
<1> QED
  BY <1>5, <1>6, <1>7 DEF ReadEarlier

\* What is remembered goes on meaning what it meant.
LEMMA MemoryUnchanged ==
  ASSUME CamerasInv, CamerasTypeOK', IdsKeep, IdsAreUnique',
         UNCHANGED shown,
         \/ page'.decision = page.decision /\ page'.camera = page.camera
         \/ page'.decision.do = "skip",
         \A t \in Openers :
            /\ thread'[t].victims \subseteq thread[t].victims
            /\ thread'[t].list = thread[t].list
            /\ thread'[t].at = "writing" => thread[t].at = "writing"
            /\ thread'[t].decision = thread[t].decision /\ thread'[t].camera = thread[t].camera
  PROVE  ReadEarlier'
<1>1. DecisionMeans(page'.decision, page'.camera)
  BY DEF CamerasInv, ReadEarlier, DecisionMeans
<1>2. OldOrRead(shown')
  BY DEF CamerasInv, ReadEarlier, RowsMean, OldOrRead
<1>3. ASSUME NEW t \in Openers
      PROVE  /\ OldOrRead(thread'[t].victims) /\ OldOrRead(thread'[t].list)
             /\ thread'[t].at = "writing" => DecisionMeans(thread'[t].decision, thread'[t].camera)
  BY DEF CamerasInv, ReadEarlier, RowsMean, OldOrRead
<1> QED
  BY <1>1, <1>2, <1>3, MemoryKept DEF CamerasInv

(* Steps of the UI thread.                                                 *)
LEMMA PageStep ==
  ASSUME CamerasInv, PageWorks \/ (\E host \in Hosts \cup {NoHost} : AddCamera(host))
                        \/ \E r \in shown : DeleteCamera(r)
  PROVE  CamerasInv'
<1> USE DEF CamerasInv
<1>t. \A t \in Openers : /\ thread[t].victims \subseteq Row /\ thread[t].list \subseteq Row
  BY DEF CamerasTypeOK, Thread
<1>1. CASE AddWrites
  <2>1. page.camera \in Offered /\ page.decision \in Decision /\ DecisionMeans(page.decision, page.camera)
    BY DEF CamerasTypeOK, ReadEarlier
  <2>2. cameras' \subseteq Row /\ lastCamera' \in Nat /\ IdsAreUnique' /\ IdsKeep
    BY <1>1, <2>1, CarryKeeps DEF AddWrites
  <2>3. page' \in [at : {"none", "write", "refresh"}, camera : Offered, decision : Decision]
        /\ page'.decision.do = "skip"
    BY <1>1 DEF AddWrites, Rest, NoThread, Offered, Kinds, Decision
  <2>4. CamerasTypeOK'
    BY <1>1, <2>2, <2>3 DEF CamerasTypeOK, AddWrites
  <2> QED
    BY <1>1, <2>2, <2>3, <2>4, MemoryUnchanged DEF AddWrites
<1>5. CASE AddFails
  <2>1. cameras' \subseteq Row /\ lastCamera' \in Nat /\ IdsAreUnique' /\ IdsKeep
    BY <1>5, TableUntouched DEF AddFails
  <2>2. page' \in [at : {"none", "write", "refresh"}, camera : Offered, decision : Decision]
        /\ page'.decision.do = "skip"
    BY <1>5 DEF AddFails, Rest, NoThread, Offered, Kinds, Decision
  <2>3. CamerasTypeOK'
    BY <1>5, <2>1, <2>2 DEF CamerasTypeOK, AddFails
  <2> QED
    BY <1>5, <2>1, <2>2, <2>3, MemoryUnchanged DEF AddFails
<1>2. CASE RefreshCameras
  <2>1. cameras' \subseteq Row /\ lastCamera' \in Nat /\ IdsAreUnique' /\ IdsKeep
    BY <1>2, TableUntouched DEF RefreshCameras
  <2>2. Rest \in [at : {"none", "write", "refresh"}, camera : Offered, decision : Decision]
        /\ Rest.decision.do = "skip"
    BY DEF Rest, NoThread, Offered, Kinds, Decision
  <2>3. CamerasTypeOK'
    BY <1>2, <2>1, <2>2 DEF CamerasTypeOK, RefreshCameras
  <2>4. OldOrRead(shown') /\ DecisionMeans(page'.decision, page'.camera)
    BY <1>2, <2>2 DEF RefreshCameras, OldOrRead, DecisionMeans, ReadEarlier, RowsMean, table
  <2>5. \A t \in Openers : /\ OldOrRead(thread'[t].victims) /\ OldOrRead(thread'[t].list)
                           /\ thread'[t].at = "writing" =>
                                DecisionMeans(thread'[t].decision, thread'[t].camera)
    BY <1>2 DEF RefreshCameras, ReadEarlier, RowsMean, OldOrRead
  <2> QED
    BY <2>1, <2>3, <2>4, <2>5, MemoryKept
<1>3. ASSUME NEW host \in Hosts \cup {NoHost}, AddCamera(host) PROVE CamerasInv'
  <2> DEFINE camera == [host |-> host, kind |-> ""]
  <2>1. cameras' \subseteq Row /\ lastCamera' \in Nat /\ IdsAreUnique' /\ IdsKeep
    BY <1>3, TableUntouched DEF AddCamera
  <2>2. camera \in Offered
    BY DEF Offered, Kinds
  <2>3. PICK d \in Decisions(cameras, camera) :
            page' = [at |-> "write", camera |-> camera, decision |-> d]
    BY <1>3 DEF AddCamera
  <2>4. d \in Decision /\ DecisionMeans(d, camera)
    BY <2>2, <2>3, TableMeans
  <2> HIDE DEF camera
  <2>p. page' \in [at : {"none", "write", "refresh"}, camera : Offered, decision : Decision]
    BY <2>2, <2>3, <2>4
  <2>e. shown' = shown /\ thread' = thread /\ adds' = adds + 1
    BY <1>3 DEF AddCamera
  <2>5. CamerasTypeOK'
    BY <2>1, <2>p, <2>e DEF CamerasTypeOK
  <2>6. OldOrRead(shown') /\ DecisionMeans(page'.decision, page'.camera)
    BY <1>3, <2>3, <2>4 DEF AddCamera, OldOrRead, ReadEarlier, RowsMean
  <2>7. \A t \in Openers : /\ OldOrRead(thread'[t].victims) /\ OldOrRead(thread'[t].list)
                           /\ thread'[t].at = "writing" =>
                                DecisionMeans(thread'[t].decision, thread'[t].camera)
    BY <1>3 DEF AddCamera, ReadEarlier, RowsMean, OldOrRead
  <2> QED
    BY <2>1, <2>5, <2>6, <2>7, MemoryKept
<1>4. ASSUME NEW r \in shown, DeleteCamera(r) PROVE CamerasInv'
  <2>1. cameras' \subseteq Row /\ lastCamera' \in Nat /\ IdsAreUnique' /\ IdsKeep
    <3>1. CASE cameras' = { c \in cameras : c.id # r.id }
      BY <1>4, <3>1, RowsDeleted DEF DeleteCamera
    <3>2. CASE cameras' = cameras
      BY <1>4, <3>2, TableUntouched DEF DeleteCamera, table
    <3> QED
      BY <1>4, <3>1, <3>2 DEF DeleteCamera
  <2>2. page' \in [at : {"none", "write", "refresh"}, camera : Offered, decision : Decision]
        /\ page'.decision.do = "skip"
    BY <1>4 DEF DeleteCamera, Rest, NoThread, Offered, Kinds, Decision
  <2>3. CamerasTypeOK'
    BY <1>4, <2>1, <2>2 DEF CamerasTypeOK, DeleteCamera
  <2> QED
    BY <1>4, <2>1, <2>2, <2>3, MemoryUnchanged DEF DeleteCamera
<1> QED
  BY <1>1, <1>2, <1>3, <1>4, <1>5 DEF PageWorks

(* Steps of the threads: one thread changes, and perhaps the table.        *)
LEMMA ThreadBecomes ==
  ASSUME CamerasInv, NEW t \in Openers, NEW new \in Thread, thread' = [thread EXCEPT ![t] = new],
         shown' \subseteq Row, OldOrRead(shown'), UNCHANGED page, adds' \in Nat,
         cameras' \subseteq Row /\ lastCamera' \in Nat /\ IdsAreUnique' /\ IdsKeep,
         OldOrRead(new.victims), OldOrRead(new.list),
         new.at = "writing" => DecisionMeans(new.decision, new.camera)
  PROVE  CamerasInv'
<1> USE DEF CamerasInv
<1>1. CamerasTypeOK'
  BY DEF CamerasTypeOK
<1>2. DecisionMeans(page'.decision, page'.camera)
  BY DEF ReadEarlier
<1>3. ASSUME NEW o \in Openers
      PROVE  /\ OldOrRead(thread'[o].victims) /\ OldOrRead(thread'[o].list)
             /\ thread'[o].at = "writing" => DecisionMeans(thread'[o].decision, thread'[o].camera)
  <2>1. thread'[o] = IF o = t THEN new ELSE thread[o]
    BY DEF CamerasTypeOK
  <2>2. OldOrRead(thread[o].victims) /\ OldOrRead(thread[o].list)
        /\ (thread[o].at = "writing" => DecisionMeans(thread[o].decision, thread[o].camera))
    BY DEF ReadEarlier, RowsMean, OldOrRead
  <2> QED
    BY <2>1, <2>2
<1> QED
  BY <1>1, <1>2, <1>3, MemoryKept

\* The threads that save and merge keep the invariant.
LEMMA ThreadStep ==
  ASSUME CamerasInv, NEW t \in Openers, ApplySaved(t) \/ SaveDiscovered(t) \/ ThreadWorks(t)
  PROVE  CamerasInv'
<1> USE DEF CamerasInv
<1> DEFINE th == thread[t]
<1>1. /\ th \in Thread /\ CamerasTypeOK /\ shown \subseteq Row /\ adds \in Nat /\ th.camera \in Offered
      /\ th.victims \subseteq Row /\ th.list \subseteq Row /\ th.decision \in Decision
      /\ thread = [o \in Openers |-> thread[o]]
  BY DEF CamerasTypeOK, Thread
<1>2. /\ OldOrRead(shown) /\ OldOrRead(th.victims) /\ OldOrRead(th.list)
      /\ th.at = "writing" => DecisionMeans(th.decision, th.camera)
  BY DEF ReadEarlier, RowsMean, OldOrRead
<1>3. UNCHANGED table => cameras' \subseteq Row /\ lastCamera' \in Nat /\ IdsAreUnique' /\ IdsKeep
                            /\ cameras' = cameras
  BY TableUntouched DEF table
<1>at. ASSUME NEW at \in {"none", "adding"},
              ThreadAt(t, at), UNCHANGED <<shown, page, adds>>,
              cameras' \subseteq Row /\ lastCamera' \in Nat /\ IdsAreUnique' /\ IdsKeep
       PROVE  CamerasInv'
  <2> DEFINE new == [th EXCEPT !.at = at]
  <2>1. thread' = [thread EXCEPT ![t] = new]
    BY <1>at DEF ThreadAt
  <2>2. new \in Thread /\ new.victims = th.victims /\ new.list = th.list /\ new.at # "writing"
    BY <1>1 DEF Thread
  <2> HIDE DEF new, th
  <2> QED
    BY <1>at, <1>1, <1>2, <2>1, <2>2, ThreadBecomes
<1>no. ASSUME NEW at \in {"none", "listing", "failed"},
              ThreadForgets(t, at), UNCHANGED <<shown, page, adds>>,
              cameras' \subseteq Row /\ lastCamera' \in Nat /\ IdsAreUnique' /\ IdsKeep
       PROVE  CamerasInv'
  <2> DEFINE new == [NoThread EXCEPT !.at = at]
  <2>1. thread' = [thread EXCEPT ![t] = new]
    BY <1>no DEF ThreadForgets
  <2>2. new \in Thread /\ new.victims = {} /\ new.list = {} /\ new.at # "writing"
    BY DEF NoThread, Thread, Offered, Kinds, Decision
  <2> HIDE DEF new, th
  <2>3. OldOrRead(new.victims) /\ OldOrRead(new.list)
    BY <2>2 DEF OldOrRead
  <2> QED
    BY <1>no, <1>1, <1>2, <2>1, <2>2, <2>3, ThreadBecomes
<1>4. CASE ApplySaved(t)
  <2>1. NoThread \in Thread /\ NoThread.victims = {} /\ NoThread.list = {} /\ NoThread.at # "writing"
    BY DEF NoThread, Thread, Offered, Kinds, Decision
  <2>2. shown' \subseteq Row /\ OldOrRead(shown')
    BY <1>1, <1>2, <1>4 DEF ApplySaved
  <2>3. thread' = [thread EXCEPT ![t] = NoThread] /\ UNCHANGED <<page, adds>> /\ UNCHANGED table
    BY <1>4 DEF ApplySaved
  <2>4. OldOrRead(NoThread.victims) /\ OldOrRead(NoThread.list)
    BY <2>1 DEF OldOrRead
  <2> QED
    BY <1>1, <1>3, <2>1, <2>2, <2>3, <2>4, ThreadBecomes
<1>5. CASE SaveDiscovered(t)
  <2>1. PICK c \in Found : thread' = [thread EXCEPT ![t].at = "asking", ![t].camera = c]
    BY <1>5 DEF SaveDiscovered
  <2> DEFINE new == [th EXCEPT !.at = "asking", !.camera = c]
  <2>2. UNCHANGED <<shown, page>> /\ UNCHANGED table /\ adds' = adds + 1
    BY <1>5 DEF SaveDiscovered
  <2>3. thread' = [thread EXCEPT ![t] = new]
    BY <2>1
  <2>4. c \in Offered
    BY CamerasAssumption DEF Offered
  <2>5. new \in Thread /\ new.victims = th.victims /\ new.list = th.list /\ new.at # "writing"
    BY <1>1, <2>4 DEF Thread
  <2> HIDE DEF new, th
  <2> QED
    BY <1>1, <1>2, <1>3, <2>2, <2>3, <2>5, ThreadBecomes
<1>6. CASE ThreadFails(t)
  <2>1. UNCHANGED <<shown, page, adds>> /\ UNCHANGED table
    BY <1>6 DEF ThreadFails
  <2>2. ThreadForgets(t, "none") \/ ThreadForgets(t, "failed")
    BY <1>6 DEF ThreadFails
  <2> QED
    BY <1>3, <1>no, <2>1, <2>2
<1>7. CASE OpenStore(t)
  <2> DEFINE new == [th EXCEPT !.at = "merging", !.victims = Victims(cameras)]
  <2>1. UNCHANGED <<shown, page, adds>> /\ UNCHANGED table /\ thread' = [thread EXCEPT ![t] = new]
    BY <1>7 DEF OpenStore
  <2>2. Victims(cameras) \subseteq cameras
    BY DEF Victims
  <2>3. new \in Thread /\ new.victims = Victims(cameras) /\ new.list = th.list /\ new.at # "writing"
    BY <1>1, <2>2 DEF Thread, CamerasTypeOK
  <2>4. OldOrRead(new.victims)
    BY <1>3, <2>1, <2>2, <2>3 DEF OldOrRead
  <2> HIDE DEF new, th
  <2> QED
    BY <1>1, <1>2, <1>3, <2>1, <2>3, <2>4, ThreadBecomes
<1>8. CASE MergeRow(t)
  <2>1. PICK v \in th.victims : /\ cameras' = { c \in cameras : c.id # v.id }
                                /\ thread' = [thread EXCEPT ![t].victims = @ \ {v}]
    BY <1>8 DEF MergeRow
  <2> DEFINE new == [th EXCEPT !.victims = @ \ {v}]
  <2>2. UNCHANGED lastCamera /\ UNCHANGED <<shown, page, adds>> /\ thread' = [thread EXCEPT ![t] = new]
        /\ th.at # "writing"
    BY <1>8, <2>1 DEF MergeRow
  <2>3. new \in Thread /\ new.victims = th.victims \ {v} /\ new.list = th.list /\ new.at = th.at
    BY <1>1 DEF Thread
  <2>4. cameras' \subseteq Row /\ lastCamera' \in Nat /\ IdsAreUnique' /\ IdsKeep
    BY <2>1, <2>2, RowsDeleted
  <2>5. OldOrRead(new.victims)
    BY <1>2, <2>3 DEF OldOrRead
  <2> HIDE DEF new, th
  <2> QED
    BY <1>1, <1>2, <2>2, <2>3, <2>4, <2>5, ThreadBecomes
<1>9. CASE Merged(t)
  <2>1. UNCHANGED <<shown, page, adds>> /\ UNCHANGED table
    BY <1>9 DEF Merged
  <2>2. ThreadAt(t, "none") \/ ThreadAt(t, "adding")
    BY <1>9 DEF Merged
  <2> QED
    BY <1>3, <1>at, <2>1, <2>2
<1>10. CASE SaveReads(t)
  <2>1. PICK d \in Decisions(cameras, th.camera) :
            thread' = [thread EXCEPT ![t].at = "writing", ![t].decision = d]
    BY <1>10 DEF SaveReads
  <2> DEFINE new == [th EXCEPT !.at = "writing", !.decision = d]
  <2>2. UNCHANGED <<shown, page, adds>> /\ UNCHANGED table
    BY <1>10 DEF SaveReads
  <2>3. thread' = [thread EXCEPT ![t] = new]
    BY <2>1
  <2>4. d \in Decision /\ DecisionMeans(d, th.camera)
    BY <1>1, <2>1, TableMeans
  <2>5. new \in Thread /\ new.victims = th.victims /\ new.list = th.list
        /\ new.decision = d /\ new.camera = th.camera
    BY <1>1, <2>4 DEF Thread
  <2> HIDE DEF new, th
  <2> QED
    BY <1>1, <1>2, <1>3, <2>2, <2>3, <2>4, <2>5, ThreadBecomes
<1>11. CASE SaveWrites(t)
  <2>1. /\ th.at = "writing" /\ Carry(th.camera, th.decision) /\ ThreadForgets(t, "listing")
        /\ UNCHANGED <<shown, page, adds>>
    BY <1>11 DEF SaveWrites
  <2>2. cameras' \subseteq Row /\ lastCamera' \in Nat /\ IdsAreUnique' /\ IdsKeep
    BY <1>1, <1>2, <2>1, CarryKeeps
  <2> QED
    BY <1>no, <2>1, <2>2
<1>12. CASE SaveLists(t)
  <2> DEFINE new == [th EXCEPT !.at = "saved", !.list = cameras]
  <2>1. UNCHANGED <<shown, page, adds>> /\ UNCHANGED table /\ thread' = [thread EXCEPT ![t] = new]
    BY <1>12 DEF SaveLists
  <2>2. new \in Thread /\ new.victims = th.victims /\ new.list = cameras /\ new.at # "writing"
    BY <1>1 DEF Thread, CamerasTypeOK
  <2>3. OldOrRead(new.list)
    BY <1>3, <2>1, <2>2 DEF OldOrRead
  <2> HIDE DEF new, th
  <2> QED
    BY <1>1, <1>2, <1>3, <2>1, <2>2, <2>3, ThreadBecomes
<1> QED
  BY <1>4, <1>5, <1>6, <1>7, <1>8, <1>9, <1>10, <1>11, <1>12 DEF ThreadWorks

(* For any devices and savers: what CamerasInv says of ids and of the rows  *)
(* read earlier holds in every state.                                      *)
THEOREM CamerasInvariant == Spec => []CamerasInv
<1>1. Init => CamerasInv
  <2> SUFFICES ASSUME Init PROVE CamerasInv
    OBVIOUS
  <2>1. NoThread \in Thread /\ Rest \in [at : {"none", "write", "refresh"}, camera : Offered, decision : Decision]
    BY DEF NoThread, Rest, Thread, Offered, Kinds, Decision
  <2>2. CamerasTypeOK /\ IdsAreUnique
    BY <2>1 DEF Init, CamerasTypeOK, IdsAreUnique
  <2>3. ReadEarlier
    BY DEF Init, ReadEarlier, RowsMean, DecisionMeans, Rest, NoThread
  <2> QED
    BY <2>2, <2>3 DEF CamerasInv
<1>2. CamerasInv /\ [Next]_vars => CamerasInv'
  <2> SUFFICES ASSUME CamerasInv, [Next]_vars PROVE CamerasInv'
    OBVIOUS
  <2>1. CASE UNCHANGED vars
    BY <2>1 DEF vars, table, CamerasInv, CamerasTypeOK, IdsAreUnique, ReadEarlier, RowsMean, DecisionMeans, Means
  <2>2. CASE Next
    BY <2>2, PageStep, ThreadStep DEF Next
  <2> QED
    BY <2>1, <2>2
<1> QED
  BY <1>1, <1>2, PTL DEF Spec

(* A row read earlier names its device still, or none (IdMeansItsDevice).  *)
THEOREM IdsNameDevices == Spec => []IdMeansItsDevice
<1>1. CamerasInv => IdMeansItsDevice
  BY DEF CamerasInv, ReadEarlier, RowsMean, Means, IdMeansItsDevice
<1> QED
  BY <1>1, CamerasInvariant, PTL

-----------------------------------------------------------------------------
(* The merge.                                                              *)
LEMMA SmallestId ==
  ASSUME NEW T \in SUBSET Nat, T # {}
  PROVE  \E m \in T : \A n \in T : m <= n
<1>1. PICK m \in T : \A n \in T : ~ (<<n, m>> \in OpToRel(<, Nat))
  BY NatLessThanWellFounded, WFMin
<1>2. \A n \in T : ~ (n < m)
  BY <1>1 DEF OpToRel
<1> QED
  BY <1>2

\* The kinds of address are ranked.
LEMMA Ranks == \A kind : KindRank(kind) \in 0..2
<1>1. \A kind : KindRank(kind) = 2 \/ KindRank(kind) = 1 \/ KindRank(kind) = 0
  BY Zenon DEF KindRank
<1> QED
  BY <1>1

(* Of some rows with different ids one is kept before all others.          *)
LEMMA BestRow ==
  ASSUME NEW rs \in SUBSET Row, rs # {}
  PROVE  \E r \in rs : \A s \in rs : Keeps(r, s)
<1> DEFINE Top == { r \in rs : \A s \in rs : KindRank(s.kind) <= KindRank(r.kind) }
<1>1. \A r \in rs : KindRank(r.kind) \in 0..2
  BY Ranks
<1>2. Top # {}
  BY <1>1
<1>3. { r.id : r \in Top } \subseteq Nat /\ { r.id : r \in Top } # {}
  BY <1>2 DEF Row
<1>4. PICK m \in { r.id : r \in Top } : \A n \in { r.id : r \in Top } : m <= n
  BY <1>3, SmallestId
<1>5. PICK r \in Top : r.id = m
  BY <1>4
<1>6. ASSUME NEW s \in rs PROVE Keeps(r, s)
  <2>1. KindRank(s.kind) <= KindRank(r.kind) /\ KindRank(s.kind) \in 0..2 /\ KindRank(r.kind) \in 0..2
    BY <1>1, <1>5
  <2>2. CASE s \in Top
    BY <1>4, <1>5, <2>1, <2>2 DEF Keeps
  <2>3. CASE s \notin Top
    <3>1. KindRank(s.kind) # KindRank(r.kind)
      BY <1>5, <2>3
    <3> QED
      BY <2>1, <3>1 DEF Keeps
  <2> QED
    BY <2>2, <2>3
<1> QED
  BY <1>5, <1>6

(* Whatever rows the savings have left, opening the store makes one of      *)
(* them per device, its best (MergeLeavesTheBest).                         *)
THEOREM MergeKeepsTheBest == Spec => []MergeLeavesTheBest
<1>1. ASSUME CamerasInv, NEW host \in Hosts, SameHost(cameras, host) # {}
      PROVE  \E r \in SameHost(cameras, host) \ Victims(cameras) :
                /\ SameHost(cameras, host) \ Victims(cameras) = {r}
                /\ \A s \in SameHost(cameras, host) : KindRank(s.kind) <= KindRank(r.kind)
  <2> DEFINE rs == SameHost(cameras, host)
  <2>1. rs \subseteq Row /\ rs \subseteq cameras
    BY <1>1 DEF CamerasInv, CamerasTypeOK, SameHost
  <2>2. PICK r \in rs : \A s \in rs : Keeps(r, s)
    BY <1>1, <2>1, BestRow
  <2>3. \A s \in rs : SameHost(cameras, s.host) = rs
    BY CamerasAssumption DEF SameHost
  <2>4. r \notin Victims(cameras)
    BY <2>2, <2>3 DEF Victims
  <2>5. \A s \in rs : KindRank(s.kind) \in 0..2 /\ s.id \in Nat
    BY <2>1, Ranks DEF Row
  <2>6. ASSUME NEW s \in rs, s # r PROVE s \in Victims(cameras)
    <3>1. s.id # r.id
      BY <1>1, <2>1, <2>2, <2>6 DEF CamerasInv, IdsAreUnique
    <3>2. ~Keeps(s, r)
      BY <2>2, <2>5, <3>1 DEF Keeps
    <3> QED
      BY <2>1, <2>2, <2>3, <3>2 DEF Victims
  <2>7. \A s \in rs : KindRank(s.kind) <= KindRank(r.kind)
    BY <2>2, <2>5 DEF Keeps
  <2> QED
    BY <2>2, <2>4, <2>6, <2>7
<1>2. CamerasInv => MergeLeavesTheBest
  BY <1>1 DEF MergeLeavesTheBest
<1> QED
  BY <1>2, CamerasInvariant, PTL

-----------------------------------------------------------------------------
(* Part 2.  Call records.                                                  *)

JobType == [kind : {"idle", "refresh"}] \cup [kind : {"insert", "trim"}, records : Seq(Nat)]

LogTypeOK ==
    /\ process \in {"running", "closing", "down"} /\ recorded \in Nat /\ hidden \in Nat
    /\ callLog \in Seq(Nat) /\ unsaved \in Seq(Nat) /\ rows \in Seq(Nat)
    /\ lost \subseteq Nat /\ job \in JobType

Below(S, T) == \A x \in S, y \in T : x < y

(* Records are numbered as they are made, and move from unsaved through a  *)
(* job to the rows without overtaking one another.                         *)
InOrder ==
    /\ Increasing(rows) /\ Increasing(Pending) /\ Increasing(unsaved)
    /\ Below(ToSet(rows), ToSet(Pending)) /\ Below(ToSet(rows), ToSet(unsaved))
    /\ Below(ToSet(Pending), ToSet(unsaved))
    /\ \A i, j \in DOMAIN callLog : i < j => callLog[i] > callLog[j]

Waiting == ToSet(Pending) \cup ToSet(unsaved)
Keeping == ToSet(rows) \cup Waiting

(* None is newer than the last one made, and none that is kept was lost.   *)
Numbered == \A r \in Keeping \cup ToSet(callLog) \cup lost : r <= recorded
LostIsGone == Keeping \cap lost = {}

(* Nothing is unsaved once the window is gone, nothing waits when all is   *)
(* down.                                                                   *)
Drained ==
    /\ process # "running" => unsaved = << >>
    /\ process = "down" => job = Idle

Listed == ToSet(callLog) \ lost

(* The screen against the table: LogIsTable without its order.             *)
Newest ==
    process = "running" =>
        /\ Listed \subseteq Keeping
        /\ \A l \in Listed, k \in Keeping : l < k => k \in Listed
        /\ (\A k \in Keeping : k \in Listed \/ k <= hidden) \/ Len(callLog) = LogLimit

LogInv ==
    /\ LogTypeOK /\ InOrder /\ Numbered /\ LostIsGone /\ Drained
    /\ Len(callLog) <= LogLimit /\ Newest

(* Sequences.                                                              *)
LEMMA ElementsOf == \A s \in Seq(Nat) : ToSet(s) \subseteq Nat
BY DEF ToSet

\* A record newer than all others keeps the order.
LEMMA AppendFacts ==
  ASSUME NEW s \in Seq(Nat), NEW e \in Nat
  PROVE  /\ Append(s, e) \in Seq(Nat) /\ ToSet(Append(s, e)) = ToSet(s) \cup {e}
         /\ Increasing(s) /\ (\A x \in ToSet(s) : x < e) => Increasing(Append(s, e))
<1> DEFINE a == Append(s, e)
<1>1. a \in Seq(Nat) /\ Len(a) = Len(s) + 1 /\ a[Len(s) + 1] = e
      /\ \A i \in 1..Len(s) : a[i] = s[i]
  OBVIOUS
<1>2. DOMAIN a = 1..(Len(s) + 1) /\ DOMAIN s = 1..Len(s) /\ Len(s) \in Nat
  BY <1>1
<1> HIDE DEF a
<1>3. ToSet(a) = ToSet(s) \cup {e}
  <2>1. ASSUME NEW i \in 1..(Len(s) + 1) PROVE a[i] = e \/ \E j \in 1..Len(s) : a[i] = s[j]
    BY <1>1, <1>2
  <2>2. ASSUME NEW i \in 1..Len(s) PROVE i \in 1..(Len(s) + 1) /\ a[i] = s[i]
    BY <1>1, <1>2
  <2>3. Len(s) + 1 \in 1..(Len(s) + 1)
    BY <1>2
  <2>4. ToSet(a) \subseteq ToSet(s) \cup {e}
    BY <1>2, <2>1 DEF ToSet
  <2>5. \A x \in ToSet(s) : x \in ToSet(a)
    BY <1>2, <2>2, Zenon DEF ToSet
  <2>6. e \in ToSet(a)
    BY <1>1, <1>2, <2>3, Zenon DEF ToSet
  <2> QED
    BY <2>4, <2>5, <2>6
<1>4. ASSUME Increasing(s), \A x \in ToSet(s) : x < e, NEW i \in DOMAIN a, NEW j \in DOMAIN a, i < j
      PROVE  a[i] < a[j]
  <2>1. i \in DOMAIN s /\ (j \in DOMAIN s \/ j = Len(s) + 1)
    BY <1>2, <1>4
  <2>2. a[i] = s[i] /\ s[i] \in ToSet(s)
    BY <1>1, <1>2, <2>1 DEF ToSet
  <2>3. CASE j \in DOMAIN s
    BY <1>1, <1>2, <1>4, <2>1, <2>2, <2>3 DEF Increasing
  <2>4. CASE j = Len(s) + 1
    BY <1>1, <1>4, <2>2, <2>4
  <2> QED
    BY <2>1, <2>3, <2>4
<1>5. Increasing(s) /\ (\A x \in ToSet(s) : x < e) => Increasing(a)
  BY <1>4 DEF Increasing
<1> QED
  BY <1>1, <1>3, <1>5 DEF a

\* What is left of an ordered log is newer than what was taken.
LEMMA TailFacts ==
  ASSUME NEW s \in Seq(Nat), s # << >>
  PROVE  /\ Head(s) \in Nat /\ Tail(s) \in Seq(Nat) /\ ToSet(s) = {Head(s)} \cup ToSet(Tail(s))
         /\ Increasing(s) => Increasing(Tail(s)) /\ \A x \in ToSet(Tail(s)) : Head(s) < x
<1> DEFINE t == Tail(s)
<1>1. t \in Seq(Nat) /\ Len(t) = Len(s) - 1 /\ Head(s) = s[1] /\ s[1] \in Nat
      /\ \A i \in 1..Len(t) : t[i] = s[i + 1]
  OBVIOUS
<1>2. DOMAIN t = 1..Len(t) /\ DOMAIN s = 1..Len(s) /\ Len(s) \in Nat \ {0} /\ Len(t) \in Nat
  BY <1>1
<1> HIDE DEF t
<1>3. ToSet(s) = {s[1]} \cup ToSet(t)
  <2>1. \A i \in 1..Len(s) : i = 1 \/ (i - 1 \in 1..Len(t) /\ s[i] = t[i - 1])
    BY <1>1, <1>2
  <2>2. \A i \in 1..Len(t) : i + 1 \in 1..Len(s) /\ t[i] = s[i + 1]
    BY <1>1, <1>2
  <2>3. \A x \in ToSet(s) : x = s[1] \/ x \in ToSet(t)
    BY <1>2, <2>1 DEF ToSet
  <2>4. \A x \in ToSet(t) : x \in ToSet(s)
    BY <1>2, <2>2, Zenon DEF ToSet
  <2>5. s[1] \in ToSet(s)
    BY <1>2 DEF ToSet
  <2> QED
    BY <2>3, <2>4, <2>5
<1>4. ASSUME Increasing(s) PROVE Increasing(t) /\ \A x \in ToSet(t) : s[1] < x
  <2>1. \A i \in 1..Len(t) : i + 1 \in 1..Len(s) /\ 1 \in 1..Len(s) /\ t[i] = s[i + 1] /\ 1 < i + 1
    BY <1>1, <1>2
  <2>2. ASSUME NEW i \in 1..Len(t), NEW j \in 1..Len(t), i < j PROVE t[i] < t[j]
    <3>1. i + 1 \in DOMAIN s /\ j + 1 \in DOMAIN s /\ i + 1 < j + 1 /\ t[i] = s[i + 1] /\ t[j] = s[j + 1]
      BY <1>2, <2>1, <2>2
    <3> QED
      BY <1>4, <3>1 DEF Increasing
  <2>3. \A i \in 1..Len(t) : s[1] < t[i]
    BY <1>2, <1>4, <2>1 DEF Increasing
  <2>4. Increasing(t)
    BY <1>2, <2>2 DEF Increasing
  <2> QED
    BY <1>2, <2>3, <2>4 DEF ToSet
<1> QED
  BY <1>1, <1>3, <1>4 DEF t

\* The first records of a log.
LEMMA FirstOfFacts ==
  ASSUME NEW s \in Seq(Nat), NEW n \in Nat
  PROVE  /\ FirstOf(n, s) \in Seq(Nat)
         /\ Len(FirstOf(n, s)) = IF Len(s) < n THEN Len(s) ELSE n
         /\ \A i \in 1..Len(FirstOf(n, s)) : FirstOf(n, s)[i] = s[i]
<1>1. Len(s) \in Nat
  OBVIOUS
<1>2. CASE Len(s) < n
  BY <1>1, <1>2 DEF FirstOf
<1>3. CASE Len(s) >= n
  BY <1>1, <1>3 DEF FirstOf
<1> QED
  BY <1>1, <1>2, <1>3

\* The last records of a log.
LEMMA LastOfFacts ==
  ASSUME NEW s \in Seq(Nat), NEW n \in Nat
  PROVE  /\ LastOf(n, s) \in Seq(Nat)
         /\ Len(s) < n => LastOf(n, s) = s
         /\ Len(s) >= n => /\ Len(LastOf(n, s)) = n
                           /\ \A i \in 1..n : LastOf(n, s)[i] = s[Len(s) - n + i]
<1>1. Len(s) \in Nat
  OBVIOUS
<1>2. CASE Len(s) < n
  <2>1. LastOf(n, s) = SubSeq(s, 1, Len(s))
    BY <1>2 DEF LastOf
  <2> QED
    BY <1>1, <1>2, <2>1
<1>3. CASE Len(s) >= n
  <2> DEFINE first == Len(s) - n + 1
  <2>1. ~(Len(s) < n) /\ first \in Nat \ {0} /\ \A i \in 1..n : first + i - 1 = Len(s) - n + i
    BY <1>1, <1>3
  <2>2. LastOf(n, s) = SubSeq(s, first, Len(s))
    BY <2>1 DEF LastOf
  <2>3. /\ SubSeq(s, first, Len(s)) \in Seq(Nat) /\ Len(SubSeq(s, first, Len(s))) = n
        /\ \A i \in 1..n : SubSeq(s, first, Len(s))[i] = s[first + i - 1]
    BY <1>1, <1>3
  <2> QED
    BY <2>1, <2>2, <2>3
<1> QED
  BY <1>1, <1>2, <1>3

(* Different numbers that are all found in a sequence are no more than it  *)
(* is long.                                                                *)
LEMMA NoMoreThanFits ==
  ASSUME NEW s \in Seq(Nat), Increasing(s), NEW t \in Seq(Nat), NEW m \in Nat, m <= Len(s),
         \A i \in (m + 1)..Len(s) : s[i] \in ToSet(t)
  PROVE  Len(s) - m <= Len(t)
<1> SUFFICES ASSUME Len(t) < Len(s) - m PROVE FALSE
  OBVIOUS
<1> DEFINE S == (m + 1)..Len(s)
           T == 1..Len(t)
           f == [i \in S |-> CHOOSE j \in T : t[j] = s[i]]
<1>1. Len(s) \in Nat /\ Len(t) \in Nat /\ DOMAIN s = 1..Len(s) /\ DOMAIN t = T
  OBVIOUS
<1>2. IsFiniteSet(S) /\ Cardinality(S) = Len(s) - m
  BY <1>1, FS_Interval
<1>3. IsFiniteSet(T) /\ Cardinality(T) = Len(t)
  <2>1. 1 \in Int /\ Len(t) \in Int /\ (IF 1 > Len(t) THEN 0 ELSE Len(t) - 1 + 1) = Len(t)
    BY <1>1
  <2>2. IsFiniteSet(1..Len(t)) /\ Cardinality(1..Len(t)) = IF 1 > Len(t) THEN 0 ELSE Len(t) - 1 + 1
    BY <2>1, FS_Interval, Zenon
  <2> QED
    BY <2>1, <2>2
<1>4. \A i \in S : f[i] \in T /\ t[f[i]] = s[i]
  BY <1>1 DEF ToSet
<1>5. f \in [S -> T]
  BY <1>4
<1> HIDE DEF f, S, T
<1>6. PICK x, y \in S : x # y /\ f[x] = f[y]
  BY <1>2, <1>3, <1>5, FS_PigeonHole
<1>7. s[x] = s[y]
  BY <1>4, <1>6
<1>8. x \in DOMAIN s /\ y \in DOMAIN s /\ s[x] \in Nat
  BY <1>1 DEF S
<1>9. x < y \/ y < x
  BY <1>1, <1>6 DEF S
<1> QED
  BY <1>7, <1>8, <1>9 DEF Increasing

(* The job.                                                                *)
LEMMA PendingFacts ==
  ASSUME job \in JobType
  PROVE  /\ Pending \in Seq(Nat)
         /\ job.kind \in {"insert", "trim"} => Pending = job.records
         /\ job.kind \notin {"insert", "trim"} => Pending = << >>
<1>1. job.kind \in {"insert", "trim"} => job.records \in Seq(Nat)
  BY DEF JobType
<1> QED
  BY <1>1 DEF Pending

\* What a job has still to write is what it was given.
LEMMA SavingFacts ==
  ASSUME NEW records \in Seq(Nat)
  PROVE  /\ Saving(records) \in JobType /\ Goes(records) \in JobType
         /\ [kind |-> "trim", records |-> records] \in JobType
         /\ job' = Saving(records) => Pending' = records
         /\ job' = Goes(records) => Pending' = records
         /\ job' = [kind |-> "trim", records |-> records] => Pending' = records
         /\ job' = Idle \/ job' = Refresh => Pending' = << >> /\ job' \in JobType
BY DEF Saving, Goes, JobType, Pending, Idle, Refresh

(* An action that moves no record.                                         *)
LEMMA LogQuiet ==
  ASSUME LogInv, UNCHANGED <<recorded, hidden, callLog, unsaved, rows, lost>>,
         process' = process \/ process' # "running",
         process' \in {"running", "closing", "down"}, process # "running" => process' # "running",
         process' # "running" => unsaved = << >>,
         Pending' = Pending, job' \in JobType, process' = "down" => job' = Idle
  PROVE  LogInv'
<1>1. LogTypeOK' /\ InOrder'
  BY DEF LogInv, LogTypeOK, InOrder
<1>2. Keeping' = Keeping /\ Listed' = Listed
  BY DEF Keeping, Waiting, Listed
<1> QED
  BY <1>1, <1>2 DEF LogInv, Numbered, LostIsGone, Drained, Newest

\* A new record is newer than all on the screen and in the table.
LEMMA PushCallRecordStep == LogInv /\ PushCallRecord => LogInv'
<1> SUFFICES ASSUME LogInv, PushCallRecord PROVE LogInv'
  OBVIOUS
<1> DEFINE r == recorded + 1
           longer == <<r>> \o callLog
<1>1. /\ process = "running" /\ job = Idle /\ recorded' = r /\ callLog' = FirstOf(LogLimit, longer)
      /\ unsaved' = Append(unsaved, r)
      /\ process' = process /\ job' = job /\ rows' = rows /\ lost' = lost /\ hidden' = hidden
  BY DEF PushCallRecord
<1>2. /\ recorded \in Nat /\ r \in Nat /\ r > recorded /\ callLog \in Seq(Nat) /\ unsaved \in Seq(Nat)
      /\ rows \in Seq(Nat) /\ lost \subseteq Nat /\ job \in JobType /\ LogLimit \in Nat \ {0}
  BY CallLogAssumption DEF LogInv, LogTypeOK
<1>3. Pending = << >> /\ Pending' = << >>
  BY <1>1 DEF Pending, Idle
<1>4. /\ longer \in Seq(Nat) /\ Len(longer) = Len(callLog) + 1 /\ longer[1] = r /\ Len(callLog) \in Nat
      /\ \A i \in 2..Len(longer) : longer[i] = callLog[i - 1]
  BY <1>2
<1> HIDE DEF longer, r
<1>5. /\ callLog' \in Seq(Nat) /\ Len(callLog') = IF Len(longer) < LogLimit THEN Len(longer) ELSE LogLimit
      /\ \A i \in 1..Len(callLog') : callLog'[i] = longer[i]
  BY <1>1, <1>2, <1>4, FirstOfFacts
<1>6. /\ 1 \in 1..Len(callLog') /\ callLog'[1] = r
      /\ \A i \in 2..Len(callLog') : i - 1 \in 1..Len(callLog) /\ callLog'[i] = callLog[i - 1]
  <2>1. Len(callLog') \in Nat \ {0} /\ Len(callLog') <= Len(longer)
    BY <1>2, <1>4, <1>5
  <2>2. \A i \in 2..Len(callLog') : i \in 2..Len(longer) /\ i \in 1..Len(callLog') /\ i - 1 \in 1..Len(callLog)
    BY <1>4, <2>1
  <2>3. 1 \in 1..Len(callLog') /\ callLog'[1] = longer[1]
    BY <1>5, <2>1
  <2>4. ASSUME NEW i \in 2..Len(callLog') PROVE callLog'[i] = callLog[i - 1]
    <3>1. callLog'[i] = longer[i]
      BY <1>5, <2>2
    <3>2. longer[i] = callLog[i - 1]
      BY <1>4, <2>2
    <3> QED
      BY <3>1, <3>2
  <2> QED
    BY <1>4, <2>2, <2>3, <2>4
<1>7. DOMAIN callLog = 1..Len(callLog) /\ DOMAIN callLog' = 1..Len(callLog')
  BY <1>2, <1>5
<1>8. \A x \in Keeping \cup ToSet(callLog) \cup lost : x \in Nat /\ x < r
  <2>1. \A x \in Keeping \cup ToSet(callLog) \cup lost : x \in Nat
    <3>1. Pending \in Seq(Nat)
      BY <1>3
    <3> QED
      BY <1>2, <3>1, ElementsOf DEF Keeping, Waiting
  <2>2. \A x \in Keeping \cup ToSet(callLog) \cup lost : x <= recorded
    BY DEF LogInv, Numbered
  <2> QED
    BY <1>2, <2>1, <2>2
<1>9. unsaved' \in Seq(Nat) /\ ToSet(unsaved') = ToSet(unsaved) \cup {r} /\ Increasing(unsaved')
  <2>1. \A x \in ToSet(unsaved) : x < r
    BY <1>8 DEF Keeping, Waiting
  <2> QED
    BY <1>1, <1>2, <2>1, AppendFacts DEF LogInv, InOrder
<1>10. Keeping' = Keeping \cup {r}
  BY <1>1, <1>3, <1>9 DEF Keeping, Waiting
<1>11. \A i \in DOMAIN callLog' : callLog'[i] = r \/ callLog'[i] \in ToSet(callLog)
  BY <1>6, <1>7 DEF ToSet
<1>12. LogTypeOK'
  BY <1>1, <1>2, <1>5, <1>9 DEF LogInv, LogTypeOK
<1>13. InOrder'
  <2>1. ASSUME NEW i \in DOMAIN callLog', NEW j \in DOMAIN callLog', i < j
        PROVE  callLog'[i] > callLog'[j]
    <3>1. j \in 2..Len(callLog') /\ callLog'[j] = callLog[j - 1] /\ j - 1 \in DOMAIN callLog
      BY <1>5, <1>6, <1>7, <2>1
    <3>2. CASE i = 1
      <4>1. callLog[j - 1] \in ToSet(callLog)
        BY <3>1 DEF ToSet
      <4> QED
        BY <1>2, <1>6, <1>8, <3>1, <3>2, <4>1
    <3>3. CASE i # 1
      <4>1. i \in 2..Len(callLog') /\ callLog'[i] = callLog[i - 1] /\ i - 1 \in DOMAIN callLog /\ i - 1 < j - 1
        BY <1>5, <1>6, <1>7, <2>1, <3>3
      <4> QED
        BY <3>1, <4>1 DEF LogInv, InOrder
    <3> QED
      BY <3>2, <3>3
  <2>2. Below(ToSet(rows), ToSet(unsaved'))
    BY <1>8, <1>9 DEF LogInv, InOrder, Below, Keeping
  <2>3. Increasing(<< >>) /\ ToSet(<< >>) = {}
    BY DEF Increasing, ToSet
  <2> QED
    BY <1>1, <1>3, <1>9, <2>1, <2>2, <2>3 DEF LogInv, InOrder, Below
<1>14. ToSet(callLog') \subseteq ToSet(callLog) \cup {r} /\ r \in ToSet(callLog')
  BY <1>6, <1>7, <1>11 DEF ToSet
<1>15. Numbered'
  <2>1. \A x \in Keeping' \cup ToSet(callLog') \cup lost' : x = r \/ (x < r /\ x \in Nat)
    BY <1>1, <1>8, <1>10, <1>14
  <2>2. ASSUME NEW x, x = r \/ (x < r /\ x \in Nat) PROVE x <= recorded'
    BY <1>1, <1>2, <2>2
  <2> QED
    BY <2>1, <2>2 DEF Numbered
<1>16. LostIsGone' /\ r \notin lost
  BY <1>1, <1>2, <1>8, <1>10 DEF LogInv, LostIsGone
<1>17. Drained'
  BY <1>1 DEF LogInv, Drained
<1>18. Len(callLog') <= LogLimit
  BY <1>2, <1>4, <1>5
<1>19. Listed \subseteq Keeping /\ \A l \in Listed, k \in Keeping : l < k => k \in Listed
  BY <1>1 DEF LogInv, Newest
<1>20. Listed' \subseteq Listed \cup {r}
  BY <1>1, <1>14 DEF Listed
<1>21. ASSUME NEW l \in Listed', NEW k \in Keeping', l < k PROVE k \in Listed'
  <2>1. CASE k = r
    BY <1>1, <1>14, <1>16, <2>1 DEF Listed
  <2>2. CASE k # r
    <3>1. k \in Keeping /\ k < r /\ k \in Nat
      BY <1>8, <1>10, <2>2
    <3>2. l # r
      BY <1>2, <1>21, <3>1
    <3>3. l \in Listed /\ k \in Listed /\ k \notin lost
      BY <1>19, <1>20, <1>21, <3>1, <3>2 DEF Listed
    <3>4. PICK i \in 1..Len(callLog) : callLog[i] = k
      BY <1>7, <3>3 DEF Listed, ToSet
    <3>5. PICK j \in 1..Len(callLog') : callLog'[j] = l
      BY <1>7 DEF Listed, ToSet
    <3>6. j \in 2..Len(callLog') /\ callLog[j - 1] = l /\ j - 1 \in 1..Len(callLog)
      BY <1>5, <1>6, <3>2, <3>5
    <3>7. ~(i > j - 1)
      <4> SUFFICES ASSUME j - 1 < i PROVE FALSE
        BY <3>4, <3>6
      <4>1. callLog[j - 1] > callLog[i]
        BY <1>7, <3>4, <3>6 DEF LogInv, InOrder
      <4>2. l \in Nat
        BY <1>2, <3>6
      <4> QED
        BY <1>21, <3>1, <3>4, <3>6, <4>1, <4>2
    <3>8. i + 1 \in 2..Len(callLog') /\ callLog'[i + 1] = callLog[i]
      <4>1. i + 1 \in 2..Len(callLog') /\ i + 1 - 1 = i
        BY <1>5, <3>4, <3>6, <3>7
      <4> QED
        BY <1>6, <4>1
    <3>9. i + 1 \in DOMAIN callLog'
      BY <1>5, <1>7, <3>8
    <3> QED
      BY <1>1, <3>3, <3>4, <3>8, <3>9 DEF Listed, ToSet
  <2> QED
    BY <2>1, <2>2
<1>22. (\A k \in Keeping' : k \in Listed' \/ k <= hidden') \/ Len(callLog') = LogLimit
  <2>1. CASE Len(callLog) >= LogLimit
    BY <1>2, <1>4, <1>5, <2>1
  <2>2. CASE Len(callLog) < LogLimit
    <3>1. \A k \in Keeping : k \in Listed \/ k <= hidden
      BY <1>1, <1>2, <1>4, <2>2 DEF LogInv, Newest
    <3>2. Len(callLog') = Len(callLog) + 1
      BY <1>2, <1>4, <1>5, <2>2
    <3>3. \A i \in 1..Len(callLog) : i + 1 \in 1..Len(callLog') /\ callLog'[i + 1] = callLog[i]
      <4>1. ASSUME NEW i \in 1..Len(callLog)
            PROVE  i + 1 \in 1..Len(callLog') /\ i + 1 \in 2..Len(callLog') /\ i + 1 - 1 = i
        BY <1>4, <3>2
      <4> QED
        BY <1>6, <4>1
    <3>4. ToSet(callLog) \subseteq ToSet(callLog')
      BY <1>7, <3>3, Zenon DEF ToSet
    <3> QED
      BY <1>1, <1>10, <1>14, <1>16, <3>1, <3>4 DEF Listed
  <2> QED
    BY <1>2, <1>4, <2>1, <2>2
<1>23. Newest'
  BY <1>10, <1>19, <1>20, <1>21, <1>22 DEF Newest
<1> QED
  BY <1>12, <1>13, <1>15, <1>16, <1>17, <1>18, <1>23 DEF LogInv

\* What the timer saves is what was not saved yet.
LEMMA PersistTimerStep == LogInv /\ (PersistTimer \/ CloseWindow) => LogInv'
<1> SUFFICES ASSUME LogInv, PersistTimer \/ CloseWindow PROVE LogInv'
  OBVIOUS
<1>1. /\ job = Idle /\ job' = Saving(unsaved) /\ unsaved' = << >>
      /\ process' \in {"running", "closing"} /\ process = "running"
      /\ recorded' = recorded /\ hidden' = hidden /\ callLog' = callLog /\ rows' = rows /\ lost' = lost
  BY DEF PersistTimer, CloseWindow, TakeUnsaved
<1>2. unsaved \in Seq(Nat)
  BY DEF LogInv, LogTypeOK
<1>3. Pending = << >> /\ Pending' = unsaved /\ job' \in JobType
  BY <1>1, <1>2, SavingFacts DEF Pending, Idle
<1>4. Increasing(<< >>) /\ ToSet(<< >>) = {}
  BY DEF Increasing, ToSet
<1>5. Keeping' = Keeping /\ Listed' = Listed
  BY <1>1, <1>3, <1>4 DEF Keeping, Waiting, Listed
<1>6. LogTypeOK'
  BY <1>1, <1>3 DEF LogInv, LogTypeOK
<1>7. InOrder'
  BY <1>1, <1>3, <1>4 DEF LogInv, InOrder, Below
<1> QED
  BY <1>1, <1>5, <1>6, <1>7 DEF LogInv, Numbered, LostIsGone, Drained, Newest

(* The first of the records that are written goes to the end of the rows.  *)
LEMMA InsertRowStep == LogInv /\ InsertRow => LogInv'
<1> SUFFICES ASSUME LogInv, InsertRow PROVE LogInv'
  OBVIOUS
<1> DEFINE h == Head(job.records)
           t == Tail(job.records)
<1>1. /\ job.kind = "insert" /\ job.records # << >> /\ rows' = Append(rows, h)
      /\ job' = [kind |-> "trim", records |-> t]
      /\ process' = process /\ recorded' = recorded /\ hidden' = hidden /\ callLog' = callLog
      /\ unsaved' = unsaved /\ lost' = lost
  BY DEF InsertRow
<1>2. Pending \in Seq(Nat) /\ Pending = job.records /\ rows \in Seq(Nat)
  BY <1>1, PendingFacts DEF LogInv, LogTypeOK
<1>3. /\ h \in Nat /\ t \in Seq(Nat) /\ ToSet(Pending) = {h} \cup ToSet(t)
      /\ Increasing(t) /\ \A x \in ToSet(t) : h < x
  BY <1>1, <1>2, TailFacts DEF LogInv, InOrder
<1> HIDE DEF h, t
<1>4. Pending' = t /\ job' \in JobType
  BY <1>1, <1>3, SavingFacts
<1>5. rows' \in Seq(Nat) /\ ToSet(rows') = ToSet(rows) \cup {h} /\ Increasing(rows')
  <2>1. \A x \in ToSet(rows) : x < h
    BY <1>3 DEF LogInv, InOrder, Below
  <2> QED
    BY <1>1, <1>2, <1>3, <2>1, AppendFacts DEF LogInv, InOrder
<1>6. Keeping' = Keeping /\ Listed' = Listed
  BY <1>1, <1>3, <1>4, <1>5 DEF Keeping, Waiting, Listed
<1>7. LogTypeOK'
  BY <1>1, <1>4, <1>5 DEF LogInv, LogTypeOK
<1>8. InOrder'
  BY <1>1, <1>3, <1>4, <1>5 DEF LogInv, InOrder, Below
<1>9. process # "down"
  BY <1>1 DEF LogInv, Drained, Idle
<1> QED
  BY <1>1, <1>6, <1>7, <1>8, <1>9 DEF LogInv, Numbered, LostIsGone, Drained, Newest

(* Or it is given up.                                                      *)
LEMMA InsertFailsStep == LogInv /\ InsertFails => LogInv'
<1> SUFFICES ASSUME LogInv, InsertFails PROVE LogInv'
  OBVIOUS
<1> DEFINE h == Head(job.records)
           t == Tail(job.records)
<1>1. /\ job.kind = "insert" /\ job.records # << >> /\ lost' = lost \cup {h}
      /\ job' = Goes(t)
      /\ process' = process /\ recorded' = recorded /\ hidden' = hidden /\ callLog' = callLog
      /\ unsaved' = unsaved /\ rows' = rows
  BY DEF InsertFails
<1>2. Pending \in Seq(Nat) /\ Pending = job.records /\ rows \in Seq(Nat)
  BY <1>1, PendingFacts DEF LogInv, LogTypeOK
<1>3. /\ h \in Nat /\ t \in Seq(Nat) /\ ToSet(Pending) = {h} \cup ToSet(t)
      /\ Increasing(t) /\ \A x \in ToSet(t) : h < x
  BY <1>1, <1>2, TailFacts DEF LogInv, InOrder
<1> HIDE DEF h, t
<1>4. Pending' = t /\ job' \in JobType
  BY <1>1, <1>3, SavingFacts
<1>5. h \notin ToSet(rows) /\ h \notin ToSet(t) /\ h \notin ToSet(unsaved)
  <2>1. ~(h < h) /\ h \in ToSet(Pending)
    BY <1>3
  <2>2. Below(ToSet(rows), ToSet(Pending)) /\ Below(ToSet(Pending), ToSet(unsaved))
    BY DEF LogInv, InOrder
  <2> QED
    BY <1>3, <2>1, <2>2 DEF Below
<1>6. Keeping' = Keeping \ {h} /\ Listed' = Listed \ {h} /\ h \in Keeping
  BY <1>1, <1>3, <1>4, <1>5 DEF Keeping, Waiting, Listed
<1>7. LogTypeOK'
  BY <1>1, <1>3, <1>4 DEF LogInv, LogTypeOK
<1>8. InOrder'
  BY <1>1, <1>3, <1>4 DEF LogInv, InOrder, Below
<1>9. process # "down"
  BY <1>1 DEF LogInv, Drained, Idle
<1> QED
  BY <1>1, <1>6, <1>7, <1>8, <1>9 DEF LogInv, Numbered, LostIsGone, Drained, Newest

(* What is trimmed is not on the screen: with a row that is listed all the *)
(* rows after it are, and the screen has no more room than the table keeps *)
(* (RowLimit >= LogLimit).                                                 *)
LEMMA TrimRowsStep == LogInv /\ TrimRows => LogInv'
<1> SUFFICES ASSUME LogInv, TrimRows PROVE LogInv'
  OBVIOUS
<1>1. /\ job.kind = "trim" /\ job' = Goes(job.records)
      /\ rows' = rows \/ rows' = LastOf(RowLimit, rows)
      /\ process' = process /\ recorded' = recorded /\ hidden' = hidden /\ callLog' = callLog
      /\ unsaved' = unsaved /\ lost' = lost
  BY DEF TrimRows, Trimmed
<1>2. /\ Pending \in Seq(Nat) /\ Pending = job.records /\ rows \in Seq(Nat) /\ callLog \in Seq(Nat)
      /\ Len(rows) \in Nat /\ Len(callLog) \in Nat /\ DOMAIN rows = 1..Len(rows)
  BY <1>1, PendingFacts DEF LogInv, LogTypeOK
<1>3. Pending' = Pending /\ job' \in JobType
  BY <1>1, <1>2, SavingFacts
<1>4. process # "down"
  BY <1>1 DEF LogInv, Drained, Idle
<1>5. CASE rows' = rows
  <2>1. process' \in {"running", "closing", "down"} /\ (process' # "running" => unsaved = << >>)
    BY <1>1 DEF LogInv, LogTypeOK, Drained
  <2> QED
    BY <1>1, <1>3, <1>4, <1>5, <2>1, LogQuiet
<1>6. CASE rows' = LastOf(RowLimit, rows) /\ rows' # rows
  <2> DEFINE m == Len(rows) - RowLimit
  <2>1. /\ RowLimit \in Nat /\ LogLimit \in Nat /\ LogLimit <= RowLimit /\ Len(rows) >= RowLimit
        /\ m \in Nat /\ m <= Len(rows)
    <3>1. RowLimit \in Nat /\ LogLimit \in Nat /\ LogLimit <= RowLimit
      BY CallLogAssumption
    <3>2. ~(Len(rows) < RowLimit)
      BY <1>2, <1>6, <3>1, LastOfFacts
    <3> QED
      BY <1>2, <3>1, <3>2
  <2>2. /\ rows' \in Seq(Nat) /\ Len(rows') = RowLimit
        /\ \A i \in 1..RowLimit : rows'[i] = rows[m + i]
    BY <1>2, <1>6, <2>1, LastOfFacts
  <2>3. DOMAIN rows' = 1..RowLimit
    BY <2>2
  <2>4. \A i \in 1..RowLimit : m + i \in 1..Len(rows)
    BY <1>2, <2>1
  <2> HIDE DEF m
  <2>5. ToSet(rows') \subseteq ToSet(rows)
    BY <1>2, <2>2, <2>3, <2>4 DEF ToSet
  <2>6. Increasing(rows')
    <3>1. ASSUME NEW i \in 1..RowLimit, NEW j \in 1..RowLimit, i < j PROVE rows'[i] < rows'[j]
      <4>1. m + i \in DOMAIN rows /\ m + j \in DOMAIN rows
        BY <1>2, <2>4
      <4>2. i \in Nat /\ j \in Nat
        BY <2>1
      <4>3. m + i < m + j
        BY <2>1, <3>1, <4>2
      <4> QED
        BY <2>2, <4>1, <4>3 DEF LogInv, InOrder, Increasing
    <3> QED
      BY <2>3, <3>1 DEF Increasing
  <2>7. ASSUME process = "running", NEW l \in Listed, l \notin Keeping' PROVE FALSE
    <3>1. l \in ToSet(rows) /\ l \notin ToSet(rows')
      BY <1>1, <1>3, <2>7 DEF LogInv, Newest, Keeping, Waiting
    <3>2. PICK i \in 1..Len(rows) : rows[i] = l
      BY <1>2, <3>1 DEF ToSet
    <3>3. i <= m
      <4> SUFFICES ASSUME i > m PROVE FALSE
        BY <2>1, <3>2
      <4>1. i - m \in 1..RowLimit /\ m + (i - m) = i
        BY <1>2, <2>1 DEF m
      <4>2. rows'[i - m] = l
        BY <2>2, <3>2, <4>1
      <4> QED
        BY <2>3, <3>1, <4>1, <4>2 DEF ToSet
    <3>4. i - 1 \in Nat /\ i - 1 <= Len(rows) /\ (i - 1) + 1 = i
      BY <1>2
    <3>5. ASSUME NEW j \in i..Len(rows) PROVE rows[j] \in ToSet(callLog)
      <4>1. j \in DOMAIN rows /\ i \in DOMAIN rows /\ (j = i \/ i < j)
        BY <1>2, <3>2
      <4>2. rows[j] \in Keeping
        BY <4>1 DEF Keeping, ToSet
      <4>3. j = i \/ l < rows[j]
        BY <3>2, <4>1 DEF LogInv, InOrder, Increasing
      <4> QED
        BY <2>7, <3>2, <4>2, <4>3 DEF LogInv, Newest, Listed
    <3>6. Len(rows) - (i - 1) <= Len(callLog)
      BY <1>2, <3>4, <3>5, NoMoreThanFits DEF LogInv, InOrder
    <3>7. Len(callLog) <= LogLimit
      BY DEF LogInv
    <3> QED
      BY <1>2, <2>1, <3>2, <3>3, <3>6, <3>7 DEF m
  <2>8. Keeping' \subseteq Keeping /\ Listed' = Listed
    BY <1>1, <1>3, <2>5 DEF Keeping, Waiting, Listed
  <2>9. LogTypeOK'
    BY <1>1, <1>3, <2>2 DEF LogInv, LogTypeOK
  <2>10. InOrder'
    BY <1>1, <1>3, <2>5, <2>6 DEF LogInv, InOrder, Below
  <2>11. Newest'
    BY <1>1, <2>7, <2>8 DEF LogInv, Newest
  <2> QED
    BY <1>1, <1>4, <2>8, <2>9, <2>10, <2>11 DEF LogInv, Numbered, LostIsGone, Drained
<1> QED
  BY <1>1, <1>5, <1>6

\* The program starts with the newest records of the table.
LEMMA TableReadStep ==
  LogInv /\ StartLog /\ callLog' = Recent /\ hidden' = 0 => LogInv'
<1> SUFFICES ASSUME LogInv, StartLog, callLog' = Recent, hidden' = 0 PROVE LogInv'
  OBVIOUS
<1> DEFINE back == Reverse(rows)
<1>1. /\ process = "down" /\ process' = "running" /\ callLog' = FirstOf(LogLimit, back)
      /\ recorded' = recorded /\ unsaved' = unsaved /\ job' = job /\ rows' = rows /\ lost' = lost
  BY DEF StartLog, Recent
<1>2. /\ job = Idle /\ unsaved = << >> /\ rows \in Seq(Nat) /\ job \in JobType
      /\ Len(rows) \in Nat /\ DOMAIN rows = 1..Len(rows) /\ LogLimit \in Nat \ {0}
  BY <1>1, CallLogAssumption DEF LogInv, LogTypeOK, Drained
<1>3. Pending = << >> /\ Pending' = << >> /\ ToSet(<< >>) = {}
  BY <1>1, <1>2 DEF Pending, Idle, ToSet
<1>4. Keeping = ToSet(rows) /\ Keeping' = ToSet(rows)
  BY <1>1, <1>2, <1>3 DEF Keeping, Waiting
<1>5. /\ back \in Seq(Nat) /\ Len(back) = Len(rows)
      /\ \A i \in 1..Len(rows) : back[i] = rows[Len(rows) - i + 1]
  BY <1>2 DEF Reverse
<1> HIDE DEF back
<1>6. /\ callLog' \in Seq(Nat) /\ Len(callLog') = IF Len(rows) < LogLimit THEN Len(rows) ELSE LogLimit
      /\ \A i \in 1..Len(callLog') : callLog'[i] = back[i]
  BY <1>1, <1>2, <1>5, FirstOfFacts
<1>7. Len(callLog') \in Nat /\ Len(callLog') <= Len(rows) /\ Len(callLog') <= LogLimit
      /\ DOMAIN callLog' = 1..Len(callLog')
  BY <1>2, <1>6
<1>8. ASSUME NEW i \in 1..Len(callLog')
      PROVE  Len(rows) - i + 1 \in 1..Len(rows) /\ callLog'[i] = rows[Len(rows) - i + 1]
  <2>1. i \in 1..Len(rows) /\ Len(rows) - i + 1 \in 1..Len(rows)
    BY <1>2, <1>7
  <2>2. callLog'[i] = back[i] /\ back[i] = rows[Len(rows) - i + 1]
    BY <1>5, <1>6, <2>1
  <2> QED
    BY <2>1, <2>2
<1>9. ToSet(callLog') \subseteq ToSet(rows)
  BY <1>2, <1>7, <1>8 DEF ToSet
<1>10. Listed' = ToSet(callLog')
  BY <1>1, <1>4, <1>9 DEF Listed, LogInv, LostIsGone
<1>11. InOrder'
  <2>1. ASSUME NEW i \in DOMAIN callLog', NEW j \in DOMAIN callLog', i < j
        PROVE  callLog'[i] > callLog'[j]
    <3>1. Len(rows) - j + 1 < Len(rows) - i + 1
      BY <1>2, <1>7, <2>1
    <3>2. rows[Len(rows) - j + 1] < rows[Len(rows) - i + 1]
      BY <1>2, <1>7, <1>8, <2>1, <3>1 DEF LogInv, InOrder, Increasing
    <3> QED
      BY <1>7, <1>8, <2>1, <3>2
  <2> QED
    BY <1>1, <1>2, <1>3, <2>1 DEF LogInv, InOrder
<1>12. ASSUME NEW l \in Listed', NEW k \in Keeping', l < k PROVE k \in Listed'
  <2>1. PICK i \in 1..Len(callLog') : callLog'[i] = l
    BY <1>7, <1>10, <1>12 DEF ToSet
  <2>2. PICK j \in 1..Len(rows) : rows[j] = k
    BY <1>2, <1>4, <1>12 DEF ToSet
  <2> DEFINE n == Len(rows) - i + 1
  <2>3. n \in 1..Len(rows) /\ rows[n] = l
    BY <1>8, <2>1
  <2>4. ~(j < n) /\ j # n
    <3>1. l \in Nat /\ k \in Nat
      BY <1>2, <2>2, <2>3
    <3>2. j < n => k < l
      BY <1>2, <2>2, <2>3 DEF LogInv, InOrder, Increasing
    <3> QED
      BY <1>12, <2>2, <2>3, <3>1, <3>2
  <2> DEFINE q == Len(rows) - j + 1
  <2>5. q \in 1..Len(callLog') /\ Len(rows) - q + 1 = j
    BY <1>2, <1>7, <2>1, <2>2, <2>4
  <2>6. callLog'[q] = k
    BY <1>8, <2>2, <2>5
  <2> QED
    BY <1>7, <1>10, <2>5, <2>6 DEF ToSet
<1>13. Keeping' \subseteq Listed' \/ Len(callLog') = LogLimit
  <2>1. CASE Len(rows) < LogLimit
    <3>1. Len(callLog') = Len(rows)
      BY <1>6, <2>1
    <3>2. ASSUME NEW j \in 1..Len(rows)
          PROVE  Len(rows) - j + 1 \in DOMAIN callLog' /\ callLog'[Len(rows) - j + 1] = rows[j]
      <4>1. Len(rows) - j + 1 \in 1..Len(callLog') /\ Len(rows) - (Len(rows) - j + 1) + 1 = j
        BY <1>2, <3>1
      <4> QED
        BY <1>7, <1>8, <4>1
    <3>3. ToSet(rows) \subseteq ToSet(callLog')
      BY <1>2, <3>2, Zenon DEF ToSet
    <3> QED
      BY <1>4, <1>10, <3>3
  <2>2. CASE ~(Len(rows) < LogLimit)
    BY <1>6, <2>2
  <2> QED
    BY <2>1, <2>2
<1>14. Newest'
  BY <1>4, <1>9, <1>10, <1>12, <1>13 DEF Newest
<1>15. LogTypeOK'
  BY <1>1, <1>6 DEF LogInv, LogTypeOK
<1>16. Numbered' /\ LostIsGone' /\ Drained'
  BY <1>1, <1>2, <1>4, <1>9 DEF LogInv, Numbered, LostIsGone, Drained
<1> QED
  BY <1>7, <1>11, <1>14, <1>15, <1>16 DEF LogInv

\* Or with none of them, all that were made before being hidden.
LEMMA TableUnreadStep ==
  LogInv /\ StartLog /\ callLog' = << >> /\ hidden' = recorded => LogInv'
<1> SUFFICES ASSUME LogInv, StartLog, callLog' = << >>, hidden' = recorded PROVE LogInv'
  OBVIOUS
<1>1. /\ process = "down" /\ process' = "running"
      /\ recorded' = recorded /\ unsaved' = unsaved /\ job' = job /\ rows' = rows /\ lost' = lost
  BY DEF StartLog
<1>2. ToSet(callLog') = {} /\ DOMAIN callLog' = {} /\ Pending' = Pending
  BY <1>1 DEF ToSet, Pending
<1>3. Keeping' = Keeping /\ Listed' = {}
  BY <1>1, <1>2 DEF Keeping, Waiting, Listed
<1>4. LogTypeOK' /\ InOrder'
  BY <1>1, <1>2 DEF LogInv, LogTypeOK, InOrder
<1>5. Newest'
  BY <1>1, <1>3 DEF Newest, LogInv, Numbered
<1>6. Numbered' /\ LostIsGone' /\ Drained'
  BY <1>1, <1>2, <1>3 DEF LogInv, Numbered, LostIsGone, Drained
<1>7. Len(callLog') <= LogLimit
  BY CallLogAssumption
<1> QED
  BY <1>4, <1>5, <1>6, <1>7 DEF LogInv

LEMMA StartLogStep == LogInv /\ StartLog => LogInv'
BY TableReadStep, TableUnreadStep DEF StartLog

\* A program that is killed loses what was not written, and nothing else.
LEMMA KillLogStep == LogInv /\ KillLog => LogInv'
<1> SUFFICES ASSUME LogInv, KillLog PROVE LogInv'
  OBVIOUS
<1>1. /\ process' = "down" /\ job' = Idle /\ unsaved' = << >>
      /\ lost' = lost \cup ToSet(unsaved)
                     \cup (IF job.kind \in {"insert", "trim"} THEN ToSet(job.records) ELSE {})
      /\ recorded' = recorded /\ hidden' = hidden /\ callLog' = callLog /\ rows' = rows
  BY DEF KillLog
<1>2. Pending \in Seq(Nat) /\ unsaved \in Seq(Nat) /\ ToSet(<< >>) = {} /\ Increasing(<< >>)
  BY PendingFacts DEF LogInv, LogTypeOK, ToSet, Increasing
<1>3. lost' = lost \cup Waiting
  <2>1. CASE job.kind \in {"insert", "trim"}
    BY <1>1, <2>1 DEF Waiting, Pending
  <2>2. CASE job.kind \notin {"insert", "trim"}
    BY <1>1, <1>2, <2>2 DEF Waiting, Pending
  <2> QED
    BY <2>1, <2>2
<1>4. Pending' = << >> /\ job' \in JobType
  BY <1>1 DEF Pending, Idle, JobType
<1>5. Keeping' = ToSet(rows) /\ Waiting \subseteq Nat
  BY <1>1, <1>2, <1>4, ElementsOf DEF Keeping, Waiting
<1>6. ASSUME NEW x \in ToSet(rows) PROVE x \notin Waiting
  <2>1. ToSet(rows) \subseteq Nat
    BY ElementsOf DEF LogInv, LogTypeOK
  <2>2. ~(x < x)
    BY <2>1
  <2> QED
    BY <2>2 DEF Waiting, LogInv, InOrder, Below
<1>7. LogTypeOK'
  <2>1. lost' \subseteq Nat
    BY <1>3, <1>5 DEF LogInv, LogTypeOK
  <2>2. process' = "down" /\ unsaved' = << >> /\ << >> \in Seq(Nat)
    BY <1>1
  <2>3. recorded' \in Nat /\ hidden' \in Nat /\ callLog' \in Seq(Nat) /\ rows' \in Seq(Nat)
    BY <1>1 DEF LogInv, LogTypeOK
  <2> QED
    BY <1>4, <2>1, <2>2, <2>3 DEF LogTypeOK
<1>8. InOrder'
  BY <1>1, <1>2, <1>4 DEF LogInv, InOrder, Below
<1>9. Numbered' /\ LostIsGone'
  BY <1>1, <1>3, <1>5, <1>6 DEF LogInv, Numbered, LostIsGone, Keeping
<1> QED
  BY <1>1, <1>7, <1>8, <1>9 DEF LogInv, Drained, Newest

\* The other steps do not touch the records.
LEMMA OtherSteps ==
  LogInv /\ (SaveDone \/ AddContact \/ RefreshContacts \/ Exit \/ OthersMove
               \/ \E e \in entries : DeleteContact(e.id) \/ UpdateContact(e.id)) => LogInv'
<1> SUFFICES ASSUME LogInv,
                    SaveDone \/ AddContact \/ RefreshContacts \/ Exit \/ OthersMove
                      \/ \E e \in entries : DeleteContact(e.id) \/ UpdateContact(e.id)
             PROVE  LogInv'
  OBVIOUS
<1>1. UNCHANGED <<recorded, hidden, callLog, unsaved, rows, lost>>
  BY DEF SaveDone, AddContact, RefreshContacts, Exit, OthersMove, DeleteContact, UpdateContact, log
<1>2. job \in JobType /\ process \in {"running", "closing", "down"}
  BY DEF LogInv, LogTypeOK
<1>3. Idle \in JobType /\ Refresh \in JobType /\ Idle # Refresh
  BY DEF JobType, Idle, Refresh
<1>4. /\ Pending' = Pending /\ job' \in JobType
      /\ process' = process \/ (process = "closing" /\ process' = "down" /\ job' = Idle)
      /\ process = "down" => job' = Idle
  <2>1. CASE SaveDone
    <3>1. job = Saving(<< >>) /\ job' = Idle /\ process' = process
      BY <2>1 DEF SaveDone
    <3> QED
      BY <1>3, <3>1 DEF Pending, Saving, Idle
  <2>2. CASE AddContact
    <3>1. job = Idle /\ job' = Refresh /\ process' = process /\ process = "running"
      BY <2>2 DEF AddContact
    <3> QED
      BY <1>3, <3>1 DEF Pending, Refresh, Idle
  <2>3. CASE RefreshContacts
    <3>1. job.kind = "refresh" /\ job' = Idle /\ process' = process
      BY <2>3 DEF RefreshContacts
    <3> QED
      BY <1>3, <3>1 DEF Pending, Idle
  <2>4. CASE Exit
    <3>1. job' = job /\ job = Idle /\ process' = "down" /\ process = "closing"
      BY <2>4 DEF Exit
    <3> QED
      BY <1>3, <3>1 DEF Pending, Idle
  <2>5. CASE OthersMove
    <3>1. job' = job /\ process' = process
      BY <2>5 DEF OthersMove
    <3> QED
      BY <1>2, <3>1 DEF Pending, LogInv, Drained
  <2>6. CASE \E e \in entries : DeleteContact(e.id) \/ UpdateContact(e.id)
    <3>1. job = Idle /\ job' = Refresh /\ process' = process /\ process = "running"
      BY <2>6 DEF DeleteContact, UpdateContact
    <3> QED
      BY <1>3, <3>1 DEF Pending, Refresh, Idle
  <2> QED
    BY <2>1, <2>2, <2>3, <2>4, <2>5, <2>6
<1>5. process # "running" => unsaved = << >>
  BY DEF LogInv, Drained
<1>6. process = "down" => job' = Idle
  BY <1>4
<1> QED
  BY <1>1, <1>2, <1>4, <1>5, <1>6, LogQuiet

(* The invariant of the call records, over every call, statement, failed   *)
(* write, restart and kill.                                                *)
THEOREM LogInvariant == CallLogSpec => []LogInv
<1>1. CallLogInit => LogInv
  <2> SUFFICES ASSUME CallLogInit PROVE LogInv
    OBVIOUS
  <2>1. /\ process = "running" /\ recorded = 0 /\ hidden = 0 /\ callLog = << >> /\ unsaved = << >>
        /\ rows = << >> /\ lost = {} /\ job = Idle
    BY DEF CallLogInit
  <2>2. Pending = << >> /\ Idle \in JobType /\ ToSet(<< >>) = {} /\ Increasing(<< >>)
    BY <2>1 DEF Pending, Idle, JobType, ToSet, Increasing
  <2>3. Keeping = {} /\ ToSet(callLog) = {} /\ Listed = {}
    BY <2>1, <2>2 DEF Keeping, Waiting, Listed
  <2>4. LogTypeOK /\ InOrder
    BY <2>1, <2>2 DEF LogTypeOK, InOrder, Below
  <2>5. Len(callLog) <= LogLimit
    BY <2>1, CallLogAssumption
  <2> QED
    BY <2>1, <2>3, <2>4, <2>5 DEF LogInv, Numbered, LostIsGone, Drained, Newest
<1>2. LogInv /\ [CallLogNext \/ StartLog \/ KillLog]_callLogVars => LogInv'
  <2> SUFFICES ASSUME LogInv, [CallLogNext \/ StartLog \/ KillLog]_callLogVars PROVE LogInv'
    OBVIOUS
  <2>1. CASE UNCHANGED callLogVars
    <3>1. UNCHANGED <<process, job, recorded, hidden, callLog, unsaved, rows, lost>>
      BY <2>1 DEF callLogVars, log
    <3>2. Pending' = Pending
      BY <3>1 DEF Pending
    <3> QED
      BY <3>1, <3>2, LogQuiet DEF LogInv, LogTypeOK, Drained
  <2>2. CASE StartLog \/ KillLog
    BY <2>2, StartLogStep, KillLogStep
  <2>3. CASE CallLogNext
    BY <2>3, PushCallRecordStep, PersistTimerStep, InsertRowStep, InsertFailsStep, TrimRowsStep,
       OtherSteps DEF CallLogNext
  <2> QED
    BY <2>1, <2>2, <2>3
<1> QED
  BY <1>1, <1>2, PTL DEF CallLogSpec

\* Two ordered logs, one after the other.
LEMMA ConcatFacts ==
  ASSUME NEW s \in Seq(Nat), NEW t \in Seq(Nat)
  PROVE  /\ s \o t \in Seq(Nat) /\ ToSet(s \o t) = ToSet(s) \cup ToSet(t)
         /\ Increasing(s) /\ Increasing(t) /\ Below(ToSet(s), ToSet(t)) => Increasing(s \o t)
<1> DEFINE c == s \o t
           m == Len(s)
           n == Len(t)
<1>1. /\ c \in Seq(Nat) /\ m \in Nat /\ n \in Nat /\ DOMAIN s = 1..m /\ DOMAIN t = 1..n
      /\ DOMAIN c = 1..(m + n) /\ \A i \in 1..m : c[i] = s[i]
  OBVIOUS
<1>2. \A i \in 1..n : c[m + i] = t[i]
  OBVIOUS
<1> HIDE DEF c, m, n
<1>3. \A i \in 1..(m + n) : i \in 1..m \/ (i - m \in 1..n /\ m + (i - m) = i)
  BY <1>1
<1>4. \A i \in 1..m : i \in 1..(m + n)
  BY <1>1
<1>5. \A i \in 1..n : m + i \in 1..(m + n)
  BY <1>1
<1>6. ToSet(c) = ToSet(s) \cup ToSet(t)
  <2>1. ASSUME NEW i \in 1..(m + n) PROVE c[i] \in ToSet(s) \cup ToSet(t)
    <3>1. CASE i \in 1..m
      BY <1>1, <3>1 DEF ToSet
    <3>2. CASE i - m \in 1..n /\ m + (i - m) = i
      <4>1. c[i] = t[i - m]
        BY <1>2, <3>2
      <4> QED
        BY <1>1, <3>2, <4>1 DEF ToSet
    <3> QED
      BY <1>3, <3>1, <3>2
  <2>2. ToSet(c) \subseteq ToSet(s) \cup ToSet(t)
    BY <1>1, <2>1 DEF ToSet
  <2>3. ToSet(s) \subseteq ToSet(c)
    BY <1>1, <1>4, Zenon DEF ToSet
  <2>4. ToSet(t) \subseteq ToSet(c)
    BY <1>1, <1>2, <1>5, Zenon DEF ToSet
  <2> QED
    BY <2>2, <2>3, <2>4
<1>7. ASSUME Increasing(s), Increasing(t), Below(ToSet(s), ToSet(t)),
             NEW i \in DOMAIN c, NEW j \in DOMAIN c, i < j
      PROVE  c[i] < c[j]
  <2>1. CASE j \in 1..m
    <3>1. i \in 1..m
      BY <1>1, <1>7, <2>1
    <3> QED
      BY <1>1, <1>7, <2>1, <3>1 DEF Increasing
  <2>2. CASE j - m \in 1..n /\ m + (j - m) = j
    <3>1. c[j] = t[j - m] /\ c[j] \in ToSet(t)
      BY <1>1, <1>2, <2>2 DEF ToSet
    <3>2. CASE i \in 1..m
      <4>1. c[i] \in ToSet(s)
        BY <1>1, <3>2 DEF ToSet
      <4> QED
        BY <1>7, <3>1, <4>1 DEF Below
    <3>3. CASE i - m \in 1..n /\ m + (i - m) = i
      <4>1. c[i] = t[i - m] /\ i - m < j - m
        BY <1>1, <1>2, <1>7, <3>3
      <4> QED
        BY <1>1, <1>7, <2>2, <3>1, <3>3, <4>1 DEF Increasing
    <3> QED
      BY <1>1, <1>3, <3>2, <3>3
  <2> QED
    BY <1>1, <1>3, <2>1, <2>2
<1>8. Increasing(s) /\ Increasing(t) /\ Below(ToSet(s), ToSet(t)) => Increasing(c)
  BY <1>7 DEF Increasing
<1> QED
  BY <1>1, <1>6, <1>8 DEF c

(* The screen lists the newest of what the table holds or will hold        *)
(* (LogIsTable).                                                           *)
THEOREM ScreenShowsTheTable == CallLogSpec => []LogIsTable
<1>1. ASSUME LogInv PROVE ToSet(Kept) = Keeping /\ Increasing(Kept)
  <2>1. rows \in Seq(Nat) /\ unsaved \in Seq(Nat) /\ Pending \in Seq(Nat)
    BY <1>1, PendingFacts DEF LogInv, LogTypeOK
  <2> DEFINE a == rows \o Pending
  <2>2. a \in Seq(Nat) /\ ToSet(a) = ToSet(rows) \cup ToSet(Pending) /\ Increasing(a)
    BY <1>1, <2>1, ConcatFacts DEF LogInv, InOrder
  <2> HIDE DEF a
  <2>3. Below(ToSet(a), ToSet(unsaved))
    BY <1>1, <2>2 DEF LogInv, InOrder, Below
  <2>4. ToSet(a \o unsaved) = ToSet(a) \cup ToSet(unsaved) /\ Increasing(a \o unsaved)
    BY <1>1, <2>1, <2>2, <2>3, ConcatFacts DEF LogInv, InOrder
  <2>5. Kept = a \o unsaved
    BY DEF Kept, a
  <2> QED
    BY <2>2, <2>4, <2>5 DEF Keeping, Waiting
<1>2. ASSUME LogInv PROVE Increasing(Reverse(callLog))
  <2> DEFINE back == Reverse(callLog)
  <2>1. callLog \in Seq(Nat) /\ Len(callLog) \in Nat /\ DOMAIN callLog = 1..Len(callLog)
    BY <1>2 DEF LogInv, LogTypeOK
  <2>2. DOMAIN back = 1..Len(callLog) /\ \A i \in 1..Len(callLog) : back[i] = callLog[Len(callLog) - i + 1]
    BY <2>1 DEF Reverse
  <2> HIDE DEF back
  <2>3. ASSUME NEW i \in DOMAIN back, NEW j \in DOMAIN back, i < j PROVE back[i] < back[j]
    <3>1. /\ Len(callLog) - i + 1 \in DOMAIN callLog /\ Len(callLog) - j + 1 \in DOMAIN callLog
          /\ Len(callLog) - j + 1 < Len(callLog) - i + 1
      BY <2>1, <2>2, <2>3
    <3>2. callLog[Len(callLog) - j + 1] > callLog[Len(callLog) - i + 1]
      BY <1>2, <3>1 DEF LogInv, InOrder
    <3> QED
      BY <2>1, <2>2, <3>1, <3>2
  <2> QED
    BY <2>3 DEF Increasing, back
<1>3. LogInv => LogIsTable
  BY <1>1, <1>2 DEF LogIsTable, LogInv, Newest, Listed
<1> QED
  BY <1>3, LogInvariant, PTL

-----------------------------------------------------------------------------
(* Part 3.  Contacts.                                                      *)

ContactRow == [id : Nat, who : Nat]

(* An id is given once, so that what a row or an entry says of it holds of  *)
(* all of them, the rows that are deleted and the entries that are old too. *)
ContactsInv ==
    /\ added \in Nat /\ lastId \in Nat
    /\ contacts \subseteq ContactRow /\ entries \subseteq ContactRow
    /\ \A c \in contacts \cup entries : c.id <= lastId
    /\ \A c, d \in contacts \cup entries : c.id = d.id => c = d

\* A contact that is inserted gets an id no entry has.
LEMMA InsertContactKeeps ==
  ASSUME ContactsInv, InsertContact, entries' = entries
  PROVE  ContactsInv'
<1> DEFINE new == [id |-> lastId + 1, who |-> added + 1]
<1>1. added' = added + 1 /\ lastId' = lastId + 1 /\ contacts' = contacts \cup {new}
  BY DEF InsertContact, NextId
<1>2. new \in ContactRow /\ new.id = lastId + 1 /\ added + 1 \in Nat /\ lastId + 1 \in Nat
  BY DEF ContactsInv, ContactRow
<1> HIDE DEF new
<1>3. \A c \in contacts \cup entries : c.id \in Nat /\ c.id < new.id /\ c.id <= lastId'
  BY <1>1, <1>2 DEF ContactsInv, ContactRow
<1>4. contacts' \cup entries' = (contacts \cup entries) \cup {new}
  BY <1>1
<1>5. \A c \in contacts' \cup entries' : c.id <= lastId'
  BY <1>1, <1>2, <1>3, <1>4
<1>6. \A c \in contacts \cup entries : c.id # new.id
  BY <1>2, <1>3 DEF ContactsInv
<1>7. \A c, d \in contacts' \cup entries' : c.id = d.id => c = d
  BY <1>4, <1>6 DEF ContactsInv
<1> QED
  BY <1>1, <1>2, <1>5, <1>7 DEF ContactsInv

(* The contacts on screen and in the table agree on what an id means        *)
(* (EntryMeansItsContact).                                                 *)
THEOREM EntriesMeanContacts == CallLogSpec => []EntryMeansItsContact
<1>1. CallLogInit => ContactsInv
  BY DEF CallLogInit, ContactsInv
<1>2. ContactsInv /\ [CallLogNext \/ StartLog \/ KillLog]_callLogVars => ContactsInv'
  <2> SUFFICES ASSUME ContactsInv, [CallLogNext \/ StartLog \/ KillLog]_callLogVars
               PROVE  ContactsInv'
    OBVIOUS
  <2>1. CASE AddContact
    <3>1. entries' = entries /\ (InsertContact \/ UNCHANGED <<added, lastId, contacts>>)
      BY <2>1 DEF AddContact
    <3> QED
      BY <3>1, InsertContactKeeps DEF ContactsInv
  <2>2. CASE \E e \in entries : DeleteContact(e.id) \/ UpdateContact(e.id)
    <3>1. contacts' \subseteq contacts /\ UNCHANGED <<added, lastId, entries>>
      BY <2>2 DEF DeleteContact, UpdateContact, book
    <3> QED
      BY <3>1 DEF ContactsInv
  <2>3. CASE RefreshContacts \/ StartLog
    <3>1. entries' \subseteq contacts \cup entries /\ UNCHANGED <<added, lastId, contacts>>
      BY <2>3 DEF RefreshContacts, StartLog
    <3>2. contacts' \cup entries' \subseteq contacts \cup entries
      BY <3>1
    <3> QED
      BY <3>1, <3>2 DEF ContactsInv
  <2>4. CASE \/ PushCallRecord \/ PersistTimer \/ CloseWindow \/ InsertRow \/ InsertFails \/ TrimRows
             \/ SaveDone \/ Exit \/ OthersMove \/ KillLog \/ UNCHANGED callLogVars
    <3>1. UNCHANGED <<contacts, added, lastId, entries>>
      BY <2>4 DEF PushCallRecord, PersistTimer, CloseWindow, InsertRow, InsertFails, TrimRows,
                  SaveDone, Exit, OthersMove, KillLog, callLogVars, book
    <3> QED
      BY <3>1 DEF ContactsInv
  <2> QED
    BY <2>1, <2>2, <2>3, <2>4 DEF CallLogNext
<1>3. ContactsInv => EntryMeansItsContact
  BY DEF ContactsInv, EntryMeansItsContact
<1> QED
  BY <1>1, <1>2, <1>3, PTL DEF CallLogSpec
=============================================================================

------------------------------ MODULE Cameras -------------------------------
(***************************************************************************)
(* The saved cameras: store/cameras.rs, the merge of store/migrate.rs, and *)
(* the settings page of camera/settings.rs.  A device is told by its host; *)
(* it may show up with several streams, and one row is to be kept of it,   *)
(* the best.  The UI thread, the threads that save a camera that was found *)
(* and the weather worker (weather.rs:202) each have a connection of their *)
(* own, and no transaction: reading the rows and changing one are two      *)
(* statements, and any statement may fail.                                 *)
(***************************************************************************)
EXTENDS Naturals, FiniteSets

CONSTANTS
    Hosts,          \* devices with an rtsp host
    Found,          \* what the devices that are found offer: [host, kind]
    Savers,         \* threads that save a camera
    Weather,        \* the weather worker, which opens the store again and again
    MaxAdds,        \* bound on the cameras added
    NoHost          \* what rtsp_host makes of an address it cannot read

Openers == Savers \cup {Weather}
Kinds == {"", "jpeg", "h264"}       \* h265 ranks with h264

ASSUME CamerasAssumption ==
    /\ Found \subseteq [host : Hosts \cup {NoHost}, kind : Kinds]
    /\ Weather \notin Savers /\ NoHost \notin Hosts /\ MaxAdds \in Nat

VARIABLES
    cameras,    \* the table: rows [id, host, kind]
    lastCamera, \* the largest id given out
    shown,      \* the list on screen
    page,       \* what the UI thread is in the middle of
    thread,     \* of each opener: [at, camera, victims, list]
    adds

table == <<cameras, lastCamera>>
vars == <<table, shown, page, thread, adds>>

-----------------------------------------------------------------------------
(* The table. *)

KindRank(kind) == CASE kind = "h264" -> 2 [] kind = "jpeg" -> 1 [] OTHER -> 0

SameHost(rows, host) == { r \in rows : r.host = host /\ host # NoHost }

\* The row of a device that is kept: the best, and the oldest of the best.
Keeps(r, rival) ==
    \/ KindRank(r.kind) > KindRank(rival.kind)
    \/ KindRank(r.kind) = KindRank(rival.kind) /\ r.id <= rival.id

\* Mutant: only rows that repeat the stream are merged.
VictimsOfSameKind(rows) ==
    { r \in rows : \E s \in SameHost(rows, r.host) : s.kind = r.kind /\ s.id < r.id }

\* Mutant: the oldest row is kept, whatever it streams.
VictimsByAge(rows) == { r \in rows : \E s \in SameHost(rows, r.host) : s.id < r.id }

\* migrate_cameras deletes every row of a device but the one kept.
Victims(rows) == { r \in rows : \E s \in SameHost(rows, r.host) : ~Keeps(r, s) }

\* What add_camera decides on the rows it has read.  Of several rows of the
\* device it takes the first by name, which may be any.
Decisions(rows, camera) ==
    LET same == SameHost(rows, camera.host)
    IN IF same = {} THEN {[do |-> "insert", id |-> 0]}
       ELSE { IF KindRank(camera.kind) > KindRank(old.kind)
              THEN [do |-> "update", id |-> old.id]
              ELSE [do |-> "skip", id |-> 0] : old \in same }

\* Mutant: the next id is one more than the largest in the table.
NextCameraInTable ==
    IF cameras = {} THEN 1
    ELSE 1 + (CHOOSE r \in cameras : \A s \in cameras : s.id <= r.id).id

\* AUTOINCREMENT: one more than any id ever given out.
NextCamera == lastCamera + 1

Carry(camera, d) ==
    CASE d.do = "insert" ->
            /\ lastCamera' = NextCamera
            /\ cameras' = cameras \cup {[id |-> NextCamera, host |-> camera.host, kind |-> camera.kind]}
      [] d.do = "update" ->
            /\ cameras' = { IF r.id = d.id THEN [id |-> d.id, host |-> camera.host, kind |-> camera.kind]
                            ELSE r : r \in cameras }
            /\ UNCHANGED lastCamera
      [] OTHER -> UNCHANGED table

-----------------------------------------------------------------------------
NoThread == [at |-> "none", camera |-> [host |-> NoHost, kind |-> ""], victims |-> {},
             decision |-> [do |-> "skip", id |-> 0], list |-> {}]
Rest == [at |-> "none", camera |-> NoThread.camera, decision |-> NoThread.decision]

Init ==
    /\ cameras = {} /\ lastCamera = 0 /\ shown = {} /\ adds = 0
    /\ page = Rest /\ thread = [t \in Openers |-> NoThread]

-----------------------------------------------------------------------------
(* The UI thread. *)

\* Added by hand: of no known kind.
AddCamera(host) ==
    /\ page = Rest /\ adds < MaxAdds
    /\ \E d \in Decisions(cameras, [host |-> host, kind |-> ""]) :
           page' = [at |-> "write", camera |-> [host |-> host, kind |-> ""], decision |-> d]
    /\ adds' = adds + 1
    /\ UNCHANGED <<table, shown, thread>>

AddWrites ==
    /\ page.at = "write"
    /\ Carry(page.camera, page.decision)
    /\ page' = [Rest EXCEPT !.at = "refresh"]
    /\ UNCHANGED <<shown, thread, adds>>

\* A statement of add_camera fails: the user is told, the list stays.
AddFails ==
    /\ page.at = "write" /\ page' = Rest
    /\ UNCHANGED <<table, shown, thread, adds>>

\* A row is deleted by the id it is shown with; a failure is only logged.
DeleteCamera(r) ==
    /\ page = Rest /\ r \in shown
    /\ cameras' \in { { c \in cameras : c.id # r.id }, cameras }
    /\ page' = [Rest EXCEPT !.at = "refresh"]
    /\ UNCHANGED <<lastCamera, shown, thread, adds>>

\* A list that cannot be read stays as it was shown.
RefreshCameras ==
    /\ page.at = "refresh"
    /\ shown' \in {cameras, shown} /\ page' = Rest
    /\ UNCHANGED <<table, thread, adds>>

\* A save is over: the list it read is shown, or why it failed.
ApplySaved(t) ==
    /\ page = Rest /\ thread[t].at \in {"saved", "failed"}
    /\ shown' = IF thread[t].at = "saved" THEN thread[t].list ELSE shown
    /\ thread' = [thread EXCEPT ![t] = NoThread]
    /\ UNCHANGED <<table, page, adds>>

-----------------------------------------------------------------------------
(* The threads that open the store. *)

ThreadAt(t, at) == thread' = [thread EXCEPT ![t].at = at]

\* What the thread remembers is of no use any more.
ThreadForgets(t, at) == thread' = [thread EXCEPT ![t] = [NoThread EXCEPT !.at = at]]

\* The thread asks the device for the address and the kind of a profile.
SaveDiscovered(t) ==
    /\ page = Rest /\ thread[t].at = "none" /\ t \in Savers /\ adds < MaxAdds
    /\ adds' = adds + 1
    /\ \E c \in Found : thread' = [thread EXCEPT ![t].at = "asking", ![t].camera = c]
    /\ UNCHANGED <<table, shown, page>>

\* The device does not answer, or the profile is gone; or a statement fails, and
\* with it all that is left to do: a merge is given up at its first failing
\* delete, and the weather worker opens the store again at its next refresh.
ThreadFails(t) ==
    /\ thread[t].at \in {"asking", "merging", "adding", "writing", "listing"}
    /\ ThreadForgets(t, IF t = Weather THEN "none" ELSE "failed")
    /\ UNCHANGED <<table, shown, page, adds>>

\* Store::open: the rows are read; the worker does so at every refresh.
OpenStore(t) ==
    /\ thread[t].at = IF t = Weather THEN "none" ELSE "asking"
    /\ thread' = [thread EXCEPT ![t].at = "merging", ![t].victims = Victims(cameras)]
    /\ UNCHANGED <<table, shown, page, adds>>

MergeRow(t) ==
    /\ thread[t].at = "merging"
    /\ \E v \in thread[t].victims :
        /\ cameras' = { c \in cameras : c.id # v.id }
        /\ thread' = [thread EXCEPT ![t].victims = @ \ {v}]
    /\ UNCHANGED <<lastCamera, shown, page, adds>>

\* Merged; the weather worker goes on with other tables.
Merged(t) ==
    /\ thread[t].at = "merging" /\ thread[t].victims = {}
    /\ ThreadAt(t, IF t = Weather THEN "none" ELSE "adding")
    /\ UNCHANGED <<table, shown, page, adds>>

SaveReads(t) ==
    /\ thread[t].at = "adding"
    /\ \E d \in Decisions(cameras, thread[t].camera) :
           thread' = [thread EXCEPT ![t].at = "writing", ![t].decision = d]
    /\ UNCHANGED <<table, shown, page, adds>>

SaveWrites(t) ==
    /\ thread[t].at = "writing"
    /\ Carry(thread[t].camera, thread[t].decision)
    /\ ThreadForgets(t, "listing")
    /\ UNCHANGED <<shown, page, adds>>

SaveLists(t) ==
    /\ thread[t].at = "listing"
    /\ thread' = [thread EXCEPT ![t].at = "saved", ![t].list = cameras]
    /\ UNCHANGED <<table, shown, page, adds>>

-----------------------------------------------------------------------------
PageWorks == AddWrites \/ AddFails \/ RefreshCameras

ThreadWorks(t) ==
    \/ OpenStore(t) \/ MergeRow(t) \/ Merged(t)
    \/ SaveReads(t) \/ SaveWrites(t) \/ SaveLists(t) \/ ThreadFails(t)

Next ==
    \/ \E host \in Hosts \cup {NoHost} : AddCamera(host)
    \/ \E r \in shown : DeleteCamera(r)
    \/ PageWorks
    \/ \E t \in Openers : ApplySaved(t) \/ SaveDiscovered(t) \/ ThreadWorks(t)

\* The weather worker goes on, and of its merges, one opening of the store after
\* the other, not every one fails at its delete; nobody else owes anything.
Fairness == WF_vars(ThreadWorks(Weather)) /\ SF_vars(MergeRow(Weather))

Spec == Init /\ [][Next]_vars /\ Fairness

-----------------------------------------------------------------------------
(* Properties. *)

Rows(host) == Cardinality(SameHost(cameras, host))

\* Two savings of a device may cross and leave it two rows; the next time the
\* store is opened, at the latest for the weather, they become one again,
\* also if merges before that were given up half-way (cameras.rs:61-62,
\* migrate.rs:61-62, 109).
DuplicatesMerge == \A host \in Hosts : Rows(host) > 1 ~> Rows(host) <= 1

\* Whatever savings have left in the table, what opening the store would make
\* of it loses no device, leaves it one row, and that of its best stream.
MergeLeavesTheBest ==
    \A host \in Hosts :
        LET rows == SameHost(cameras, host)
            left == rows \ Victims(cameras)
        IN rows # {} => \E r \in left :
               left = {r} /\ \A s \in rows : KindRank(s.kind) <= KindRank(r.kind)

\* A row that was read some time ago, to be shown or to be merged away, still
\* means the device it was read of, or none: neither a key pressed on it nor a
\* merge under way deletes the row of another device, however the threads that
\* save and the deletions have crossed meanwhile (cameras.rs:128, migrate.rs:109).
IdMeansItsDevice ==
    \A c \in cameras :
        \A r \in shown \cup UNION { thread[t].victims : t \in Openers } :
            r.id = c.id => r.host = c.host
=============================================================================

------------------------------ MODULE CallLog -------------------------------
(***************************************************************************)
(* What the UI thread keeps in the database file, and what it shows of it: *)
(* the call records (app.rs, persist.rs, store/mod.rs) and the contacts    *)
(* (persist.rs).  Everything here happens on the UI thread, statement by   *)
(* statement: between two statements another connection may take the file  *)
(* (the camera and weather threads open their own), and the process may be *)
(* killed.                                                                 *)
(***************************************************************************)
EXTENDS Naturals, Sequences, SequencesExt

CONSTANTS
    LogLimit,       \* records on screen (20)
    RowLimit,       \* rows kept in the table (200)
    MaxRecords,     \* bound on the calls that end
    MaxContacts,    \* bound on the contacts ever added
    MaxStarts       \* bound on the starts of the process

ASSUME CallLogAssumption ==
    /\ LogLimit \in Nat \ {0} /\ RowLimit \in Nat /\ RowLimit >= LogLimit
    /\ MaxRecords \in Nat /\ MaxContacts \in Nat /\ MaxStarts \in Nat \ {0}

VARIABLES
    process,    \* "running", "closing" (the window is gone), "down"
    starts,
    others,     \* what other connections hold: "nothing", "reserved", "exclusive"
    recorded,   \* records ever made; a record is its number
    callLog,    \* AppState.call_log: newest first
    unsaved,    \* AppState.unsaved: oldest first
    job,        \* what the UI thread is in the middle of
    rows,       \* call_records, by id
    lost,       \* records whose write failed, or that died with the process
    hidden,     \* history: the newest record when the table could not be read at
                \* the last start, else 0
    contacts,   \* the table of contacts: rows [id, who]
    added,      \* contacts ever added
    lastId,     \* the largest id ever given out
    entries     \* the contacts on screen

log == <<recorded, callLog, unsaved, rows, lost>>
book == <<contacts, added, lastId, entries>>
callLogVars == <<process, starts, hidden, others, log, job, book>>

\* A statement that writes waits five seconds for a reserved file, one that
\* only reads is kept out by a writer that commits.
CanWrite == others = "nothing"
CanRead == others # "exclusive"

Idle == [kind |-> "idle"]
Refresh == [kind |-> "refresh"]
Saving(records) == [kind |-> "insert", records |-> records]

FirstOf(n, s) == SubSeq(s, 1, IF Len(s) < n THEN Len(s) ELSE n)
LastOf(n, s) == SubSeq(s, IF Len(s) < n THEN 1 ELSE Len(s) - n + 1, Len(s))

-----------------------------------------------------------------------------

\* recent_call_records: by descending id.
Recent == FirstOf(LogLimit, Reverse(rows))

CallLogInit ==
    /\ process = "running" /\ starts = 1 /\ others = "nothing" /\ hidden = 0
    /\ recorded = 0 /\ callLog = << >> /\ unsaved = << >> /\ rows = << >> /\ lost = {}
    /\ job = Idle
    /\ contacts = {} /\ added = 0 /\ lastId = 0 /\ entries = {}

\* A new process.  Opening only reads a database that has its tables, and one
\* that cannot be opened is the end of the process; after that each table is read
\* for itself, and what cannot be read is logged and stays empty.
StartLog ==
    /\ process = "down" /\ starts < MaxStarts /\ CanRead
    /\ process' = "running" /\ starts' = starts + 1
    /\ \/ callLog' = Recent /\ hidden' = 0
       \/ callLog' = << >> /\ hidden' = recorded
    /\ entries' \in {contacts, {}}
    /\ UNCHANGED <<others, recorded, unsaved, job, rows, lost, contacts, added, lastId>>

-----------------------------------------------------------------------------
(* Call records. *)

\* push_call_record: a call has ended.
PushCallRecord ==
    /\ process = "running" /\ job = Idle /\ recorded < MaxRecords
    /\ recorded' = recorded + 1
    /\ callLog' = FirstOf(LogLimit, <<recorded + 1>> \o callLog)
    /\ unsaved' = Append(unsaved, recorded + 1)
    /\ UNCHANGED <<process, starts, hidden, others, job, rows, lost, book>>

\* Mutant: the records are copied and not taken.
TakeUnsavedCopying == job' = Saving(unsaved) /\ UNCHANGED unsaved

\* take_unsaved_records, by the timer of one second or when the window is gone.
TakeUnsaved == job' = Saving(unsaved) /\ unsaved' = << >>

PersistTimer ==
    /\ process = "running" /\ job = Idle /\ unsaved # << >>
    /\ TakeUnsaved
    /\ UNCHANGED <<process, starts, hidden, others, recorded, callLog, rows, lost, book>>

\* Mutant: nothing is written when the window is closed.
CloseUndrained ==
    /\ process = "running" /\ job = Idle
    /\ process' = "closing" /\ job' = Saving(<< >>)
    /\ UNCHANGED <<starts, hidden, others, log, book>>

\* drain_unsaved, after the event loop has returned.
CloseWindow ==
    /\ process = "running" /\ job = Idle
    /\ process' = "closing" /\ TakeUnsaved
    /\ UNCHANGED <<starts, hidden, others, recorded, callLog, rows, lost, book>>

Goes(records) == IF records = << >> THEN Idle ELSE Saving(records)

\* add_call_record: the row is inserted, then the oldest beyond the limit deleted.
InsertRow ==
    /\ job.kind = "insert" /\ job.records # << >> /\ CanWrite
    /\ rows' = Append(rows, Head(job.records))
    /\ job' = [kind |-> "trim", records |-> Tail(job.records)]
    /\ UNCHANGED <<process, starts, hidden, others, recorded, callLog, unsaved, lost, book>>

\* A record that cannot be inserted is logged and given up.
InsertFails ==
    /\ job.kind = "insert" /\ job.records # << >> /\ ~CanWrite
    /\ lost' = lost \cup {Head(job.records)}
    /\ job' = Goes(Tail(job.records))
    /\ UNCHANGED <<process, starts, hidden, others, recorded, callLog, unsaved, rows, book>>

Trimmed == LastOf(RowLimit, rows)

TrimRows ==
    /\ job.kind = "trim"
    /\ rows' = IF CanWrite THEN Trimmed ELSE rows
    /\ job' = Goes(job.records)
    /\ UNCHANGED <<process, starts, hidden, others, recorded, callLog, unsaved, lost, book>>

\* The loop over the records is over, or there was none.
SaveDone ==
    /\ job = Saving(<< >>)
    /\ job' = Idle
    /\ UNCHANGED <<process, starts, hidden, others, log, book>>

-----------------------------------------------------------------------------
(* Contacts: one statement, then all is read again, even if it failed.  A   *)
(* contact is told by when it was added, a row and an entry by its id.       *)

\* Mutant: the next id is one more than the largest in the table.
NextIdInTable == IF contacts = {} THEN 1 ELSE 1 + Max({ c.id : c \in contacts })

\* AUTOINCREMENT: one more than any id ever given out.
NextId == lastId + 1

InsertContact ==
    /\ added' = added + 1 /\ lastId' = NextId
    /\ contacts' = contacts \cup {[id |-> NextId, who |-> added + 1]}

AddContact ==
    /\ process = "running" /\ job = Idle /\ added < MaxContacts
    /\ IF CanWrite THEN InsertContact ELSE UNCHANGED <<added, lastId, contacts>>
    /\ job' = Refresh
    /\ UNCHANGED <<process, starts, hidden, others, log, entries>>

\* The id is that of an entry; it may be gone from the table, which is no error.
DeleteContact(id) ==
    /\ process = "running" /\ job = Idle
    /\ contacts' = IF CanWrite THEN { c \in contacts : c.id # id } ELSE contacts
    /\ job' = Refresh
    /\ UNCHANGED <<process, starts, hidden, others, log, added, lastId, entries>>

\* What a contact is called does not matter here; an id that is gone is an error.
UpdateContact(id) ==
    /\ process = "running" /\ job = Idle
    /\ job' = Refresh
    /\ UNCHANGED <<process, starts, hidden, others, log, book>>

RefreshContacts ==
    /\ job.kind = "refresh"
    /\ entries' = IF CanRead THEN contacts ELSE entries
    /\ job' = Idle
    /\ UNCHANGED <<process, starts, hidden, others, log, contacts, added, lastId>>

-----------------------------------------------------------------------------
\* The worker is joined and the process ends.
Exit ==
    /\ process = "closing" /\ job = Idle
    /\ process' = "down"
    /\ UNCHANGED <<starts, hidden, others, log, job, book>>

\* The process is killed: the records it had not written die with it.
KillLog ==
    /\ process # "down"
    /\ process' = "down" /\ job' = Idle /\ unsaved' = << >>
    /\ lost' = lost \cup ToSet(unsaved)
                    \cup (IF job.kind \in {"insert", "trim"} THEN ToSet(job.records) ELSE {})
    /\ UNCHANGED <<starts, hidden, others, recorded, callLog, rows, book>>

\* Another connection reserves the file, commits, and lets it go.
OthersMove ==
    /\ others' = CASE others = "nothing"  -> "reserved"
                   [] others = "reserved" -> "exclusive"
                   [] OTHER               -> "nothing"
    /\ UNCHANGED <<process, starts, hidden, log, job, book>>

UiWorks == InsertRow \/ InsertFails \/ TrimRows \/ SaveDone \/ RefreshContacts \/ Exit

CallLogNext ==
    \/ PushCallRecord \/ PersistTimer \/ CloseWindow
    \/ InsertRow \/ InsertFails \/ TrimRows \/ SaveDone
    \/ AddContact \/ RefreshContacts
    \/ \E e \in entries : DeleteContact(e.id) \/ UpdateContact(e.id)
    \/ Exit \/ OthersMove

\* The UI thread runs; a timer that is due fires between two callbacks, however
\* many of them the user causes.
CallLogFairness == WF_callLogVars(UiWorks) /\ SF_callLogVars(PersistTimer)

CallLogSpec ==
    /\ CallLogInit /\ [][CallLogNext \/ StartLog \/ KillLog]_callLogVars
    /\ CallLogFairness

-----------------------------------------------------------------------------
(* Properties. *)

Pending == IF job.kind \in {"insert", "trim"} THEN job.records ELSE << >>

Increasing(s) == \A i, j \in DOMAIN s : i < j => s[i] < s[j]

\* What the table holds or will hold, oldest first.
Kept == rows \o Pending \o unsaved

\* What the screen lists, the records given up left aside, is the newest of what
\* the table holds or will hold: both in order, none twice and none skipped, and
\* all of it unless the screen is full, across restarts, failed writes and the
\* trimming of the table (app.rs:192-208, persist.rs:27-64).  Only what was
\* recorded before a start that could not read the table may be missing, and is
\* until the next start (persist.rs:33).
LogIsTable ==
    LET listed == ToSet(callLog) \ lost
    IN process = "running" =>
        /\ Increasing(Reverse(callLog)) /\ Increasing(Kept)
        /\ listed \subseteq ToSet(Kept)
        /\ \A l \in listed, k \in ToSet(Kept) : l < k => k \in listed
        /\ \/ \A k \in ToSet(Kept) : k \in listed \/ k <= hidden
           \/ Len(callLog) = LogLimit

\* A record that is waiting comes to the table, unless its own write failed or
\* the process was killed; closing the window loses none ("the timer may not
\* have written it yet", persist.rs:57).
RecordsAreWritten ==
    \A r \in 1..MaxRecords :
        (\E i \in DOMAIN unsaved : unsaved[i] = r)
            ~> (r \in lost \/ \E i \in DOMAIN rows : rows[i] = r)

\* An entry that could not be refreshed still means the contact it shows, or
\* none at all: a key pressed on it never edits or deletes another contact
\* (the ids of store/migrate.rs:27-31).
EntryMeansItsContact ==
    \A e \in entries, c \in contacts : e.id = c.id => e = c
=============================================================================

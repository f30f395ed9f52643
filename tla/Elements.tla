------------------------------ MODULE Elements ------------------------------
(***************************************************************************)
(* GStreamer graphs as ipcam-gst builds them (gstutil.rs).  A node is an   *)
(* element, or a chain of filters that link_chain joins and that passes    *)
(* every buffer straight on.  What matters of a node is whether it has a   *)
(* thread of its own (sources and queues), whether a full queue blocks or  *)
(* drops, and where buffers end (outlets).  A builder is a sequence of     *)
(* steps: a step adds some links, and may fail instead, adding none.       *)
(***************************************************************************)
EXTENDS Naturals, Sequences, FiniteSets

Node(lane, kind, use) == [lane |-> lane, kind |-> kind, use |-> use]

Source(lane)          == Node(lane, "source", "rtp")
DepayHead(lane)           == Node(lane, "filter", "depay")
Tee(lane)             == Node(lane, "tee", "tee")
Outlet(lane, use)     == Node(lane, "outlet", use)

\* A queue that is full makes its upstream wait; a leaky one drops the oldest.
Queue(lane, use)      == Node(lane, "queue", use)
LeakyQueue(lane, use) == Node(lane, "leaky", use)

IsQueue(n) == n.kind \in {"queue", "leaky"}
IsRest(n)  == IsQueue(n) \/ n.kind = "outlet"

\* Making elements and adding them to the pipeline links nothing.
Make == {}
AddAndSync == {}
Request == {}
Link(path) == { <<path[i], path[i + 1]>> : i \in 1..Len(path) - 1 }

\* A configuration that cannot be built.
Refused == { << >> }

-----------------------------------------------------------------------------
Successors(links, nodes) == { l[2] : l \in { k \in links : k[1] \in nodes } }

\* Where a buffer pushed by the thread of n comes to rest.  A buffer that
\* meets a node without a successor is lost; a path has at most three hops.
Ends(links, n) ==
    LET through(S) == { m \in S : IsRest(m) }
                        \cup Successors(links, { m \in S : ~IsRest(m) })
    IN { m \in through(through(Successors(links, {n}))) : IsRest(m) }
=============================================================================

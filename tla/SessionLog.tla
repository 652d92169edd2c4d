----------------------------- MODULE SessionLog -----------------------------
(***************************************************************************)
(* The text log of one live session (session_log.rs).  The game and its    *)
(* agents hold handles of the same sink: log reserves bytes, then tries to *)
(* put the entry into the bounded queue and gives the bytes back when it   *)
(* cannot.  One writer task stores the entries; at the end of the session  *)
(* shutdown_session_log takes the writer, tells it to stop and waits for   *)
(* it a limited time.                                                      *)
(***************************************************************************)
EXTENDS Integers, Sequences, SequencesExt, FiniteSets

CONSTANTS Source,          \* the handles: the game's, the agents'
          EntrySizes,      \* bound: the lengths of the texts that are logged
          MaxEntryBytes, MaxLogBytes,  \* MAX_SESSION_LOG_ENTRY_BYTES, MAX_SESSION_LOG_BYTES
          QueueCapacity,   \* SESSION_LOG_QUEUE_CAPACITY
          MaxCalls         \* bound: calls of log
ASSUME LogAssumption == /\ EntrySizes \subseteq Nat \ {0} /\ {MaxEntryBytes, MaxLogBytes} \subseteq Nat
                        /\ QueueCapacity \in Nat \ {0} /\ MaxCalls \in Nat

VARIABLES
    live,       \* SessionLogger::live, not headless: there is a queue
    bytes,      \* accepted_bytes
    handle,     \* the call each handle is in
    calls,
    taken,      \* every entry log said Ok to, in order
    queue,      \* what of it waits
    closed,     \* the receiver is closed or gone
    writer,     \* SessionLogWriter.task
    persisted,  \* the log events, in order
    failed,     \* entries append_session_event failed for
    owner       \* log_writer of the session

logVars == <<live, bytes, handle, calls, taken, queue, closed, writer, persisted, failed, owner>>

AtRest == [pc |-> "idle", size |-> 0]
Entry(l) == [from |-> l, size |-> handle[l].size, id |-> handle[l].id]

LogInit ==
    /\ live \in BOOLEAN
    /\ bytes = 0 /\ handle = [l \in Source |-> AtRest] /\ calls = 0
    /\ taken = <<>> /\ queue = <<>> /\ persisted = <<>> /\ failed = {}
    /\ closed = ~live /\ writer = [pc |-> IF live THEN "run" ELSE "ended"]
    /\ owner = IF live THEN "held" ELSE "none"

\* log: the reservation.  An entry that is too long, or that the session's
\* allowance does not cover, is refused.
ReserveBytes(l, n) ==
    /\ handle[l].pc = "idle" /\ calls < MaxCalls /\ calls' = calls + 1
    /\ IF n <= MaxEntryBytes /\ bytes + n <= MaxLogBytes
       THEN /\ bytes' = bytes + n
            /\ handle' = [handle EXCEPT ![l] = [pc |-> "send", size |-> n, id |-> calls]]
       ELSE UNCHANGED <<bytes, handle>>
    /\ UNCHANGED <<live, taken, queue, closed, writer, persisted, failed, owner>>

\* log: a headless logger has no sender and stops at the reservation.
Discard(l) ==
    /\ handle[l].pc = "send" /\ ~live
    /\ handle' = [handle EXCEPT ![l] = AtRest] /\ taken' = Append(taken, Entry(l))
    /\ UNCHANGED <<live, bytes, calls, queue, closed, writer, persisted, failed, owner>>

\* log: try_send.
MutAnyRoom(l) ==
    /\ handle[l].pc = "send" /\ live /\ ~closed
    /\ handle' = [handle EXCEPT ![l] = AtRest]
    /\ queue' = Append(queue, Entry(l)) /\ taken' = Append(taken, Entry(l))
    /\ UNCHANGED <<live, bytes, calls, closed, writer, persisted, failed, owner>>
Enqueue(l) ==
    /\ handle[l].pc = "send" /\ live /\ ~closed /\ Len(queue) < QueueCapacity
    /\ handle' = [handle EXCEPT ![l] = AtRest]
    /\ queue' = Append(queue, Entry(l)) /\ taken' = Append(taken, Entry(l))
    /\ UNCHANGED <<live, bytes, calls, closed, writer, persisted, failed, owner>>

\* log: QueueFull and Closed give the bytes back.
MutKeepsBytes(l) ==
    /\ handle[l].pc = "send" /\ live /\ (closed \/ Len(queue) >= QueueCapacity)
    /\ handle' = [handle EXCEPT ![l] = AtRest]
    /\ UNCHANGED <<live, bytes, calls, taken, queue, closed, writer, persisted, failed, owner>>
GiveBack(l) ==
    /\ handle[l].pc = "send" /\ live /\ (closed \/ Len(queue) >= QueueCapacity)
    /\ bytes' = bytes - handle[l].size
    /\ handle' = [handle EXCEPT ![l] = AtRest]
    /\ UNCHANGED <<live, calls, taken, queue, closed, writer, persisted, failed, owner>>

-----------------------------------------------------------------------------
(* The writer task. *)

\* recv, in either phase of the loop.
MutTakesNewest ==
    /\ writer.pc \in {"run", "closing"} /\ queue # <<>>
    /\ queue' = Front(queue)
    /\ writer' = [pc |-> "append", next |-> writer.pc, entry |-> Last(queue)]
    /\ UNCHANGED <<live, bytes, handle, calls, taken, closed, persisted, failed, owner>>
ReceiveEntry ==
    /\ writer.pc \in {"run", "closing"} /\ queue # <<>>
    /\ queue' = Tail(queue)
    /\ writer' = [pc |-> "append", next |-> writer.pc, entry |-> Head(queue)]
    /\ UNCHANGED <<live, bytes, handle, calls, taken, closed, persisted, failed, owner>>

AppendEvent ==
    /\ writer.pc = "append"
    /\ \/ persisted' = Append(persisted, writer.entry) /\ UNCHANGED failed
       \/ failed' = failed \cup {writer.entry.id} /\ UNCHANGED persisted
    /\ writer' = [pc |-> writer.next]
    /\ UNCHANGED <<live, bytes, handle, calls, taken, queue, closed, owner>>

\* The shutdown branch of the select, once the signal is there.
MutStopsAtOnce ==
    /\ writer.pc = "run" /\ owner = "waiting"
    /\ closed' = TRUE /\ writer' = [pc |-> "ended"]
    /\ UNCHANGED <<live, bytes, handle, calls, taken, queue, persisted, failed, owner>>
BeginClosing ==
    /\ writer.pc = "run" /\ owner = "waiting"
    /\ closed' = TRUE /\ writer' = [pc |-> "closing"]
    /\ UNCHANGED <<live, bytes, handle, calls, taken, queue, persisted, failed, owner>>

\* recv returns None: closed and drained.
WriterEnds ==
    /\ writer.pc = "closing" /\ queue = <<>> /\ writer' = [pc |-> "ended"]
    /\ UNCHANGED <<live, bytes, handle, calls, taken, queue, closed, persisted, failed, owner>>

-----------------------------------------------------------------------------
(* shutdown_session_log and SessionLogWriter::shutdown. *)

ShutdownLog ==
    /\ owner = "held" /\ owner' = "waiting"
    /\ UNCHANGED <<live, bytes, handle, calls, taken, queue, closed, writer, persisted, failed>>

ShutdownReturns ==
    /\ owner = "waiting" /\ writer.pc = "ended" /\ owner' = "drained"
    /\ UNCHANGED <<live, bytes, handle, calls, taken, queue, closed, writer, persisted, failed>>

\* The wait ends after five seconds: the task and its receiver are dropped.
MutDetaches ==
    /\ owner = "waiting" /\ writer.pc # "ended" /\ owner' = "aborted"
    /\ UNCHANGED <<live, bytes, handle, calls, taken, queue, closed, writer, persisted, failed>>
ShutdownTimesOut ==
    /\ owner = "waiting" /\ writer.pc # "ended" /\ owner' = "aborted"
    /\ writer' = [pc |-> "ended"] /\ closed' = TRUE /\ queue' = <<>>
    /\ UNCHANGED <<live, bytes, handle, calls, taken, persisted, failed>>

LogNext ==
    \/ \E l \in Source, n \in EntrySizes : ReserveBytes(l, n)
    \/ \E l \in Source : Discard(l) \/ Enqueue(l) \/ GiveBack(l)
    \/ ReceiveEntry \/ AppendEvent \/ BeginClosing \/ WriterEnds
    \/ ShutdownLog \/ ShutdownReturns \/ ShutdownTimesOut

LogSpec == LogInit /\ [][LogNext]_logVars

-----------------------------------------------------------------------------
(* Properties. *)

\* The bytes of an entry, told apart by the call of log that reserved them.
BytesOf(e) == {e.id} \X (1..e.size)
Reserving == {l \in Source : handle[l].pc = "send"}
Charged == UNION ({BytesOf(taken[i]) : i \in 1..Len(taken)} \cup {BytesOf(handle[l]) : l \in Reserving})

\* The sink's state has its type.
LogTypeOK ==
    /\ bytes \in 0..MaxLogBytes /\ calls \in 0..MaxCalls
    /\ Len(queue) <= QueueCapacity /\ failed \subseteq 0..MaxCalls
    /\ owner \in {"none", "held", "waiting", "drained", "aborted"}

\* The allowance is charged for the entries that were accepted and for those
\* between reservation and queue, and for nothing else: refusals that race for
\* the last place of the queue leave no charge behind (log).
BytesAreExact == bytes = Cardinality(Charged)

\* What is stored is what was accepted, in that order, each entry once, with the
\* entries left out that could not be stored or were waiting when the writer was
\* aborted (SessionLogger::live).
StoredUpTo(n, place) ==
    /\ \A i, j \in 1..Len(persisted) : i < j => place[i] < place[j]
    /\ \A i \in 1..Len(persisted) : persisted[i] = taken[place[i]]
    /\ \A k \in 1..n : taken[k].id \notin failed <=> \E i \in 1..Len(persisted) : place[i] = k
StoredInOrder ==
    \E n \in 0..Len(taken) : \E place \in [1..Len(persisted) -> 1..n] : StoredUpTo(n, place)

\* When the wait for the writer ends without a timeout, every accepted entry has
\* been stored or has failed (the comment of SessionLogWriter::shutdown).
DrainedMeansStored ==
    owner = "drained" => Len(persisted) + Cardinality(failed) = Len(taken)

\* After the shutdown has returned, drained or aborted, no call of log succeeds:
\* no caller is told Ok for an entry nobody will store.
NothingAfterShutdown == [][(owner \in {"drained", "aborted"}) => taken' = taken]_logVars

\* The log's budget is exact, its order that of the loggers' sends, and a drain
\* that reports success has stored everything (SessionLogger and its writer).
LogIsComplete == LogTypeOK /\ BytesAreExact /\ StoredInOrder /\ DrainedMeansStored
=============================================================================

-------------------------- MODULE LowPriorityWriter --------------------------
(* The queue of rows that may be written late: chat history, statistics.    *)
(*                                                                          *)
(* append_low_priority_record puts a record into a bounded buffer; a task   *)
(* of the worker sleeps until a flush is due and writes batches.  The       *)
(* memory governor writes the whole buffer (flush_low_priority_writer with  *)
(* force) as long as its timeout lets it, and so does the shutdown, after   *)
(* it has cancelled the task.                                               *)
(* One writer is modelled, its records are numbered in the order in which   *)
(* they come.  Of the clock it is kept whether the interval since the last  *)
(* flush, the backoff and the pause after a failure are over.               *)
EXTENDS Integers, FiniteSets, SequencesExt

CONSTANTS
    MaxRecords,     \* bound on the records appended
    BatchSize,      \* batch_size
    TriggerSize,    \* trigger_size
    MaxRetain,      \* max_retain
    MaxPerCycle,    \* max_items_per_cycle
    MaxFailures,    \* bound on writes that fail or time out
    MayRaise,       \* the tasks in which write_batch may raise
    None

Tasks == {"worker", "governor", "stop"}

ASSUME LowPriorityWriterAssumption ==
    /\ {MaxRecords, MaxFailures} \subseteq Nat
    /\ {BatchSize, TriggerSize, MaxRetain, MaxPerCycle} \subseteq Nat \ {0}
    /\ MayRaise \subseteq Tasks
    /\ None \notin Tasks

VARIABLES
    appended,  \* how many records have come
    buffer,    \* state.buffer
    rows,      \* the rows of the table, in the order of their insertion
    dropped,   \* the records that state.dropped counts
    lost,      \* records of a batch whose writer was cancelled
    pc, batch, \* [Tasks -> ...] where a task is, what it is writing
    cycle,     \* written: items the worker has written in this cycle
    lock,      \* holder of _FLUSH_LOCK
    wake,      \* _WAKE_EVENT
    timed,     \* whether the worker waits with a timeout
    elapsed,   \* flush_interval_seconds have passed since last_flush_at
    backoff,   \* now < backoff_until
    paused,    \* should_pause_db_tasks()
    failures,
    stopping   \* _STOPPING

vars == <<appended, buffer, rows, dropped, lost, pc, batch, cycle, lock, wake,
          timed, elapsed, backoff, paused, failures, stopping>>
records == <<appended, buffer, rows, dropped, lost, batch>>
clock == <<elapsed, backoff, paused, failures>>

Init ==
    /\ appended = 0 /\ buffer = <<>> /\ rows = <<>> /\ dropped = {} /\ lost = {}
    /\ pc = [t \in Tasks |-> IF t = "worker" THEN "loop" ELSE "idle"]
    /\ batch = [t \in Tasks |-> <<>>] /\ cycle = 0
    /\ lock = None /\ wake = FALSE /\ timed = FALSE
    /\ elapsed = FALSE /\ backoff = FALSE /\ paused = FALSE /\ failures = 0
    /\ stopping = FALSE

Goto(t, p) == pc' = [pc EXCEPT ![t] = p]

-----------------------------------------------------------------------------
(* Appending.                                                              *)

\* Slip: the first record of an empty buffer does not wake the worker.
WakesAtTrigger(n) == n >= TriggerSize

Wakes(n) == n = 1 \/ n >= TriggerSize

\* A full buffer drops its oldest record.
Append1 ==
    /\ appended < MaxRecords
    /\ appended' = appended + 1
    /\ LET full == Len(buffer) >= MaxRetain
           kept == IF full THEN Tail(buffer) ELSE buffer
       IN /\ buffer' = Append(kept, appended + 1)
          /\ dropped' = IF full THEN dropped \cup {Head(buffer)} ELSE dropped
          /\ wake' = (wake \/ Wakes(Len(kept) + 1))
    /\ UNCHANGED <<rows, lost, pc, batch, cycle, lock, timed, clock, stopping>>

-----------------------------------------------------------------------------
(* The task of the worker.                                                 *)

\* _next_wait, then the wait for the event.
WorkerWaits ==
    /\ pc["worker"] = "loop"
    /\ timed' = (paused \/ buffer # <<>>)
    /\ Goto("worker", "wait")
    /\ UNCHANGED <<records, cycle, lock, wake, clock, stopping>>

WorkerWakes ==
    /\ pc["worker"] = "wait" /\ (wake \/ timed)
    /\ wake' = FALSE
    /\ Goto("worker", IF paused THEN "loop" ELSE "lock")
    /\ UNCHANGED <<records, cycle, lock, timed, clock, stopping>>

\* _state_due_for_flush and the first lines of _flush_state
DueForFlush ==
    /\ buffer # <<>> /\ ~backoff /\ ~paused
    /\ Len(buffer) >= TriggerSize \/ elapsed

WorkerLocks ==
    /\ pc["worker"] = "lock" /\ lock = None
    /\ IF DueForFlush
         THEN lock' = "worker" /\ cycle' = 0 /\ Goto("worker", "take")
         ELSE Goto("worker", "loop") /\ UNCHANGED <<lock, cycle>>
    /\ UNCHANGED <<records, wake, timed, clock, stopping>>

-----------------------------------------------------------------------------
(* Flushes with force.                                                     *)

\* The memory governor frees what can be written (_flush_statistics_buffer).
GovernorFlushes ==
    /\ pc["governor"] = "idle" /\ Goto("governor", "lock")
    /\ UNCHANGED <<records, cycle, lock, wake, timed, clock, stopping>>

Locks(t) ==
    /\ pc[t] = "lock" /\ t # "worker" /\ lock = None
    /\ lock' = t /\ Goto(t, "take")
    /\ UNCHANGED <<records, cycle, wake, timed, clock, stopping>>

\* Slip: a cancelled task keeps the lock.
StaysLocked(t) == lock

Unlocked(t) == IF lock = t THEN None ELSE lock

\* A task is cancelled in _flush_state or before, and with it the write it is
\* awaiting, which may happen all the same: no handler of _flush_state catches
\* the CancelledError, so that its batch is neither put back nor counted.
Cancelled(t) ==
    /\ lock' = Unlocked(t)
    /\ lost' = lost \cup ToSet(batch[t])
    /\ rows' \in {rows, rows \o batch[t]}
    /\ batch' = [batch EXCEPT ![t] = <<>>]
    /\ UNCHANGED <<appended, buffer, dropped, cycle, wake, timed, clock>>

\* The reclaim of the governor runs under asyncio.wait_for, which cancels it
\* after RECLAIM_TIMEOUT_SECONDS; stop_memory_governor cancels it as well.
GovernorCancelled ==
    /\ pc["governor"] # "idle" /\ Goto("governor", "idle")
    /\ Cancelled("governor")
    /\ UNCHANGED stopping

\* stop_low_priority_writer cancels the task of the worker.
StopBegins ==
    /\ pc["stop"] = "idle"
    /\ stopping' = TRUE
    /\ pc' = [pc EXCEPT !["worker"] = "end", !["stop"] = "lock"]
    /\ Cancelled("worker")

-----------------------------------------------------------------------------
(* _flush_state, by the holder of the lock.                                *)

\* max_items_per_cycle, where the flush is not forced
CycleDone(t) == t = "worker" /\ cycle >= MaxPerCycle

\* The task that flushes goes on with what it was doing.
Leaves(t) ==
    /\ lock' = None
    /\ Goto(t, CASE t = "worker" -> "loop" [] t = "governor" -> "idle" [] OTHER -> "end")

FlushEnds(t) ==
    /\ pc[t] = "take" /\ (buffer = <<>> \/ CycleDone(t))
    /\ Leaves(t)
    /\ UNCHANGED <<records, cycle, wake, timed, clock, stopping>>

TakeBatch(t) ==
    /\ pc[t] = "take" /\ buffer # <<>> /\ ~CycleDone(t)
    /\ LET n == IF Len(buffer) < BatchSize THEN Len(buffer) ELSE BatchSize IN
       /\ batch' = [batch EXCEPT ![t] = SubSeq(buffer, 1, n)]
       /\ buffer' = SubSeq(buffer, n + 1, Len(buffer))
    /\ Goto(t, "write")
    /\ UNCHANGED <<appended, rows, dropped, lost, cycle, lock, wake, timed, clock,
                   stopping>>

Written(t) ==
    /\ pc[t] = "write"
    /\ rows' = rows \o batch[t] /\ batch' = [batch EXCEPT ![t] = <<>>]
    /\ cycle' = IF t = "worker" THEN cycle + Len(batch[t]) ELSE cycle
    /\ backoff' = FALSE /\ elapsed' = FALSE
    /\ Goto(t, "take")
    /\ UNCHANGED <<appended, buffer, dropped, lost, lock, wake, timed, paused,
                   failures, stopping>>

\* Slip: the failed batch goes to the end of the queue.
RestoredAtEnd(b) ==
    LET room == MaxRetain - Len(buffer)
        n == IF room < Len(b) THEN Len(b) - room ELSE 0
    IN /\ buffer' = buffer \o SubSeq(b, n + 1, Len(b))
       /\ dropped' = dropped \cup ToSet(SubSeq(b, 1, n))

\* Slip: what finds no room is not counted.
RestoredUncounted(b) ==
    LET room == MaxRetain - Len(buffer)
        n == IF room < Len(b) THEN Len(b) - room ELSE 0
    IN buffer' = SubSeq(b, n + 1, Len(b)) \o buffer /\ UNCHANGED dropped

\* _restore_batch: the newest of the batch that find room go back in front.
Restored(b) ==
    LET room == MaxRetain - Len(buffer)
        n == IF room < Len(b) THEN Len(b) - room ELSE 0
    IN /\ buffer' = SubSeq(b, n + 1, Len(b)) \o buffer
       /\ dropped' = dropped \cup ToSet(SubSeq(b, 1, n))

\* _mark_failure and _mark_uncertain_timeout
MarkFailure(t) ==
    /\ failures < MaxFailures /\ failures' = failures + 1
    /\ backoff' = TRUE /\ paused' = TRUE
    /\ batch' = [batch EXCEPT ![t] = <<>>]
    /\ Leaves(t)
    /\ UNCHANGED <<appended, lost, cycle, wake, timed, elapsed, stopping>>

WriteFails(t) ==
    /\ pc[t] = "write" /\ t \in MayRaise
    /\ Restored(batch[t])
    /\ MarkFailure(t)
    /\ UNCHANGED rows

\* Slip: after a timeout the batch is kept for another attempt.
WriteTimesOutKept(t) ==
    /\ pc[t] = "write"
    /\ rows' \in {rows, rows \o batch[t]}
    /\ Restored(batch[t])
    /\ MarkFailure(t)

\* The statement may still be executed, so that the batch is given up.
WriteTimesOut(t) ==
    /\ pc[t] = "write"
    /\ rows' \in {rows, rows \o batch[t]}
    /\ dropped' = dropped \cup ToSet(batch[t])
    /\ MarkFailure(t)
    /\ UNCHANGED buffer

-----------------------------------------------------------------------------
(* Time.                                                                   *)

Elapse ==
    /\ ~elapsed /\ elapsed' = TRUE
    /\ UNCHANGED <<records, pc, cycle, lock, wake, timed, backoff, paused, failures,
                   stopping>>

BackoffEnds ==
    /\ backoff /\ backoff' = FALSE
    /\ UNCHANGED <<records, pc, cycle, lock, wake, timed, elapsed, paused, failures,
                   stopping>>

PauseEnds ==
    /\ paused /\ paused' = FALSE
    /\ UNCHANGED <<records, pc, cycle, lock, wake, timed, elapsed, backoff, failures,
                   stopping>>

Flush(t) == Locks(t) \/ FlushEnds(t) \/ TakeBatch(t) \/ Written(t)
Worker == WorkerWaits \/ WorkerWakes \/ WorkerLocks

Next ==
    \/ Append1 \/ Worker \/ GovernorFlushes \/ GovernorCancelled \/ StopBegins
    \/ \E t \in Tasks : Flush(t) \/ WriteFails(t) \/ WriteTimesOut(t)
    \/ Elapse \/ BackoffEnds \/ PauseEnds

Spec == Init /\ [][Next]_vars

\* Tasks that can run do, _FLUSH_LOCK serves those that wait in turn, and time
\* passes; a write ends, if only by its timeout.
FairSpec ==
    /\ Spec
    /\ WF_vars(Worker) /\ SF_vars(WorkerLocks)
    /\ \A t \in Tasks : WF_vars(Flush(t)) /\ SF_vars(Locks(t))
    /\ WF_vars(Elapse) /\ WF_vars(BackoffEnds) /\ WF_vars(PauseEnds)

-----------------------------------------------------------------------------
Ascending(s) == \A i \in 1 .. Len(s) - 1 : s[i] < s[i + 1]
InFlight == batch["worker"] \o batch["governor"] \o batch["stop"]

TypeOK ==
    /\ appended \in 0..MaxRecords
    /\ {buffer, rows} \subseteq Seq(Nat) /\ batch \in [Tasks -> Seq(Nat)]
    /\ Len(buffer) <= MaxRetain
    /\ \A s \in {buffer, rows, InFlight} : ToSet(s) \subseteq 1..appended
    /\ dropped \subseteq 1..appended /\ lost \subseteq 1..appended
    /\ pc \in [Tasks -> {"loop", "wait", "idle", "lock", "take", "write", "end"}]
    /\ cycle \in Nat
    /\ lock \in Tasks \cup {None}
    /\ {wake, timed, elapsed, backoff, paused, stopping} \subseteq BOOLEAN
    /\ failures \in 0..MaxFailures

\* The table holds the records in the order in which they came, each once,
\* and what is still to be written follows them, however often a batch was
\* put back, overtaken by a forced flush, or timed out (_flush_state).
InOrder == Ascending(rows \o buffer) /\ Ascending(InFlight \o buffer)

\* A record is in the table, on its way there, or counted as dropped; only the
\* batch whose writer is cancelled, by a shutdown or by the timeout of the
\* governor, is not (_restore_batch, append).
Accounted ==
    \A r \in 1..appended :
      Cardinality({w \in {"row", "buffer", "flight", "dropped", "lost"} :
        CASE w = "row" -> r \in ToSet(rows) \ (dropped \cup lost)
          [] w = "buffer" -> r \in ToSet(buffer)
          [] w = "flight" -> r \in ToSet(InFlight)
          [] w = "dropped" -> r \in dropped
          [] OTHER -> r \in lost}) = 1

\* A record does not stay in memory for ever, nor past a shutdown, which takes
\* the flush away from the task it cancels (_next_wait, _worker_loop,
\* stop_low_priority_writer).
RecordsLeave ==
    \A r \in 1..MaxRecords :
      appended >= r ~> (r \in ToSet(rows) \cup dropped \cup lost \/ pc["stop"] = "end")
=============================================================================

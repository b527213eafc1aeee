------------------------------ MODULE RouteBank -----------------------------
(***************************************************************************)
(* The optional raw-route bank of the dispatch (dispatch/route_bank_v3.py): *)
(* a lookup table in SQLite with a write buffer.  The dispatching thread   *)
(* (the caller) buffers entries and hands over blocks through a bounded    *)
(* queue; a daemon thread (the writer) stores them.  They share, without a *)
(* lock, the flag disabled_writes and the counter dropped_writes, whose    *)
(* += is a load and a store.  Whatever fails, the dispatch must go on.     *)
(***************************************************************************)
EXTENDS Naturals, Sequences, FiniteSets, SequencesExt, FiniteSetsExt

CONSTANTS Keys,        \* keys of raw routes
          MaxEntries,  \* max_entries
          FlushAt,     \* entries that make remember() flush (4096)
          QueueSize,   \* maxsize of the queue
          MaxRemember, \* bound: calls of remember() per key
          MaxOpens     \* bound: banks opened on the file

ASSUME BankAssumption == /\ IsFiniteSet(Keys)
                         /\ MaxEntries \in Nat \ {0} /\ FlushAt \in Nat \ {0}
                         /\ QueueSize \in Nat \ {0}
                         /\ MaxRemember \in Nat /\ MaxOpens \in Nat \ {0}

VARIABLES
  stored,          \* the keys in the file: all that outlives the process
  pending,         \* the buffer, a dict by key
  queue,           \* blocks on their way to the writer
  entryCount,      \* entry_count
  dropped,         \* dropped_writes
  disabledReads, disabledWrites, closing, writerDone, closed,
  caller,          \* the dispatching thread: pc, block in hand, loaded counter
  writer,          \* the writer thread: the same
  remembered,      \* calls of remember() of this process, by key
  opens,           \* banks opened so far
  lost             \* history: what was really dropped, [key |-> how often]

vars == <<stored, pending, queue, entryCount, dropped, disabledReads,
          disabledWrites, closing, writerDone, closed, caller, writer,
          remembered, opens, lost>>

bank == <<stored, pending, queue, entryCount>>
flags == <<disabledReads, disabledWrites, closing, writerDone, closed>>
counts == <<dropped, lost>>
bounds == <<remembered, opens>>

CallerPc == {"idle", "flush", "put", "load", "store", "join", "discard"}
WriterPc == {"start", "get", "timeout", "write", "load", "store", "checkpoint",
             "discard", "done"}
Thread(pcs) == [pc : pcs, block : SUBSET Keys, loaded : Nat, then : pcs]
At(pc) == [pc |-> pc, block |-> {}, loaded |-> 0, then |-> pc]

InQueue == UNION ToSet(queue)

-----------------------------------------------------------------------------
Open(rows) ==
  /\ entryCount' = Cardinality(rows)
  /\ pending' = {} /\ queue' = <<>> /\ dropped' = 0
  /\ closing' = FALSE /\ closed' = FALSE
  /\ caller' = At("idle")
  /\ lost' = [k \in Keys |-> 0]

Init ==
  /\ stored = {} /\ entryCount = 0
  /\ pending = {} /\ queue = <<>> /\ dropped = 0
  /\ disabledReads = FALSE /\ disabledWrites = FALSE
  /\ closing = FALSE /\ writerDone = FALSE /\ closed = FALSE
  /\ caller = At("idle") /\ writer = At("start")
  /\ remembered = [k \in Keys |-> 0] /\ opens = 1
  /\ lost = [k \in Keys |-> 0]

(* The process ends, at any point, and a later one opens the file again:   *)
(* __init__, where the reader may fail, or the thread may not start.       *)
Reopen ==
  /\ opens < MaxOpens /\ opens' = opens + 1
  /\ remembered' = [k \in Keys |-> 0]
  /\ \/ /\ Open(stored) /\ writer' = At("start")
        /\ disabledReads' = FALSE /\ disabledWrites' = FALSE /\ writerDone' = FALSE
     \/ /\ Open({}) /\ writer' = At("done")
        /\ disabledReads' = TRUE /\ disabledWrites' = TRUE /\ writerDone' = TRUE
     \/ /\ Open(stored) /\ writer' = At("done")
        /\ disabledReads' = FALSE /\ disabledWrites' = TRUE /\ writerDone' = TRUE
  /\ UNCHANGED stored

-----------------------------------------------------------------------------
(* dropped_writes += len(block), by either thread, in two steps.           *)

Drop(thread, block, next) ==
  [thread EXCEPT !.pc = "load", !.block = block, !.then = next]

Load(thread) == [thread EXCEPT !.pc = "store", !.loaded = dropped]

StoreTo(thread) ==
  /\ dropped' = thread.loaded + Cardinality(thread.block)
  /\ lost' = [k \in Keys |-> lost[k] + (IF k \in thread.block THEN 1 ELSE 0)]

Stored(thread) == [thread EXCEPT !.pc = thread.then, !.block = {}, !.loaded = 0]

CallerDrops ==
  /\ \/ /\ caller.pc = "load" /\ caller' = Load(caller) /\ UNCHANGED counts
     \/ /\ caller.pc = "store" /\ StoreTo(caller) /\ caller' = Stored(caller)
  /\ UNCHANGED <<bank, flags, writer, bounds>>

WriterDrops ==
  /\ \/ /\ writer.pc = "load" /\ writer' = Load(writer) /\ UNCHANGED counts
     \/ /\ writer.pc = "store" /\ StoreTo(writer) /\ writer' = Stored(writer)
  /\ UNCHANGED <<bank, flags, caller, bounds>>

-----------------------------------------------------------------------------
(* remember(): an entry is buffered, and a full buffer flushed; a bank     *)
(* that cannot store any more drops it.                                    *)
Remember(k) ==
  /\ caller.pc = "idle"
  /\ remembered[k] < MaxRemember
  /\ remembered' = [remembered EXCEPT ![k] = @ + 1]
  /\ IF disabledWrites \/ closed \/ writerDone
       THEN /\ caller' = Drop(caller, {k}, "idle")
            /\ UNCHANGED pending
       ELSE /\ pending' = pending \cup {k}
            /\ caller' = IF Cardinality(pending') >= FlushAt
                         THEN [caller EXCEPT !.pc = "flush", !.then = "idle"]
                         ELSE caller
  /\ UNCHANGED <<stored, queue, entryCount, counts, flags, writer, opens>>

(* flush() by the dispatch, at the end of an epoch.                        *)
CallFlush ==
  /\ caller.pc = "idle" /\ pending # {}
  /\ caller' = [caller EXCEPT !.pc = "flush", !.then = "idle"]
  /\ UNCHANGED <<bank, counts, flags, writer, bounds>>

(* flush(): take the buffer and look at the flags ...                      *)
Flush ==
  /\ caller.pc = "flush"
  /\ caller' = IF pending = {} THEN [caller EXCEPT !.pc = caller.then]
               ELSE IF disabledWrites \/ writerDone
                    THEN Drop(caller, pending, caller.then)
                    ELSE [caller EXCEPT !.pc = "put", !.block = pending]
  /\ pending' = {}
  /\ UNCHANGED <<stored, queue, entryCount, counts, flags, writer, bounds>>

(* ... and put_nowait the block: a full queue loses it.                    *)
Put ==
  /\ caller.pc = "put"
  /\ IF Len(queue) < QueueSize
       THEN /\ queue' = Append(queue, caller.block)
            /\ caller' = [caller EXCEPT !.pc = caller.then, !.block = {}]
       ELSE /\ caller' = Drop(caller, caller.block, caller.then)
            /\ UNCHANGED queue
  /\ UNCHANGED <<stored, pending, entryCount, counts, flags, writer, bounds>>

(* get_many(): a database error turns reading off.                         *)
ReadFails ==
  /\ caller.pc = "idle" /\ ~closed /\ ~disabledReads
  /\ disabledReads' = TRUE
  /\ UNCHANGED <<bank, counts, disabledWrites, closing, writerDone, closed,
                 caller, writer, bounds>>

(* close(): flush, tell the writer, wait for it for five seconds.          *)
CallClose ==
  /\ caller.pc = "idle" /\ ~closed /\ ~closing
  /\ caller' = [caller EXCEPT !.pc = "flush", !.then = "join"]
  /\ UNCHANGED <<bank, counts, flags, writer, bounds>>

SetClosing ==
  /\ caller.pc = "join" /\ ~closing
  /\ closing' = TRUE
  /\ UNCHANGED <<bank, counts, disabledReads, disabledWrites, writerDone, closed,
                 caller, writer, bounds>>

Join ==
  /\ caller.pc = "join" /\ closing /\ writer.pc = "done"
  /\ caller' = At("discard")
  /\ UNCHANGED <<bank, counts, flags, writer, bounds>>

(* Mutant: close() waits until the writer is done.                         *)
JoinForever ==
  /\ caller.pc = "join" /\ closing /\ writer.pc = "done"
  /\ disabledWrites' = TRUE
  /\ caller' = At("discard")
  /\ UNCHANGED <<bank, counts, disabledReads, closing, writerDone, closed,
                 writer, bounds>>

JoinTimesOut ==
  /\ caller.pc = "join" /\ closing /\ writer.pc # "done"
  /\ disabledWrites' = TRUE
  /\ caller' = At("discard")
  /\ UNCHANGED <<bank, counts, disabledReads, closing, writerDone, closed,
                 writer, bounds>>

(* _discard_queued() of the caller, and the end of close().                *)
CallerDiscards ==
  /\ caller.pc = "discard"
  /\ IF queue # <<>>
       THEN /\ queue' = Tail(queue)
            /\ caller' = Drop(caller, Head(queue), "discard")
            /\ UNCHANGED closed
       ELSE /\ closed' = TRUE /\ caller' = At("idle")
            /\ UNCHANGED queue
  /\ UNCHANGED <<stored, pending, entryCount, counts, disabledReads,
                 disabledWrites, closing, writerDone, writer, bounds>>

-----------------------------------------------------------------------------
(* _write_loop().                                                          *)

WriterStarts ==
  /\ writer.pc = "start"
  /\ \/ writer' = At("get") /\ UNCHANGED disabledWrites
     \/ writer' = At("discard") /\ disabledWrites' = TRUE
  /\ UNCHANGED <<bank, counts, disabledReads, closing, writerDone, closed,
                 caller, bounds>>

Get ==
  /\ writer.pc = "get"
  /\ IF queue # <<>>
       THEN /\ queue' = Tail(queue)
            /\ writer' = [At("write") EXCEPT !.block = Head(queue)]
       ELSE /\ writer' = At("timeout")
            /\ UNCHANGED queue
  /\ UNCHANGED <<stored, pending, entryCount, counts, flags, caller, bounds>>

(* get() has timed out on an empty queue: it may not be empty any more     *)
(* when the closing flag is looked at.                                     *)
TimedOut ==
  /\ writer.pc = "timeout"
  /\ writer' = IF closing THEN At("checkpoint") ELSE At("get")
  /\ UNCHANGED <<bank, counts, flags, caller, bounds>>

(* As many entries of the block as there is room for are inserted, the     *)
(* known keys ignored, and committed; the rest is dropped.                 *)
Room == IF MaxEntries > entryCount THEN MaxEntries - entryCount ELSE 0

(* Mutant: entries that were known already are counted again.              *)
CountEntries(entries) == entryCount + Cardinality(entries)

CountChanges(entries) == entryCount + Cardinality(entries \ stored)

Insertable(block) == kSubset(Min({Room, Cardinality(block)}), block)

(* Mutant: the entries that found no room are forgotten.                   *)
NoRest(block, entries) == {}

Rest(block, entries) == block \ entries

Write ==
  /\ writer.pc = "write" /\ ~disabledWrites /\ Room > 0
  /\ \E entries \in Insertable(writer.block) :
       /\ stored' = stored \cup entries
       /\ entryCount' = CountChanges(entries)
       /\ writer' = IF Rest(writer.block, entries) = {} THEN At("get")
                    ELSE Drop(writer, Rest(writer.block, entries), "get")
  /\ UNCHANGED <<pending, queue, counts, flags, caller, bounds>>

WriteNothing ==
  /\ writer.pc = "write" /\ (disabledWrites \/ Room = 0)
  /\ writer' = Drop(writer, writer.block, "get")
  /\ UNCHANGED <<bank, counts, flags, caller, bounds>>

(* A database error: rolled back, writing is off, the block dropped.       *)
WriteFails ==
  /\ writer.pc = "write" /\ ~disabledWrites /\ Room > 0
  /\ disabledWrites' = TRUE
  /\ writer' = Drop(writer, writer.block, "get")
  /\ UNCHANGED <<bank, counts, disabledReads, closing, writerDone, closed,
                 caller, bounds>>

Checkpoint ==
  /\ writer.pc = "checkpoint"
  /\ \/ UNCHANGED disabledWrites
     \/ disabledWrites' = TRUE
  /\ writer' = At("discard")
  /\ UNCHANGED <<bank, counts, disabledReads, closing, writerDone, closed,
                 caller, bounds>>

WriterDiscards ==
  /\ writer.pc = "discard"
  /\ IF queue # <<>>
       THEN /\ queue' = Tail(queue)
            /\ writer' = Drop(writer, Head(queue), "discard")
            /\ UNCHANGED writerDone
       ELSE /\ writerDone' = TRUE /\ writer' = At("done")
            /\ UNCHANGED queue
  /\ UNCHANGED <<stored, pending, entryCount, counts, disabledReads,
                 disabledWrites, closing, closed, caller, bounds>>

-----------------------------------------------------------------------------
CallerStep == \/ CallerDrops \/ Flush \/ Put \/ SetClosing \/ Join \/ JoinTimesOut
              \/ CallerDiscards

WriterStep == \/ WriterDrops \/ WriterStarts \/ Get \/ TimedOut \/ Write
              \/ WriteNothing \/ WriteFails \/ Checkpoint \/ WriterDiscards

Next == \/ CallerStep \/ WriterStep \/ Reopen
        \/ CallFlush \/ ReadFails \/ CallClose
        \/ \E k \in Keys : Remember(k)

Spec == Init /\ [][Next]_vars

-----------------------------------------------------------------------------
(* The pieces of state are of their kinds; no block in the queue is empty. *)
TypeOK ==
  /\ stored \subseteq Keys /\ pending \subseteq Keys
  /\ queue \in Seq((SUBSET Keys) \ {{}}) /\ Len(queue) <= QueueSize
  /\ entryCount \in Nat /\ dropped \in Nat
  /\ {disabledReads, disabledWrites, closing, writerDone, closed} \subseteq BOOLEAN
  /\ caller \in Thread(CallerPc) /\ writer \in Thread(WriterPc)
  /\ remembered \in [Keys -> 0..MaxRemember] /\ opens \in 1..MaxOpens
  /\ lost \in [Keys -> Nat]

(* The writer knows how many rows the file holds, over repeated keys,      *)
(* failed writes and restarts, so the file never outgrows max_entries      *)
(* (route_bank_v3.py:137-146).                                             *)
CountsTheRows ==
  /\ writer.pc # "done" => entryCount = Cardinality(stored)
  /\ Cardinality(stored) <= MaxEntries

(* An entry that was remembered is on its way, in the file, or was counted *)
(* as dropped, whichever of the two threads had it last                    *)
(* (route_bank_v3.py:92-147: "cache loss is harmless", silent loss is not). *)
NothingVanishes ==
  \A k \in Keys : remembered[k] > 0 =>
    \/ k \in pending \cup caller.block \cup InQueue \cup writer.block \cup stored
    \/ lost[k] > 0

(* Both threads add to dropped_writes without a lock: an addition may be   *)
(* lost, but the diagnostics never report more than was dropped.           *)
Losses == UNION {{k} \X (1..lost[k]) : k \in Keys}

NeverOvercounted == dropped <= Cardinality(Losses)

(* A closed bank holds no block back, though the writer may still be alive *)
(* (route_bank_v3.py:165-191).                                             *)
ClosedIsEmpty == closed => queue = <<>> /\ pending = {}

(* What was remembered is accounted for, also when the bank is closed, and *)
(* no drop is reported that was none.                                      *)
BankIsAccounted == TypeOK /\ NothingVanishes /\ NeverOvercounted /\ ClosedIsEmpty

(* Every call of the dispatching thread returns, also if the writer hangs  *)
(* in the database or has died with the queue full                         *)
(* (route_bank_v3.py:174-191).                                             *)
CallsReturn == caller.pc # "idle" ~> caller.pc = "idle"
=============================================================================

--------------------------- MODULE RouteBankProofs --------------------------
(***************************************************************************)
(* The route bank, for any keys, sizes and number of restarts: no entry    *)
(* vanishes between the two threads, a closed bank is empty, and the       *)
(* writer counts the rows of its file.                                     *)
(***************************************************************************)
EXTENDS RouteBank, SequenceTheorems, FiniteSetTheorems, TLAPS

-----------------------------------------------------------------------------
(* The steps of a thread keep its record.                                  *)
LEMMA ThreadFields ==
  ASSUME NEW pcs, NEW t \in Thread(pcs)
  PROVE  t.pc \in pcs /\ t.block \in SUBSET Keys /\ t.loaded \in Nat /\ t.then \in pcs
BY DEF Thread

LEMMA AtIs ==
  ASSUME NEW pcs, NEW p \in pcs
  PROVE  /\ At(p) \in Thread(pcs) /\ At(p).pc = p /\ At(p).block = {} /\ At(p).then = p
BY DEF At, Thread

LEMMA DropIs ==
  ASSUME NEW pcs, NEW t \in Thread(pcs), "load" \in pcs, NEW b \in SUBSET Keys, NEW n \in pcs
  PROVE  /\ Drop(t, b, n) \in Thread(pcs)
         /\ Drop(t, b, n).pc = "load" /\ Drop(t, b, n).block = b /\ Drop(t, b, n).then = n
BY DEF Drop, Thread

LEMMA LoadIs ==
  ASSUME NEW pcs, NEW t \in Thread(pcs), "store" \in pcs, dropped \in Nat
  PROVE  /\ Load(t) \in Thread(pcs)
         /\ Load(t).pc = "store" /\ Load(t).block = t.block /\ Load(t).then = t.then
BY DEF Load, Thread

LEMMA StoredIs ==
  ASSUME NEW pcs, NEW t \in Thread(pcs)
  PROVE  /\ Stored(t) \in Thread(pcs)
         /\ Stored(t).pc = t.then /\ Stored(t).block = {} /\ Stored(t).then = t.then
BY DEF Stored, Thread

LEMMA GoesTo ==
  ASSUME NEW pcs, NEW t \in Thread(pcs), NEW p \in pcs
  PROVE  /\ [t EXCEPT !.pc = p] \in Thread(pcs)
         /\ [t EXCEPT !.pc = p].pc = p /\ [t EXCEPT !.pc = p].block = t.block
         /\ [t EXCEPT !.pc = p].then = t.then
BY DEF Thread

(* What is in the queue.                                                   *)
Queued(q) == UNION ToSet(q)

LEMMA QueueGrows ==
  ASSUME NEW q \in Seq(SUBSET Keys), NEW b \in SUBSET Keys
  PROVE  Append(q, b) \in Seq(SUBSET Keys) /\ Queued(Append(q, b)) = Queued(q) \cup b
<1>1. Append(q, b) \in Seq(SUBSET Keys) /\ Len(Append(q, b)) = Len(q) + 1 /\ Len(q) \in Nat
  OBVIOUS
<1>2. /\ \A i \in 1..Len(q) : Append(q, b)[i] = q[i]
      /\ Append(q, b)[Len(q) + 1] = b
  OBVIOUS
<1>3. ToSet(Append(q, b)) = ToSet(q) \cup {b}
  BY <1>1, <1>2 DEF ToSet
<1>4. QED
  BY <1>1, <1>3 DEF Queued

LEMMA QueueShrinks ==
  ASSUME NEW q \in Seq(SUBSET Keys), q # << >>
  PROVE  /\ Head(q) \in SUBSET Keys /\ Tail(q) \in Seq(SUBSET Keys)
         /\ Queued(q) = Head(q) \cup Queued(Tail(q))
<1>1. /\ Len(q) \in Nat \ {0} /\ Head(q) = q[1] /\ Tail(q) \in Seq(SUBSET Keys)
      /\ Len(Tail(q)) = Len(q) - 1 /\ \A i \in 1..(Len(q) - 1) : Tail(q)[i] = q[i + 1]
  OBVIOUS
<1>2. ToSet(q) = {Head(q)} \cup ToSet(Tail(q))
  <2>1. ASSUME NEW i \in 1..Len(q), i # 1
        PROVE  i - 1 \in 1..(Len(q) - 1) /\ q[i] = Tail(q)[i - 1]
    <3>1. i - 1 \in 1..(Len(q) - 1) /\ (i - 1) + 1 = i
      BY <1>1, <2>1
    <3>2. Tail(q)[i - 1] = q[(i - 1) + 1]
      BY <1>1, <3>1, Zenon
    <3>3. QED
      BY <3>1, <3>2
  <2>2. \A i \in 1..(Len(q) - 1) : i + 1 \in 1..Len(q)
    BY <1>1
  <2>3. ToSet(q) \subseteq {Head(q)} \cup ToSet(Tail(q))
    <3>1. DOMAIN q = 1..Len(q) /\ DOMAIN Tail(q) = 1..(Len(q) - 1)
      BY <1>1
    <3>2. ASSUME NEW i \in 1..Len(q)
          PROVE  q[i] \in {Head(q)} \cup ToSet(Tail(q))
      <4>1. CASE i = 1
        BY <1>1, <4>1
      <4>2. CASE i # 1
        <5>1. i - 1 \in DOMAIN Tail(q) /\ q[i] = Tail(q)[i - 1]
          BY <2>1, <3>1, <4>2
        <5>2. QED
          BY <5>1 DEF ToSet
      <4>3. QED
        BY <4>1, <4>2
    <3>3. QED
      BY <3>1, <3>2 DEF ToSet
  <2>4. {Head(q)} \cup ToSet(Tail(q)) \subseteq ToSet(q)
    BY <1>1, <2>2 DEF ToSet
  <2>5. QED
    BY <2>3, <2>4
<1>3. Head(q) \in SUBSET Keys
  BY <1>1
<1>4. QED
  BY <1>1, <1>2, <1>3 DEF Queued

LEMMA EmptyQueue == << >> \in Seq(SUBSET Keys) /\ Queued(<< >>) = {}
BY DEF Queued, ToSet

-----------------------------------------------------------------------------
(* An entry is in the buffer, in a thread's hands, in the queue or in the  *)
(* file.  A thread that holds no block is at a place where it lets none    *)
(* go; the buffer of a bank that is being closed is empty.                 *)
Somewhere == pending \cup caller.block \cup Queued(queue) \cup writer.block \cup stored

Typing ==
  /\ stored \in SUBSET Keys /\ pending \in SUBSET Keys /\ queue \in Seq(SUBSET Keys)
  /\ dropped \in Nat /\ remembered \in [Keys -> Nat] /\ lost \in [Keys -> Nat]
  /\ caller \in Thread(CallerPc) /\ writer \in Thread(WriterPc)

Hands ==
  /\ caller.pc \in {"idle", "flush", "join", "discard"} => caller.block = {}
  /\ writer.pc \in {"start", "get", "timeout", "checkpoint", "discard", "done"}
       => writer.block = {}

Leaves(t) ==
  t.pc \in {"join", "discard"} \/ (t.pc \in {"put", "load", "store"} /\ t.then \in {"join", "discard"})

Leaving ==
  /\ Leaves(caller) => pending = {}
  /\ closed => /\ queue = << >> /\ pending = {}
               /\ caller.pc = "idle" \/ (caller.pc \in {"load", "store"} /\ caller.then = "idle")

Bank == Typing /\ Hands /\ Leaving /\ NothingVanishes

(* What stays somewhere, or is counted as lost, has not vanished.          *)
LEMMA Kept ==
  ASSUME Bank, Typing', NEW B \in SUBSET Keys,
         Somewhere \ B \subseteq Somewhere', remembered' = remembered,
         \/ B = {} /\ lost' = lost
         \/ lost' = [k \in Keys |-> lost[k] + (IF k \in B THEN 1 ELSE 0)]
  PROVE  NothingVanishes'
<1>1. SUFFICES ASSUME NEW k \in Keys, remembered[k] > 0
               PROVE  k \in Somewhere' \/ lost'[k] > 0
  BY DEF NothingVanishes, Somewhere, InQueue, Queued
<1>2. k \in Somewhere \/ lost[k] > 0
  BY <1>1 DEF Bank, NothingVanishes, Somewhere, InQueue, Queued
<1>3. lost[k] \in Nat
  BY DEF Bank, Typing
<1>4. lost'[k] >= lost[k] /\ (k \in B => lost'[k] > 0)
  <2>1. CASE B = {} /\ lost' = lost
    BY <1>3, <2>1
  <2>2. CASE lost' = [j \in Keys |-> lost[j] + (IF j \in B THEN 1 ELSE 0)]
    BY <1>3, <2>2
  <2>3. QED
    BY <2>1, <2>2
<1>5. lost'[k] \in Nat
  BY DEF Typing
<1>6. QED
  BY <1>2, <1>3, <1>4, <1>5

LEMMA KeptAll ==
  ASSUME Bank, Typing', Somewhere \subseteq Somewhere', remembered' = remembered, lost' = lost
  PROVE  NothingVanishes'
<1>1. {} \in SUBSET Keys /\ Somewhere \ {} \subseteq Somewhere'
  OBVIOUS
<1>2. QED
  BY <1>1, Kept

LEMMA Sizes == \A B \in SUBSET Keys : IsFiniteSet(B) /\ Cardinality(B) \in Nat
BY BankAssumption, FS_Subset, FS_CardinalityType

Pcs == "load" \in CallerPc /\ "store" \in CallerPc /\ "load" \in WriterPc /\ "store" \in WriterPc

LEMMA PcsAre == Pcs
BY DEF Pcs, CallerPc, WriterPc

(* dropped_writes += n, in either thread.                                  *)
LEMMA CallerDropsKeeps == ASSUME Bank, CallerDrops PROVE Bank'
<1>1. /\ UNCHANGED <<stored, pending, queue, writer, closed, remembered>>
      /\ caller \in Thread(CallerPc) /\ dropped \in Nat
  BY DEF CallerDrops, bank, flags, bounds, Bank, Typing
<1>2. CASE caller.pc = "load" /\ caller' = Load(caller) /\ UNCHANGED counts
  <2>1. /\ caller' \in Thread(CallerPc) /\ caller'.pc = "store"
        /\ caller'.block = caller.block /\ caller'.then = caller.then
    BY <1>1, <1>2, LoadIs, PcsAre DEF Pcs
  <2>2. Typing' /\ Hands' /\ Leaving'
    BY <1>1, <1>2, <2>1 DEF counts, Bank, Typing, Hands, Leaving, Leaves
  <2>3. Somewhere' = Somewhere /\ lost' = lost
    BY <1>1, <1>2, <2>1 DEF Somewhere, counts
  <2>4. QED
    BY <1>1, <2>2, <2>3, KeptAll DEF Bank
<1>3. CASE caller.pc = "store" /\ StoreTo(caller) /\ caller' = Stored(caller)
  <2>1. /\ caller' \in Thread(CallerPc) /\ caller'.pc = caller.then
        /\ caller'.block = {} /\ caller'.then = caller.then
        /\ caller.block \in SUBSET Keys /\ caller.loaded \in Nat
    BY <1>1, <1>3, StoredIs, ThreadFields
  <2>2. /\ lost' = [k \in Keys |-> lost[k] + (IF k \in caller.block THEN 1 ELSE 0)]
        /\ lost' \in [Keys -> Nat]
    BY <1>3 DEF StoreTo, Bank, Typing
  <2>3. dropped' \in Nat
    BY <1>3, <2>1, Sizes DEF StoreTo
  <2>4. Typing' /\ Hands' /\ Leaving'
    BY <1>1, <1>3, <2>1, <2>2, <2>3 DEF Bank, Typing, Hands, Leaving, Leaves
  <2>5. Somewhere \ caller.block \subseteq Somewhere'
    BY <1>1 DEF Somewhere
  <2>6. QED
    BY <1>1, <2>1, <2>2, <2>4, <2>5, Kept DEF Bank
<1>4. QED
  BY <1>2, <1>3 DEF CallerDrops

LEMMA WriterDropsKeeps == ASSUME Bank, WriterDrops PROVE Bank'
<1>1. /\ UNCHANGED <<stored, pending, queue, caller, closed, remembered>>
      /\ writer \in Thread(WriterPc) /\ dropped \in Nat
  BY DEF WriterDrops, bank, flags, bounds, Bank, Typing
<1>2. CASE writer.pc = "load" /\ writer' = Load(writer) /\ UNCHANGED counts
  <2>1. /\ writer' \in Thread(WriterPc) /\ writer'.pc = "store" /\ writer'.block = writer.block
    BY <1>1, <1>2, LoadIs, PcsAre DEF Pcs
  <2>2. Typing' /\ Hands' /\ Leaving'
    BY <1>1, <1>2, <2>1 DEF counts, Bank, Typing, Hands, Leaving, Leaves
  <2>3. Somewhere' = Somewhere /\ lost' = lost
    BY <1>1, <1>2, <2>1 DEF Somewhere, counts
  <2>4. QED
    BY <1>1, <2>2, <2>3, KeptAll DEF Bank
<1>3. CASE writer.pc = "store" /\ StoreTo(writer) /\ writer' = Stored(writer)
  <2>1. /\ writer' \in Thread(WriterPc) /\ writer'.block = {}
        /\ writer.block \in SUBSET Keys /\ writer.loaded \in Nat
    BY <1>1, <1>3, StoredIs, ThreadFields
  <2>2. /\ lost' = [k \in Keys |-> lost[k] + (IF k \in writer.block THEN 1 ELSE 0)]
        /\ lost' \in [Keys -> Nat]
    BY <1>3 DEF StoreTo, Bank, Typing
  <2>3. dropped' \in Nat
    BY <1>3, <2>1, Sizes DEF StoreTo
  <2>4. Typing' /\ Hands' /\ Leaving'
    BY <1>1, <1>3, <2>1, <2>2, <2>3 DEF Bank, Typing, Hands, Leaving, Leaves
  <2>5. Somewhere \ writer.block \subseteq Somewhere'
    BY <1>1 DEF Somewhere
  <2>6. QED
    BY <1>1, <2>1, <2>2, <2>4, <2>5, Kept DEF Bank
<1>4. QED
  BY <1>2, <1>3 DEF WriterDrops

-----------------------------------------------------------------------------
(* The steps of the dispatching thread.                                    *)
LEMMA RememberKeeps == ASSUME Bank, NEW k \in Keys, Remember(k) PROVE Bank'
<1>1. /\ UNCHANGED <<stored, queue, writer, closed, dropped, lost>> /\ caller.pc = "idle"
      /\ caller \in Thread(CallerPc) /\ caller.block = {} /\ {k} \in SUBSET Keys
      /\ remembered' = [remembered EXCEPT ![k] = @ + 1]
  BY DEF Remember, counts, flags, Bank, Typing, Hands
<1>2. remembered' \in [Keys -> Nat] /\ \A j \in Keys \ {k} : remembered'[j] = remembered[j]
  BY <1>1 DEF Bank, Typing
<1>3. /\ caller' \in Thread(CallerPc) /\ pending' \in SUBSET Keys /\ pending \subseteq pending'
      /\ k \in pending' \cup caller'.block
      /\ caller'.pc \in {"idle", "flush"} => caller'.block = {}
      /\ caller'.pc \in {"idle", "flush", "load"} /\ (caller'.pc = "load" => caller'.then = "idle")
      /\ closed => pending' = pending /\ caller'.pc = "load"
  <2>1. CASE disabledWrites \/ closed \/ writerDone
    <3>1. caller' = Drop(caller, {k}, "idle") /\ pending' = pending
      BY <2>1 DEF Remember
    <3>2. "idle" \in CallerPc /\ "load" \in CallerPc
      BY DEF CallerPc
    <3>3. /\ caller' \in Thread(CallerPc) /\ caller'.pc = "load"
          /\ caller'.block = {k} /\ caller'.then = "idle"
      BY <1>1, <3>1, <3>2, DropIs
    <3>4. pending' \in SUBSET Keys /\ pending \subseteq pending'
      BY <3>1 DEF Bank, Typing
    <3>5. QED
      BY <3>1, <3>3, <3>4
  <2>2. CASE ~(disabledWrites \/ closed \/ writerDone)
    <3>1. /\ pending' = pending \cup {k}
          /\ caller' = [caller EXCEPT !.pc = "flush", !.then = "idle"] \/ caller' = caller
      BY <2>2 DEF Remember
    <3>2. /\ caller' \in Thread(CallerPc) /\ caller'.block = {} /\ caller'.pc \in {"idle", "flush"}
      <4>1. "flush" \in CallerPc /\ "idle" \in CallerPc
        BY DEF CallerPc
      <4>2. CASE caller' = [caller EXCEPT !.pc = "flush", !.then = "idle"]
        BY <1>1, <4>1, <4>2 DEF Thread
      <4>3. CASE caller' = caller
        BY <1>1, <4>3
      <4>4. QED
        BY <3>1, <4>2, <4>3
    <3>3. QED
      BY <2>2, <3>1, <3>2 DEF Bank, Typing
  <2>3. QED
    BY <2>1, <2>2
<1>4. Typing' /\ Hands' /\ Leaving'
  BY <1>1, <1>2, <1>3 DEF Bank, Typing, Hands, Leaving, Leaves
<1>5. Somewhere \subseteq Somewhere' /\ k \in Somewhere'
  BY <1>1, <1>3 DEF Somewhere
<1>6. NothingVanishes'
  <2>1. SUFFICES ASSUME NEW j \in Keys, remembered'[j] > 0
                 PROVE  j \in Somewhere' \/ lost'[j] > 0
    BY DEF NothingVanishes, Somewhere, InQueue, Queued
  <2>2. CASE j = k
    BY <1>5, <2>2
  <2>3. CASE j # k
    <3>1. remembered[j] > 0
      BY <1>2, <2>1, <2>3
    <3>2. j \in Somewhere \/ lost[j] > 0
      BY <3>1 DEF Bank, NothingVanishes, Somewhere, InQueue, Queued
    <3>3. QED
      BY <1>1, <1>5, <3>2
  <2>4. QED
    BY <2>2, <2>3
<1>7. QED
  BY <1>4, <1>6 DEF Bank

(* Calls of flush and close, and the end of the wait for the writer.       *)
LEMMA CallKeeps == ASSUME Bank, CallFlush \/ CallClose PROVE Bank'
<1>1. /\ UNCHANGED <<stored, pending, queue, writer, closed, dropped, remembered, lost>>
      /\ caller.pc = "idle" /\ caller \in Thread(CallerPc) /\ caller.block = {} /\ ~closed
      /\ \E n \in {"idle", "join"} : caller' = [caller EXCEPT !.pc = "flush", !.then = n]
  BY DEF CallFlush, CallClose, bank, flags, counts, bounds, Bank, Typing, Hands, Leaving
<1>2. caller' \in Thread(CallerPc) /\ caller'.pc = "flush" /\ caller'.block = {}
  <2>1. PICK n \in {"idle", "join"} : caller' = [caller EXCEPT !.pc = "flush", !.then = n]
    BY <1>1
  <2>2. "flush" \in CallerPc /\ n \in CallerPc
    BY DEF CallerPc
  <2>3. QED
    BY <1>1, <2>1, <2>2 DEF Thread
<1>3. Typing' /\ Hands' /\ Leaving' /\ Somewhere' = Somewhere
  BY <1>1, <1>2 DEF Bank, Typing, Hands, Leaving, Leaves, Somewhere
<1>4. QED
  BY <1>1, <1>3, KeptAll DEF Bank

LEMMA FlushKeeps == ASSUME Bank, Flush PROVE Bank'
<1>1. /\ UNCHANGED <<stored, queue, writer, closed, dropped, remembered, lost>> /\ pending' = {}
      /\ caller.pc = "flush" /\ caller \in Thread(CallerPc) /\ caller.block = {} /\ ~closed
      /\ pending \in SUBSET Keys /\ caller.then \in CallerPc
  BY ThreadFields DEF Flush, counts, flags, bounds, Bank, Typing, Hands, Leaving
<1>2. /\ caller' \in Thread(CallerPc) /\ caller'.block = pending
      /\ caller'.pc \in {"put", "load"} \/ pending = {}
  <2>1. CASE pending = {}
    <3>1. caller' = [caller EXCEPT !.pc = caller.then]
      BY <2>1 DEF Flush
    <3>2. QED
      BY <1>1, <2>1, <3>1, GoesTo
  <2>2. CASE pending # {} /\ (disabledWrites \/ writerDone)
    <3>1. caller' = Drop(caller, pending, caller.then)
      BY <2>2 DEF Flush
    <3>2. QED
      BY <1>1, <3>1, DropIs, PcsAre DEF Pcs
  <2>3. CASE pending # {} /\ ~(disabledWrites \/ writerDone)
    <3>1. caller' = [caller EXCEPT !.pc = "put", !.block = pending]
      BY <2>3 DEF Flush
    <3>2. "put" \in CallerPc
      BY DEF CallerPc
    <3>3. caller' \in Thread(CallerPc) /\ caller'.block = pending /\ caller'.pc = "put"
      <4> DEFINE b == pending
      <4>1. b \in SUBSET Keys /\ caller' = [caller EXCEPT !.pc = "put", !.block = b]
        BY <1>1, <3>1
      <4> HIDE DEF b
      <4>2. caller' \in Thread(CallerPc) /\ caller'.block = b /\ caller'.pc = "put"
        BY <1>1, <3>2, <4>1 DEF Thread
      <4>3. QED
        BY <4>2 DEF b
    <3>4. QED
      BY <3>3
  <2>4. QED
    BY <2>1, <2>2, <2>3
<1>3. Typing' /\ Hands' /\ Leaving'
  BY <1>1, <1>2 DEF Bank, Typing, Hands, Leaving, Leaves
<1>4. Somewhere \subseteq Somewhere'
  BY <1>1, <1>2 DEF Somewhere
<1>5. QED
  BY <1>1, <1>3, <1>4, KeptAll DEF Bank

LEMMA PutKeeps == ASSUME Bank, Put PROVE Bank'
<1>1. /\ UNCHANGED <<stored, pending, writer, closed, dropped, remembered, lost>>
      /\ caller.pc = "put" /\ caller \in Thread(CallerPc) /\ ~closed
      /\ caller.block \in SUBSET Keys /\ caller.then \in CallerPc /\ queue \in Seq(SUBSET Keys)
  BY ThreadFields DEF Put, counts, flags, bounds, Bank, Typing, Leaving
<1>2. CASE Len(queue) < QueueSize
  <2>1. queue' = Append(queue, caller.block)
        /\ caller' = [caller EXCEPT !.pc = caller.then, !.block = {}]
    BY <1>2 DEF Put
  <2>2. {} \in SUBSET Keys
    OBVIOUS
  <2>3. caller' \in Thread(CallerPc) /\ caller'.pc = caller.then /\ caller'.then = caller.then
        /\ caller'.block = {}
    BY <1>1, <2>1, <2>2 DEF Thread
  <2>4. queue' \in Seq(SUBSET Keys) /\ Queued(queue') = Queued(queue) \cup caller.block
    BY <1>1, <2>1, QueueGrows
  <2>5. Typing' /\ Hands' /\ Leaving'
    BY <1>1, <2>3, <2>4 DEF Bank, Typing, Hands, Leaving, Leaves
  <2>6. Somewhere \subseteq Somewhere'
    BY <1>1, <2>3, <2>4 DEF Somewhere
  <2>7. QED
    BY <1>1, <2>5, <2>6, KeptAll DEF Bank
<1>3. CASE ~(Len(queue) < QueueSize)
  <2>1. queue' = queue /\ caller' = Drop(caller, caller.block, caller.then)
    BY <1>3 DEF Put
  <2>2. caller' \in Thread(CallerPc) /\ caller'.pc = "load" /\ caller'.then = caller.then
        /\ caller'.block = caller.block
    BY <1>1, <2>1, DropIs, PcsAre DEF Pcs
  <2>3. Typing' /\ Hands' /\ Leaving' /\ Somewhere' = Somewhere
    BY <1>1, <2>1, <2>2 DEF Bank, Typing, Hands, Leaving, Leaves, Somewhere
  <2>4. QED
    BY <1>1, <2>3, KeptAll DEF Bank
<1>4. QED
  BY <1>2, <1>3

LEMMA JoinKeeps == ASSUME Bank, SetClosing \/ Join \/ JoinTimesOut PROVE Bank'
<1>1. /\ UNCHANGED <<stored, pending, queue, writer, closed, dropped, remembered, lost>>
      /\ caller.pc = "join" /\ caller.block = {} /\ ~closed /\ pending = {}
      /\ caller' = caller \/ caller' = At("discard")
      /\ caller \in Thread(CallerPc)
  BY DEF SetClosing, Join, JoinTimesOut, bank, flags, counts, bounds, Bank, Typing, Hands,
         Leaving, Leaves
<1>2. "discard" \in CallerPc
  BY DEF CallerPc
<1>3. caller' \in Thread(CallerPc) /\ caller'.block = {}
  BY <1>1, <1>2, AtIs DEF Bank, Typing
<1>4. Typing' /\ Hands' /\ Leaving' /\ Somewhere' = Somewhere
  BY <1>1, <1>3 DEF Bank, Typing, Hands, Leaving, Leaves, Somewhere
<1>5. QED
  BY <1>1, <1>4, KeptAll DEF Bank

LEMMA CallerDiscardsKeeps == ASSUME Bank, CallerDiscards PROVE Bank'
<1>1. /\ UNCHANGED <<stored, pending, writer, dropped, remembered, lost>>
      /\ caller.pc = "discard" /\ caller \in Thread(CallerPc) /\ caller.block = {} /\ ~closed
      /\ pending = {} /\ queue \in Seq(SUBSET Keys)
      /\ "discard" \in CallerPc /\ "idle" \in CallerPc
  BY DEF CallerDiscards, counts, bounds, Bank, Typing, Hands, Leaving, Leaves, CallerPc
<1>2. CASE queue # << >>
  <2>1. queue' = Tail(queue) /\ caller' = Drop(caller, Head(queue), "discard") /\ ~closed'
    BY <1>1, <1>2 DEF CallerDiscards
  <2>2. Head(queue) \in SUBSET Keys /\ queue' \in Seq(SUBSET Keys)
        /\ Queued(queue) = Head(queue) \cup Queued(queue')
    BY <1>1, <1>2, <2>1, QueueShrinks
  <2>3. caller' \in Thread(CallerPc) /\ caller'.pc = "load" /\ caller'.block = Head(queue)
    BY <1>1, <2>1, <2>2, DropIs, PcsAre DEF Pcs
  <2>4. Typing' /\ Hands' /\ Leaving'
    BY <1>1, <2>1, <2>2, <2>3 DEF Bank, Typing, Hands, Leaving, Leaves
  <2>5. Somewhere \subseteq Somewhere'
    BY <1>1, <2>2, <2>3 DEF Somewhere
  <2>6. QED
    BY <1>1, <2>4, <2>5, KeptAll DEF Bank
<1>3. CASE queue = << >>
  <2>1. queue' = queue /\ caller' = At("idle")
    BY <1>3 DEF CallerDiscards
  <2>2. caller' \in Thread(CallerPc) /\ caller'.pc = "idle" /\ caller'.block = {}
    BY <1>1, <2>1, AtIs
  <2>3. Typing' /\ Hands' /\ Leaving' /\ Somewhere' = Somewhere
    BY <1>1, <1>3, <2>1, <2>2 DEF Bank, Typing, Hands, Leaving, Leaves, Somewhere
  <2>4. QED
    BY <1>1, <2>3, KeptAll DEF Bank
<1>4. QED
  BY <1>2, <1>3

-----------------------------------------------------------------------------
(* The steps of the writer.  Those that only move it.                      *)
LEMMA WriterMovesKeeps ==
  ASSUME Bank, WriterStarts \/ TimedOut \/ Checkpoint
  PROVE  Bank'
<1>1. /\ UNCHANGED <<stored, pending, queue, caller, closed, dropped, remembered, lost>>
      /\ writer.pc \in {"start", "timeout", "checkpoint"}
      /\ \E n \in {"get", "discard", "checkpoint"} : writer' = At(n)
  BY DEF WriterStarts, TimedOut, Checkpoint, bank, flags, counts, bounds
<1>2. {"get", "discard", "checkpoint"} \subseteq WriterPc
  BY DEF WriterPc
<1>3. writer' \in Thread(WriterPc) /\ writer'.block = {}
  BY <1>1, <1>2, AtIs
<1>4. writer.block = {}
  BY <1>1 DEF Bank, Hands
<1>5. Typing' /\ Hands' /\ Leaving' /\ Somewhere' = Somewhere
  BY <1>1, <1>3, <1>4 DEF Bank, Typing, Hands, Leaving, Leaves, Somewhere
<1>6. QED
  BY <1>1, <1>5, KeptAll DEF Bank

LEMMA GetKeeps == ASSUME Bank, Get PROVE Bank'
<1>1. /\ UNCHANGED <<stored, pending, caller, closed, dropped, remembered, lost>>
      /\ writer.pc = "get" /\ writer.block = {} /\ queue \in Seq(SUBSET Keys)
      /\ "timeout" \in WriterPc /\ "write" \in WriterPc
  BY DEF Get, counts, flags, bounds, Bank, Typing, Hands, WriterPc
<1>2. CASE queue # << >>
  <2>1. queue' = Tail(queue) /\ writer' = [At("write") EXCEPT !.block = Head(queue)]
    BY <1>2 DEF Get
  <2>2. Head(queue) \in SUBSET Keys /\ queue' \in Seq(SUBSET Keys)
        /\ Queued(queue) = Head(queue) \cup Queued(queue')
    BY <1>1, <1>2, <2>1, QueueShrinks
  <2>3. writer' \in Thread(WriterPc) /\ writer'.pc = "write" /\ writer'.block = Head(queue)
    BY <1>1, <2>1, <2>2 DEF At, Thread
  <2>4. Typing' /\ Hands' /\ Leaving'
    <3>1. closed => queue' = << >>
      BY <1>2 DEF Bank, Leaving
    <3>2. QED
      BY <1>1, <2>2, <2>3, <3>1 DEF Bank, Typing, Hands, Leaving, Leaves
  <2>5. Somewhere \subseteq Somewhere'
    BY <1>1, <2>2, <2>3 DEF Somewhere
  <2>6. QED
    BY <1>1, <2>4, <2>5, KeptAll DEF Bank
<1>3. CASE queue = << >>
  <2>1. queue' = queue /\ writer' = At("timeout")
    BY <1>3 DEF Get
  <2>2. writer' \in Thread(WriterPc) /\ writer'.block = {}
    BY <1>1, <2>1, AtIs
  <2>3. Typing' /\ Hands' /\ Leaving' /\ Somewhere' = Somewhere
    BY <1>1, <1>3, <2>1, <2>2 DEF Bank, Typing, Hands, Leaving, Leaves, Somewhere
  <2>4. QED
    BY <1>1, <2>3, KeptAll DEF Bank
<1>4. QED
  BY <1>2, <1>3

LEMMA WriteKeeps == ASSUME Bank, Write PROVE Bank'
<1>1. /\ UNCHANGED <<pending, queue, caller, closed, dropped, remembered, lost>>
      /\ writer.pc = "write" /\ writer \in Thread(WriterPc) /\ writer.block \in SUBSET Keys
      /\ "get" \in WriterPc
  BY ThreadFields DEF Write, counts, flags, bounds, Bank, Typing, WriterPc
<1>2. PICK entries \in Insertable(writer.block) :
        /\ stored' = stored \cup entries
        /\ writer' = IF Rest(writer.block, entries) = {} THEN At("get")
                     ELSE Drop(writer, Rest(writer.block, entries), "get")
  BY DEF Write
<1>3. entries \in SUBSET writer.block
  BY DEF Insertable, kSubset
<1>4. /\ writer' \in Thread(WriterPc) /\ writer'.block = writer.block \ entries
      /\ writer'.pc \in {"get", "load"} /\ (writer'.pc = "get" => writer'.block = {})
  <2>1. Rest(writer.block, entries) = writer.block \ entries
        /\ Rest(writer.block, entries) \in SUBSET Keys
    BY <1>1 DEF Rest
  <2>2. CASE Rest(writer.block, entries) = {}
    BY <1>1, <1>2, <2>1, <2>2, AtIs
  <2>3. CASE Rest(writer.block, entries) # {}
    BY <1>1, <1>2, <2>1, <2>3, DropIs, PcsAre DEF Pcs
  <2>4. QED
    BY <2>2, <2>3
<1>5. Typing' /\ Hands' /\ Leaving'
  BY <1>1, <1>2, <1>3, <1>4 DEF Bank, Typing, Hands, Leaving, Leaves
<1>6. Somewhere \subseteq Somewhere'
  BY <1>1, <1>2, <1>4 DEF Somewhere
<1>7. QED
  BY <1>1, <1>5, <1>6, KeptAll DEF Bank

LEMMA WriteDropsKeeps == ASSUME Bank, WriteNothing \/ WriteFails PROVE Bank'
<1>1. /\ UNCHANGED <<stored, pending, queue, caller, closed, dropped, remembered, lost>>
      /\ writer.pc = "write" /\ writer \in Thread(WriterPc) /\ writer.block \in SUBSET Keys
      /\ "get" \in WriterPc /\ writer' = Drop(writer, writer.block, "get")
  BY ThreadFields DEF WriteNothing, WriteFails, bank, counts, flags, bounds, Bank, Typing, WriterPc
<1>2. writer' \in Thread(WriterPc) /\ writer'.pc = "load" /\ writer'.block = writer.block
  BY <1>1, DropIs, PcsAre DEF Pcs
<1>3. Typing' /\ Hands' /\ Leaving' /\ Somewhere' = Somewhere
  BY <1>1, <1>2 DEF Bank, Typing, Hands, Leaving, Leaves, Somewhere
<1>4. QED
  BY <1>1, <1>3, KeptAll DEF Bank

LEMMA WriterDiscardsKeeps == ASSUME Bank, WriterDiscards PROVE Bank'
<1>1. /\ UNCHANGED <<stored, pending, caller, closed, dropped, remembered, lost>>
      /\ writer.pc = "discard" /\ writer \in Thread(WriterPc) /\ writer.block = {}
      /\ queue \in Seq(SUBSET Keys) /\ "discard" \in WriterPc /\ "done" \in WriterPc
  BY DEF WriterDiscards, counts, bounds, Bank, Typing, Hands, WriterPc
<1>2. CASE queue # << >>
  <2>1. queue' = Tail(queue) /\ writer' = Drop(writer, Head(queue), "discard")
    BY <1>2 DEF WriterDiscards
  <2>2. Head(queue) \in SUBSET Keys /\ queue' \in Seq(SUBSET Keys)
        /\ Queued(queue) = Head(queue) \cup Queued(queue')
    BY <1>1, <1>2, <2>1, QueueShrinks
  <2>3. writer' \in Thread(WriterPc) /\ writer'.pc = "load" /\ writer'.block = Head(queue)
    BY <1>1, <2>1, <2>2, DropIs, PcsAre DEF Pcs
  <2>4. Typing' /\ Hands' /\ Leaving'
    <3>1. closed => queue' = << >>
      BY <1>2 DEF Bank, Leaving
    <3>2. QED
      BY <1>1, <2>2, <2>3, <3>1 DEF Bank, Typing, Hands, Leaving, Leaves
  <2>5. Somewhere \subseteq Somewhere'
    BY <1>1, <2>2, <2>3 DEF Somewhere
  <2>6. QED
    BY <1>1, <2>4, <2>5, KeptAll DEF Bank
<1>3. CASE queue = << >>
  <2>1. queue' = queue /\ writer' = At("done")
    BY <1>3 DEF WriterDiscards
  <2>2. writer' \in Thread(WriterPc) /\ writer'.block = {}
    BY <1>1, <2>1, AtIs
  <2>3. Typing' /\ Hands' /\ Leaving' /\ Somewhere' = Somewhere
    BY <1>1, <1>3, <2>1, <2>2 DEF Bank, Typing, Hands, Leaving, Leaves, Somewhere
  <2>4. QED
    BY <1>1, <2>3, KeptAll DEF Bank
<1>4. QED
  BY <1>2, <1>3

-----------------------------------------------------------------------------
(* A bank that is opened remembers nothing.                                *)
LEMMA OpensClean ==
  ASSUME stored \in SUBSET Keys, NEW rows, Open(rows), stored' = stored,
         remembered' = [k \in Keys |-> 0], writer' \in {At("start"), At("done")}
  PROVE  Bank'
<1>1. "idle" \in CallerPc /\ "start" \in WriterPc /\ "done" \in WriterPc
  BY DEF CallerPc, WriterPc
<1>2. /\ pending' = {} /\ queue' = << >> /\ dropped' = 0 /\ ~closed'
      /\ caller' = At("idle") /\ lost' = [k \in Keys |-> 0]
  BY DEF Open
<1>3. /\ caller' \in Thread(CallerPc) /\ caller'.pc = "idle" /\ caller'.block = {}
      /\ writer' \in Thread(WriterPc) /\ writer'.block = {}
  <2>1. caller' \in Thread(CallerPc) /\ caller'.pc = "idle" /\ caller'.block = {}
    BY <1>1, <1>2, AtIs
  <2>2. CASE writer' = At("start")
    BY <1>1, <2>1, <2>2, AtIs
  <2>3. CASE writer' = At("done")
    BY <1>1, <2>1, <2>3, AtIs
  <2>4. QED
    BY <2>2, <2>3
<1>4. Typing' /\ Hands' /\ Leaving'
  BY <1>2, <1>3, EmptyQueue DEF Typing, Hands, Leaving, Leaves
<1>5. NothingVanishes'
  BY DEF NothingVanishes
<1>6. QED
  BY <1>4, <1>5 DEF Bank

LEMMA BankHolds == Spec => []Bank
<1>1. Init => Bank
  <2> SUFFICES ASSUME Init PROVE Bank
    OBVIOUS
  <2>1. "idle" \in CallerPc /\ "start" \in WriterPc
    BY DEF CallerPc, WriterPc
  <2>2. /\ caller \in Thread(CallerPc) /\ caller.pc = "idle" /\ caller.block = {}
        /\ writer \in Thread(WriterPc) /\ writer.block = {}
    BY <2>1, AtIs DEF Init
  <2>3. Typing /\ Hands /\ Leaving /\ NothingVanishes
    BY <2>2, EmptyQueue DEF Init, Typing, Hands, Leaving, Leaves, NothingVanishes
  <2>4. QED
    BY <2>3 DEF Bank
<1>2. Bank /\ [Next]_vars => Bank'
  <2> SUFFICES ASSUME Bank, [Next]_vars PROVE Bank'
    OBVIOUS
  <2>1. CASE UNCHANGED vars
    BY <2>1 DEF vars, Bank, Typing, Hands, Leaving, Leaves, NothingVanishes, InQueue
  <2>2. CASE CallerStep
    BY <2>2, CallerDropsKeeps, FlushKeeps, PutKeeps, JoinKeeps, CallerDiscardsKeeps DEF CallerStep
  <2>3. CASE WriterStep
    BY <2>3, WriterDropsKeeps, WriterMovesKeeps, GetKeeps, WriteKeeps, WriteDropsKeeps,
       WriterDiscardsKeeps DEF WriterStep
  <2>4. CASE Reopen
    <3>1. PICK rows : Open(rows)
      BY <2>4 DEF Reopen
    <3>2. stored \in SUBSET Keys /\ stored' = stored /\ remembered' = [k \in Keys |-> 0]
          /\ writer' \in {At("start"), At("done")}
      BY <2>4 DEF Reopen, Bank, Typing
    <3>3. QED
      BY <3>1, <3>2, OpensClean
  <2>5. CASE CallFlush \/ CallClose
    BY <2>5, CallKeeps
  <2>6. CASE ReadFails
    <3>1. UNCHANGED <<stored, pending, queue, caller, writer, closed, dropped, remembered, lost>>
      BY <2>6 DEF ReadFails, bank, counts, bounds
    <3>2. QED
      BY <3>1 DEF Bank, Typing, Hands, Leaving, Leaves, NothingVanishes, InQueue
  <2>7. ASSUME NEW k \in Keys, Remember(k) PROVE Bank'
    BY <2>7, RememberKeeps
  <2>8. QED
    BY <2>1, <2>2, <2>3, <2>4, <2>5, <2>6, <2>7 DEF Next
<1>3. QED
  BY <1>1, <1>2, PTL DEF Spec

(* An entry that was remembered is on its way, stored or counted as lost.  *)
THEOREM NoEntryVanishes == Spec => []NothingVanishes
<1>1. Bank => NothingVanishes
  BY DEF Bank
<1>2. QED
  BY <1>1, BankHolds, PTL

(* A closed bank holds nothing back.                                       *)
THEOREM CloseEmpties == Spec => []ClosedIsEmpty
<1>1. Bank => ClosedIsEmpty
  BY DEF Bank, Leaving, ClosedIsEmpty
<1>2. QED
  BY <1>1, BankHolds, PTL

-----------------------------------------------------------------------------
(* The writer's count: at every place where it may still write, it is the  *)
(* number of rows, and there is room for what it inserts.                  *)
Counting ==
  /\ writer.pc \in WriterPc \ {"done"} => entryCount = Cardinality(stored)
  /\ Cardinality(stored) <= MaxEntries

LEMMA LesserOfTwo ==
  ASSUME NEW a \in Nat, NEW b \in Nat
  PROVE  Min({a, b}) <= a
<1>1. \E x \in {a, b} : \A y \in {a, b} : x <= y
  <2>1. CASE a <= b
    BY <2>1
  <2>2. CASE ~(a <= b)
    BY <2>2
  <2>3. QED
    BY <2>1, <2>2
<1>2. \A y \in {a, b} : Min({a, b}) <= y
  BY <1>1 DEF Min
<1>3. QED
  BY <1>2

LEMMA NewRows ==
  ASSUME NEW S \in SUBSET Keys, NEW B \in SUBSET Keys
  PROVE  /\ Cardinality(S \cup B) = Cardinality(S) + Cardinality(B \ S)
         /\ Cardinality(B \ S) \in Nat /\ Cardinality(B \ S) <= Cardinality(B)
<1>1. /\ IsFiniteSet(S) /\ IsFiniteSet(B) /\ IsFiniteSet(B \ S)
      /\ Cardinality(S) \in Nat /\ Cardinality(B) \in Nat /\ Cardinality(B \ S) \in Nat
  BY Sizes
<1>2. Cardinality(B \ S) <= Cardinality(B)
  BY <1>1, FS_Subset
<1>3. S \cap (B \ S) = {} /\ S \cup (B \ S) = S \cup B
  OBVIOUS
<1>4. Cardinality(S \cup (B \ S)) = Cardinality(S) + Cardinality(B \ S)
                                      - Cardinality(S \cap (B \ S))
  BY <1>1, FS_Union
<1>5. Cardinality(S \cap (B \ S)) = 0
  BY <1>3, FS_EmptySet
<1>6. Cardinality(S \cup (B \ S)) = Cardinality(S) + Cardinality(B \ S)
  BY <1>1, <1>4, <1>5
<1>7. Cardinality(S \cup B) = Cardinality(S) + Cardinality(B \ S)
  BY <1>3, <1>6, Zenon
<1>8. QED
  BY <1>1, <1>2, <1>7

LEMMA WriteCounts ==
  ASSUME Bank, Counting, Write
  PROVE  Counting'
<1>1. writer.pc = "write" /\ "write" \in WriterPc /\ Room > 0
  BY DEF Write, WriterPc
<1>2. PICK entries \in Insertable(writer.block) :
        stored' = stored \cup entries /\ entryCount' = CountChanges(entries)
  BY DEF Write
<1>3. stored \in SUBSET Keys /\ writer.block \in SUBSET Keys
  BY ThreadFields DEF Bank, Typing
<1>4. /\ entries \in SUBSET Keys
      /\ Cardinality(entries) = Min({Room, Cardinality(writer.block)})
  BY <1>2, <1>3 DEF Insertable, kSubset
<1>5. /\ Cardinality(stored) \in Nat /\ Cardinality(writer.block) \in Nat
      /\ Cardinality(entries) \in Nat /\ MaxEntries \in Nat /\ entryCount = Cardinality(stored)
  BY <1>1, <1>3, <1>4, Sizes, BankAssumption DEF Counting
<1>6. Room \in Nat /\ Cardinality(stored) + Room <= MaxEntries
  BY <1>5 DEF Room, Counting
<1>7. Cardinality(entries) <= Room
  BY <1>4, <1>5, <1>6, LesserOfTwo
<1>8. /\ Cardinality(stored') = Cardinality(stored) + Cardinality(entries \ stored)
      /\ Cardinality(entries \ stored) \in Nat
      /\ Cardinality(entries \ stored) <= Cardinality(entries)
  BY <1>2, <1>3, <1>4, NewRows
<1>9. entryCount' = Cardinality(stored) + Cardinality(entries \ stored)
  BY <1>2, <1>5 DEF CountChanges
<1>10. QED
  BY <1>5, <1>6, <1>7, <1>8, <1>9 DEF Counting

(* The file never outgrows max_entries, whatever is written again, fails   *)
(* or is opened anew.                                                      *)
THEOREM RowsAreCounted == Spec => []CountsTheRows
<1>1. Init => Counting
  <2>1. Cardinality({}) = 0
    BY FS_EmptySet
  <2>2. QED
    BY <2>1, BankAssumption DEF Init, Counting
<1>2. Bank /\ Counting /\ [Next]_vars => Counting'
  <2> SUFFICES ASSUME Bank, Counting, [Next]_vars PROVE Counting'
    OBVIOUS
  <2> DEFINE Still == UNCHANGED <<stored, entryCount>>
                      /\ (writer'.pc # "done" => writer.pc # "done" /\ writer.pc \in WriterPc)
  <2>1. ASSUME Still PROVE Counting'
    BY <2>1 DEF Counting
  <2>2. writer.pc \in WriterPc
    BY ThreadFields DEF Bank, Typing
  <2>3. CASE UNCHANGED <<stored, entryCount, writer>>
    BY <2>1, <2>2, <2>3
  <2>4. CASE WriterStep /\ ~Write
    <3>1. UNCHANGED <<stored, entryCount>> /\ writer.pc # "done"
      BY <2>4 DEF WriterStep, WriterDrops, WriterStarts, Get, TimedOut, WriteNothing, WriteFails,
                  Checkpoint, WriterDiscards, bank
    <3>2. QED
      BY <2>1, <2>2, <3>1
  <2>5. CASE Write
    BY <2>5, WriteCounts
  <2>6. CASE Reopen
    <3>1. CASE Open(stored) /\ stored' = stored
      BY <3>1 DEF Open, Counting
    <3>2. CASE writer' = At("done") /\ stored' = stored
      BY <3>2 DEF At, Counting
    <3>3. QED
      BY <2>6, <3>1, <3>2 DEF Reopen
  <2>7. QED
    <3>1. CASE CallerStep \/ CallFlush \/ ReadFails \/ CallClose \/ UNCHANGED vars
      BY <2>3, <3>1 DEF CallerStep, CallerDrops, Flush, Put, SetClosing, Join, JoinTimesOut,
         CallerDiscards, CallFlush, ReadFails, CallClose, bank, vars
    <3>2. CASE \E k \in Keys : Remember(k)
      BY <2>3, <3>2 DEF Remember
    <3>3. QED
      BY <2>4, <2>5, <2>6, <3>1, <3>2 DEF Next
<1>3. Bank /\ Counting => CountsTheRows
  BY ThreadFields DEF Bank, Typing, Counting, CountsTheRows
<1>4. QED
  BY <1>1, <1>2, <1>3, BankHolds, PTL DEF Spec

-----------------------------------------------------------------------------
(* The kinds of the pieces.  A block on its way is not empty, and neither  *)
(* thread goes back to the middle of an addition to dropped_writes.        *)
Kinds ==
  /\ queue \in Seq((SUBSET Keys) \ {{}}) /\ Len(queue) <= QueueSize
  /\ entryCount \in Nat
  /\ remembered \in [Keys -> 0..MaxRemember] /\ opens \in 1..MaxOpens

Flags == {disabledReads, disabledWrites, closing, writerDone, closed} \subseteq BOOLEAN

Places == {"idle", "join", "discard"}

CallerGoes(t) == t.then \in Places /\ (t.pc = "put" => t.block # {})

Going == CallerGoes(caller) /\ writer.then # "store"

Additions(c, w) ==
  /\ c.pc = "store" => c.loaded <= Cardinality(Losses)
  /\ w.pc = "store" => w.loaded <= Cardinality(Losses)

Overcounts == dropped <= Cardinality(Losses) /\ Additions(caller, writer)

LEMMA FlagsStay == Flags /\ [Next]_vars => Flags'
<1> SUFFICES ASSUME Flags, [Next]_vars PROVE Flags'
  OBVIOUS
<1>1. CASE UNCHANGED flags
  BY <1>1 DEF flags, Flags
<1>2. CASE CallerStep
  <2>1. CASE SetClosing
    BY <2>1 DEF SetClosing, Flags
  <2>2. CASE JoinTimesOut
    BY <2>2 DEF JoinTimesOut, Flags
  <2>3. CASE CallerDiscards
    BY <2>3 DEF CallerDiscards, Flags
  <2>4. CASE CallerDrops \/ Flush \/ Put \/ Join
    BY <1>1, <2>4 DEF CallerDrops, Flush, Put, Join
  <2>5. QED
    BY <1>2, <2>1, <2>2, <2>3, <2>4 DEF CallerStep
<1>3. CASE WriterStep
  <2>1. CASE WriterStarts \/ WriteFails \/ Checkpoint
    BY <2>1 DEF WriterStarts, WriteFails, Checkpoint, Flags
  <2>2. CASE WriterDiscards
    BY <2>2 DEF WriterDiscards, Flags
  <2>3. CASE WriterDrops \/ Get \/ TimedOut \/ Write \/ WriteNothing
    BY <1>1, <2>3 DEF WriterDrops, Get, TimedOut, Write, WriteNothing
  <2>4. QED
    BY <1>3, <2>1, <2>2, <2>3 DEF WriterStep
<1>4. CASE Reopen
  BY <1>4 DEF Reopen, Open, Flags
<1>5. CASE ReadFails
  BY <1>5 DEF ReadFails, Flags
<1>6. CASE CallFlush \/ CallClose \/ \E k \in Keys : Remember(k)
  BY <1>1, <1>6 DEF CallFlush, CallClose, Remember
<1>7. CASE UNCHANGED vars
  BY <1>1, <1>7 DEF vars, flags
<1>8. QED
  BY <1>2, <1>3, <1>4, <1>5, <1>6, <1>7 DEF Next

(* What a step of the caller does with its record, when it adds nothing.   *)
Steps(c) ==
  /\ CallerGoes(c) /\ (c.pc = "store" => c = caller)

LEMMA CallerSteps ==
  ASSUME Bank, Going,
         \/ Flush \/ Put \/ SetClosing \/ Join \/ JoinTimesOut \/ CallerDiscards
         \/ CallFlush \/ CallClose \/ \E k \in Keys : Remember(k)
  PROVE  Steps(caller') /\ writer' = writer /\ UNCHANGED counts
<1>1. /\ caller \in Thread(CallerPc) /\ caller.then \in Places /\ Places \subseteq CallerPc
      /\ "put" \in CallerPc /\ "load" \in CallerPc /\ "flush" \in CallerPc
      /\ pending \in SUBSET Keys /\ caller.block \in SUBSET Keys /\ caller.then \in CallerPc
  BY ThreadFields DEF Bank, Typing, Going, CallerGoes, Places, CallerPc
<1>2. writer' = writer /\ UNCHANGED counts
  BY DEF Flush, Put, SetClosing, Join, JoinTimesOut, CallerDiscards, CallFlush, CallClose,
         Remember, counts
<1>14. SUFFICES Steps(caller')
  BY <1>2
<1>3. ASSUME NEW b \in SUBSET Keys, NEW n \in Places, caller' = Drop(caller, b, n)
      PROVE  Steps(caller')
  <2>1. /\ Drop(caller, b, n).pc = "load" /\ Drop(caller, b, n).then = n
    BY <1>1, DropIs
  <2>2. QED
    BY <1>3, <2>1 DEF Steps, CallerGoes
<1>4. ASSUME NEW n \in Places, caller' = [caller EXCEPT !.pc = "flush", !.then = n]
      PROVE  Steps(caller')
  <2>1. caller'.pc = "flush" /\ caller'.then = n
    BY <1>1, <1>4 DEF Thread
  <2>2. QED
    BY <2>1 DEF Steps, CallerGoes
<1>5. ASSUME NEW n \in Places, caller' = At(n) PROVE Steps(caller')
  <2>1. caller'.pc = n /\ caller'.then = n
    BY <1>1, <1>5, AtIs
  <2>2. QED
    BY <2>1 DEF Steps, CallerGoes, Places
<1>6. CASE caller' = caller
  BY <1>6 DEF Steps, Going
<1>7. CASE \E k \in Keys : Remember(k)
  <2>1. PICK k \in Keys : Remember(k)
    BY <1>7
  <2>2. "idle" \in Places /\ {k} \in SUBSET Keys
    BY DEF Places
  <2>3. \/ caller' = Drop(caller, {k}, "idle") \/ caller' = caller
        \/ caller' = [caller EXCEPT !.pc = "flush", !.then = "idle"]
    BY <2>1 DEF Remember
  <2>4. QED
    BY <1>3, <1>4, <1>6, <2>2, <2>3
<1>8. CASE CallFlush \/ CallClose
  <2>1. "idle" \in Places /\ "join" \in Places
    BY DEF Places
  <2>2. QED
    BY <1>4, <1>8, <2>1 DEF CallFlush, CallClose
<1>9. CASE Flush
  <2>1. CASE pending = {}
    <3>1. caller' = [caller EXCEPT !.pc = caller.then]
      BY <1>9, <2>1 DEF Flush
    <3>2. caller'.pc = caller.then /\ caller'.then = caller.then
      BY <1>1, <3>1, GoesTo
    <3>3. QED
      BY <1>1, <3>2 DEF Steps, CallerGoes, Places
  <2>2. CASE pending # {} /\ (disabledWrites \/ writerDone)
    BY <1>1, <1>3, <1>9, <2>2 DEF Flush
  <2>3. CASE pending # {} /\ ~(disabledWrites \/ writerDone)
    <3>1. caller' = [caller EXCEPT !.pc = "put", !.block = pending]
      BY <1>9, <2>3 DEF Flush
    <3>2. caller'.pc = "put" /\ caller'.then = caller.then /\ caller'.block # {}
      BY <1>1, <2>3, <3>1 DEF Thread
    <3>3. QED
      BY <1>1, <3>2 DEF Steps, CallerGoes
  <2>4. QED
    BY <2>1, <2>2, <2>3
<1>10. CASE Put
  <2>1. CASE Len(queue) < QueueSize
    <3>1. caller' = [caller EXCEPT !.pc = caller.then, !.block = {}]
      BY <1>10, <2>1 DEF Put
    <3>2. caller'.pc = caller.then /\ caller'.then = caller.then
      BY <1>1, <3>1 DEF Thread
    <3>3. QED
      BY <1>1, <3>2 DEF Steps, CallerGoes, Places
  <2>2. CASE ~(Len(queue) < QueueSize)
    BY <1>1, <1>3, <1>10, <2>2 DEF Put
  <2>3. QED
    BY <2>1, <2>2
<1>11. CASE SetClosing \/ Join \/ JoinTimesOut
  <2>1. "discard" \in Places /\ (caller' = caller \/ caller' = At("discard"))
    BY <1>11 DEF SetClosing, Join, JoinTimesOut, Places
  <2>2. QED
    BY <1>5, <1>6, <2>1
<1>12. CASE CallerDiscards
  <2>1. "discard" \in Places /\ "idle" \in Places /\ queue \in Seq(SUBSET Keys)
    BY DEF Places, Bank, Typing
  <2>2. CASE queue # << >>
    <3>1. caller' = Drop(caller, Head(queue), "discard")
      BY <1>12, <2>2 DEF CallerDiscards
    <3>2. Head(queue) \in SUBSET Keys
      BY <2>1, <2>2, QueueShrinks
    <3>3. QED
      BY <1>3, <2>1, <3>1, <3>2
  <2>3. CASE queue = << >>
    BY <1>5, <1>12, <2>1, <2>3 DEF CallerDiscards
  <2>4. QED
    BY <2>2, <2>3
<1>13. QED
  BY <1>7, <1>8, <1>9, <1>10, <1>11, <1>12

LEMMA WriterSteps ==
  ASSUME Bank, Going,
         \/ WriterStarts \/ Get \/ TimedOut \/ Write \/ WriteNothing \/ WriteFails
         \/ Checkpoint \/ WriterDiscards
  PROVE  /\ writer'.pc # "store" /\ writer'.then # "store"
         /\ caller' = caller /\ UNCHANGED counts
<1>1. /\ writer \in Thread(WriterPc) /\ queue \in Seq(SUBSET Keys)
      /\ writer.block \in SUBSET Keys
      /\ "get" \in WriterPc /\ "discard" \in WriterPc /\ "load" \in WriterPc
  BY ThreadFields DEF Bank, Typing, WriterPc
<1>2. caller' = caller /\ UNCHANGED counts
  BY DEF WriterStarts, Get, TimedOut, Write, WriteNothing, WriteFails, Checkpoint,
         WriterDiscards, counts
<1>11. SUFFICES writer'.pc # "store" /\ writer'.then # "store"
  BY <1>2
<1>3. ASSUME NEW b \in SUBSET Keys, NEW n \in {"get", "discard"}, writer' = Drop(writer, b, n)
      PROVE  writer'.pc # "store" /\ writer'.then # "store"
  <2>1. Drop(writer, b, n).pc = "load" /\ Drop(writer, b, n).then = n
    BY <1>1, DropIs
  <2>2. QED
    BY <1>3, <2>1
<1>4. ASSUME NEW n \in {"get", "timeout", "checkpoint", "discard", "done"}, writer' = At(n)
      PROVE  writer'.pc # "store" /\ writer'.then # "store"
  BY <1>4 DEF At
<1>5. CASE WriterStarts \/ TimedOut \/ Checkpoint
  BY <1>4, <1>5 DEF WriterStarts, TimedOut, Checkpoint
<1>6. CASE Get
  <2>1. \/ writer' = [At("write") EXCEPT !.block = Head(queue)] \/ writer' = At("timeout")
    BY <1>6 DEF Get
  <2>2. CASE writer' = [At("write") EXCEPT !.block = Head(queue)]
    BY <2>2 DEF At
  <2>3. QED
    BY <1>4, <2>1, <2>2
<1>7. CASE Write
  <2>1. PICK entries \in Insertable(writer.block) :
          writer' = IF Rest(writer.block, entries) = {} THEN At("get")
                    ELSE Drop(writer, Rest(writer.block, entries), "get")
    BY <1>7 DEF Write
  <2>2. Rest(writer.block, entries) \in SUBSET Keys
    BY <1>1 DEF Rest
  <2>3. QED
    BY <1>3, <1>4, <2>1, <2>2
<1>8. CASE WriteNothing \/ WriteFails
  BY <1>1, <1>3, <1>8 DEF WriteNothing, WriteFails
<1>9. CASE WriterDiscards
  <2>1. CASE queue # << >>
    <3>1. writer' = Drop(writer, Head(queue), "discard")
      BY <1>9, <2>1 DEF WriterDiscards
    <3>2. Head(queue) \in SUBSET Keys
      BY <1>1, <2>1, QueueShrinks
    <3>3. QED
      BY <1>3, <3>1, <3>2
  <2>2. CASE queue = << >>
    BY <1>4, <1>9, <2>2 DEF WriterDiscards
  <2>3. QED
    BY <2>1, <2>2
<1>10. QED
  BY <1>5, <1>6, <1>7, <1>8, <1>9

(* What is lost is counted entry by entry.                                 *)
Units(of) == UNION {{k} \X (1..of[k]) : k \in Keys}

LEMMA UnitsAre ==
  ASSUME NEW of \in [Keys -> Nat]
  PROVE  /\ IsFiniteSet(Units(of)) /\ Cardinality(Units(of)) \in Nat
         /\ \A u : u \in Units(of) <=> \E k \in Keys : \E n \in 1..of[k] : u = <<k, n>>
<1> DEFINE T == {{k} \X (1..of[k]) : k \in Keys}
           f == [k \in Keys |-> {k} \X (1..of[k])]
<1>1. f \in Surjection(Keys, T)
  BY DEF Surjection
<1>2. IsFiniteSet(T)
  BY <1>1, BankAssumption, FS_Surjection
<1>3. \A U \in T : IsFiniteSet(U)
  <2> SUFFICES ASSUME NEW k \in Keys PROVE IsFiniteSet({k} \X (1..of[k]))
    OBVIOUS
  <2>1. PICK n \in Int : n = of[k]
    OBVIOUS
  <2>2. IsFiniteSet({k})
    BY FS_Singleton
  <2>4. 1 \in Int
    OBVIOUS
  <2>5. IsFiniteSet(1..n)
    BY <2>4, FS_Interval
  <2>3. QED
    BY <2>1, <2>2, <2>5, FS_Product
<1>4. IsFiniteSet(UNION T)
  BY <1>2, <1>3, FS_UNION
<1>5. \A u : u \in Units(of) <=> \E k \in Keys : u \in {k} \X (1..of[k])
  BY DEF Units
<1>6. ASSUME NEW k \in Keys, NEW u
      PROVE  u \in {k} \X (1..of[k]) <=> \E n \in 1..of[k] : u = <<k, n>>
  OBVIOUS
<1>7. IsFiniteSet(Units(of)) /\ Cardinality(Units(of)) \in Nat
  BY <1>4, FS_CardinalityType DEF Units
<1>8. QED
  BY <1>5, <1>6, <1>7

LEMMA LossesGrow ==
  ASSUME NEW of \in [Keys -> Nat], NEW B \in SUBSET Keys, NEW more,
         more = [k \in Keys |-> of[k] + (IF k \in B THEN 1 ELSE 0)]
  PROVE  Cardinality(Units(more)) = Cardinality(Units(of)) + Cardinality(B)
<1> DEFINE N == {<<k, of[k] + 1>> : k \in B}
           f == [k \in B |-> <<k, of[k] + 1>>]
<1>1. more \in [Keys -> Nat]
  OBVIOUS
<1>2. IsFiniteSet(N) /\ Cardinality(N) = Cardinality(B)
  <2>1. f \in Injection(B, N)
    BY DEF Injection, IsInjective
  <2>2. f \in Surjection(B, N)
    BY DEF Surjection
  <2>3. ExistsBijection(B, N)
    BY <2>1, <2>2 DEF ExistsBijection, Bijection
  <2>4. QED
    BY <2>3, Sizes, FS_Bijection
<1>3. Units(more) = Units(of) \cup N
  <2>1. ASSUME NEW k \in Keys, NEW n
        PROVE  n \in 1..more[k] <=> n \in 1..of[k] \/ (k \in B /\ n = of[k] + 1)
    <3>1. of[k] \in Nat /\ more[k] = (IF k \in B THEN of[k] + 1 ELSE of[k])
      OBVIOUS
    <3>2. QED
      BY <3>1
  <2>2. ASSUME NEW u PROVE u \in N <=> \E k \in B : u = <<k, of[k] + 1>>
    OBVIOUS
  <2> HIDE DEF N
  <2>3. ASSUME NEW u PROVE u \in Units(more) <=> u \in Units(of) \/ u \in N
    <3>1. u \in Units(more) <=> \E k \in Keys : \E n \in 1..more[k] : u = <<k, n>>
      BY <1>1, UnitsAre
    <3>2. u \in Units(of) <=> \E k \in Keys : \E n \in 1..of[k] : u = <<k, n>>
      BY UnitsAre
    <3>3. u \in Units(more) => u \in Units(of) \/ u \in N
      BY <2>1, <2>2, <3>1, <3>2
    <3>4. u \in Units(of) => u \in Units(more)
      BY <2>1, <3>1, <3>2
    <3>5. u \in N => u \in Units(more)
      BY <2>1, <2>2, <3>1
    <3>6. QED
      BY <3>3, <3>4, <3>5
  <2>4. QED
    BY <2>3
<1>4. Units(of) \cap N = {}
  <2>1. SUFFICES ASSUME NEW u \in Units(of), u \in N PROVE FALSE
    OBVIOUS
  <2>2. PICK k \in Keys : \E n \in 1..of[k] : u = <<k, n>>
    BY UnitsAre
  <2>5. PICK n \in 1..of[k] : u = <<k, n>>
    BY <2>2
  <2>3. n = of[k] + 1
    BY <2>1, <2>5
  <2>4. QED
    BY <2>5, <2>3
<1> HIDE DEF N
<1>5. IsFiniteSet(Units(of)) /\ Cardinality(Units(of)) \in Nat
  BY UnitsAre
<1>6. Cardinality(Units(of) \cup N) = Cardinality(Units(of)) + Cardinality(N)
                                        - Cardinality(Units(of) \cap N)
  BY <1>2, <1>5, FS_Union
<1>7. Cardinality(Units(of) \cap N) = 0
  BY <1>4, FS_EmptySet
<1>8. Cardinality(B) \in Nat
  BY Sizes
<1>10. Cardinality(Units(of) \cup N) = Cardinality(Units(of)) + Cardinality(B)
  BY <1>2, <1>5, <1>6, <1>7, <1>8
<1>9. QED
  BY <1>3, <1>10, Zenon

(* An addition by one of the threads, while the other may be in the middle *)
(* of its own: what is reported grows by no more than what is lost.        *)
LEMMA AdditionKeeps ==
  ASSUME Bank, Overcounts, NEW t, t.block \in SUBSET Keys, t.loaded \in Nat,
         t.loaded <= Cardinality(Losses), StoreTo(t)
  PROVE  /\ dropped' <= Cardinality(Losses')
         /\ Cardinality(Losses) \in Nat /\ Cardinality(Losses') \in Nat
         /\ Cardinality(Losses) <= Cardinality(Losses')
<1>1. PICK of \in [Keys -> Nat] : of = lost
  BY DEF Bank, Typing
<1>2. PICK more : more = lost'
  OBVIOUS
<1>3. /\ more = [k \in Keys |-> of[k] + (IF k \in t.block THEN 1 ELSE 0)]
      /\ dropped' = t.loaded + Cardinality(t.block)
  BY <1>1, <1>2 DEF StoreTo
<1>4. Losses = Units(of) /\ Losses' = Units(more)
  BY <1>1, <1>2 DEF Losses, Units
<1>5. Cardinality(Units(more)) = Cardinality(Units(of)) + Cardinality(t.block)
  BY <1>3, LossesGrow
<1>6. Cardinality(Units(of)) \in Nat /\ Cardinality(t.block) \in Nat
  BY UnitsAre, Sizes
<1>7. QED
  BY <1>3, <1>4, <1>5, <1>6

LEMMA LossesStay == UNCHANGED lost => Losses' = Losses
BY DEF Losses

LEMMA OvercountStep ==
  ASSUME Bank, Going, Overcounts, [Next]_vars
  PROVE  Going' /\ Overcounts'
<1>1. /\ caller \in Thread(CallerPc) /\ writer \in Thread(WriterPc) /\ dropped \in Nat
      /\ caller.then \in Places /\ writer.then # "store"
  BY DEF Bank, Typing, Going, CallerGoes
<1>2. ASSUME UNCHANGED counts, caller'.pc = "store" => caller' = caller,
             writer'.pc = "store" => writer' = writer
      PROVE  Overcounts'
  <2>1. Losses' = Losses /\ dropped' = dropped
    BY <1>2, LossesStay DEF counts
  <2>2. QED
    BY <1>2, <2>1 DEF Overcounts, Additions
<1>3. CASE \/ Flush \/ Put \/ SetClosing \/ Join \/ JoinTimesOut \/ CallerDiscards
           \/ CallFlush \/ CallClose \/ \E k \in Keys : Remember(k)
  <2>1. Steps(caller') /\ writer' = writer /\ UNCHANGED counts
    BY <1>3, CallerSteps
  <2>2. QED
    BY <1>2, <2>1 DEF Steps, Going
<1>4. CASE \/ WriterStarts \/ Get \/ TimedOut \/ Write \/ WriteNothing \/ WriteFails
           \/ Checkpoint \/ WriterDiscards
  <2>1. writer'.pc # "store" /\ writer'.then # "store" /\ caller' = caller /\ UNCHANGED counts
    BY <1>4, WriterSteps
  <2>2. QED
    BY <1>2, <2>1 DEF Going
<1>5. CASE CallerDrops
  <2>1. writer' = writer
    BY <1>5 DEF CallerDrops
  <2>2. CASE caller.pc = "load" /\ caller' = Load(caller) /\ UNCHANGED counts
    <3>1. caller'.pc = "store" /\ caller'.then = caller.then /\ caller'.loaded = dropped
      BY <1>1, <2>2 DEF Load, Thread
    <3>2. Losses' = Losses /\ dropped' = dropped
      BY <2>2, LossesStay DEF counts
    <3>3. QED
      BY <1>1, <2>1, <3>1, <3>2 DEF Going, CallerGoes, Overcounts, Additions
  <2>3. CASE caller.pc = "store" /\ StoreTo(caller) /\ caller' = Stored(caller)
    <3>1. caller'.pc = caller.then /\ caller'.then = caller.then
      BY <1>1, <2>3, StoredIs
    <3>2. caller'.pc # "store" /\ caller'.pc # "put"
      BY <1>1, <3>1 DEF Places
    <3>3. /\ dropped' <= Cardinality(Losses')
          /\ Cardinality(Losses) \in Nat /\ Cardinality(Losses') \in Nat
          /\ Cardinality(Losses) <= Cardinality(Losses')
      BY <1>1, <2>3, ThreadFields, AdditionKeeps DEF Overcounts, Additions
    <3>4. writer.pc = "store" => writer.loaded <= Cardinality(Losses') /\ writer.loaded \in Nat
      BY <1>1, <3>3, ThreadFields DEF Overcounts, Additions
    <3>5. QED
      BY <1>1, <2>1, <3>1, <3>2, <3>3, <3>4 DEF Going, CallerGoes, Overcounts, Additions
  <2>4. QED
    BY <1>5, <2>2, <2>3 DEF CallerDrops
<1>6. CASE WriterDrops
  <2>1. caller' = caller
    BY <1>6 DEF WriterDrops
  <2>2. CASE writer.pc = "load" /\ writer' = Load(writer) /\ UNCHANGED counts
    <3>1. writer'.pc = "store" /\ writer'.then = writer.then /\ writer'.loaded = dropped
      BY <1>1, <2>2 DEF Load, Thread
    <3>2. Losses' = Losses /\ dropped' = dropped
      BY <2>2, LossesStay DEF counts
    <3>3. QED
      BY <1>1, <2>1, <3>1, <3>2 DEF Going, Overcounts, Additions
  <2>3. CASE writer.pc = "store" /\ StoreTo(writer) /\ writer' = Stored(writer)
    <3>1. writer'.pc = writer.then /\ writer'.then = writer.then
      BY <1>1, <2>3, StoredIs
    <3>3. /\ dropped' <= Cardinality(Losses')
          /\ Cardinality(Losses) \in Nat /\ Cardinality(Losses') \in Nat
          /\ Cardinality(Losses) <= Cardinality(Losses')
      BY <1>1, <2>3, ThreadFields, AdditionKeeps DEF Overcounts, Additions
    <3>4. caller.pc = "store" => caller.loaded <= Cardinality(Losses') /\ caller.loaded \in Nat
      BY <1>1, <3>3, ThreadFields DEF Overcounts, Additions
    <3>5. QED
      BY <1>1, <2>1, <3>1, <3>3, <3>4 DEF Going, Overcounts, Additions
  <2>4. QED
    BY <1>6, <2>2, <2>3 DEF WriterDrops
<1>7. CASE Reopen
  <2>1. /\ dropped' = 0 /\ caller' = At("idle") /\ lost' = [k \in Keys |-> 0]
        /\ writer' \in {At("start"), At("done")}
    BY <1>7 DEF Reopen, Open
  <2>2. /\ caller'.pc = "idle" /\ caller'.then = "idle"
        /\ writer'.pc # "store" /\ writer'.then # "store"
    BY <2>1 DEF At
  <2>3. PICK of : of = lost'
    OBVIOUS
  <2>4. Losses' = Units(of) /\ of \in [Keys -> Nat]
    BY <2>1, <2>3 DEF Losses, Units
  <2>5. Cardinality(Units(of)) \in Nat
    BY <2>4, UnitsAre
  <2>6. dropped' <= Cardinality(Losses')
    BY <2>1, <2>4, <2>5
  <2>7. QED
    BY <2>2, <2>6 DEF Going, CallerGoes, Places, Overcounts, Additions
<1>8. CASE UNCHANGED <<caller, writer, counts>>
  BY <1>2, <1>8 DEF Going
<1>9. QED
  BY <1>3, <1>4, <1>5, <1>6, <1>7, <1>8 DEF Next, CallerStep, WriterStep, ReadFails, vars, counts

LEMMA KindsStep ==
  ASSUME Bank, Going, Kinds, [Next]_vars
  PROVE  Kinds'
<1> DEFINE Block == (SUBSET Keys) \ {{}}
<1>1. /\ queue \in Seq(Block) /\ Len(queue) \in Nat /\ Len(queue) <= QueueSize
      /\ QueueSize \in Nat /\ QueueSize > 0 /\ entryCount \in Nat
      /\ remembered \in [Keys -> 0..MaxRemember] /\ opens \in 1..MaxOpens
      /\ MaxRemember \in Nat /\ MaxOpens \in Nat
      /\ stored \in SUBSET Keys /\ writer.block \in SUBSET Keys /\ caller.block \in SUBSET Keys
  BY BankAssumption, ThreadFields, LenProperties DEF Kinds, Bank, Typing
<1>2. ASSUME queue' = queue \/ (queue # << >> /\ queue' = Tail(queue))
      PROVE  queue' \in Seq(Block) /\ Len(queue') <= QueueSize
  <2>1. CASE queue' = queue
    BY <1>1, <2>1
  <2>2. CASE queue # << >> /\ queue' = Tail(queue)
    <3>1. queue' \in Seq(Block) /\ Len(queue') = Len(queue) - 1
      BY <1>1, <2>2, HeadTailProperties
    <3>2. QED
      BY <1>1, <3>1
  <2>3. QED
    BY <1>2, <2>1, <2>2
<1>3. CASE Put
  <2>1. UNCHANGED <<entryCount, remembered, opens>> /\ caller.block \in Block
    <3>1. UNCHANGED <<entryCount, remembered, opens>> /\ caller.pc = "put"
      BY <1>3 DEF Put, bounds
    <3>2. caller.block # {}
      BY <3>1 DEF Going, CallerGoes
    <3>3. caller.block \in SUBSET Keys
      BY ThreadFields DEF Bank, Typing
    <3>4. QED
      BY <3>1, <3>2, <3>3, Zenon
  <2>2. CASE Len(queue) < QueueSize
    <3>1. queue' = Append(queue, caller.block)
      BY <1>3, <2>2 DEF Put
    <3>2. queue' \in Seq(Block) /\ Len(queue') = Len(queue) + 1
      BY <1>1, <2>1, <3>1, AppendProperties
    <3>3. QED
      BY <1>1, <2>1, <2>2, <3>2 DEF Kinds
  <2>3. CASE ~(Len(queue) < QueueSize)
    <3>1. queue' = queue
      BY <1>3, <2>3 DEF Put
    <3>2. QED
      BY <1>1, <2>1, <3>1 DEF Kinds
  <2>4. QED
    BY <2>2, <2>3
<1>4. CASE CallerDiscards \/ Get \/ WriterDiscards
  <2>1. /\ UNCHANGED <<entryCount, remembered, opens>>
        /\ queue' = queue \/ (queue # << >> /\ queue' = Tail(queue))
    BY <1>4 DEF CallerDiscards, Get, WriterDiscards, bounds
  <2>2. QED
    BY <1>1, <1>2, <2>1 DEF Kinds
<1>5. CASE Write
  <2>1. UNCHANGED <<queue, remembered, opens>>
    BY <1>5 DEF Write, bounds
  <2>2. PICK entries \in Insertable(writer.block) : entryCount' = CountChanges(entries)
    BY <1>5 DEF Write
  <2>3. entries \ stored \in SUBSET Keys
    BY <1>1 DEF Insertable, kSubset
  <2>4. entryCount' = entryCount + Cardinality(entries \ stored)
    BY <2>2 DEF CountChanges
  <2>5. entryCount' \in Nat
    BY <1>1, <2>3, <2>4, Sizes
  <2>6. QED
    BY <1>1, <2>1, <2>5 DEF Kinds
<1>6. CASE Reopen
  <2>1. /\ entryCount' = Cardinality(stored) \/ entryCount' = Cardinality({})
        /\ queue' = << >> /\ opens < MaxOpens /\ opens' = opens + 1
        /\ remembered' = [k \in Keys |-> 0]
    BY <1>6 DEF Reopen, Open
  <2>2. entryCount' \in Nat
    BY <1>1, <2>1, Sizes
  <2>3. opens' \in 1..MaxOpens /\ remembered' \in [Keys -> 0..MaxRemember]
    BY <1>1, <2>1
  <2>4. queue' \in Seq(Block) /\ Len(queue') <= QueueSize
    BY <1>1, <2>1, EmptySeq
  <2>5. QED
    BY <2>2, <2>3, <2>4 DEF Kinds
<1>7. CASE \E k \in Keys : Remember(k)
  <2>1. PICK k \in Keys : Remember(k)
    BY <1>7
  <2>2. /\ UNCHANGED <<queue, entryCount, opens>> /\ remembered[k] < MaxRemember
        /\ remembered' = [remembered EXCEPT ![k] = @ + 1]
    BY <2>1 DEF Remember
  <2>3. remembered' \in [Keys -> 0..MaxRemember]
    BY <1>1, <2>1, <2>2
  <2>4. QED
    BY <1>1, <2>2, <2>3 DEF Kinds
<1>8. CASE UNCHANGED <<queue, entryCount, remembered, opens>>
  BY <1>1, <1>8 DEF Kinds
<1>9. CASE CallerDrops \/ Flush \/ SetClosing \/ Join \/ JoinTimesOut \/ CallFlush \/ CallClose
  BY <1>8, <1>9 DEF CallerDrops, Flush, SetClosing, Join, JoinTimesOut, CallFlush, CallClose,
     bank, bounds
<1>10. CASE WriterDrops \/ WriterStarts \/ TimedOut \/ WriteNothing \/ WriteFails \/ Checkpoint
  BY <1>8, <1>10 DEF WriterDrops, WriterStarts, TimedOut, WriteNothing, WriteFails, Checkpoint,
     bank, bounds
<1>11. CASE ReadFails \/ UNCHANGED vars
  BY <1>8, <1>11 DEF ReadFails, bank, bounds, vars
<1>12. QED
  BY <1>3, <1>4, <1>5, <1>6, <1>7, <1>9, <1>10, <1>11 DEF Next, CallerStep, WriterStep

(* The pieces of state are of their kinds, and the additions that are lost *)
(* make the report too low, never too high.                                *)
THEOREM NeverTooMany == Spec => [](TypeOK /\ NeverOvercounted)
<1>1. Init => Flags /\ Going /\ Overcounts /\ Kinds
  <2> SUFFICES ASSUME Init PROVE Flags /\ Going /\ Overcounts /\ Kinds
    OBVIOUS
  <2>1. Flags
    BY DEF Init, Flags
  <2>2. Going /\ caller.pc # "store" /\ writer.pc # "store"
    BY DEF Init, At, Going, CallerGoes, Places
  <2>3. Overcounts
    <3>1. PICK of : of = lost
      OBVIOUS
    <3>2. Losses = Units(of) /\ of \in [Keys -> Nat] /\ dropped = 0
      BY <3>1 DEF Losses, Units, Init
    <3>3. QED
      BY <2>2, <3>2, UnitsAre DEF Overcounts, Additions
  <2>4. Kinds
    BY BankAssumption, EmptySeq DEF Init, Kinds
  <2>5. QED
    BY <2>1, <2>2, <2>3, <2>4
<1>2. Bank /\ (Flags /\ Going /\ Overcounts /\ Kinds) /\ [Next]_vars
        => (Flags /\ Going /\ Overcounts /\ Kinds)'
  BY FlagsStay, OvercountStep, KindsStep
<1>3. Bank /\ (Flags /\ Going /\ Overcounts /\ Kinds) => TypeOK /\ NeverOvercounted
  BY DEF Bank, Typing, Flags, Overcounts, Kinds, TypeOK, NeverOvercounted
<1>4. QED
  BY <1>1, <1>2, <1>3, BankHolds, PTL DEF Spec

(* Nothing that was remembered vanishes, nor is it held back for ever, and *)
(* no drop is reported that was none (route_bank_v3.py:92-191).            *)
THEOREM BankAccounts == Spec => []BankIsAccounted
<1>1. (TypeOK /\ NeverOvercounted) /\ NothingVanishes /\ ClosedIsEmpty => BankIsAccounted
  BY DEF BankIsAccounted
<1>2. QED
  BY <1>1, NeverTooMany, NoEntryVanishes, CloseEmpties, PTL
=============================================================================

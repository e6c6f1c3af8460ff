--------------------------- MODULE ResidentQueue ---------------------------
(***************************************************************************)
(* The resident command queue: a ring file shared, without any lock, by    *)
(* the short-lived command-line processes that submit commands and by the  *)
(* resident adapter thread inside the game (bwapi/Runtime/                 *)
(* RuntimeResidentBridge.cpp and RuntimeResidentAdapterEntry.cpp).         *)
(*                                                                         *)
(* Every operation on the file reads the whole queue header into a local   *)
(* variable, decides on that copy, and writes the whole header back.  One  *)
(* action below is one access to the file (a read or a write of the        *)
(* header, or of one record slot), so that the accesses of the processes   *)
(* interleave as the operating system lets them.                           *)
(***************************************************************************)
EXTENDS Integers, Sequences, FiniteSets

CONSTANTS
  Producers,      \* processes that submit commands
  Capacity,       \* capacityRecords of the header: slots of the ring
  MaxRead,        \* maxRecords of one batch read by the adapter
  MaxAppends,     \* bound: appends one producer starts
  MaxDeaths,      \* bound: producers killed in the middle of an append
  MaxRestarts     \* bound: times the adapter stops and starts again

ASSUME CapacityAssumption == Capacity \in Nat \ {0}
ASSUME MaxReadAssumption == MaxRead \in Nat \ {0}
ASSUME BoundsAssumption ==
  /\ MaxAppends \in Nat
  /\ MaxDeaths \in Nat
  /\ MaxRestarts \in Nat

VARIABLES
  header,     \* the header in the file
  slots,      \* the record slots in the file
  pc,         \* pc[p]: what producer p does next
  hdr,        \* hdr[p]: producer p's copy of the header
  sent,       \* sent[p]: appends p has started
  appended,   \* records whose append returned appended = true
  apc,        \* what the adapter thread does next
  ahdr,       \* the adapter's copy of the header
  warm,       \* the adapter's heartbeat has reached minimumHeartbeat
  batch,      \* records the adapter has read and not acknowledged
  delivered,  \* every record the adapter has consumed, in order
  deaths, restarts

producerVars == <<pc, hdr, sent, appended>>
adapterVars  == <<apc, ahdr, warm, batch>>
vars == <<header, slots, producerVars, adapterVars, delivered, deaths, restarts>>

-----------------------------------------------------------------------------
(* Data.  A header is its two sequence numbers and "live": its heartbeat   *)
(* field is at least minimumHeartbeat, which every validation asks for and *)
(* only the adapter establishes.  A missing file is the header with both   *)
(* sequences zero and live = FALSE: no operation tells the two apart.      *)

Commands == [from : Producers, nr : 1 .. MaxAppends]
Headers  == [read : Nat, write : Nat, live : BOOLEAN]
Records  == [seq : Nat, cmd : Commands]
Blank    == [seq |-> -1]          \* a slot no record was ever written to

NewHeader == [read |-> 0, write |-> 0, live |-> FALSE]

\* residentQueueRecordOffset: the slot that holds a sequence number
SlotOf(seq) == seq % Capacity

\* validateRuntimeResidentQueueHeader: the tests that relate the sequences
WindowOK(h) == h.read <= h.write /\ h.write - h.read <= Capacity
HeaderValid(h) == WindowOK(h) /\ h.live

\* Mutant: the capacity test lets one record too many in.
Full_OffByOne(h) == h.write - h.read > Capacity

Full(h) == h.write - h.read >= Capacity

\* Mutants: the sequence of the record is not validated; the lower end of the
\* window is left out.
Readable_AnySequence(h, rec) == rec # Blank
Readable_OpenWindow(h, rec) == rec # Blank /\ rec.seq > h.read /\ rec.seq < h.write

\* validateRuntimeResidentRecordHeader: the record lies in the read window
\* of the header the reader holds; a blank slot fails its size tests
Readable(h, rec) == rec # Blank /\ rec.seq >= h.read /\ rec.seq < h.write

\* records of the batch that a header copy announces
BatchSize(h) ==
  IF h.write - h.read < MaxRead THEN h.write - h.read ELSE MaxRead

NextCommand(p) == [from |-> p, nr |-> sent[p]]

Init ==
  /\ header = NewHeader
  /\ slots = [i \in 0 .. Capacity - 1 |-> Blank]
  /\ pc = [p \in Producers |-> "idle"]
  /\ hdr = [p \in Producers |-> NewHeader]
  /\ sent = [p \in Producers |-> 0]
  /\ appended = {}
  /\ apc = "ensure"
  /\ ahdr = NewHeader
  /\ warm = FALSE
  /\ batch = << >>
  /\ delivered = << >>
  /\ deaths = 0
  /\ restarts = 0

-----------------------------------------------------------------------------
(* appendRuntimeResidentQueueRecord.  The record goes into the buffer of a *)
(* stream that stays open until the function returns; the header is        *)
(* written by a stream of its own that is closed at once.  So the file     *)
(* sees the new header first and the record second.                        *)

\* Read and validate the header.  An append that is rejected (header not
\* valid, queue full) leaves everything as it was and is no step here.
AppendRead(p) ==
  /\ pc[p] = "idle"
  /\ sent[p] < MaxAppends
  /\ HeaderValid(header)
  /\ ~ Full(header)
  /\ hdr' = [hdr EXCEPT ![p] = header]
  /\ sent' = [sent EXCEPT ![p] = @ + 1]
  /\ pc' = [pc EXCEPT ![p] = "publish"]
  /\ UNCHANGED <<header, slots, appended, adapterVars, delivered, deaths, restarts>>

\* writeResidentQueueHeaderFile with the incremented write sequence
AppendPublish(p) ==
  /\ pc[p] = "publish"
  /\ header' = [hdr[p] EXCEPT !.write = @ + 1]
  /\ pc' = [pc EXCEPT ![p] = "flush"]
  /\ UNCHANGED <<slots, hdr, sent, appended, adapterVars, delivered, deaths, restarts>>

\* The record stream is destroyed: its buffer reaches the slot, and the
\* caller is told appended = true.
AppendFlush(p) ==
  /\ pc[p] = "flush"
  /\ LET rec == [seq |-> hdr[p].write, cmd |-> NextCommand(p)]
     IN  /\ slots' = [slots EXCEPT ![SlotOf(rec.seq)] = rec]
         /\ appended' = appended \cup {rec}
  /\ pc' = [pc EXCEPT ![p] = "idle"]
  /\ UNCHANGED <<header, hdr, sent, adapterVars, delivered, deaths, restarts>>

\* The submitting process is killed in the middle of an append.
ProducerDies(p) ==
  /\ pc[p] # "idle"
  /\ deaths < MaxDeaths
  /\ deaths' = deaths + 1
  /\ pc' = [pc EXCEPT ![p] = "idle"]
  /\ UNCHANGED <<header, slots, hdr, sent, appended, adapterVars, delivered, restarts>>

-----------------------------------------------------------------------------
(* The adapter thread: one heartbeat of residentAdapterMain, as far as the *)
(* command queue is concerned.                                             *)

\* The first heartbeat is below minimumHeartbeat: ensure rejects the header
\* it was asked to write, and the rest of the iteration is skipped.
EnsureRejected ==
  /\ apc = "ensure"
  /\ ~ warm
  /\ warm' = TRUE
  /\ UNCHANGED <<header, slots, producerVars, apc, ahdr, batch, delivered, deaths, restarts>>

\* Mutant: ensure writes the desired header over whatever is there.
EnsureRead_Recreates ==
  /\ apc = "ensure"
  /\ warm
  /\ ahdr' = [NewHeader EXCEPT !.live = TRUE]
  /\ apc' = "ensureWrite"
  /\ UNCHANGED <<header, slots, producerVars, warm, batch, delivered, deaths, restarts>>

\* ensureRuntimeResidentQueueFile reads the header that is there and keeps
\* its sequences when it is valid, else starts the queue again from zero.
EnsureRead ==
  /\ apc = "ensure"
  /\ warm
  /\ ahdr' = IF WindowOK(header) THEN [header EXCEPT !.live = TRUE]
                                 ELSE [NewHeader EXCEPT !.live = TRUE]
  /\ apc' = "ensureWrite"
  /\ UNCHANGED <<header, slots, producerVars, warm, batch, delivered, deaths, restarts>>

\* ... and writes the header it composed.
EnsureWrite ==
  /\ apc = "ensureWrite"
  /\ header' = ahdr
  /\ apc' = "read"
  /\ UNCHANGED <<slots, producerVars, ahdr, warm, batch, delivered, deaths, restarts>>

\* readRuntimeResidentQueueRecords reads and validates the header; with
\* nothing to read the iteration is over.
ReadHeader ==
  /\ apc = "read"
  /\ ahdr' = header
  /\ batch' = << >>
  /\ apc' = IF HeaderValid(header) /\ header.read # header.write
            THEN "slots" ELSE "ensure"
  /\ UNCHANGED <<header, slots, producerVars, warm, delivered, deaths, restarts>>

\* ... then one slot after the other.
ReadSlot ==
  /\ apc = "slots"
  /\ LET rec == slots[SlotOf(ahdr.read + Len(batch))]
     IN  /\ Readable(ahdr, rec)
         /\ batch' = Append(batch, rec)
         /\ apc' = IF Len(batch) + 1 = BatchSize(ahdr) THEN "consume" ELSE "slots"
  /\ UNCHANGED <<header, slots, producerVars, ahdr, warm, delivered, deaths, restarts>>

\* One record that does not validate rejects the batch.
ReadRejected ==
  /\ apc = "slots"
  /\ ~ Readable(ahdr, slots[SlotOf(ahdr.read + Len(batch))])
  /\ batch' = << >>
  /\ apc' = "ensure"
  /\ UNCHANGED <<header, slots, producerVars, ahdr, warm, delivered, deaths, restarts>>

\* consumeResidentCommandQueue handles the records of the batch in order.
Consume ==
  /\ apc = "consume"
  /\ delivered' = delivered \o batch
  /\ apc' = "ack"
  /\ UNCHANGED <<header, slots, producerVars, ahdr, warm, batch, deaths, restarts>>

\* Mutant: everything written so far is acknowledged.
AckTarget_AllWritten == ahdr.write

AckTarget == batch[Len(batch)].seq + 1

\* acknowledgeRuntimeResidentQueueRecords reads the header again; a target
\* outside the window of that header is rejected.
AckRead ==
  /\ apc = "ack"
  /\ ahdr' = header
  /\ apc' = IF HeaderValid(header) /\ AckTarget \in header.read .. header.write
            THEN "ackWrite" ELSE "ensure"
  /\ batch' = IF apc' = "ackWrite" THEN batch ELSE << >>
  /\ UNCHANGED <<header, slots, producerVars, warm, delivered, deaths, restarts>>

\* ... and writes it back with the new read sequence.
AckWrite ==
  /\ apc = "ackWrite"
  /\ header' = [ahdr EXCEPT !.read = AckTarget]
  /\ apc' = "ensure"
  /\ batch' = << >>
  /\ UNCHANGED <<slots, producerVars, ahdr, warm, delivered, deaths, restarts>>

\* The game process ends, or the adapter is stopped, and the adapter starts
\* again: the file survives, the thread's variables do not.
AdapterRestarts ==
  /\ restarts < MaxRestarts
  /\ restarts' = restarts + 1
  /\ apc' = "ensure"
  /\ warm' = FALSE
  /\ ahdr' = NewHeader
  /\ batch' = << >>
  /\ UNCHANGED <<header, slots, producerVars, delivered, deaths>>

-----------------------------------------------------------------------------
ProducerStep(p) == AppendRead(p) \/ AppendPublish(p) \/ AppendFlush(p)

AdapterStep ==
  \/ EnsureRejected \/ EnsureRead \/ EnsureWrite
  \/ ReadHeader \/ ReadSlot \/ ReadRejected
  \/ Consume
  \/ AckRead \/ AckWrite

Next ==
  \/ \E p \in Producers : ProducerStep(p) \/ ProducerDies(p)
  \/ AdapterStep
  \/ AdapterRestarts

Spec == Init /\ [][Next]_vars

\* The adapter thread is a loop that sleeps and runs again; a submitting
\* process that has begun an append runs to its end unless it is killed.
Fairness ==
  /\ WF_vars(AdapterStep)
  /\ \A p \in Producers : WF_vars(AppendPublish(p) \/ AppendFlush(p))

FairSpec == Spec /\ Fairness

-----------------------------------------------------------------------------
(* The same operations when no two of them overlap in time: an append, an  *)
(* ensure, a batch read or an acknowledgement begins only when none of the *)
(* others is half done.  This is how the repository's test drives them.    *)
Quiet ==
  /\ \A p \in Producers : pc[p] = "idle"
  /\ apc \notin {"ensureWrite", "slots", "ackWrite"}

SerialNext ==
  \/ \E p \in Producers : (Quiet /\ AppendRead(p)) \/ AppendPublish(p) \/ AppendFlush(p)
  \/ EnsureRejected \/ (Quiet /\ EnsureRead) \/ EnsureWrite
  \/ (Quiet /\ ReadHeader) \/ ReadSlot \/ ReadRejected
  \/ Consume
  \/ (Quiet /\ AckRead) \/ AckWrite
  \/ AdapterRestarts

SerialSpec == Init /\ [][SerialNext]_vars

-----------------------------------------------------------------------------
(* Properties.                                                             *)

TypeOK ==
  /\ header \in Headers
  /\ slots \in [0 .. Capacity - 1 -> Records \cup {Blank}]
  /\ pc \in [Producers -> {"idle", "publish", "flush"}]
  /\ hdr \in [Producers -> Headers]
  /\ sent \in [Producers -> 0 .. MaxAppends]
  /\ appended \subseteq Records
  /\ apc \in {"ensure", "ensureWrite", "read", "slots", "consume", "ack", "ackWrite"}
  /\ ahdr \in Headers
  /\ warm \in BOOLEAN
  /\ batch \in Seq(Records)
  /\ delivered \in Seq(Records)
  /\ deaths \in 0 .. MaxDeaths
  /\ restarts \in 0 .. MaxRestarts

\* Whatever the interleaving, deaths and restarts, the header in the file
\* describes a window of at most Capacity records that is not negative, so no
\* validation ever finds the queue corrupt, and so does every copy of the
\* header on which an append, an ensure or an acknowledgement will decide.
WindowInv ==
  /\ WindowOK(header)
  /\ WindowOK(ahdr)
  /\ \A p \in Producers : pc[p] # "idle" => HeaderValid(hdr[p]) /\ ~ Full(hdr[p])

\* The batch the adapter holds is the run of consecutive sequence numbers that
\* begins at the read sequence of the header it read: a slot still holding an
\* older or already a later lap of the ring is never taken for the record that
\* belongs there, although the code only tests that a record's sequence lies
\* somewhere in the window.
BatchInSequence ==
  apc \in {"slots", "consume", "ack"} =>
    \A k \in 1 .. Len(batch) : batch[k].seq = ahdr.read + (k - 1)

\* The sequence numbers below r have all been consumed at least once.
ConsumedBelow(r) ==
  \A s \in 0 .. r - 1 : \E i \in 1 .. Len(delivered) : delivered[i].seq = s

\* The read sequence in the file never passes a sequence number that the
\* adapter has not consumed, whatever stale headers are written over it: the
\* races of the queue repeat commands or lose them at the write end, they
\* never skip one at the read end.
AcknowledgedWereDelivered == ConsumedBelow(header.read)

\* What else an inductive argument for the invariants above needs: a record
\* is in the slot its sequence number selects; a half-done append has been
\* counted; the batch is not longer than announced, not empty once it is
\* consumed, and its acknowledgement lies in the window it was tested against;
\* and no copy of the header that may yet be written back to the file reads
\* past what was consumed.
RecordsInTheirSlots ==
  \A i \in 0 .. Capacity - 1 : slots[i] # Blank => SlotOf(slots[i].seq) = i

AppendsCounted == \A p \in Producers : pc[p] # "idle" => sent[p] > 0

BatchBounds ==
  /\ apc = "slots" => Len(batch) < BatchSize(ahdr)
  /\ apc \in {"consume", "ack", "ackWrite"} => Len(batch) > 0
  /\ apc = "ackWrite" => AckTarget \in ahdr.read .. ahdr.write

CopiesConsumed ==
  /\ ConsumedBelow(ahdr.read)
  /\ \A p \in Producers : pc[p] = "publish" => ConsumedBelow(hdr[p].read)
  /\ apc \in {"ack", "ackWrite"} => ConsumedBelow(AckTarget)

IInv ==
  /\ TypeOK
  /\ WindowInv
  /\ BatchInSequence
  /\ AcknowledgedWereDelivered
  /\ RecordsInTheirSlots
  /\ AppendsCounted
  /\ BatchBounds
  /\ CopiesConsumed

\* p has made all appends so far, and nobody was killed in one.
Alone(p) == deaths = 0 /\ \A q \in Producers \ {p} : sent[q] = 0

\* As long as one process makes all appends, every slot the window announces
\* holds the record of that sequence number, or is about to be filled by the
\* append that announced it, however the adapter's ensure and acknowledge and
\* its restarts fall between the steps of the append.
WindowReadable ==
  (\E p \in Producers : Alone(p)) =>
  \A s \in header.read .. header.write - 1 :
    \/ slots[SlotOf(s)].seq = s
    \/ \E p \in Producers : pc[p] = "flush" /\ hdr[p].write = s

\* A queue with records in it is emptied again.
Drains == (header.read # header.write) ~> (header.read = header.write)

\* A command whose append reports success is consumed by the adapter.
AppendedIsConsumed ==
  \A c \in Commands :
    (\E r \in appended : r.cmd = c) ~>
      (\E i \in 1 .. Len(delivered) : delivered[i].cmd = c)

-----------------------------------------------------------------------------
(* The serial queue implements the abstract one.  An append takes effect   *)
(* when its record reaches the slot, an acknowledgement when the header is *)
(* written; what the adapter has consumed and not yet acknowledged is what *)
(* the abstract consumer has handled and not yet removed.                  *)
Pending == \E p \in Producers : pc[p] = "flush"

Stored == header.write - header.read - (IF Pending THEN 1 ELSE 0)

AbstractQueue == [k \in 1 .. Stored |-> slots[SlotOf(header.read + k - 1)].cmd]
AbstractTaken == IF apc \in {"ack", "ackWrite"} THEN Len(batch) ELSE 0
AbstractHandled == [k \in 1 .. Len(delivered) |-> delivered[k].cmd]

Abstract == INSTANCE RecordQueue WITH
  Messages <- Commands,
  queue    <- AbstractQueue,
  taken    <- AbstractTaken,
  handled  <- AbstractHandled

\* Run one at a time, the file operations are a bounded FIFO that hands every
\* accepted command to the adapter at least once and in order, and again only
\* when the adapter restarts between consuming and acknowledging.
ImplementsRecordQueue == Abstract!Spec
=============================================================================

------------------------ MODULE ResidentQueueProofs ------------------------
(***************************************************************************)
(* Theorems about ResidentQueue, for every number of producers, capacity,  *)
(* batch size and bound.                                                   *)
(***************************************************************************)
EXTENDS ResidentQueue, TLAPS

\* Two sequence numbers of one slot that are less than a lap apart are equal.
LEMMA SameSlotSameSequence ==
  ASSUME NEW c \in Nat \ {0}, NEW a \in Nat, NEW b \in Nat,
         a % c = b % c, a - b < c, b - a < c
  PROVE  a = b
<1> DEFINE qa == a \div c
           qb == b \div c
<1>1. a = c * qa + (a % c) /\ qa \in Int
  OBVIOUS
<1>2. b = c * qb + (b % c) /\ qb \in Int
  OBVIOUS
<1> HIDE DEF qa, qb
<1> DEFINE d == qa - qb
<1>3. d \in Int /\ a - b = c * d
  BY <1>1, <1>2
<1> HIDE DEF d
<1>4. ~ (d >= 1)
  <2>1. ASSUME d >= 1 PROVE c * d >= c
    BY <1>3, <2>1
  <2> QED
    BY <2>1, <1>3
<1>5. ~ (d <= -1)
  <2>1. ASSUME d <= -1 PROVE c * d <= -c
    BY <1>3, <2>1
  <2> QED
    BY <2>1, <1>3
<1>6. d = 0
  BY <1>3, <1>4, <1>5
<1> QED
  BY <1>3, <1>6

\* The assumptions on the constants, used by every proof below.
USE CapacityAssumption, MaxReadAssumption, BoundsAssumption

-----------------------------------------------------------------------------
(* The initial state satisfies the inductive invariant.                    *)

LEMMA InitIInv == Init => IInv
<1> SUFFICES ASSUME Init PROVE IInv
  OBVIOUS
<1> USE DEF Init, NewHeader
<1>1. TypeOK
  <2>1. NewHeader \in Headers
    BY DEF Headers
  <2>2. << >> \in Seq(Records)
    OBVIOUS
  <2>3. slots \in [0 .. Capacity - 1 -> Records \cup {Blank}]
    OBVIOUS
  <2>4. hdr \in [Producers -> Headers] /\ header \in Headers /\ ahdr \in Headers
    BY <2>1
  <2>5. /\ pc \in [Producers -> {"idle", "publish", "flush"}]
        /\ sent \in [Producers -> 0 .. MaxAppends]
    OBVIOUS
  <2>6. /\ batch \in Seq(Records)
        /\ delivered \in Seq(Records)
    BY <2>2
  <2>7. appended \subseteq Records
    OBVIOUS
  <2>8. /\ apc \in {"ensure", "ensureWrite", "read", "slots", "consume", "ack", "ackWrite"}
        /\ deaths \in 0 .. MaxDeaths
        /\ restarts \in 0 .. MaxRestarts
    OBVIOUS
  <2>9. warm \in BOOLEAN
    OBVIOUS
  <2> HIDE DEF Init
  <2> QED
    BY <2>3, <2>4, <2>5, <2>6, <2>7, <2>8, <2>9 DEF TypeOK
<1>2. WindowInv
  BY DEF WindowInv, WindowOK
<1>3. BatchInSequence /\ BatchBounds /\ AppendsCounted
  BY DEF BatchInSequence, BatchBounds, AppendsCounted
<1>4. AcknowledgedWereDelivered /\ CopiesConsumed
  BY DEF AcknowledgedWereDelivered, CopiesConsumed, ConsumedBelow
<1>5. RecordsInTheirSlots
  BY DEF RecordsInTheirSlots
<1> QED
  BY <1>1, <1>2, <1>3, <1>4, <1>5 DEF IInv

-----------------------------------------------------------------------------
(* Every step keeps every variable within its type.                        *)

LEMMA SlotOfType == \A s \in Nat : SlotOf(s) \in 0 .. Capacity - 1
BY DEF SlotOf

LEMMA HeaderUpdate ==
  ASSUME NEW h \in Headers, NEW n \in Nat
  PROVE  [h EXCEPT !.read = n] \in Headers /\ [h EXCEPT !.write = n] \in Headers
BY DEF Headers

LEMMA AckTargetType ==
  ASSUME TypeOK, BatchBounds, apc \in {"consume", "ack", "ackWrite"}
  PROVE  AckTarget \in Nat
<1>1. batch \in Seq(Records) /\ Len(batch) \in 1 .. Len(batch)
  BY DEF TypeOK, BatchBounds
<1>2. batch[Len(batch)] \in Records
  BY <1>1
<1> QED
  BY <1>2 DEF AckTarget, Records

LEMMA TypeStep == IInv /\ [Next]_vars => TypeOK'
<1> SUFFICES ASSUME IInv, [Next]_vars PROVE TypeOK'
  OBVIOUS
<1>0. TypeOK /\ AppendsCounted /\ BatchBounds
  BY DEF IInv
<1> USE <1>0 DEF TypeOK, vars, producerVars, adapterVars
<1>1. ASSUME NEW p \in Producers, AppendRead(p) PROVE TypeOK'
  <2>1. sent' \in [Producers -> 0 .. MaxAppends]
    BY <1>1 DEF AppendRead
  <2>2. /\ pc' \in [Producers -> {"idle", "publish", "flush"}]
        /\ hdr' \in [Producers -> Headers]
    BY <1>1 DEF AppendRead
  <2> QED
    BY <1>1, <2>1, <2>2 DEF AppendRead
<1>2. ASSUME NEW p \in Producers, AppendPublish(p) PROVE TypeOK'
  <2>0. hdr[p] \in Headers
    OBVIOUS
  <2>1. header' \in Headers
    <3>1. hdr[p].write + 1 \in Nat
      BY <2>0 DEF Headers
    <3> QED
      BY <1>2, <2>0, <3>1, HeaderUpdate DEF AppendPublish
  <2>2. pc' \in [Producers -> {"idle", "publish", "flush"}]
    BY <1>2 DEF AppendPublish
  <2> QED
    BY <1>2, <2>1, <2>2 DEF AppendPublish
<1>3. ASSUME NEW p \in Producers, AppendFlush(p) PROVE TypeOK'
  <2> DEFINE rec == [seq |-> hdr[p].write, cmd |-> NextCommand(p)]
  <2>1. rec \in Records
    <3>1. hdr[p].write \in Nat
      BY DEF Headers
    <3>2. sent[p] \in 1 .. MaxAppends
      BY <1>3 DEF AppendFlush, AppendsCounted
    <3>3. NextCommand(p) \in Commands
      BY <3>2 DEF NextCommand, Commands
    <3> QED
      BY <3>1, <3>3 DEF Records
  <2>2. slots' = [slots EXCEPT ![SlotOf(rec.seq)] = rec] /\ appended' = appended \cup {rec}
    BY <1>3 DEF AppendFlush
  <2> QED
    <3>1. slots' \in [0 .. Capacity - 1 -> Records \cup {Blank}]
      BY <2>1, <2>2
    <3>2. appended' \subseteq Records
      BY <2>1, <2>2
    <3> QED
      BY <1>3, <3>1, <3>2 DEF AppendFlush
<1>4. ASSUME NEW p \in Producers, ProducerDies(p) PROVE TypeOK'
  BY <1>4 DEF ProducerDies
<1>5. CASE EnsureRejected
  BY <1>5 DEF EnsureRejected
<1>6. CASE EnsureRead
  BY <1>6 DEF EnsureRead, Headers, NewHeader
<1>7. CASE EnsureWrite
  BY <1>7 DEF EnsureWrite
<1>8. CASE ReadHeader
  BY <1>8 DEF ReadHeader
<1>9. CASE ReadSlot
  <2> DEFINE rec == slots[SlotOf(ahdr.read + Len(batch))]
  <2>1. SlotOf(ahdr.read + Len(batch)) \in 0 .. Capacity - 1
    <3>1. ahdr.read + Len(batch) \in Nat
      BY DEF Headers
    <3> QED
      BY <3>1, SlotOfType
  <2>2. rec \in Records
    BY <1>9, <2>1 DEF ReadSlot, Readable
  <2>3. batch' \in Seq(Records)
    BY <1>9, <2>2 DEF ReadSlot
  <2> QED
    BY <1>9, <2>3 DEF ReadSlot
<1>10. CASE ReadRejected
  BY <1>10 DEF ReadRejected
<1>11. CASE Consume
  BY <1>11 DEF Consume
<1>12. CASE AckRead
  BY <1>12 DEF AckRead
<1>13. CASE AckWrite
  <2>1. AckTarget \in Nat
    BY <1>13, AckTargetType DEF AckWrite
  <2> QED
    <3>1. header' \in Headers
      BY <1>13, <2>1, HeaderUpdate DEF AckWrite
    <3> QED
      BY <1>13, <3>1 DEF AckWrite
<1>14. CASE AdapterRestarts
  <2>1. NewHeader \in Headers /\ << >> \in Seq(Records)
    BY DEF Headers, NewHeader
  <2>2. restarts' \in 0 .. MaxRestarts
    BY <1>14 DEF AdapterRestarts
  <2> QED
    BY <1>14, <2>1, <2>2 DEF AdapterRestarts
<1>15. CASE UNCHANGED vars
  BY <1>15
<1> QED
  BY <1>1, <1>2, <1>3, <1>4, <1>5, <1>6, <1>7, <1>8, <1>9, <1>10, <1>11, <1>12,
     <1>13, <1>14, <1>15 DEF Next, ProducerStep, AdapterStep

-----------------------------------------------------------------------------
(* The header stays a window.  It is only ever written from a copy: a copy *)
(* taken by an append had room for one more record, and ensure and         *)
(* acknowledge keep their copy's window.                                   *)

LEMMA WindowStep == IInv /\ [Next]_vars => WindowInv'
<1> SUFFICES ASSUME IInv, [Next]_vars PROVE WindowInv'
  OBVIOUS
<1>0. /\ header \in Headers /\ ahdr \in Headers
      /\ pc \in [Producers -> {"idle", "publish", "flush"}]
      /\ hdr \in [Producers -> Headers]
  BY DEF IInv, TypeOK
<1>00. WindowInv /\ BatchBounds
  BY DEF IInv
<1> USE <1>0, <1>00 DEF WindowInv, vars, producerVars, adapterVars
<1>1. ASSUME NEW p \in Producers, AppendRead(p) PROVE WindowInv'
  BY <1>1 DEF AppendRead
<1>2. ASSUME NEW p \in Producers, AppendPublish(p) PROVE WindowInv'
  <2>1. HeaderValid(hdr[p]) /\ ~ Full(hdr[p]) /\ hdr[p] \in Headers
    BY <1>2 DEF AppendPublish
  <2>2. header' = [hdr[p] EXCEPT !.write = hdr[p].write + 1]
    BY <1>2 DEF AppendPublish
  <2>3. WindowOK(header')
    BY <2>1, <2>2 DEF HeaderValid, WindowOK, Full, Headers
  <2> QED
    BY <1>2, <2>3 DEF AppendPublish
<1>3. ASSUME NEW p \in Producers, AppendFlush(p) PROVE WindowInv'
  BY <1>3 DEF AppendFlush
<1>4. ASSUME NEW p \in Producers, ProducerDies(p) PROVE WindowInv'
  BY <1>4 DEF ProducerDies
<1>5. CASE EnsureRejected
  BY <1>5 DEF EnsureRejected
<1>6. CASE EnsureRead
  <2>1. WindowOK(ahdr')
    BY <1>6 DEF EnsureRead, WindowOK, Headers, NewHeader
  <2> QED
    BY <1>6, <2>1 DEF EnsureRead
<1>7. CASE EnsureWrite
  BY <1>7 DEF EnsureWrite
<1>8. CASE ReadHeader
  BY <1>8 DEF ReadHeader
<1>9. CASE ReadSlot
  BY <1>9 DEF ReadSlot
<1>10. CASE ReadRejected
  BY <1>10 DEF ReadRejected
<1>11. CASE Consume
  BY <1>11 DEF Consume
<1>12. CASE AckRead
  BY <1>12 DEF AckRead
<1>13. CASE AckWrite
  <2>1. AckTarget \in ahdr.read .. ahdr.write
    BY <1>13 DEF AckWrite, BatchBounds
  <2>2. header' = [ahdr EXCEPT !.read = AckTarget]
    BY <1>13 DEF AckWrite
  <2>3. WindowOK(header')
    BY <2>1, <2>2 DEF WindowOK, Headers
  <2> QED
    BY <1>13, <2>3 DEF AckWrite
<1>14. CASE AdapterRestarts
  <2>1. WindowOK(NewHeader)
    BY DEF WindowOK, NewHeader
  <2> QED
    BY <1>14, <2>1 DEF AdapterRestarts
<1>15. CASE UNCHANGED vars
  BY <1>15
<1> QED
  BY <1>1, <1>2, <1>3, <1>4, <1>5, <1>6, <1>7, <1>8, <1>9, <1>10, <1>11, <1>12,
     <1>13, <1>14, <1>15 DEF Next, ProducerStep, AdapterStep

-----------------------------------------------------------------------------
(* A record is in the slot its sequence number selects.                    *)

LEMMA SlotStep == IInv /\ [Next]_vars => RecordsInTheirSlots'
<1> SUFFICES ASSUME IInv, [Next]_vars PROVE RecordsInTheirSlots'
  OBVIOUS
<1>0. /\ slots \in [0 .. Capacity - 1 -> Records \cup {Blank}]
      /\ hdr \in [Producers -> Headers]
      /\ RecordsInTheirSlots
  BY DEF IInv, TypeOK
<1>1. ASSUME NEW p \in Producers, AppendFlush(p) PROVE RecordsInTheirSlots'
  <2> DEFINE rec == [seq |-> hdr[p].write, cmd |-> NextCommand(p)]
  <2>1. slots' = [slots EXCEPT ![SlotOf(rec.seq)] = rec]
    BY <1>1 DEF AppendFlush
  <2> SUFFICES ASSUME NEW i \in 0 .. Capacity - 1, slots'[i] # Blank
               PROVE  SlotOf(slots'[i].seq) = i
    BY DEF RecordsInTheirSlots
  <2>2. CASE i = SlotOf(rec.seq)
    <3>1. slots'[i] = rec
      BY <2>1, <2>2, <1>0
    <3> QED
      BY <3>1, <2>2
  <2>3. CASE i # SlotOf(rec.seq)
    <3>1. slots'[i] = slots[i]
      BY <2>1, <2>3, <1>0
    <3> QED
      BY <3>1, <1>0 DEF RecordsInTheirSlots
  <2> QED
    BY <2>2, <2>3
<1>2. (~ \E p \in Producers : AppendFlush(p)) => UNCHANGED slots
  BY DEF Next, ProducerStep, AdapterStep, vars, AppendRead, AppendPublish,
         ProducerDies, EnsureRejected, EnsureRead, EnsureWrite, ReadHeader, ReadSlot,
         ReadRejected, Consume, AckRead, AckWrite, AdapterRestarts
<1>3. UNCHANGED slots => RecordsInTheirSlots'
  BY <1>0 DEF RecordsInTheirSlots
<1> QED
  BY <1>1, <1>2, <1>3

\* An append that is half done has been counted.
LEMMA CountStep == IInv /\ [Next]_vars => AppendsCounted'
<1> SUFFICES ASSUME IInv, [Next]_vars, NEW p \in Producers, pc'[p] # "idle"
             PROVE  sent'[p] > 0
  BY DEF AppendsCounted
<1>0. /\ pc \in [Producers -> {"idle", "publish", "flush"}]
      /\ sent \in [Producers -> 0 .. MaxAppends]
      /\ AppendsCounted
  BY DEF IInv, TypeOK
<1>1. ASSUME NEW q \in Producers, AppendRead(q) PROVE sent'[p] > 0
  BY <1>0, <1>1 DEF AppendRead, AppendsCounted
<1>2. ASSUME NEW q \in Producers, AppendPublish(q) PROVE sent'[p] > 0
  BY <1>0, <1>2 DEF AppendPublish, AppendsCounted
<1>3. ASSUME NEW q \in Producers, AppendFlush(q) PROVE sent'[p] > 0
  BY <1>0, <1>3 DEF AppendFlush, AppendsCounted
<1>4. ASSUME NEW q \in Producers, ProducerDies(q) PROVE sent'[p] > 0
  BY <1>0, <1>4 DEF ProducerDies, AppendsCounted
<1>5. AdapterStep \/ AdapterRestarts \/ UNCHANGED vars => UNCHANGED <<pc, sent>>
  BY DEF AdapterStep, vars, producerVars, EnsureRejected, EnsureRead, EnsureWrite,
         ReadHeader, ReadSlot, ReadRejected, Consume, AckRead, AckWrite, AdapterRestarts
<1>6. UNCHANGED <<pc, sent>> => sent'[p] > 0
  BY <1>0 DEF AppendsCounted
<1> QED
  BY <1>1, <1>2, <1>3, <1>4, <1>5, <1>6 DEF Next, ProducerStep

-----------------------------------------------------------------------------
(* The batch is the run of sequence numbers the adapter believes it is.    *)

\* The record found at the k-th position of the window, once it validates, is
\* the record of that position: it shares the slot and lies in a window that
\* is no longer than one lap.
LEMMA ReadableIsExpected ==
  ASSUME TypeOK, WindowOK(ahdr), RecordsInTheirSlots,
         NEW k \in Nat, k < ahdr.write - ahdr.read,
         Readable(ahdr, slots[SlotOf(ahdr.read + k)])
  PROVE  slots[SlotOf(ahdr.read + k)].seq = ahdr.read + k
<1> DEFINE s == ahdr.read + k
           rec == slots[SlotOf(s)]
<1>1. ahdr.read \in Nat /\ ahdr.write \in Nat /\ s \in Nat
  BY DEF TypeOK, Headers
<1>2. SlotOf(s) \in 0 .. Capacity - 1
  BY <1>1, SlotOfType
<1>3. rec \in Records /\ rec # Blank
  BY <1>2 DEF TypeOK, Readable
<1>4. SlotOf(rec.seq) = SlotOf(s)
  BY <1>2, <1>3 DEF RecordsInTheirSlots
<1>5. rec.seq \in Nat /\ rec.seq >= ahdr.read /\ rec.seq < ahdr.write
  BY <1>3 DEF Records, Readable
<1>6. rec.seq - s < Capacity /\ s - rec.seq < Capacity
  BY <1>1, <1>5 DEF WindowOK
<1> HIDE DEF s, rec
<1>7. rec.seq % Capacity = s % Capacity
  BY <1>4 DEF SlotOf
<1>8. rec.seq = s
  BY <1>1, <1>5, <1>6, <1>7, SameSlotSameSequence
<1> QED
  BY <1>8 DEF s, rec

\* A header that announces records announces a batch of at least one, and the
\* batch never reaches past the window.
LEMMA BatchSizeBounds ==
  ASSUME NEW h \in Headers, h.read < h.write
  PROVE  BatchSize(h) > 0 /\ BatchSize(h) <= h.write - h.read
BY DEF BatchSize, Headers

LEMMA BatchStep == IInv /\ [Next]_vars => BatchInSequence' /\ BatchBounds'
<1> SUFFICES ASSUME IInv, [Next]_vars PROVE BatchInSequence' /\ BatchBounds'
  OBVIOUS
<1>0. /\ header \in Headers /\ ahdr \in Headers
      /\ batch \in Seq(Records)
      /\ TypeOK /\ WindowInv /\ BatchInSequence /\ BatchBounds /\ RecordsInTheirSlots
  BY DEF IInv, TypeOK
<1>1. ASSUME UNCHANGED adapterVars PROVE BatchInSequence' /\ BatchBounds'
  BY <1>0, <1>1 DEF adapterVars, BatchInSequence, BatchBounds, AckTarget
<1>2. ASSUME apc' \in {"ensure", "ensureWrite", "read"}
      PROVE  BatchInSequence' /\ BatchBounds'
  BY <1>2 DEF BatchInSequence, BatchBounds
<1>3. CASE ReadHeader
  <2>1. CASE apc' = "ensure"
    BY <2>1, <1>2
  <2>2. CASE apc' # "ensure"
    <3>1. apc' = "slots" /\ batch' = << >> /\ ahdr' = header /\ header.read < header.write
      BY <1>0, <1>3, <2>2 DEF ReadHeader, HeaderValid, WindowOK, Headers
    <3>2. BatchSize(ahdr') > 0
      BY <1>0, <3>1, BatchSizeBounds
    <3>3. Len(batch') = 0
      BY <3>1
    <3> QED
      BY <3>1, <3>2, <3>3 DEF BatchInSequence, BatchBounds
  <2> QED
    BY <2>1, <2>2
<1>4. CASE ReadSlot
  <2> DEFINE n == Len(batch)
             rec == slots[SlotOf(ahdr.read + n)]
  <2>1. /\ apc = "slots" /\ Readable(ahdr, rec)
        /\ batch' = Append(batch, rec) /\ ahdr' = ahdr
        /\ apc' = IF n + 1 = BatchSize(ahdr) THEN "consume" ELSE "slots"
    BY <1>4 DEF ReadSlot, adapterVars
  <2>2. n \in Nat /\ n < BatchSize(ahdr)
    BY <1>0, <2>1 DEF BatchBounds
  <2>3. BatchSize(ahdr) \in Int /\ BatchSize(ahdr) <= ahdr.write - ahdr.read
    BY <1>0 DEF BatchSize, Headers
  <2>4. n < ahdr.write - ahdr.read
    BY <1>0, <2>2, <2>3 DEF Headers
  <2>5. rec.seq = ahdr.read + n
    BY <1>0, <2>1, <2>2, <2>4, ReadableIsExpected DEF WindowInv
  <2>6. Len(batch') = n + 1
    BY <1>0, <2>1
  <2>7. BatchBounds'
    BY <2>1, <2>2, <2>3, <2>6 DEF BatchBounds
  <2>8. ASSUME NEW k \in 1 .. Len(batch') PROVE batch'[k].seq = ahdr'.read + (k - 1)
    <3>1. CASE k <= n
      <4>1. batch'[k] = batch[k] /\ k \in 1 .. Len(batch)
        BY <1>0, <2>1, <2>8, <3>1
      <4> QED
        BY <1>0, <2>1, <4>1 DEF BatchInSequence
    <3>2. CASE k = n + 1
      <4>1. batch'[k] = rec
        BY <1>0, <2>1, <3>2
      <4> QED
        BY <1>0, <2>1, <2>2, <2>5, <3>2, <4>1 DEF Headers
    <3> QED
      BY <2>2, <2>6, <2>8, <3>1, <3>2
  <2> QED
    BY <2>7, <2>8 DEF BatchInSequence
<1>5. CASE Consume
  BY <1>0, <1>5 DEF Consume, BatchInSequence, BatchBounds
<1>6. CASE AckRead
  <2>1. CASE apc' = "ensure"
    BY <2>1, <1>2
  <2>2. CASE apc' # "ensure"
    <3>1. /\ apc = "ack" /\ apc' = "ackWrite" /\ batch' = batch /\ ahdr' = header
          /\ AckTarget \in header.read .. header.write
      BY <1>6, <2>2 DEF AckRead
    <3>2. AckTarget' = AckTarget /\ Len(batch') > 0
      BY <1>0, <3>1 DEF AckTarget, BatchBounds
    <3> QED
      BY <3>1, <3>2 DEF BatchInSequence, BatchBounds
  <2> QED
    BY <2>1, <2>2
<1>7. EnsureRejected \/ EnsureRead \/ EnsureWrite \/ ReadRejected \/ AckWrite
        \/ AdapterRestarts => apc' \in {"ensure", "ensureWrite", "read"}
  BY DEF EnsureRejected, EnsureRead, EnsureWrite, ReadRejected, AckWrite, AdapterRestarts
<1>8. (\E p \in Producers : ProducerStep(p) \/ ProducerDies(p)) \/ UNCHANGED vars
        => UNCHANGED adapterVars
  BY DEF ProducerStep, AppendRead, AppendPublish, AppendFlush, ProducerDies, vars
<1> QED
  BY <1>1, <1>2, <1>3, <1>4, <1>5, <1>6, <1>7, <1>8 DEF Next, AdapterStep

-----------------------------------------------------------------------------
(* What was consumed stays consumed, and no copy of the header that can    *)
(* reach the file reads past it.                                           *)

LEMMA ConsumedGrows ==
  ASSUME TypeOK, NEW r \in Nat, ConsumedBelow(r), [Next]_vars
  PROVE  ConsumedBelow(r)'
<1>1. CASE UNCHANGED delivered
  BY <1>1 DEF ConsumedBelow
<1>2. CASE delivered' = delivered \o batch
  <2> SUFFICES ASSUME NEW s \in 0 .. r - 1
               PROVE  \E i \in 1 .. Len(delivered') : delivered'[i].seq = s
    BY DEF ConsumedBelow
  <2>1. PICK i \in 1 .. Len(delivered) : delivered[i].seq = s
    BY DEF ConsumedBelow
  <2>2. delivered'[i] = delivered[i] /\ i \in 1 .. Len(delivered')
    BY <1>2, <2>1 DEF TypeOK
  <2> QED
    BY <2>1, <2>2
<1> QED
  BY <1>1, <1>2
  DEF Next, ProducerStep, AdapterStep, vars, AppendRead, AppendPublish, AppendFlush,
      ProducerDies, EnsureRejected, EnsureRead, EnsureWrite, ReadHeader, ReadSlot,
      ReadRejected, Consume, AckRead, AckWrite, AdapterRestarts

\* Consuming the batch extends what is consumed up to its acknowledgement.
LEMMA ConsumeExtends ==
  ASSUME IInv, Consume
  PROVE  ConsumedBelow(AckTarget)'
<1>1. /\ batch \in Seq(Records) /\ delivered \in Seq(Records) /\ ahdr \in Headers
      /\ apc = "consume" /\ batch' = batch /\ delivered' = delivered \o batch
      /\ ConsumedBelow(ahdr.read)
  BY DEF IInv, TypeOK, Consume, CopiesConsumed
<1>2. Len(batch) \in Nat /\ Len(batch) > 0
  BY <1>1 DEF IInv, BatchBounds
<1>3. \A k \in 1 .. Len(batch) : batch[k].seq = ahdr.read + (k - 1)
  BY <1>1 DEF IInv, BatchInSequence
<1>4. AckTarget' = ahdr.read + Len(batch)
  <2>1. batch[Len(batch)].seq = ahdr.read + (Len(batch) - 1)
    BY <1>2, <1>3
  <2> QED
    BY <1>1, <1>2, <2>1 DEF AckTarget, Headers
<1>5. Len(delivered') = Len(delivered) + Len(batch) /\ Len(delivered) \in Nat
  BY <1>1
<1>6. ASSUME NEW s \in 0 .. AckTarget' - 1
      PROVE  \E i \in 1 .. Len(delivered') : delivered'[i].seq = s
  <2>0. ahdr.read \in Nat /\ s \in Nat /\ s < ahdr.read + Len(batch)
    BY <1>1, <1>2, <1>4, <1>6 DEF Headers
  <2>1. CASE s < ahdr.read
    <3>1. PICK i \in 1 .. Len(delivered) : delivered[i].seq = s
      BY <1>1, <2>0, <2>1 DEF ConsumedBelow
    <3>2. delivered'[i] = delivered[i] /\ i \in 1 .. Len(delivered')
      BY <1>1, <1>5, <3>1
    <3> QED
      BY <3>1, <3>2
  <2>2. CASE s >= ahdr.read
    <3> DEFINE k == s - ahdr.read + 1
    <3>1. k \in 1 .. Len(batch) /\ batch[k].seq = s
      BY <1>2, <1>3, <2>0, <2>2
    <3> HIDE DEF k
    <3>2. /\ delivered'[Len(delivered) + k] = batch[k]
          /\ Len(delivered) + k \in 1 .. Len(delivered')
      BY <1>1, <1>5, <3>1
    <3> QED
      BY <3>1, <3>2
  <2> QED
    BY <2>0, <2>1, <2>2
<1> QED
  BY <1>6 DEF ConsumedBelow

LEMMA ConsumedStep ==
  IInv /\ [Next]_vars => AcknowledgedWereDelivered' /\ CopiesConsumed'
<1> SUFFICES ASSUME IInv, [Next]_vars
             PROVE  AcknowledgedWereDelivered' /\ CopiesConsumed'
  OBVIOUS
<1> DEFINE C(r) == \A s \in 0 .. r - 1 : \E i \in 1 .. Len(delivered') : delivered'[i].seq = s
<1>0. /\ header \in Headers /\ ahdr \in Headers
      /\ hdr \in [Producers -> Headers]
      /\ pc \in [Producers -> {"idle", "publish", "flush"}]
      /\ TypeOK /\ BatchBounds /\ AcknowledgedWereDelivered /\ CopiesConsumed
  BY DEF IInv, TypeOK
<1>1. \A r \in Nat : ConsumedBelow(r) => C(r)
  BY <1>0, ConsumedGrows DEF ConsumedBelow
<1>2. C(header.read) /\ C(ahdr.read)
  BY <1>0, <1>1 DEF AcknowledgedWereDelivered, CopiesConsumed, Headers
<1>3. \A p \in Producers : pc[p] = "publish" => C(hdr[p].read)
  BY <1>0, <1>1 DEF CopiesConsumed, Headers
<1>4. apc \in {"ack", "ackWrite"} => C(AckTarget)
  BY <1>0, <1>1, AckTargetType DEF CopiesConsumed
<1>5. C(0)
  OBVIOUS
<1> HIDE DEF C
\* the three facts that have to hold after the step
<1>6. C(header'.read)
  <2>1. ASSUME NEW p \in Producers, AppendPublish(p) PROVE C(header'.read)
    <3>1. header'.read = hdr[p].read /\ pc[p] = "publish"
      BY <1>0, <2>1 DEF AppendPublish, Headers
    <3> QED
      BY <1>3, <3>1
  <2>2. CASE EnsureWrite
    BY <1>2, <2>2 DEF EnsureWrite
  <2>3. CASE AckWrite
    <3>1. header'.read = AckTarget /\ apc = "ackWrite"
      BY <1>0, <2>3 DEF AckWrite, Headers
    <3> QED
      BY <1>4, <3>1
  <2>4. CASE UNCHANGED header
    BY <1>2, <2>4
  <2> QED
    BY <2>1, <2>2, <2>3, <2>4
    DEF Next, ProducerStep, AdapterStep, vars, AppendRead, AppendFlush, ProducerDies,
        EnsureRejected, EnsureRead, ReadHeader, ReadSlot, ReadRejected, Consume,
        AckRead, AdapterRestarts
<1>7. C(ahdr'.read)
  <2>1. CASE ahdr' = header \/ ahdr' = ahdr \/ ahdr'.read = 0
    BY <1>2, <1>5, <2>1
  <2>2. EnsureRead => ahdr'.read = header.read \/ ahdr'.read = 0
    BY <1>0 DEF EnsureRead, NewHeader, Headers
  <2>3. AdapterRestarts => ahdr'.read = 0
    BY DEF AdapterRestarts, NewHeader
  <2>4. CASE EnsureRead
    BY <1>2, <1>5, <2>2, <2>4
  <2> QED
    BY <2>1, <2>3, <2>4
    DEF Next, ProducerStep, AdapterStep, vars, adapterVars, AppendRead, AppendPublish,
        AppendFlush, ProducerDies, EnsureRejected, EnsureWrite, ReadHeader,
        ReadSlot, ReadRejected, Consume, AckRead, AckWrite
<1>8. ASSUME NEW p \in Producers, pc'[p] = "publish" PROVE C(hdr'[p].read)
  <2>1. ASSUME NEW q \in Producers, AppendRead(q) PROVE C(hdr'[p].read)
    BY <1>0, <1>2, <1>3, <1>8, <2>1 DEF AppendRead
  <2>2. ASSUME UNCHANGED hdr, pc[p] = "publish" PROVE C(hdr'[p].read)
    BY <1>3, <2>2
  <2>3. (~ \E q \in Producers : AppendRead(q)) => UNCHANGED hdr /\ pc[p] = "publish"
    BY <1>0, <1>8
    DEF Next, ProducerStep, AdapterStep, vars, producerVars, AppendPublish, AppendFlush,
        ProducerDies, EnsureRejected, EnsureRead, EnsureWrite, ReadHeader, ReadSlot,
        ReadRejected, Consume, AckRead, AckWrite, AdapterRestarts
  <2> QED
    BY <2>1, <2>2, <2>3
<1>9. ASSUME apc' \in {"ack", "ackWrite"} PROVE C(AckTarget')
  <2>1. CASE Consume
    BY <2>1, ConsumeExtends DEF ConsumedBelow, C
  <2>2. CASE ~ Consume
    <3>1. apc \in {"ack", "ackWrite"} /\ AckTarget' = AckTarget
      BY <1>0, <1>9, <2>2
      DEF Next, ProducerStep, AdapterStep, vars, adapterVars, AppendRead, AppendPublish,
          AppendFlush, ProducerDies, EnsureRejected, EnsureRead, EnsureWrite, ReadHeader,
          ReadSlot, ReadRejected, AckRead, AckWrite, AdapterRestarts, AckTarget
    <3> QED
      BY <1>4, <3>1
  <2> QED
    BY <2>1, <2>2
<1>10. AcknowledgedWereDelivered'
  BY <1>6 DEF AcknowledgedWereDelivered, ConsumedBelow, C
<1>11. CopiesConsumed'
  BY <1>7, <1>8, <1>9 DEF CopiesConsumed, ConsumedBelow, C
<1> QED
  BY <1>10, <1>11

-----------------------------------------------------------------------------
(* The theorems.                                                           *)

\* The inductive invariant holds in every reachable state.
THEOREM Invariance == Spec => []IInv
<1>1. IInv /\ [Next]_vars => IInv'
  BY TypeStep, WindowStep, BatchStep, SlotStep, CountStep, ConsumedStep DEF IInv
<1> QED
  BY InitIInv, <1>1, PTL DEF Spec

\* Every variable stays within its type.
THEOREM TypeCorrect == Spec => []TypeOK
<1>1. IInv => TypeOK
  BY DEF IInv
<1> QED
  BY Invariance, <1>1, PTL

\* However the accesses of any number of producers and of the adapter
\* interleave, and whoever dies or restarts, the header in the queue file
\* describes a window of at most Capacity records: no race can make the
\* validation reject the queue for good.
THEOREM HeaderStaysAWindow == Spec => []WindowInv
<1>1. IInv => WindowInv
  BY DEF IInv
<1> QED
  BY Invariance, <1>1, PTL

\* A batch the adapter accepts holds exactly the sequence numbers it asked
\* for: no record of another lap of the ring is taken for one of this lap.
THEOREM BatchesAreInSequence == Spec => []BatchInSequence
<1>1. IInv => BatchInSequence
  BY DEF IInv
<1> QED
  BY Invariance, <1>1, PTL

\* The read sequence in the file never passes a sequence number that was not
\* consumed: nothing is skipped at the read end.
THEOREM NothingIsSkipped == Spec => []AcknowledgedWereDelivered
<1>1. IInv => AcknowledgedWereDelivered
  BY DEF IInv
<1> QED
  BY Invariance, <1>1, PTL

-----------------------------------------------------------------------------
(* A single producer that is not killed.  SInv(p) is inductive relative to *)
(* IInv as long as p makes all appends.                                    *)

\* The adapter holds a copy of the header that it is going to write back.
WritesBack == apc \in {"ensureWrite", "ackWrite"}

\* The producer's copy is behind what is in the file at the read end only, the
\* adapter's at the write end only.
CopiesBehind(p) ==
  /\ pc[p] = "publish" => hdr[p].read <= header.read /\ header.write <= hdr[p].write
  /\ WritesBack => header.read <= ahdr.read /\ ahdr.write <= header.write

\* The record that is written next is less than a lap away from the window of h.
SameLap(h, p) == h.write <= hdr[p].write + Capacity /\ hdr[p].write < h.read + Capacity

OneLap(p) ==
  pc[p] = "flush" => SameLap(header, p) /\ (WritesBack => SameLap(ahdr, p))

\* What the window of h announces is there, or about to be.
Filled(h, p) ==
  \A s \in h.read .. h.write - 1 :
    slots[SlotOf(s)].seq = s \/ (pc[p] = "flush" /\ hdr[p].write = s)

WindowsFilled(p) ==
  /\ Filled(header, p)
  /\ WritesBack => Filled(ahdr, p)
  /\ pc[p] = "publish" => Filled(hdr[p], p)

SInv(p) == CopiesBehind(p) /\ OneLap(p) /\ WindowsFilled(p)

\* The record that is flushed lands in a slot of the window of h only when it
\* is the record announced there: another one would be a lap away.
LEMMA FlushFills ==
  ASSUME TypeOK, NEW p \in Producers, AppendFlush(p),
         NEW h \in Headers, WindowOK(h), SameLap(h, p), Filled(h, p)
  PROVE  \A s \in h.read .. h.write - 1 : slots'[SlotOf(s)].seq = s
<1> DEFINE n == hdr[p].write
           rec == [seq |-> n, cmd |-> NextCommand(p)]
<1>1. /\ n \in Nat /\ h.read \in Nat /\ h.write \in Nat
      /\ slots \in [0 .. Capacity - 1 -> Records \cup {Blank}]
  BY DEF TypeOK, Headers
<1>2. slots' = [slots EXCEPT ![SlotOf(n)] = rec]
  BY DEF AppendFlush
<1> SUFFICES ASSUME NEW s \in h.read .. h.write - 1 PROVE slots'[SlotOf(s)].seq = s
  OBVIOUS
<1>3. s \in Nat /\ h.read <= s /\ s < h.write
  BY <1>1
<1>4. SlotOf(s) \in 0 .. Capacity - 1
  BY <1>3, SlotOfType
<1>5. CASE SlotOf(s) = SlotOf(n)
  <2>1. s - n < Capacity /\ n - s < Capacity
    BY <1>1, <1>3 DEF SameLap
  <2>2. s % Capacity = n % Capacity
    BY <1>5 DEF SlotOf
  <2> HIDE DEF n
  <2>3. s = n
    BY <1>1, <1>3, <2>1, <2>2, SameSlotSameSequence
  <2>4. slots'[SlotOf(s)] = rec
    BY <1>1, <1>2, <1>4, <1>5
  <2> QED
    BY <2>3, <2>4
<1>6. CASE SlotOf(s) # SlotOf(n)
  <2>1. slots'[SlotOf(s)] = slots[SlotOf(s)]
    BY <1>1, <1>2, <1>4, <1>6
  <2>2. s # n
    BY <1>6
  <2> QED
    BY <2>1, <2>2 DEF Filled
<1> QED
  BY <1>5, <1>6

LEMMA InitSInv == ASSUME NEW p \in Producers, Init PROVE SInv(p)
BY DEF Init, NewHeader, SInv, CopiesBehind, OneLap, WindowsFilled, WritesBack, Filled

\* The three steps of an append.
LEMMA AppendSInv ==
  ASSUME IInv, NEW p \in Producers, SInv(p),
         AppendRead(p) \/ AppendPublish(p) \/ AppendFlush(p)
  PROVE  SInv(p)'
<1>0. /\ header \in Headers /\ ahdr \in Headers /\ hdr[p] \in Headers
      /\ pc \in [Producers -> {"idle", "publish", "flush"}]
      /\ hdr \in [Producers -> Headers]
      /\ WindowInv /\ TypeOK
  BY DEF IInv, TypeOK
<1>00. /\ header.read \in Nat /\ header.write \in Nat /\ ahdr.read \in Nat
       /\ ahdr.write \in Nat /\ hdr[p].read \in Nat /\ hdr[p].write \in Nat
  BY <1>0 DEF Headers
<1>1. CASE AppendRead(p)
  <2>1. /\ pc[p] = "idle" /\ pc'[p] = "publish" /\ hdr'[p] = header
        /\ UNCHANGED <<header, slots, apc, ahdr>>
    BY <1>0, <1>1 DEF AppendRead, adapterVars
  <2>2. CopiesBehind(p)'
    BY <1>00, <2>1 DEF SInv, CopiesBehind, WritesBack
  <2>3. OneLap(p)'
    BY <2>1 DEF OneLap
  <2>4. WindowsFilled(p)'
    BY <2>1 DEF SInv, WindowsFilled, WritesBack, Filled
  <2> QED
    BY <2>2, <2>3, <2>4 DEF SInv
<1>2. CASE AppendPublish(p)
  <2>1. /\ pc[p] = "publish" /\ pc'[p] = "flush" /\ UNCHANGED <<slots, hdr, apc, ahdr>>
        /\ header'.read = hdr[p].read /\ header'.write = hdr[p].write + 1
    BY <1>0, <1>2 DEF AppendPublish, adapterVars, Headers
  <2>2. /\ hdr[p].read <= header.read
        /\ header.write <= hdr[p].write
        /\ WritesBack => header.read <= ahdr.read /\ ahdr.write <= header.write
    BY <2>1 DEF SInv, CopiesBehind
  <2>3. hdr[p].write < hdr[p].read + Capacity
    BY <1>0, <1>00, <2>1 DEF WindowInv, Full
  <2>4. CopiesBehind(p)'
    BY <1>00, <2>1, <2>2 DEF CopiesBehind, WritesBack
  <2>5. OneLap(p)'
    BY <1>00, <2>1, <2>2, <2>3 DEF OneLap, SameLap, WritesBack
  <2>6. Filled(hdr[p], p) /\ (WritesBack => Filled(ahdr, p))
    BY <2>1 DEF SInv, WindowsFilled
  <2>7. ASSUME NEW s \in header'.read .. header'.write - 1
        PROVE  slots'[SlotOf(s)].seq = s \/ hdr'[p].write = s
    <3>1. s = hdr[p].write \/ s \in hdr[p].read .. hdr[p].write - 1
      BY <1>00, <2>1
    <3> QED
      BY <2>1, <2>6, <3>1 DEF Filled
  <2>8. WritesBack' => Filled(ahdr, p)'
    BY <2>1, <2>6 DEF Filled, WritesBack
  <2>9. WindowsFilled(p)'
    BY <2>1, <2>7, <2>8 DEF WindowsFilled, Filled
  <2> QED
    BY <2>4, <2>5, <2>9 DEF SInv
<1>3. CASE AppendFlush(p)
  <2>1. /\ pc[p] = "flush" /\ pc'[p] = "idle" /\ UNCHANGED <<header, hdr, apc, ahdr>>
    BY <1>0, <1>3 DEF AppendFlush, adapterVars
  <2>2. WindowOK(header) /\ WindowOK(ahdr)
    BY <1>0 DEF WindowInv
  <2>3. /\ SameLap(header, p) /\ Filled(header, p)
        /\ WritesBack => SameLap(ahdr, p) /\ Filled(ahdr, p)
    BY <2>1 DEF SInv, OneLap, WindowsFilled
  <2>4. \A s \in header.read .. header.write - 1 : slots'[SlotOf(s)].seq = s
    BY <1>0, <1>3, <2>2, <2>3, FlushFills
  <2>5. WritesBack => \A s \in ahdr.read .. ahdr.write - 1 : slots'[SlotOf(s)].seq = s
    BY <1>0, <1>3, <2>2, <2>3, FlushFills
  <2>6. WindowsFilled(p)'
    BY <2>1, <2>4, <2>5 DEF WindowsFilled, Filled, WritesBack
  <2>7. CopiesBehind(p)' /\ OneLap(p)'
    BY <2>1 DEF SInv, CopiesBehind, OneLap, WritesBack
  <2> QED
    BY <2>6, <2>7 DEF SInv
<1> QED
  BY <1>1, <1>2, <1>3

\* The adapter's steps.  Its copies are taken from the file and written back,
\* with a read sequence that has grown at most.
LEMMA AdapterSInv ==
  ASSUME IInv, NEW p \in Producers, SInv(p), AdapterStep \/ AdapterRestarts
  PROVE  SInv(p)'
<1>0. /\ header \in Headers /\ ahdr \in Headers /\ hdr[p] \in Headers
      /\ WindowInv /\ BatchBounds
  BY DEF IInv, TypeOK
<1>00. /\ header.read \in Nat /\ header.write \in Nat /\ ahdr.read \in Nat
       /\ ahdr.write \in Nat /\ hdr[p].read \in Nat /\ hdr[p].write \in Nat
  BY <1>0 DEF Headers
<1>1. UNCHANGED <<slots, pc, hdr>>
  BY DEF AdapterStep, producerVars, EnsureRejected, EnsureRead, EnsureWrite, ReadHeader,
         ReadSlot, ReadRejected, Consume, AckRead, AckWrite, AdapterRestarts
<1>2. CASE EnsureRead \/ (AckRead /\ apc' = "ackWrite")
  <2>1. /\ UNCHANGED header /\ ahdr'.read = header.read /\ ahdr'.write = header.write
    BY <1>0, <1>2 DEF EnsureRead, AckRead, WindowInv, Headers
  <2>2. CopiesBehind(p)'
    BY <1>00, <1>1, <2>1 DEF SInv, CopiesBehind
  <2>3. OneLap(p)'
    BY <1>1, <2>1 DEF SInv, OneLap, SameLap
  <2>4. WindowsFilled(p)'
    BY <1>1, <2>1 DEF SInv, WindowsFilled, Filled
  <2> QED
    BY <2>2, <2>3, <2>4 DEF SInv
<1>3. CASE EnsureWrite \/ AckWrite
  <2>1. /\ WritesBack /\ ~ WritesBack'
        /\ header'.write = ahdr.write /\ header'.read \in Nat /\ header'.read >= ahdr.read
    <3>1. CASE EnsureWrite
      BY <1>00, <3>1 DEF EnsureWrite, WritesBack
    <3>2. CASE AckWrite
      <4>1. apc = "ackWrite" /\ apc' = "ensure" /\ AckTarget \in ahdr.read .. ahdr.write
        BY <1>0, <3>2 DEF AckWrite, BatchBounds
      <4>2. header'.read = AckTarget /\ header'.write = ahdr.write
        BY <1>0, <3>2 DEF AckWrite, Headers
      <4> QED
        BY <1>00, <4>1, <4>2 DEF WritesBack
    <3> QED
      BY <1>3, <3>1, <3>2
  <2>2. CopiesBehind(p)'
    BY <1>00, <1>1, <2>1 DEF SInv, CopiesBehind
  <2>3. OneLap(p)'
    BY <1>00, <1>1, <2>1 DEF SInv, OneLap, SameLap
  <2>4. WindowsFilled(p)'
    <3>1. Filled(ahdr, p) /\ (pc[p] = "publish" => Filled(hdr[p], p))
      BY <2>1 DEF SInv, WindowsFilled
    <3>2. Filled(header, p)'
      BY <1>00, <1>1, <2>1, <3>1 DEF Filled
    <3> QED
      BY <1>1, <2>1, <3>1, <3>2 DEF WindowsFilled, Filled
  <2> QED
    BY <2>2, <2>3, <2>4 DEF SInv
<1>4. ASSUME UNCHANGED header, ~ WritesBack' \/ UNCHANGED <<apc, ahdr>> PROVE SInv(p)'
  BY <1>1, <1>4
  DEF SInv, CopiesBehind, OneLap, SameLap, WindowsFilled, Filled, WritesBack
<1>5. ASSUME AdapterStep \/ AdapterRestarts, ~ EnsureRead, ~ EnsureWrite, ~ AckWrite,
             ~ (AckRead /\ apc' = "ackWrite")
      PROVE  UNCHANGED header /\ (~ WritesBack' \/ UNCHANGED <<apc, ahdr>>)
  BY <1>5 DEF AdapterStep, WritesBack, EnsureRejected, ReadHeader, ReadSlot, ReadRejected,
              Consume, AckRead, AdapterRestarts
<1> QED
  BY <1>2, <1>3, <1>4, <1>5

\* While p makes all appends, its own is the only one under way.
LoneInv ==
  \A p \in Producers : Alone(p) =>
    /\ SInv(p)
    /\ \A q \in Producers \ {p} : pc[q] = "idle"

\* Who is alone has been alone from the start.
LEMMA AloneBefore ==
  ASSUME TypeOK, NEW p \in Producers, [Next]_vars, Alone(p)'
  PROVE  Alone(p) /\ ~ (\E q \in Producers : ProducerDies(q))
                  /\ ~ (\E q \in Producers \ {p} : AppendRead(q))
<1>0. sent \in [Producers -> Nat] /\ deaths \in Nat
  BY DEF TypeOK
<1>1. ~ (\E q \in Producers : ProducerDies(q))
  BY <1>0 DEF ProducerDies, Alone
<1>2. ~ (\E q \in Producers \ {p} : AppendRead(q))
  BY <1>0 DEF AppendRead, Alone
<1>3. deaths' = deaths /\ \A q \in Producers \ {p} : sent'[q] = sent[q]
  <2>1. ASSUME NEW q \in Producers, ProducerStep(q)
        PROVE  deaths' = deaths /\ \A r \in Producers \ {p} : sent'[r] = sent[r]
    BY <1>0, <1>2, <2>1 DEF ProducerStep, AppendRead, AppendPublish, AppendFlush
  <2>2. CASE AdapterStep
    BY <2>2 DEF AdapterStep, producerVars, EnsureRejected, EnsureRead, EnsureWrite, ReadHeader,
                ReadSlot, ReadRejected, Consume, AckRead, AckWrite
  <2>3. CASE AdapterRestarts
    BY <2>3 DEF AdapterRestarts, producerVars
  <2>4. CASE UNCHANGED vars
    BY <2>4 DEF vars, producerVars
  <2> QED
    BY <1>1, <2>1, <2>2, <2>3, <2>4 DEF Next
<1> QED
  BY <1>1, <1>2, <1>3 DEF Alone

\* While one process makes all appends and is not killed, whatever the adapter
\* does between the steps of an append, and however often it restarts, every
\* record that the header in the file announces is in its slot or is the one
\* whose append is about to flush it: no reader finds an older lap in the
\* window once the append has returned.
THEOREM OneProducerIsReadable == Spec => []WindowReadable
<1>1. Init => LoneInv
  BY InitSInv DEF LoneInv, Init
<1>2. IInv /\ LoneInv /\ [Next]_vars => LoneInv'
  <2> SUFFICES ASSUME IInv, LoneInv, [Next]_vars, NEW p \in Producers, Alone(p)'
               PROVE  SInv(p)' /\ \A q \in Producers \ {p} : pc'[q] = "idle"
    BY DEF LoneInv
  <2>0. TypeOK /\ pc \in [Producers -> {"idle", "publish", "flush"}]
    BY DEF IInv, TypeOK
  <2>1. /\ Alone(p)
        /\ \A q \in Producers : ~ ProducerDies(q)
        /\ \A q \in Producers \ {p} : ~ AppendRead(q)
    BY <2>0, AloneBefore
  <2>2. SInv(p) /\ \A q \in Producers \ {p} : pc[q] = "idle"
    BY <2>1 DEF LoneInv
  <2>3. ASSUME NEW q \in Producers, ProducerStep(q)
        PROVE  SInv(p)' /\ \A r \in Producers \ {p} : pc'[r] = "idle"
    <3>1. q = p
      BY <2>1, <2>2, <2>3 DEF ProducerStep, AppendPublish, AppendFlush
    <3>2. SInv(p)'
      BY <2>2, <2>3, <3>1, AppendSInv DEF ProducerStep
    <3>3. \A r \in Producers \ {p} : pc'[r] = "idle"
      BY <2>0, <2>2, <2>3, <3>1 DEF ProducerStep, AppendRead, AppendPublish, AppendFlush
    <3> QED
      BY <3>2, <3>3
  <2>4. CASE AdapterStep \/ AdapterRestarts
    <3>1. SInv(p)'
      BY <2>2, <2>4, AdapterSInv
    <3>2. UNCHANGED pc
      BY <2>4 DEF AdapterStep, producerVars, EnsureRejected, EnsureRead, EnsureWrite,
                  ReadHeader, ReadSlot, ReadRejected, Consume, AckRead, AckWrite,
                  AdapterRestarts
    <3> QED
      BY <2>2, <3>1, <3>2
  <2>5. CASE UNCHANGED vars
    BY <2>2, <2>5 DEF vars, producerVars, adapterVars, SInv, CopiesBehind, OneLap, SameLap,
                      WindowsFilled, Filled, WritesBack
  <2> QED
    BY <2>1, <2>3, <2>4, <2>5 DEF Next
<1>3. LoneInv => WindowReadable
  BY DEF LoneInv, SInv, WindowsFilled, Filled, WindowReadable
<1> QED
  BY Invariance, <1>1, <1>2, <1>3, PTL DEF Spec

-----------------------------------------------------------------------------
(* The queue whose operations do not overlap (SerialSpec) implements the   *)
(* bounded FIFO of RecordQueue.  SerialInv is inductive relative to IInv.  *)

\* The write sequence, but for a record that is announced and about to be flushed.
Committed == header.read + Stored

\* One operation is half done at most, of one producer or of the adapter.
OneOperation ==
  /\ \A p, q \in Producers : pc[p] # "idle" /\ pc[q] # "idle" => p = q
  /\ apc \in {"ensureWrite", "slots", "ackWrite"} => \A p \in Producers : pc[p] = "idle"

\* A copy of the header that an operation under way holds is what is in the file, but
\* for what the operation itself has changed; between reading a batch and acknowledging
\* it the adapter holds none, and appends go on behind the batch.
CopiesAreFresh ==
  /\ \A p \in Producers :
       /\ pc[p] = "publish" => hdr[p] = header
       /\ pc[p] = "flush" => header = [hdr[p] EXCEPT !.write = @ + 1]
  /\ apc = "ensureWrite" => ahdr = [header EXCEPT !.live = TRUE]
  /\ apc \in {"slots", "ackWrite"} => ahdr = header
  /\ apc \in {"consume", "ack"} => ahdr.read = header.read /\ ahdr.write <= Committed

\* Every slot of the window holds its record, but for the one about to be flushed.
StoredAreThere == \A s \in header.read .. Committed - 1 : slots[SlotOf(s)].seq = s

\* What the adapter has read is still the head of the queue in the file.
BatchIsStored ==
  apc \in {"slots", "consume", "ack", "ackWrite"} =>
    /\ Len(batch) <= MaxRead /\ Len(batch) <= ahdr.write - ahdr.read
    /\ \A k \in 1 .. Len(batch) : batch[k] = slots[SlotOf(header.read + k - 1)]

SerialInv == OneOperation /\ CopiesAreFresh /\ StoredAreThere /\ BatchIsStored

LEMMA SerialIsNext == [SerialNext]_vars => [Next]_vars
  BY DEF SerialNext, Next, ProducerStep, AdapterStep

LEMMA SerialFacts ==
  ASSUME IInv, SerialInv
  PROVE  /\ header \in Headers /\ header.read \in Nat /\ header.write \in Nat
         /\ header.write <= header.read + Capacity
         /\ Stored \in Nat /\ Committed \in Nat /\ header.read <= Committed
         /\ Committed = (IF Pending THEN header.write - 1 ELSE header.write)
<1>1. /\ header \in Headers /\ header.read \in Nat /\ header.write \in Nat
      /\ header.read <= header.write /\ header.write <= header.read + Capacity
  BY DEF IInv, TypeOK, WindowInv, WindowOK, Headers
<1>2. ASSUME Pending PROVE header.read <= header.write - 1
  <2>1. PICK p \in Producers : pc[p] = "flush"
    BY <1>2 DEF Pending
  <2>2. WindowOK(hdr[p]) /\ hdr[p] \in Headers
    BY <2>1 DEF IInv, TypeOK, WindowInv, HeaderValid
  <2>3. header = [hdr[p] EXCEPT !.write = hdr[p].write + 1]
    BY <2>1 DEF SerialInv, CopiesAreFresh
  <2>4. header.read = hdr[p].read /\ header.write = hdr[p].write + 1
    BY <2>2, <2>3 DEF Headers
  <2>5. QED
    BY <2>2, <2>4 DEF WindowOK, Headers
<1>3. QED
  BY <1>1, <1>2 DEF Stored, Committed

\* Two records in the file lie in different slots.
LEMMA OtherSlot ==
  ASSUME IInv, SerialInv, Pending, NEW s \in header.read .. Committed - 1
  PROVE  SlotOf(s) # SlotOf(Committed)
<1>1. /\ header.read \in Nat /\ header.write \in Nat /\ Committed = header.write - 1
      /\ Committed \in Nat /\ header.write <= header.read + Capacity
  BY SerialFacts
<1>2. s \in Nat /\ s # Committed /\ s - Committed < Capacity /\ Committed - s < Capacity
  BY <1>1
<1>3. QED
  BY <1>1, <1>2, SameSlotSameSequence DEF SlotOf

LEMMA SlotsHaveRecords ==
  ASSUME IInv, NEW s \in Nat
  PROVE  SlotOf(s) \in 0 .. Capacity - 1 /\ SlotOf(s) \in DOMAIN slots
  BY SlotOfType DEF IInv, TypeOK

\* The file and the appends stay as they are: so do the queue and what is stored.
FileStays == UNCHANGED <<header, slots, pc, hdr>>

LEMMA FileStaysStored ==
  ASSUME FileStays
  PROVE  /\ Pending' = Pending /\ Stored' = Stored /\ Committed' = Committed
         /\ AbstractQueue' = AbstractQueue
<1>1. Pending' = Pending
  BY DEF FileStays, Pending
<1>2. Stored' = Stored
  BY <1>1 DEF FileStays, Stored
<1>3. QED
  BY <1>1, <1>2 DEF FileStays, Committed, AbstractQueue

Quietly == \A p \in Producers : pc[p] = "idle"

LEMMA NobodyPends == ASSUME Quietly PROVE ~ Pending
  BY DEF Quietly, Pending

-----------------------------------------------------------------------------
(* The adapter.                                                             *)

\* A step of the adapter that leaves the file, the parts of SerialInv that it has to
\* establish given.
LEMMA AdapterKeeps ==
  ASSUME IInv, SerialInv, FileStays,
         apc' \in {"ensureWrite", "slots", "ackWrite"} => Quietly,
         apc' = "ensureWrite" => ahdr' = [header EXCEPT !.live = TRUE],
         apc' \in {"slots", "ackWrite"} => ahdr' = header,
         apc' \in {"consume", "ack"} => ahdr'.read = header.read /\ ahdr'.write <= Committed,
         apc' \in {"slots", "consume", "ack", "ackWrite"} =>
           /\ Len(batch') <= MaxRead /\ Len(batch') <= ahdr'.write - ahdr'.read
           /\ \A k \in 1 .. Len(batch') : batch'[k] = slots[SlotOf(header.read + k - 1)]
  PROVE  SerialInv'
<1>1. Committed' = Committed
  BY FileStaysStored
<1>2. OneOperation'
  BY DEF SerialInv, OneOperation, FileStays, Quietly
<1>3. CopiesAreFresh'
  BY <1>1 DEF SerialInv, CopiesAreFresh, FileStays
<1>4. StoredAreThere'
  BY <1>1 DEF SerialInv, StoredAreThere, FileStays
<1>5. BatchIsStored'
  BY DEF BatchIsStored, FileStays
<1>6. QED
  BY <1>2, <1>3, <1>4, <1>5 DEF SerialInv

LEMMA HandledStays ==
  ASSUME delivered' = delivered
  PROVE  AbstractHandled' = AbstractHandled
  BY DEF AbstractHandled

\* Steps that the abstract queue does not see: nothing is handled before, nor after.
LEMMA AdapterStutters ==
  ASSUME IInv, SerialInv,
         \/ EnsureRejected
         \/ Quiet /\ EnsureRead
         \/ Quiet /\ ReadHeader
         \/ ReadSlot
         \/ ReadRejected
  PROVE  SerialInv' /\ UNCHANGED Abstract!vars
<1>1. FileStays /\ delivered' = delivered
  BY DEF FileStays, EnsureRejected, EnsureRead, ReadHeader, ReadSlot, ReadRejected, producerVars
<1>2. apc \notin {"ack", "ackWrite"} /\ apc' \notin {"ack", "ackWrite"}
  BY DEF EnsureRejected, EnsureRead, ReadHeader, ReadSlot, ReadRejected
<1>3. AbstractTaken = 0 /\ AbstractTaken' = 0
  BY <1>2 DEF AbstractTaken
<1>4. UNCHANGED Abstract!vars
  BY <1>1, <1>3, FileStaysStored, HandledStays DEF Abstract!vars
<1>5. CASE EnsureRejected
  BY <1>1, <1>4, <1>5, AdapterKeeps DEF EnsureRejected
<1>6. CASE Quiet /\ EnsureRead
  <2>1. WindowOK(header)
    BY DEF IInv, WindowInv
  <2>2. ahdr' = [header EXCEPT !.live = TRUE] /\ apc' = "ensureWrite" /\ Quietly
    BY <1>6, <2>1 DEF EnsureRead, Quiet, Quietly
  <2>3. QED
    BY <1>1, <1>4, <2>2, AdapterKeeps
<1>7. CASE Quiet /\ ReadHeader
  <2>1. ahdr' = header /\ batch' = <<>> /\ apc' \in {"slots", "ensure"} /\ Quietly
    BY <1>7 DEF ReadHeader, Quiet, Quietly
  <2>2. Len(batch') = 0 /\ header.read \in Nat /\ header.write \in Nat
        /\ header.read <= header.write
    BY <2>1, SerialFacts DEF IInv, WindowInv, WindowOK
  <2>3. Len(batch') <= MaxRead /\ Len(batch') <= header.write - header.read
    BY <2>2
  <2>4. QED
    BY <1>1, <1>4, <2>1, <2>2, <2>3, AdapterKeeps
<1>8. CASE ReadSlot
  <2> DEFINE n == Len(batch)
             rec == slots[SlotOf(ahdr.read + n)]
  <2>1. /\ apc = "slots" /\ ahdr' = ahdr /\ batch' = Append(batch, rec)
        /\ apc' \in {"consume", "slots"}
    BY <1>8 DEF ReadSlot
  <2>2. ahdr = header /\ Quietly
    BY <2>1 DEF SerialInv, CopiesAreFresh, OneOperation, Quietly
  <2>3. Committed = header.write
    BY <2>2, SerialFacts, NobodyPends
  <2>4. batch \in Seq(Records) /\ n \in Nat
    BY DEF IInv, TypeOK
  <2>5. n < BatchSize(header)
    BY <2>1, <2>2 DEF IInv, BatchBounds
  <2>6. /\ Len(batch') = n + 1 /\ batch'[n + 1] = rec
        /\ \A k \in 1 .. n : batch'[k] = batch[k]
    BY <2>1, <2>4
  <2>7. n + 1 <= MaxRead /\ n + 1 <= header.write - header.read
    BY <2>4, <2>5, SerialFacts DEF BatchSize
  <2>8. \A k \in 1 .. n : batch[k] = slots[SlotOf(header.read + k - 1)]
    BY <2>1 DEF SerialInv, BatchIsStored
  <2>9. ASSUME NEW k \in 1 .. n + 1
        PROVE  batch'[k] = slots[SlotOf(header.read + k - 1)]
    <3>1. CASE k = n + 1
      <4>1. header.read + k - 1 = ahdr.read + n
        BY <2>2, <2>4, <3>1, SerialFacts
      <4>2. QED
        BY <2>6, <3>1, <4>1
    <3>2. CASE k \in 1 .. n
      BY <2>6, <2>8, <3>2
    <3>3. QED
      BY <2>4, <3>1, <3>2
  <2> HIDE DEF n, rec
  <2>10. /\ Len(batch') <= MaxRead /\ Len(batch') <= ahdr'.write - ahdr'.read
         /\ \A k \in 1 .. Len(batch') : batch'[k] = slots[SlotOf(header.read + k - 1)]
    BY <2>1, <2>2, <2>6, <2>7, <2>9
  <2>11. ahdr'.write <= Committed /\ ahdr' = header
    BY <2>1, <2>2, <2>3, SerialFacts
  <2>12. QED
    BY <1>1, <1>4, <2>1, <2>2, <2>10, <2>11, AdapterKeeps
<1>9. CASE ReadRejected
  <2>1. apc' = "ensure"
    BY <1>9 DEF ReadRejected
  <2>2. QED
    BY <1>1, <1>4, <2>1, AdapterKeeps
<1>10. QED
  BY <1>4, <1>5, <1>6, <1>7, <1>8, <1>9

\* The adapter forgets what it has handled, if anything.
LEMMA ForgetStep ==
  ASSUME IInv, SerialInv, FileStays, delivered' = delivered, apc' = "ensure"
  PROVE  SerialInv' /\ [Abstract!Next]_(Abstract!vars)
<1>1. SerialInv'
  BY AdapterKeeps
<1>2. AbstractQueue' = AbstractQueue /\ AbstractHandled' = AbstractHandled
  BY FileStaysStored, HandledStays
<1>3. AbstractTaken' = 0
  BY DEF AbstractTaken
<1>4. AbstractTaken \in Nat
  BY DEF AbstractTaken, IInv, TypeOK
<1>5. CASE AbstractTaken = 0
  BY <1>1, <1>2, <1>3, <1>5 DEF Abstract!vars
<1>6. CASE AbstractTaken > 0
  <2>1. Abstract!Forget
    BY <1>2, <1>3, <1>6 DEF Abstract!Forget
  <2>2. QED
    BY <1>1, <2>1 DEF Abstract!Next
<1>7. QED
  BY <1>1, <1>4, <1>5, <1>6

LEMMA AckReadStep ==
  ASSUME IInv, SerialInv, Quiet, AckRead
  PROVE  SerialInv' /\ [Abstract!Next]_(Abstract!vars)
<1>1. /\ FileStays /\ delivered' = delivered /\ apc = "ack" /\ ahdr' = header /\ Quietly
      /\ \/ apc' = "ackWrite" /\ batch' = batch
         \/ apc' = "ensure"
  BY DEF AckRead, FileStays, producerVars, Quiet, Quietly
<1>2. CASE apc' = "ensure"
  BY <1>1, <1>2, ForgetStep
<1>3. CASE apc' = "ackWrite" /\ batch' = batch
  <2>1. /\ ahdr.read = header.read /\ ahdr.write <= Committed
        /\ Len(batch) <= MaxRead /\ Len(batch) <= ahdr.write - ahdr.read
        /\ \A k \in 1 .. Len(batch) : batch[k] = slots[SlotOf(header.read + k - 1)]
    BY <1>1 DEF SerialInv, CopiesAreFresh, BatchIsStored
  <2>2. ahdr.write \in Nat /\ Committed <= header.write /\ Len(batch) \in Nat
    BY SerialFacts DEF IInv, TypeOK, Headers
  <2>3. Len(batch) <= header.write - header.read
    BY <2>1, <2>2, SerialFacts
  <2>4. SerialInv'
    BY <1>1, <1>3, <2>1, <2>3, AdapterKeeps
  <2>5. AbstractTaken' = AbstractTaken
    BY <1>1, <1>3 DEF AbstractTaken
  <2>6. QED
    BY <1>1, <2>4, <2>5, FileStaysStored, HandledStays DEF Abstract!vars
<1>4. QED
  BY <1>1, <1>2, <1>3

\* The abstract queue: its commands are those in the slots of the window.
LEMMA QueueShape ==
  ASSUME IInv, SerialInv
  PROVE  /\ AbstractQueue \in Seq(Commands)
         /\ Len(AbstractQueue) = Stored
         /\ \A k \in 1 .. Stored : AbstractQueue[k] = slots[SlotOf(header.read + k - 1)].cmd
<1>1. Stored \in Nat /\ header.read \in Nat /\ Committed = header.read + Stored
  BY SerialFacts DEF Committed
<1>2. ASSUME NEW k \in 1 .. Stored
      PROVE  slots[SlotOf(header.read + k - 1)].cmd \in Commands
  <2> DEFINE s == header.read + k - 1
  <2>1. s \in header.read .. Committed - 1 /\ s \in Nat
    BY <1>1
  <2>2. slots[SlotOf(s)].seq = s
    BY <2>1 DEF SerialInv, StoredAreThere
  <2>3. slots[SlotOf(s)] \in Records \cup {Blank}
    BY <2>1, SlotOfType DEF IInv, TypeOK
  <2> HIDE DEF s
  <2>4. Blank.seq = -1
    BY DEF Blank
  <2>5. slots[SlotOf(s)] \in Records
    BY <2>1, <2>2, <2>3, <2>4
  <2>6. QED
    BY <2>5 DEF Records, s
<1>3. QED
  BY <1>1, <1>2 DEF AbstractQueue

\* Facts about sequences of records.
LEMMA SequenceIsFunction ==
  ASSUME NEW S, NEW s \in Seq(S)
  PROVE  s = [k \in 1 .. Len(s) |-> s[k]]
  OBVIOUS

LEMMA CommandOfRecord ==
  ASSUME NEW s \in Seq(Records), NEW k \in 1 .. Len(s)
  PROVE  s[k].cmd \in Commands
<1>1. s[k] \in Records
  OBVIOUS
<1>2. QED
  BY <1>1 DEF Records

LEMMA CommandsOfBoth ==
  ASSUME NEW s \in Seq(Records), NEW t \in Seq(Records)
  PROVE  [k \in 1 .. Len(s \o t) |-> (s \o t)[k].cmd] =
           [k \in 1 .. Len(s) |-> s[k].cmd] \o [k \in 1 .. Len(t) |-> t[k].cmd]
<1> DEFINE f == [k \in 1 .. Len(s) |-> s[k].cmd]
           g == [k \in 1 .. Len(t) |-> t[k].cmd]
           h == [k \in 1 .. Len(s \o t) |-> (s \o t)[k].cmd]
<1>1. /\ f \in Seq(Commands) /\ Len(f) = Len(s)
      /\ g \in Seq(Commands) /\ Len(g) = Len(t)
  <2>1. /\ \A k \in 1 .. Len(s) : s[k].cmd \in Commands
        /\ \A k \in 1 .. Len(t) : t[k].cmd \in Commands
    BY CommandOfRecord
  <2>2. QED
    BY <2>1
<1>2. Len(s \o t) = Len(s) + Len(t) /\ s \o t \in Seq(Records)
  OBVIOUS
<1>3. h \in Seq(Commands) /\ Len(h) = Len(s) + Len(t)
  <2>1. \A k \in 1 .. Len(s) + Len(t) : (s \o t)[k].cmd \in Commands
    BY <1>2, CommandOfRecord
  <2>2. QED
    BY <1>2, <2>1
<1>4. f \o g \in Seq(Commands) /\ Len(f \o g) = Len(s) + Len(t)
  BY <1>1
<1>5. ASSUME NEW k \in 1 .. Len(s) + Len(t) PROVE h[k] = (f \o g)[k]
  <2>1. CASE k \in 1 .. Len(s)
    <3>1. (s \o t)[k] = s[k]
      BY <2>1
    <3>2. h[k] = s[k].cmd
      BY <1>2, <3>1
    <3>3. f[k] = s[k].cmd
      BY <2>1
    <3> HIDE DEF f, g, h
    <3>4. QED
      BY <1>1, <2>1, <3>2, <3>3
  <2>2. CASE k \in Len(s) + 1 .. Len(s) + Len(t)
    <3>1. (s \o t)[k] = t[k - Len(s)] /\ k - Len(s) \in 1 .. Len(t)
      BY <2>2
    <3>2. h[k] = t[k - Len(s)].cmd
      BY <1>2, <3>1
    <3>3. g[k - Len(s)] = t[k - Len(s)].cmd
      BY <3>1
    <3> HIDE DEF f, g, h
    <3>4. QED
      BY <1>1, <2>2, <3>2, <3>3
  <2>3. QED
    BY <2>1, <2>2
<1> HIDE DEF f, g, h
<1>6. h = f \o g
  BY <1>3, <1>4, <1>5
<1>7. QED
  BY <1>6 DEF f, g, h

\* Consuming the batch is handling as many commands of the head of the queue.
LEMMA ConsumeStep ==
  ASSUME IInv, SerialInv, Consume
  PROVE  SerialInv' /\ [Abstract!Next]_(Abstract!vars)
<1> DEFINE n == Len(batch)
<1>1. /\ FileStays /\ delivered' = delivered \o batch /\ apc = "consume" /\ apc' = "ack"
      /\ ahdr' = ahdr /\ batch' = batch
  BY DEF Consume, FileStays, producerVars
<1>2. batch \in Seq(Records) /\ delivered \in Seq(Records) /\ n \in Nat /\ n > 0
  BY <1>1 DEF IInv, TypeOK, BatchBounds
<1>3. /\ ahdr.read = header.read /\ ahdr.write <= Committed /\ ahdr.write \in Nat
      /\ n <= MaxRead /\ n <= ahdr.write - ahdr.read
      /\ \A k \in 1 .. n : batch[k] = slots[SlotOf(header.read + k - 1)]
  BY <1>1 DEF SerialInv, CopiesAreFresh, BatchIsStored, IInv, TypeOK, Headers
<1>4. SerialInv'
  BY <1>1, <1>3, AdapterKeeps
<1>5. n <= Stored /\ Stored \in Nat /\ Committed = header.read + Stored
  BY <1>2, <1>3, SerialFacts DEF Committed
<1>6. /\ AbstractQueue \in Seq(Commands) /\ Len(AbstractQueue) = Stored
      /\ \A k \in 1 .. Stored : AbstractQueue[k] = slots[SlotOf(header.read + k - 1)].cmd
  BY QueueShape
<1>7. SubSeq(AbstractQueue, 1, n) = [k \in 1 .. n |-> batch[k].cmd]
  <2>1. ASSUME NEW k \in 1 .. n PROVE AbstractQueue[k] = batch[k].cmd
    <3>1. k \in 1 .. Stored
      BY <1>2, <1>5
    <3>2. AbstractQueue[k] = slots[SlotOf(header.read + k - 1)].cmd
      BY <1>6, <3>1
    <3>3. QED
      BY <1>3, <3>2
  <2>2. SubSeq(AbstractQueue, 1, n) = [k \in 1 .. n |-> AbstractQueue[k]]
    BY <1>2, <1>5, <1>6
  <2>3. QED
    BY <2>1, <2>2
<1>8. AbstractHandled' = AbstractHandled \o SubSeq(AbstractQueue, 1, n)
  BY <1>1, <1>2, <1>7, CommandsOfBoth, SMTT(30) DEF AbstractHandled
<1>9. AbstractTaken = 0 /\ AbstractTaken' = n /\ AbstractQueue' = AbstractQueue
  BY <1>1, FileStaysStored DEF AbstractTaken
<1>10. n \in 1 .. Len(AbstractQueue) /\ n <= MaxRead
  BY <1>2, <1>3, <1>5, <1>6
<1> HIDE DEF n
<1>11. Abstract!Handle(n)
  BY <1>8, <1>9 DEF Abstract!Handle
<1>12. QED
  BY <1>4, <1>10, <1>11 DEF Abstract!Next

\* Writing the acknowledgement removes what was handled.
LEMMA AckWriteStep ==
  ASSUME IInv, SerialInv, AckWrite
  PROVE  SerialInv' /\ [Abstract!Next]_(Abstract!vars)
<1> DEFINE n == Len(batch)
<1>1. /\ apc = "ackWrite" /\ apc' = "ensure" /\ header' = [ahdr EXCEPT !.read = AckTarget]
      /\ UNCHANGED <<slots, pc, hdr, delivered>>
  BY DEF AckWrite, producerVars
<1>2. batch \in Seq(Records) /\ n \in Nat /\ n > 0
  BY <1>1 DEF IInv, TypeOK, BatchBounds
<1>3. /\ ahdr = header /\ Quietly /\ n <= header.write - header.read
      /\ \A k \in 1 .. n : batch[k] = slots[SlotOf(header.read + k - 1)]
  BY <1>1 DEF SerialInv, CopiesAreFresh, OneOperation, BatchIsStored, Quietly
<1>4. /\ header \in Headers /\ header.read \in Nat /\ header.write \in Nat
      /\ ~ Pending /\ Committed = header.write /\ Stored = header.write - header.read
      /\ Stored \in Nat
  BY <1>3, NobodyPends, SerialFacts DEF Stored
<1>5. AckTarget = header.read + n
  <2>1. header.read + n - 1 \in header.read .. Committed - 1
    BY <1>2, <1>3, <1>4
  <2>2. batch[n].seq = header.read + n - 1
    BY <1>2, <1>3, <2>1 DEF SerialInv, StoredAreThere
  <2>3. QED
    BY <1>2, <1>4, <2>2 DEF AckTarget
<1>6. header'.read = header.read + n /\ header'.write = header.write
  BY <1>1, <1>3, <1>4, <1>5 DEF Headers
<1>7. ~ Pending' /\ Stored' = Stored - n /\ Committed' = Committed
  <2>1. ~ Pending'
    BY <1>1, <1>4 DEF Pending
  <2>2. QED
    BY <1>2, <1>4, <1>6, <2>1 DEF Stored, Committed
<1>8. SerialInv'
  <2>1. OneOperation'
    BY <1>1, <1>3 DEF OneOperation, Quietly
  <2>2. CopiesAreFresh'
    BY <1>1, <1>3 DEF CopiesAreFresh, Quietly
  <2>3. StoredAreThere'
    BY <1>1, <1>2, <1>4, <1>6, <1>7 DEF SerialInv, StoredAreThere
  <2>4. BatchIsStored'
    BY <1>1 DEF BatchIsStored
  <2>5. QED
    BY <2>1, <2>2, <2>3, <2>4 DEF SerialInv
<1>9. /\ AbstractQueue \in Seq(Commands) /\ Len(AbstractQueue) = Stored
      /\ \A k \in 1 .. Stored : AbstractQueue[k] = slots[SlotOf(header.read + k - 1)].cmd
  BY QueueShape
<1>10. AbstractQueue' = SubSeq(AbstractQueue, n + 1, Len(AbstractQueue))
  <2>1. AbstractQueue' = [k \in 1 .. Stored - n |-> slots[SlotOf(header.read + n + k - 1)].cmd]
    BY <1>1, <1>6, <1>7 DEF AbstractQueue
  <2>2. SubSeq(AbstractQueue, n + 1, Stored) = [k \in 1 .. Stored - n |-> AbstractQueue[k + n]]
    BY <1>2, <1>3, <1>4, <1>9, SMTT(30)
  <2>3. ASSUME NEW k \in 1 .. Stored - n
        PROVE  AbstractQueue[k + n] = slots[SlotOf(header.read + n + k - 1)].cmd
    <3>1. k + n \in 1 .. Stored /\ header.read + (k + n) - 1 = header.read + n + k - 1
      BY <1>2, <1>4
    <3>2. AbstractQueue[k + n] = slots[SlotOf(header.read + (k + n) - 1)].cmd
      BY <1>9, <3>1
    <3>3. QED
      BY <3>1, <3>2
  <2>4. QED
    BY <1>9, <2>1, <2>2, <2>3
<1>11. AbstractTaken = n /\ AbstractTaken' = 0 /\ AbstractHandled' = AbstractHandled
  BY <1>1, HandledStays DEF AbstractTaken
<1> HIDE DEF n
<1>12. Abstract!Remove
  BY <1>2, <1>10, <1>11 DEF Abstract!Remove
<1>13. QED
  BY <1>8, <1>12 DEF Abstract!Next

\* The header that ensure writes differs from what is there in its heartbeat only.
LEMMA EnsureWriteStep ==
  ASSUME IInv, SerialInv, EnsureWrite
  PROVE  SerialInv' /\ UNCHANGED Abstract!vars
<1>1. /\ apc = "ensureWrite" /\ apc' = "read" /\ header' = ahdr
      /\ UNCHANGED <<slots, pc, hdr, delivered>>
  BY DEF EnsureWrite, producerVars
<1>2. ahdr = [header EXCEPT !.live = TRUE] /\ Quietly
  BY <1>1 DEF SerialInv, CopiesAreFresh, OneOperation, Quietly
<1>3. header'.read = header.read /\ header'.write = header.write
  BY <1>1, <1>2, SerialFacts DEF Headers
<1>4. Pending' = Pending
  BY <1>1 DEF Pending
<1>5. Stored' = Stored /\ Committed' = Committed
  BY <1>3, <1>4 DEF Stored, Committed
<1>6. SerialInv'
  <2>1. OneOperation' /\ CopiesAreFresh' /\ BatchIsStored'
    BY <1>1, <1>2 DEF OneOperation, CopiesAreFresh, BatchIsStored, Quietly
  <2>2. StoredAreThere'
    BY <1>1, <1>3, <1>5 DEF SerialInv, StoredAreThere
  <2>3. QED
    BY <2>1, <2>2 DEF SerialInv
<1>7. AbstractQueue' = AbstractQueue
  BY <1>1, <1>3, <1>5 DEF AbstractQueue
<1>8. AbstractTaken' = AbstractTaken
  BY <1>1 DEF AbstractTaken
<1>9. QED
  BY <1>1, <1>6, <1>7, <1>8, HandledStays DEF Abstract!vars

-----------------------------------------------------------------------------
(* The append.                                                             *)

LEMMA AppendReadStep ==
  ASSUME IInv, SerialInv, NEW p \in Producers, Quiet, AppendRead(p)
  PROVE  SerialInv' /\ UNCHANGED Abstract!vars
<1>1. /\ Quietly /\ apc \notin {"ensureWrite", "slots", "ackWrite"}
      /\ pc' = [pc EXCEPT ![p] = "publish"] /\ hdr' = [hdr EXCEPT ![p] = header]
      /\ UNCHANGED <<header, slots, apc, ahdr, batch, delivered>>
  BY DEF AppendRead, adapterVars, Quiet, Quietly
<1>2. pc'[p] = "publish" /\ hdr'[p] = header /\ \A q \in Producers \ {p} : pc'[q] = "idle"
  BY <1>1 DEF IInv, TypeOK, Quietly
<1>3. ~ Pending /\ ~ Pending'
  BY <1>1, <1>2, NobodyPends DEF Pending
<1>4. Stored' = Stored /\ Committed' = Committed
  BY <1>1, <1>3 DEF Stored, Committed
<1>5. OneOperation'
  BY <1>1, <1>2 DEF OneOperation
<1>6. CopiesAreFresh'
  BY <1>1, <1>2, <1>4 DEF SerialInv, CopiesAreFresh
<1>7. StoredAreThere' /\ BatchIsStored'
  BY <1>1, <1>4 DEF SerialInv, StoredAreThere, BatchIsStored
<1>8. UNCHANGED Abstract!vars
  BY <1>1, <1>4, HandledStays DEF AbstractQueue, AbstractTaken, Abstract!vars
<1>9. QED
  BY <1>5, <1>6, <1>7, <1>8 DEF SerialInv

\* Between the header and the record, the queue is what it was.
LEMMA AppendPublishStep ==
  ASSUME IInv, SerialInv, NEW p \in Producers, AppendPublish(p)
  PROVE  SerialInv' /\ UNCHANGED Abstract!vars
<1>1. /\ pc[p] = "publish" /\ header' = [hdr[p] EXCEPT !.write = @ + 1]
      /\ pc' = [pc EXCEPT ![p] = "flush"]
      /\ UNCHANGED <<slots, hdr, apc, ahdr, batch, delivered>>
  BY DEF AppendPublish, adapterVars
<1>2. /\ hdr[p] = header /\ apc \notin {"ensureWrite", "slots", "ackWrite"}
      /\ \A q \in Producers \ {p} : pc[q] = "idle"
  BY <1>1 DEF SerialInv, CopiesAreFresh, OneOperation
<1>3. pc'[p] = "flush" /\ \A q \in Producers \ {p} : pc'[q] = "idle"
  BY <1>1, <1>2 DEF IInv, TypeOK
<1>4. header'.read = header.read /\ header'.write = header.write + 1
  BY <1>1, <1>2, SerialFacts DEF Headers
<1>5. ~ Pending /\ Pending'
  BY <1>1, <1>2, <1>3 DEF Pending
<1>6. Stored' = Stored /\ Committed' = Committed
  BY <1>4, <1>5, SerialFacts DEF Stored, Committed
<1>7. OneOperation'
  BY <1>1, <1>2, <1>3 DEF OneOperation
<1>8. CopiesAreFresh'
  BY <1>1, <1>2, <1>3, <1>4, <1>6 DEF SerialInv, CopiesAreFresh
<1>9. StoredAreThere' /\ BatchIsStored'
  BY <1>1, <1>4, <1>6 DEF SerialInv, StoredAreThere, BatchIsStored
<1>10. UNCHANGED Abstract!vars
  BY <1>1, <1>4, <1>6, HandledStays DEF AbstractQueue, AbstractTaken, Abstract!vars
<1>11. QED
  BY <1>7, <1>8, <1>9, <1>10 DEF SerialInv

\* The record reaches its slot: the queue accepts the command.
LEMMA AppendFlushStep ==
  ASSUME IInv, SerialInv, NEW p \in Producers, AppendFlush(p)
  PROVE  SerialInv' /\ [Abstract!Next]_(Abstract!vars)
<1> DEFINE c == Committed
           rec == [seq |-> hdr[p].write, cmd |-> NextCommand(p)]
<1>1. /\ pc[p] = "flush" /\ slots' = [slots EXCEPT ![SlotOf(hdr[p].write)] = rec]
      /\ pc' = [pc EXCEPT ![p] = "idle"]
      /\ UNCHANGED <<header, hdr, apc, ahdr, batch, delivered>>
  BY DEF AppendFlush, adapterVars
<1>2. /\ header = [hdr[p] EXCEPT !.write = hdr[p].write + 1]
      /\ apc \notin {"ensureWrite", "slots", "ackWrite"}
      /\ \A q \in Producers \ {p} : pc[q] = "idle"
  BY <1>1 DEF SerialInv, CopiesAreFresh, OneOperation
<1>3. \A q \in Producers : pc'[q] = "idle"
  BY <1>1, <1>2 DEF IInv, TypeOK
<1>4. Pending /\ ~ Pending'
  BY <1>1, <1>3 DEF Pending
<1>5. /\ header.read \in Nat /\ header.write \in Nat /\ Stored \in Nat
      /\ header.write <= header.read + Capacity /\ c = header.read + Stored
      /\ c = header.write - 1 /\ c \in Nat
  BY <1>4, SerialFacts DEF Committed
<1>6. hdr[p].write = c
  <2>1. hdr[p] \in Headers
    BY DEF IInv, TypeOK
  <2>2. QED
    BY <1>2, <1>5, <2>1 DEF Headers
<1>7. Stored' = Stored + 1 /\ Committed' = c + 1 /\ Stored < Capacity
  BY <1>1, <1>4, <1>5 DEF Stored, Committed
<1>8. slots'[SlotOf(c)] = rec
  BY <1>1, <1>5, <1>6, SlotsHaveRecords
<1>9. ASSUME NEW s \in header.read .. c - 1 PROVE slots'[SlotOf(s)] = slots[SlotOf(s)]
  <2>1. SlotOf(s) # SlotOf(c)
    BY <1>4, OtherSlot
  <2>2. QED
    BY <1>1, <1>6, <2>1 DEF IInv, TypeOK
<1>10. OneOperation' /\ CopiesAreFresh'
  <2>1. OneOperation'
    BY <1>3 DEF OneOperation
  <2>2. ASSUME apc \in {"consume", "ack"}
        PROVE  ahdr.read = header.read /\ ahdr.write <= c /\ ahdr.write \in Nat
    BY <2>2 DEF SerialInv, CopiesAreFresh, IInv, TypeOK, Headers
  <2>3. CopiesAreFresh'
    BY <1>1, <1>2, <1>3, <1>5, <1>7, <2>2 DEF CopiesAreFresh
  <2>4. QED
    BY <2>1, <2>3
<1>11. StoredAreThere'
  <2>1. ASSUME NEW s \in header.read .. c PROVE slots'[SlotOf(s)].seq = s
    <3>1. CASE s = c
      BY <1>6, <1>8, <3>1
    <3>2. CASE s # c
      <4>1. s \in header.read .. c - 1
        BY <1>5, <3>2
      <4>2. QED
        BY <1>9, <4>1 DEF SerialInv, StoredAreThere
    <3>3. QED
      BY <3>1, <3>2
  <2> HIDE DEF c
  <2>2. Committed' - 1 = c /\ header' = header
    BY <1>1, <1>5, <1>7
  <2>3. QED
    BY <2>1, <2>2 DEF StoredAreThere
<1>12. BatchIsStored'
  <2>1. SUFFICES ASSUME apc \in {"consume", "ack"}
        PROVE  /\ Len(batch) <= MaxRead /\ Len(batch) <= ahdr.write - ahdr.read
               /\ \A k \in 1 .. Len(batch) : batch[k] = slots'[SlotOf(header.read + k - 1)]
    BY <1>1, <1>2 DEF BatchIsStored
  <2>2. /\ ahdr.read = header.read /\ ahdr.write <= c /\ ahdr.write \in Nat
        /\ Len(batch) <= MaxRead /\ Len(batch) <= ahdr.write - ahdr.read /\ Len(batch) \in Nat
        /\ \A k \in 1 .. Len(batch) : batch[k] = slots[SlotOf(header.read + k - 1)]
    BY <2>1, SMTT(30) DEF SerialInv, CopiesAreFresh, BatchIsStored, IInv, TypeOK, Headers
  <2>3. ASSUME NEW k \in 1 .. Len(batch)
        PROVE  batch[k] = slots'[SlotOf(header.read + k - 1)]
    <3>1. header.read + k - 1 \in header.read .. c - 1
      BY <1>5, <2>2, SMTT(30)
    <3>2. QED
      BY <1>9, <2>2, <3>1
  <2>4. QED
    BY <2>2, <2>3
<1>13. SerialInv'
  BY <1>10, <1>11, <1>12 DEF SerialInv
<1>14. /\ AbstractQueue \in Seq(Commands) /\ Len(AbstractQueue) = Stored
       /\ \A k \in 1 .. Stored : AbstractQueue[k] = slots[SlotOf(header.read + k - 1)].cmd
  BY QueueShape
<1>15. NextCommand(p) \in Commands
  BY <1>1 DEF IInv, TypeOK, AppendsCounted, NextCommand, Commands
<1>16. AbstractQueue' = Append(AbstractQueue, NextCommand(p))
  <2>1. AbstractQueue' = [k \in 1 .. Stored + 1 |-> slots'[SlotOf(header.read + k - 1)].cmd]
    BY <1>1, <1>7 DEF AbstractQueue
  <2>2. ASSUME NEW k \in 1 .. Stored + 1
        PROVE  slots'[SlotOf(header.read + k - 1)].cmd = Append(AbstractQueue, NextCommand(p))[k]
    <3>1. CASE k = Stored + 1
      <4>1. header.read + k - 1 = c
        BY <1>5, <3>1
      <4>2. Append(AbstractQueue, NextCommand(p))[k] = NextCommand(p)
        BY <1>5, <1>14, <3>1
      <4>3. rec.cmd = NextCommand(p)
        OBVIOUS
      <4> HIDE DEF c, rec
      <4>4. QED
        BY <1>8, <4>1, <4>2, <4>3
    <3>2. CASE k \in 1 .. Stored
      <4>1. header.read + k - 1 \in header.read .. c - 1
        BY <1>5, <3>2
      <4>2. Append(AbstractQueue, NextCommand(p))[k] = AbstractQueue[k]
        BY <1>14, <3>2
      <4>3. slots'[SlotOf(header.read + k - 1)] = slots[SlotOf(header.read + k - 1)]
        BY <1>9, <4>1
      <4>4. QED
        BY <1>14, <3>2, <4>2, <4>3
    <3>3. k = Stored + 1 \/ k \in 1 .. Stored
      BY <1>5
    <3>4. QED
      BY <3>1, <3>2, <3>3
  <2>3. /\ Append(AbstractQueue, NextCommand(p)) \in Seq(Commands)
        /\ Len(Append(AbstractQueue, NextCommand(p))) = Stored + 1
    BY <1>14, <1>15
  <2>4. Append(AbstractQueue, NextCommand(p)) =
          [k \in 1 .. Stored + 1 |-> Append(AbstractQueue, NextCommand(p))[k]]
    BY <2>3, SequenceIsFunction
  <2>5. QED
    BY <2>1, <2>2, <2>4
<1>17. AbstractTaken' = AbstractTaken /\ AbstractHandled' = AbstractHandled
  BY <1>1, HandledStays DEF AbstractTaken
<1>18. Abstract!Accept(NextCommand(p))
  BY <1>7, <1>14, <1>16, <1>17 DEF Abstract!Accept
<1>19. QED
  BY <1>13, <1>15, <1>18 DEF Abstract!Next

-----------------------------------------------------------------------------

LEMMA InitSerial == Init => SerialInv /\ Abstract!Init
<1> SUFFICES ASSUME Init PROVE SerialInv /\ Abstract!Init
  OBVIOUS
<1>1. /\ header.read = 0 /\ header.write = 0 /\ apc = "ensure" /\ delivered = <<>>
      /\ \A p \in Producers : pc[p] = "idle"
  BY DEF Init, NewHeader
<1>2. ~ Pending /\ Stored = 0 /\ Committed = 0
  <2>1. ~ Pending
    BY <1>1 DEF Pending
  <2>2. header.read \in Nat /\ header.write \in Nat /\ header.read = 0 /\ header.write = 0
    BY <1>1
  <2>3. Stored = 0
    <3>1. (IF Pending THEN 1 ELSE 0) = 0
      BY <2>1
    <3>2. header.write - header.read = 0
      BY <2>2
    <3>3. header.write - header.read - (IF Pending THEN 1 ELSE 0) = 0
      BY <3>1, <3>2
    <3>4. QED
      BY <3>3 DEF Stored
  <2>4. QED
    BY <2>1, <2>2, <2>3 DEF Committed
<1>3. SerialInv
  BY <1>1, <1>2 DEF SerialInv, OneOperation, CopiesAreFresh, StoredAreThere, BatchIsStored
<1>4. AbstractQueue = <<>>
  BY <1>2 DEF AbstractQueue
<1>5. AbstractTaken = 0 /\ AbstractHandled = <<>>
  BY <1>1 DEF AbstractTaken, AbstractHandled
<1>6. QED
  BY <1>3, <1>4, <1>5 DEF Abstract!Init

LEMMA SerialStep ==
  IInv /\ SerialInv /\ [SerialNext]_vars => SerialInv' /\ [Abstract!Next]_(Abstract!vars)
<1> SUFFICES ASSUME IInv, SerialInv, [SerialNext]_vars
             PROVE  SerialInv' /\ [Abstract!Next]_(Abstract!vars)
  OBVIOUS
<1>1. ASSUME NEW p \in Producers,
             (Quiet /\ AppendRead(p)) \/ AppendPublish(p) \/ AppendFlush(p)
      PROVE  SerialInv' /\ [Abstract!Next]_(Abstract!vars)
  BY <1>1, AppendReadStep, AppendPublishStep, AppendFlushStep
<1>2. CASE EnsureRejected \/ (Quiet /\ EnsureRead) \/ (Quiet /\ ReadHeader) \/ ReadSlot
           \/ ReadRejected
  BY <1>2, AdapterStutters
<1>3. CASE EnsureWrite
  BY <1>3, EnsureWriteStep
<1>4. CASE Consume
  BY <1>4, ConsumeStep
<1>5. CASE Quiet /\ AckRead
  BY <1>5, AckReadStep
<1>6. CASE AckWrite
  BY <1>6, AckWriteStep
<1>7. CASE AdapterRestarts
  <2>1. FileStays /\ delivered' = delivered /\ apc' = "ensure"
    BY <1>7 DEF AdapterRestarts, FileStays, producerVars
  <2>2. QED
    BY <2>1, ForgetStep
<1>8. CASE UNCHANGED vars
  <2>1. FileStays /\ UNCHANGED <<apc, ahdr, batch, delivered>>
    BY <1>8 DEF vars, producerVars, adapterVars, FileStays
  <2>2. SerialInv'
    BY <2>1, FileStaysStored DEF FileStays, SerialInv, OneOperation, CopiesAreFresh,
                                 StoredAreThere, BatchIsStored
  <2>3. UNCHANGED Abstract!vars
    BY <2>1, FileStaysStored, HandledStays DEF AbstractTaken, Abstract!vars
  <2>4. QED
    BY <2>2, <2>3
<1>9. QED
  BY <1>1, <1>2, <1>3, <1>4, <1>5, <1>6, <1>7, <1>8 DEF SerialNext

LEMMA InvarianceStep == IInv /\ [Next]_vars => IInv'
  BY TypeStep, WindowStep, BatchStep, SlotStep, CountStep, ConsumedStep DEF IInv

\* When no two operations on the queue file overlap, the header an operation writes is
\* computed from the header that is there, every announced slot holds its record, and what
\* the adapter has read stays at the head until it acknowledges it.
THEOREM SerialInvariance == SerialSpec => [](IInv /\ SerialInv)
<1>1. IInv /\ SerialInv /\ [SerialNext]_vars => (IInv /\ SerialInv)'
  BY InvarianceStep, SerialIsNext, SerialStep
<1>2. QED
  BY InitIInv, InitSerial, <1>1, PTL DEF SerialSpec

\* The operations on the queue file, run one at a time as the repository's test drives
\* them, are a bounded FIFO that hands every accepted command to the adapter in order and
\* at least once, and again only when it loses the acknowledgement of what it consumed.
THEOREM SerialRefinement == SerialSpec => ImplementsRecordQueue
<1>1. Init => Abstract!Init
  BY InitSerial
<1>2. IInv /\ SerialInv /\ [SerialNext]_vars => [Abstract!Next]_(Abstract!vars)
  BY SerialStep
<1>3. QED
  BY <1>1, <1>2, SerialInvariance, PTL DEF SerialSpec, ImplementsRecordQueue, Abstract!Spec
=============================================================================

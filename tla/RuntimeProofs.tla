--------------------------- MODULE RuntimeProofs ---------------------------
(***************************************************************************)
(* Theorems about the two ways to the commands of the game: ResidentBridge,*)
(* for all installations, and DirectSink, for every set of writers, every  *)
(* size of the buffer and all bounds.                                      *)
(***************************************************************************)
EXTENDS ResidentBridge, DirectSink, FiniteSetTheorems, SequenceTheorems, TLAPS

-----------------------------------------------------------------------------
(* The bridge: its invariant.                                              *)

Headers == [read : Nat, write : Nat, beat : Nat]
ReadyFiles == [pid : Nat, beat : Nat, stamp : Nat, cmd : Headers, ovl : Headers]
Heartbeats == [pid : Nat, beat : Nat, stamp : Nat]
Tellings == [stamp : Nat, read : Nat, write : Nat]

AdapterPlaces == {"off", "ensure", "ensureWrite", "consume", "route", "ack", "ackWrite",
                  "ready", "sleep"}
Places == {"idle", "queues", "writes", "reads", "heartbeat", "proof", "append", "publish"}

BridgeTypeOK ==
  /\ setting \in Settings
  /\ process \in Nat /\ starts \in Nat /\ beat \in Nat
  /\ alive \in BOOLEAN /\ running \in BOOLEAN /\ aged \in BOOLEAN
  /\ apc \in AdapterPlaces
  /\ cmd \in Headers /\ ovl \in Headers /\ ahdr \in Headers
  /\ taken \in Nat /\ lost \in Nat
  /\ held \in [cmd : Headers, ovl : Headers]
  /\ ready \in ReadyFiles
  /\ recorded \in Heartbeats
  /\ spc \in [Submitters -> Places]
  /\ seen \in [Submitters -> Heartbeats]
  /\ hdr \in [Submitters -> Headers]
  /\ told \in [Submitters -> Tellings]
  /\ fits \in [Submitters -> BOOLEAN]
  /\ left \in [Submitters -> Nat]
  /\ batches \in [Submitters -> Nat]
  /\ served \in [Submitters -> Nat]

\* A header is a window of the sequences: never more records than there are slots.
Window(header) == header.read <= header.write /\ Queued(header) <= Capacity

\* The headers in the files and in all copies are windows; a copy that is about to be
\* published has a slot left, and the acknowledgement lies in the copy it changes.
WindowsFit ==
  /\ Window(cmd) /\ Window(ovl) /\ Window(ahdr) /\ Window(held.cmd) /\ Window(held.ovl)
  /\ Window(ready.cmd) /\ Window(ready.ovl)
  /\ apc = "ackWrite" => ahdr.read <= taken /\ taken <= ahdr.write
  /\ \A s \in Submitters :
       Window(hdr[s]) /\ (spc[s] = "publish" => Queued(hdr[s]) < Capacity)

\* The stamps count the ready files written.
StampsArePast ==
  /\ ready = NoFile \/ ready.stamp > 0
  /\ \A s \in Submitters :
       /\ told[s].stamp <= ready.stamp /\ served[s] <= ready.stamp
       /\ seen[s].stamp <= ready.stamp
       /\ seen[s].stamp = ready.stamp => seen[s].pid = ready.pid /\ seen[s].beat = ready.beat

\* Unless an append was lost, the queue has only grown at its end since the ready file
\* was written; who appended on that file has made it, and every copy of its own,
\* longer than the file says.
AppendsOutdate ==
  /\ lost < ready.stamp => ready.cmd.write <= cmd.write
  /\ Telling /\ lost <= ready.stamp => held.cmd.write <= cmd.write
  /\ \A s \in Submitters : lost < ready.stamp =>
       /\ served[s] = ready.stamp =>
            /\ ready.cmd.write < cmd.write
            /\ spc[s] = "writes" => ready.cmd.write < hdr[s].write
       /\ spc[s] = "publish" /\ told[s].stamp = ready.stamp =>
            ready.cmd.write <= hdr[s].write

\* What OneBatchPerReady says, from the comparison of the write sequences on.
Paced(s) == spc[s] \in {"reads", "heartbeat", "proof"} =>
              told[s].stamp > served[s] \/ told[s].stamp <= lost

\* The beats of a thread that is not the second of its process only go up.
Before(p, b) ==
  /\ p <= process
  /\ ~ Restarted /\ p = process =>
       b <= beat /\ (apc \notin {"off", "sleep"} => b < beat)
BeatsBefore(file) == Before(file.pid, file.beat)
BeatsGoUp ==
  /\ process > 0 /\ starts >= process
  /\ BeatsBefore(ready) /\ BeatsBefore(recorded)
  /\ \A s \in Submitters : BeatsBefore(seen[s])
  /\ ~ Restarted /\ recorded.pid = ready.pid /\ ready.stamp > recorded.stamp =>
       ready.beat > recorded.beat

BridgeInv ==
  /\ BridgeTypeOK /\ WindowsFit /\ StampsArePast /\ AppendsOutdate
  /\ \A s \in Submitters : Paced(s)
  /\ BeatsGoUp

LEMMA NoFileTyped ==
  /\ EmptyQueue \in Headers /\ NoFile \in ReadyFiles /\ Nothing \in [cmd : Headers, ovl : Headers]
  /\ NoHeartbeat \in Heartbeats /\ ToldNothing \in Tellings
  /\ NoFile.stamp = 0 /\ NoFile.pid = 0 /\ NoFile.beat = 0
  /\ NoFile.cmd = EmptyQueue /\ NoFile.ovl = EmptyQueue
  /\ Nothing.cmd = EmptyQueue /\ Nothing.ovl = EmptyQueue
  /\ EmptyQueue.write = 0 /\ EmptyQueue.read = 0
  /\ NoHeartbeat.stamp = 0 /\ NoHeartbeat.pid = 0 /\ NoHeartbeat.beat = 0
  /\ ToldNothing.stamp = 0
BY DEF EmptyQueue, Headers, NoFile, ReadyFiles, Nothing, NoHeartbeat, ToldNothing, Heartbeats,
   Tellings

LEMMA CapacityTyped ==
  ASSUME BridgeTypeOK PROVE Capacity \in Nat /\ Capacity > 0
BY SettingsAssumption DEF BridgeTypeOK, Capacity

LEMMA EmptyIsWindow ==
  ASSUME BridgeTypeOK PROVE Window(EmptyQueue) /\ Queued(EmptyQueue) = 0
BY CapacityTyped, NoFileTyped DEF Window, Queued

LEMMA BridgeInit == Init => BridgeInv
<1> SUFFICES ASSUME Init PROVE BridgeInv
  OBVIOUS
<1> USE NoFileTyped DEF Init
<1>1. BridgeTypeOK
  BY DEF BridgeTypeOK, AdapterPlaces, Places
<1>2. WindowsFit
  BY <1>1, EmptyIsWindow DEF WindowsFit
<1>3. StampsArePast
  BY DEF StampsArePast
<1>4. AppendsOutdate /\ \A s \in Submitters : Paced(s)
  BY DEF AppendsOutdate, Telling, Paced
<1>5. BeatsGoUp
  BY DEF BeatsGoUp, BeatsBefore, Before, Restarted
<1>6. QED
  BY <1>1, <1>2, <1>3, <1>4, <1>5 DEF BridgeInv

\* The cases of a step.
LEMMA BridgeCases ==
  ASSUME [Next]_vars
  PROVE  /\ setting' = setting
         /\ \/ Adapter \/ Fate \/ UNCHANGED vars
            \/ \E s \in Submitters : Submit(s)
BY DEF Next, vars

\* What the adapter and its fate leave alone.
LEMMA AdapterFrame ==
  ASSUME Adapter \/ Fate
  PROVE  UNCHANGED submitterVars
<1>1. CASE EnsureRead \/ EnsureWrite \/ EnsureRefused \/ ConsumeNothing \/ Consume
  BY <1>1 DEF EnsureRead, EnsureWrite, EnsureRefused, ConsumeNothing, Consume
<1>2. CASE ReadRejected \/ Route \/ AckRead \/ AckRejected \/ AckWrite
  BY <1>2 DEF ReadRejected, Route, AckRead, AckRejected, AckWrite
<1>3. CASE WriteReady \/ WriteReadyFails \/ Sleep
  BY <1>3 DEF WriteReady, WriteReadyFails, Sleep
<1>4. CASE Fate
  BY <1>4 DEF Fate, Stop, Restart, ProcessDies, ProcessStarts, ReadyAges
<1>5. QED
  BY <1>1, <1>2, <1>3, <1>4 DEF Adapter

\* The cases of a submission, those that refuse it taken together.
LEMMA SubmitCases ==
  ASSUME NEW s, Submit(s)
  PROVE  \/ ReadReady(s) \/ ReadQueue(s) \/ WritesAgree(s) \/ ReadsAgree(s)
         \/ CheckHeartbeat(s) \/ Admit(s) \/ AppendRead(s) \/ Publish(s)
         \/ Refused(s)
BY DEF Submit, Check, QueuesDiffer, CallStalled, LackProof, CutShort, SubmitterDies

\* What a submission leaves alone.
LEMMA SubmitFrame ==
  ASSUME NEW s, Submit(s)
  PROVE  /\ UNCHANGED <<adapterVars, ovl, readyVars>>
         /\ Publish(s) \/ (UNCHANGED <<cmd, lost, served>>)
<1>1. CASE ReadReady(s) \/ ReadQueue(s) \/ WritesAgree(s) \/ ReadsAgree(s)
  BY <1>1 DEF ReadReady, ReadQueue, WritesAgree, ReadsAgree, queueVars
<1>2. CASE CheckHeartbeat(s) \/ Admit(s) \/ AppendRead(s) \/ Refused(s)
  BY <1>2 DEF CheckHeartbeat, Admit, AppendRead, Refused, queueVars
<1>3. CASE Publish(s)
  BY <1>3 DEF Publish
<1>4. QED
  BY <1>1, <1>2, <1>3, SubmitCases

\* A submission does nothing to those of others.
LEMMA OthersKeep ==
  ASSUME BridgeTypeOK, NEW s \in Submitters, Submit(s), NEW t \in Submitters, t # s
  PROVE  /\ spc'[t] = spc[t] /\ seen'[t] = seen[t] /\ hdr'[t] = hdr[t] /\ left'[t] = left[t]
         /\ told'[t] = told[t] /\ fits'[t] = fits[t] /\ served'[t] = served[t]
<1> USE DEF BridgeTypeOK
<1>1. CASE ReadReady(s) \/ ReadQueue(s) \/ WritesAgree(s)
  BY <1>1 DEF ReadReady, ReadQueue, WritesAgree
<1>2. CASE ReadsAgree(s)
  BY <1>2 DEF ReadsAgree
<1>3. CASE CheckHeartbeat(s) \/ AppendRead(s)
  BY <1>3 DEF CheckHeartbeat, AppendRead
<1>4. CASE Admit(s)
  BY <1>4 DEF Admit
<1>5. CASE Publish(s)
  BY <1>5 DEF Publish, Leave
<1>6. CASE Refused(s)
  BY <1>6 DEF Refused, Leave
<1>7. QED
  BY <1>1, <1>2, <1>3, <1>4, <1>5, <1>6, SubmitCases

LEMMA HeaderWritten ==
  ASSUME BridgeTypeOK, NEW h \in Headers, WriteHeader(h)
  PROVE  /\ cmd' = h /\ cmd' \in Headers /\ lost' \in Nat
         /\ \/ lost' = lost /\ cmd'.write >= cmd.write
            \/ lost' = ready.stamp /\ ~ Telling
            \/ lost' = ready.stamp + 1
BY DEF WriteHeader, BridgeTypeOK, ReadyFiles

-----------------------------------------------------------------------------
(* The bridge: types.                                                      *)

SubmitterTypes ==
  /\ recorded \in Heartbeats
  /\ spc \in [Submitters -> Places]
  /\ seen \in [Submitters -> Heartbeats]
  /\ hdr \in [Submitters -> Headers]
  /\ told \in [Submitters -> Tellings]
  /\ fits \in [Submitters -> BOOLEAN]
  /\ left \in [Submitters -> Nat]
  /\ batches \in [Submitters -> Nat]
  /\ served \in [Submitters -> Nat]

LEMMA LeaveTyped ==
  ASSUME BridgeTypeOK, NEW s \in Submitters, Leave(s)
  PROVE  /\ spc' \in [Submitters -> Places]
         /\ seen' \in [Submitters -> Heartbeats]
         /\ hdr' \in [Submitters -> Headers]
         /\ told' \in [Submitters -> Tellings]
         /\ fits' \in [Submitters -> BOOLEAN]
         /\ left' \in [Submitters -> Nat]
BY NoFileTyped DEF BridgeTypeOK, Leave, Places

LEMMA SubmitTyped ==
  ASSUME BridgeTypeOK, NEW s \in Submitters, Submit(s), setting' = setting
  PROVE  SubmitterTypes' /\ cmd' \in Headers /\ lost' \in Nat
<1>0. Submitters' = Submitters
  BY DEF Submitters
<1> USE <1>0 DEF BridgeTypeOK, SubmitterTypes
<1>1. CASE ReadReady(s)
  <2>1. [pid |-> ready.pid, beat |-> ready.beat, stamp |-> ready.stamp] \in Heartbeats
    BY DEF ReadyFiles, Heartbeats
  <2>2. "queues" \in Places
    BY DEF Places
  <2>3. QED
    BY <1>1, <2>1, <2>2 DEF ReadReady, queueVars
<1>2. CASE ReadQueue(s)
  <2>1. "writes" \in Places
    BY DEF Places
  <2>2. QED
    BY <1>2, <2>1 DEF ReadQueue, queueVars
<1>3. CASE WritesAgree(s)
  <2>1. [stamp |-> ready.stamp, read |-> 0, write |-> ready.cmd.write] \in Tellings
    BY DEF ReadyFiles, Headers, Tellings
  <2>2. "reads" \in Places
    BY DEF Places
  <2>3. QED
    BY <1>3, <2>1, <2>2 DEF WritesAgree, queueVars
<1>4. CASE ReadsAgree(s)
  <2>1. told' = [told EXCEPT ![s] = [told[s] EXCEPT !.read = ready.cmd.read]]
    BY <1>4 DEF ReadsAgree
  <2>2. [told[s] EXCEPT !.read = ready.cmd.read] \in Tellings
    <3>1. told[s] \in Tellings
      OBVIOUS
    <3>2. ready.cmd.read \in Nat
      BY DEF ReadyFiles, Headers
    <3>3. ASSUME NEW x \in Tellings, NEW n \in Nat PROVE [x EXCEPT !.read = n] \in Tellings
      BY SMTT(30) DEF Tellings
    <3>4. QED
      BY <3>1, <3>2, <3>3
  <2>3. "heartbeat" \in Places
    BY DEF Places
  <2>4. QED
    BY <1>4, <2>1, <2>2, <2>3 DEF ReadsAgree, queueVars
<1>5. CASE CheckHeartbeat(s)
  <2>1. recorded' \in Heartbeats
    BY <1>5 DEF CheckHeartbeat, ReadyFiles, Heartbeats
  <2>2. "proof" \in Places
    BY DEF Places
  <2>3. QED
    BY <1>5, <2>1, <2>2 DEF CheckHeartbeat, queueVars
<1>6. CASE Admit(s)
  <2>1. PICK n \in 1 .. BatchSize[s] :
          /\ left' = [left EXCEPT ![s] = n]
          /\ fits' = [fits EXCEPT ![s] = Queued(told[s]) + n <= Capacity]
    BY <1>6 DEF Admit
  <2>2. n \in Nat
    BY <2>1, SettingsAssumption DEF BatchSize, Submitters
  <2>3. fits' \in [Submitters -> BOOLEAN]
    BY <2>1
  <2>4. left' \in [Submitters -> Nat] /\ batches' \in [Submitters -> Nat]
    BY <1>6, <2>1, <2>2 DEF Admit
  <2>5. "append" \in Places
    BY DEF Places
  <2>6. QED
    BY <1>6, <2>3, <2>4, <2>5 DEF Admit, queueVars
<1>7. CASE AppendRead(s)
  <2>1. "publish" \in Places
    BY DEF Places
  <2>2. QED
    BY <1>7, <2>1 DEF AppendRead, queueVars
<1>8. CASE Publish(s)
  <2>1. [hdr[s] EXCEPT !.write = @ + 1] \in Headers
    BY DEF Headers
  <2>2. cmd' \in Headers /\ lost' \in Nat
    BY <1>8, <2>1, HeaderWritten DEF Publish
  <2>3. served' \in [Submitters -> Nat]
    BY <1>8 DEF Publish, Tellings
  <2>4. CASE left[s] > 1 /\ left' = [left EXCEPT ![s] = @ - 1]
             /\ spc' = [spc EXCEPT ![s] = "append"] /\ UNCHANGED <<seen, hdr, told, fits>>
    <3>1. left' \in [Submitters -> Nat] /\ spc' \in [Submitters -> Places]
      BY <2>4 DEF Places
    <3>2. QED
      BY <1>8, <2>2, <2>3, <2>4, <3>1 DEF Publish
  <2>5. CASE Leave(s)
    BY <1>8, <2>2, <2>3, <2>5, LeaveTyped DEF Publish
  <2>6. QED
    BY <1>8, <2>4, <2>5 DEF Publish
<1>9. CASE Refused(s)
  BY <1>9, LeaveTyped DEF Refused, queueVars
<1>10. QED
  BY <1>1, <1>2, <1>3, <1>4, <1>5, <1>6, <1>7, <1>8, <1>9, SubmitCases

LEMMA BridgeTypeStep ==
  ASSUME BridgeInv, [Next]_vars
  PROVE  BridgeTypeOK'
<1>0. BridgeTypeOK /\ WindowsFit /\ setting' = setting
  BY BridgeCases DEF BridgeInv
<1>a. Submitters' = Submitters
  BY <1>0 DEF Submitters
\* A step of the adapter is a matter of the variables it may change.
<1>b. ASSUME UNCHANGED submitterVars,
             process' \in Nat, starts' \in Nat, beat' \in Nat,
             alive' \in BOOLEAN, running' \in BOOLEAN, aged' \in BOOLEAN,
             apc' \in AdapterPlaces,
             cmd' \in Headers, ovl' \in Headers, ahdr' \in Headers, taken' \in Nat,
             lost' \in Nat, held' \in [cmd : Headers, ovl : Headers], ready' \in ReadyFiles
      PROVE  BridgeTypeOK'
  BY <1>0, <1>a, <1>b DEF BridgeTypeOK, submitterVars
<1>1. CASE Adapter
  <2>0. UNCHANGED submitterVars
    BY <1>1, AdapterFrame
  <2> USE <1>0, <2>0 DEF BridgeTypeOK
  <2>1. CASE EnsureRead
    <3>1. ahdr' \in Headers
      BY <2>1 DEF EnsureRead, Headers
    <3>2. QED
      BY <1>b, <2>1, <3>1 DEF EnsureRead, queueVars, readyVars, AdapterPlaces
  <2>2. CASE EnsureWrite
    <3>1. cmd' \in Headers /\ lost' \in Nat /\ ovl' \in Headers
      BY <2>2, HeaderWritten DEF EnsureWrite, Headers
    <3>2. QED
      BY <1>b, <2>2, <3>1 DEF EnsureWrite, readyVars, AdapterPlaces
  <2>3. CASE EnsureRefused \/ ReadRejected \/ AckRejected
    BY <1>b, <2>3 DEF EnsureRefused, ReadRejected, AckRejected, queueVars, readyVars,
       AdapterPlaces
  <2>4. CASE ConsumeNothing
    BY <1>b, <2>4 DEF ConsumeNothing, queueVars, readyVars, AdapterPlaces
  <2>5. CASE Consume
    <3>1. taken' \in Nat
      BY <2>5 DEF Consume, Headers
    <3>2. QED
      BY <1>b, <2>5, <3>1 DEF Consume, queueVars, readyVars, AdapterPlaces
  <2>6. CASE Route
    <3>1. PICK n \in 0 .. Queued(ahdr) :
            ovl' = [ovl EXCEPT !.write = @ + (IF n <= Room THEN n ELSE Room)]
      BY <2>6 DEF Route
    <3>2. n \in Nat /\ Room \in Nat
      BY <3>1, CapacityTyped DEF WindowsFit, Window, Queued, Room, Headers
    <3>3. ovl' \in Headers
      BY <3>1, <3>2 DEF Headers
    <3>4. QED
      BY <1>b, <2>6, <3>3 DEF Route, readyVars, AdapterPlaces
  <2>7. CASE AckRead
    BY <1>b, <2>7 DEF AckRead, queueVars, readyVars, AdapterPlaces
  <2>8. CASE AckWrite
    <3>1. [ahdr EXCEPT !.read = taken] \in Headers
      BY DEF Headers
    <3>2. cmd' \in Headers /\ lost' \in Nat
      BY <2>8, <3>1, HeaderWritten DEF AckWrite
    <3>3. held' \in [cmd : Headers, ovl : Headers]
      BY <2>8, <3>2 DEF AckWrite
    <3>4. QED
      BY <1>b, <2>8, <3>2, <3>3 DEF AckWrite, readyVars, AdapterPlaces
  <2>9. CASE WriteReady
    <3>1. ready' \in ReadyFiles
      BY <2>9 DEF WriteReady, ReadyFiles
    <3>2. QED
      BY <1>b, <2>9, <3>1, NoFileTyped DEF WriteReady, EndOfBeat, queueVars, AdapterPlaces
  <2>10. CASE WriteReadyFails
    BY <1>b, <2>10, NoFileTyped DEF WriteReadyFails, EndOfBeat, queueVars, readyVars,
       AdapterPlaces
  <2>11. CASE Sleep
    BY <1>b, <2>11 DEF Sleep, queueVars, readyVars, AdapterPlaces
  <2>12. QED
    BY <1>1, <2>1, <2>2, <2>3, <2>4, <2>5, <2>6, <2>7, <2>8, <2>9, <2>10, <2>11 DEF Adapter
<1>2. CASE Fate
  <2>0. UNCHANGED submitterVars
    BY <1>2, AdapterFrame
  <2> USE <1>0, <2>0, <1>b DEF BridgeTypeOK, AdapterPlaces, queueVars
  <2>1. CASE Stop
    BY <2>1 DEF Stop, readyVars
  <2>2. CASE Restart
    BY <2>2 DEF Restart, readyVars
  <2>3. CASE ProcessDies
    BY <2>3, NoFileTyped DEF ProcessDies, readyVars
  <2>4. CASE ProcessStarts
    BY <2>4 DEF ProcessStarts, readyVars
  <2>5. CASE ReadyAges
    BY <2>5 DEF ReadyAges, adapterVars
  <2>6. QED
    BY <1>2, <2>1, <2>2, <2>3, <2>4, <2>5 DEF Fate
<1>3. ASSUME NEW s \in Submitters, Submit(s) PROVE BridgeTypeOK'
  <2>1. SubmitterTypes' /\ cmd' \in Headers /\ lost' \in Nat
    BY <1>0, <1>3, SubmitTyped
  <2>2. UNCHANGED <<adapterVars, ovl, readyVars>>
    BY <1>3, SubmitFrame
  <2>3. QED
    BY <1>0, <2>1, <2>2 DEF BridgeTypeOK, SubmitterTypes, adapterVars, readyVars
<1>4. CASE UNCHANGED vars
  BY <1>0, <1>4, <1>a DEF BridgeTypeOK, vars, adapterVars, queueVars, readyVars, submitterVars
<1>5. QED
  BY BridgeCases, <1>1, <1>2, <1>3, <1>4

LEMMA CountersTyped ==
  ASSUME BridgeTypeOK
  PROVE  /\ cmd.read \in Nat /\ cmd.write \in Nat /\ ovl.read \in Nat /\ ovl.write \in Nat
         /\ ahdr.read \in Nat /\ ahdr.write \in Nat
         /\ held.cmd \in Headers /\ held.ovl \in Headers
         /\ held.cmd.write \in Nat /\ ready.cmd.write \in Nat
         /\ ready.stamp \in Nat /\ ready.pid \in Nat /\ ready.beat \in Nat
         /\ recorded.stamp \in Nat /\ recorded.pid \in Nat /\ recorded.beat \in Nat
         /\ \A s \in Submitters :
              /\ seen[s].stamp \in Nat /\ seen[s].pid \in Nat /\ seen[s].beat \in Nat
              /\ served[s] \in Nat /\ told[s].stamp \in Nat
              /\ told[s].read \in Nat /\ told[s].write \in Nat
              /\ hdr[s] \in Headers /\ hdr[s].read \in Nat /\ hdr[s].write \in Nat
<1>1. /\ cmd.read \in Nat /\ cmd.write \in Nat /\ ovl.read \in Nat /\ ovl.write \in Nat
      /\ ahdr.read \in Nat /\ ahdr.write \in Nat
  BY DEF BridgeTypeOK, Headers
<1>2. /\ held.cmd \in Headers /\ held.ovl \in Headers
      /\ held.cmd.write \in Nat /\ ready.cmd.write \in Nat
      /\ ready.stamp \in Nat /\ ready.pid \in Nat /\ ready.beat \in Nat
      /\ recorded.stamp \in Nat /\ recorded.pid \in Nat /\ recorded.beat \in Nat
  BY DEF BridgeTypeOK, Headers, ReadyFiles, Heartbeats
<1>3. ASSUME NEW s \in Submitters
      PROVE  /\ seen[s].stamp \in Nat /\ seen[s].pid \in Nat /\ seen[s].beat \in Nat
             /\ served[s] \in Nat /\ told[s].stamp \in Nat
             /\ told[s].read \in Nat /\ told[s].write \in Nat
             /\ hdr[s] \in Headers /\ hdr[s].read \in Nat /\ hdr[s].write \in Nat
  <2>1. seen[s] \in Heartbeats /\ told[s] \in Tellings /\ hdr[s] \in Headers
    BY DEF BridgeTypeOK
  <2>2. QED
    BY <2>1 DEF BridgeTypeOK, Heartbeats, Tellings, Headers
<1>4. QED
  BY <1>1, <1>2, <1>3

-----------------------------------------------------------------------------
(* The bridge: the invariant holds after a step.                           *)

\* Only the sequences of a header say whether it is a window.
LEMMA SameSequences ==
  ASSUME NEW g, NEW h, g.read = h.read, g.write = h.write, Window(h)
  PROVE  Window(g)
BY DEF Window, Queued

LEMMA WindowsStep ==
  ASSUME BridgeInv, [Next]_vars
  PROVE  WindowsFit'
<1>0. BridgeTypeOK /\ WindowsFit /\ setting' = setting
  BY BridgeCases DEF BridgeInv
<1>a. Capacity' = Capacity /\ Capacity \in Nat /\ Capacity > 0 /\ Submitters' = Submitters
  BY <1>0, CapacityTyped DEF Capacity, Submitters
<1>b. /\ cmd \in Headers /\ ovl \in Headers /\ ahdr \in Headers /\ taken \in Nat
      /\ held.cmd \in Headers /\ held.ovl \in Headers /\ spc \in [Submitters -> Places]
      /\ \A s \in Submitters : hdr[s] \in Headers
  BY <1>0, CountersTyped DEF BridgeTypeOK
<1>w. \A h : Window(h)' <=> Window(h')
  BY <1>a DEF Window, Queued
<1>e. Window(EmptyQueue)
  BY <1>0, EmptyIsWindow
\* A step of the adapter is a matter of the variables it may change.
<1>c. ASSUME UNCHANGED submitterVars,
             Window(cmd'), Window(ovl'), Window(ahdr'), Window(held'.cmd), Window(held'.ovl),
             Window(ready'.cmd), Window(ready'.ovl),
             apc' = "ackWrite" => ahdr'.read <= taken' /\ taken' <= ahdr'.write
      PROVE  WindowsFit'
  <2>1. \A s \in Submitters :
          Window(hdr'[s]) /\ (spc'[s] = "publish" => Queued(hdr'[s]) < Capacity)
    BY <1>0, <1>c DEF WindowsFit, submitterVars
  <2>2. QED
    BY <1>a, <1>c, <2>1 DEF WindowsFit, Window, Queued
<1>1. CASE EnsureRead
  <2>1. ahdr'.read = cmd.read /\ ahdr'.write = cmd.write /\ apc' = "ensureWrite"
    BY <1>1, <1>b DEF EnsureRead, Headers
  <2>2. Window(ahdr')
    BY <1>0, <2>1, SameSequences DEF WindowsFit
  <2>3. QED
    BY <1>0, <1>1, <1>c, <2>1, <2>2 DEF EnsureRead, WindowsFit, queueVars, readyVars
<1>2. CASE EnsureWrite
  <2>1. /\ cmd' = ahdr /\ held'.cmd = ahdr /\ held'.ovl = ovl'
        /\ ovl'.read = ovl.read /\ ovl'.write = ovl.write
    BY <1>2, <1>b DEF EnsureWrite, WriteHeader, Headers
  <2>2. Window(ovl')
    BY <1>0, <2>1, SameSequences DEF WindowsFit
  <2>3. QED
    BY <1>0, <1>2, <1>c, <2>1, <2>2 DEF EnsureWrite, WindowsFit, readyVars
<1>3. CASE EnsureRefused \/ ReadRejected \/ AckRejected \/ Sleep
  BY <1>0, <1>3, <1>c DEF EnsureRefused, ReadRejected, AckRejected, Sleep, WindowsFit, queueVars,
     readyVars
<1>4. CASE ConsumeNothing
  <2>1. held'.cmd = cmd /\ held'.ovl = held.ovl
    BY <1>0, <1>4 DEF ConsumeNothing, BridgeTypeOK
  <2>2. QED
    BY <1>0, <1>4, <1>c, <2>1 DEF ConsumeNothing, WindowsFit, queueVars, readyVars
<1>5. CASE Consume
  BY <1>0, <1>5, <1>c DEF Consume, WindowsFit, queueVars, readyVars
<1>6. CASE Route
  <2>1. PICK n \in 0 .. Queued(ahdr) :
          ovl' = [ovl EXCEPT !.write = @ + (IF n <= Room THEN n ELSE Room)]
    BY <1>6 DEF Route
  <2>2. n \in Nat
    BY <1>b, <2>1 DEF Headers, Queued
  <2>3. /\ ovl'.read = ovl.read
        /\ ovl'.write = ovl.write + (IF n <= Room THEN n ELSE Room)
    BY <1>b, <2>1 DEF Headers
  <2>4. ovl.read \in Nat /\ ovl.write \in Nat /\ ovl.read <= ovl.write
        /\ ovl.write - ovl.read <= Capacity
    BY <1>0, <1>b DEF Headers, WindowsFit, Window, Queued
  <2>5. Window(ovl')
    BY <1>a, <2>2, <2>3, <2>4 DEF Window, Queued, Room
  <2>6. QED
    BY <1>0, <1>6, <1>c, <2>5 DEF Route, WindowsFit, readyVars
<1>7. CASE AckRead
  <2>1. ahdr' = cmd /\ taken' = taken /\ cmd.read <= taken /\ taken <= cmd.write
    BY <1>b, <1>7 DEF AckRead, Headers
  <2>2. QED
    BY <1>0, <1>7, <1>c, <2>1 DEF AckRead, WindowsFit, queueVars, readyVars
<1>8. CASE AckWrite
  <2>1. /\ cmd'.read = taken /\ cmd'.write = ahdr.write /\ apc = "ackWrite"
        /\ held'.cmd = cmd' /\ held'.ovl = held.ovl /\ apc' = "ready"
    BY <1>0, <1>8, <1>b DEF AckWrite, WriteHeader, Headers, BridgeTypeOK
  <2>2. ahdr.read <= taken /\ taken <= ahdr.write /\ ahdr.write - ahdr.read <= Capacity
    BY <1>0, <2>1 DEF WindowsFit, Window, Queued
  <2>3. Window(cmd')
    BY <1>a, <1>b, <2>1, <2>2 DEF Window, Queued, Headers
  <2>4. QED
    BY <1>0, <1>8, <1>c, <2>1, <2>3 DEF AckWrite, WindowsFit, readyVars
<1>9. CASE WriteReady
  <2>1. /\ ready'.cmd = held.cmd /\ ready'.ovl = held.ovl /\ UNCHANGED <<cmd, ovl, submitterVars>>
        /\ held'.cmd = EmptyQueue /\ held'.ovl = EmptyQueue /\ ahdr' = EmptyQueue
        /\ apc' = "sleep"
    BY <1>9, NoFileTyped DEF WriteReady, EndOfBeat, queueVars
  <2>2. QED
    BY <1>0, <1>e, <1>c, <2>1 DEF WindowsFit
<1>10. CASE WriteReadyFails \/ ProcessDies
  <2>1. /\ UNCHANGED <<cmd, ovl, ready, submitterVars>>
        /\ held'.cmd = EmptyQueue /\ held'.ovl = EmptyQueue /\ ahdr' = EmptyQueue
        /\ apc' \in {"sleep", "off"}
    BY <1>10, NoFileTyped DEF WriteReadyFails, ProcessDies, EndOfBeat, queueVars, readyVars
  <2>2. QED
    BY <1>0, <1>e, <1>c, <2>1 DEF WindowsFit
<1>11. CASE Stop \/ Restart \/ ProcessStarts \/ ReadyAges \/ UNCHANGED vars
  <2>1. /\ UNCHANGED <<cmd, ovl, ahdr, held, taken, ready, submitterVars>>
        /\ apc' \in {apc, "ensure"}
    BY <1>11 DEF Stop, Restart, ProcessStarts, ReadyAges, vars, adapterVars, queueVars, readyVars
  <2>2. QED
    BY <1>0, <1>c, <2>1 DEF WindowsFit
<1>12. ASSUME NEW s \in Submitters, Submit(s) PROVE WindowsFit'
  <2>0. /\ UNCHANGED <<taken, apc, ahdr, held, ovl, ready>>
        /\ \A t \in Submitters : t # s => hdr'[t] = hdr[t] /\ spc'[t] = spc[t]
    BY <1>0, <1>12, SubmitFrame, OthersKeep DEF adapterVars, readyVars
  <2>1. ASSUME Window(cmd'), Window(hdr'[s]), spc'[s] = "publish" => Queued(hdr'[s]) < Capacity
        PROVE  WindowsFit'
    <3>1. \A t \in Submitters :
            Window(hdr'[t]) /\ (spc'[t] = "publish" => Queued(hdr'[t]) < Capacity)
      BY <1>0, <2>0, <2>1 DEF WindowsFit
    <3>2. /\ Window(ovl') /\ Window(ahdr') /\ Window(held'.cmd) /\ Window(held'.ovl)
          /\ Window(ready'.cmd) /\ Window(ready'.ovl)
          /\ apc' = "ackWrite" => ahdr'.read <= taken' /\ taken' <= ahdr'.write
      BY <1>0, <2>0 DEF WindowsFit
    <3>3. QED
      BY <1>a, <2>1, <3>1, <3>2 DEF WindowsFit, Window, Queued
  <2>2. CASE ReadQueue(s) \/ AppendRead(s)
    <3>1. cmd' = cmd /\ hdr'[s] = cmd /\ (spc'[s] = "publish" => Queued(cmd) < Capacity)
      BY <1>0, <1>b, <2>2 DEF ReadQueue, AppendRead, BridgeTypeOK, queueVars
    <3>2. QED
      BY <1>0, <2>1, <3>1 DEF WindowsFit
  <2>3. CASE Publish(s)
    <3>1. cmd'.read = hdr[s].read /\ cmd'.write = hdr[s].write + 1 /\ spc[s] = "publish"
      BY <1>b, <2>3 DEF Publish, WriteHeader, Headers
    <3>2. Window(cmd')
      BY <1>0, <1>a, <1>b, <3>1 DEF WindowsFit, Window, Queued, Headers
    <3>3. hdr'[s] \in {hdr[s], EmptyQueue} /\ spc'[s] # "publish"
      BY <1>0, <2>3 DEF Publish, Leave, BridgeTypeOK
    <3>4. QED
      BY <1>0, <1>e, <2>1, <3>2, <3>3 DEF WindowsFit
  <2>4. CASE ReadReady(s) \/ WritesAgree(s) \/ ReadsAgree(s) \/ CheckHeartbeat(s) \/ Admit(s)
    <3>1. cmd' = cmd /\ hdr' = hdr /\ spc'[s] # "publish"
      BY <1>b, <2>4 DEF ReadReady, WritesAgree, ReadsAgree, CheckHeartbeat, Admit, queueVars
    <3>2. QED
      BY <1>0, <2>1, <3>1 DEF WindowsFit
  <2>5. CASE Refused(s)
    <3>1. cmd' = cmd /\ hdr'[s] = EmptyQueue /\ spc'[s] # "publish"
      BY <1>0, <2>5 DEF Refused, Leave, BridgeTypeOK, queueVars
    <3>2. QED
      BY <1>0, <1>e, <2>1, <3>1 DEF WindowsFit
  <2>6. QED
    BY <1>12, <2>2, <2>3, <2>4, <2>5, SubmitCases
<1>13. QED
  BY BridgeCases, <1>1, <1>2, <1>3, <1>4, <1>5, <1>6, <1>7, <1>8, <1>9, <1>10, <1>11, <1>12
     DEF Adapter, Fate

\* What a step makes of the queue and of the files that tell of it.
LEMMA FilesAre ==
  ASSUME BridgeInv, [Next]_vars
  PROVE  /\ \/ lost' = lost /\ cmd'.write >= cmd.write
            \/ lost' = ready.stamp /\ ~ Telling
            \/ lost' = ready.stamp + 1
         /\ \/ ready' = ready
            \/ WriteReady /\ ready'.stamp = ready.stamp + 1 /\ ready'.cmd = held.cmd
                          /\ ready'.pid = process /\ ready'.beat = beat
         /\ ready' = ready \/ (cmd' = cmd /\ Telling /\ ~ Telling')
         /\ Telling' => \/ held'.cmd = cmd'
                        \/ Telling /\ held'.cmd = held.cmd
<1>0. BridgeTypeOK
  BY DEF BridgeInv
<1>1. /\ cmd \in Headers /\ ahdr \in Headers /\ cmd.write \in Nat
      /\ \A s \in Submitters : hdr[s] \in Headers
  BY <1>0, CountersTyped DEF BridgeTypeOK
<1>2. CASE EnsureWrite
  BY <1>0, <1>1, <1>2, HeaderWritten DEF EnsureWrite, readyVars
<1>3. CASE AckWrite
  <2>1. [ahdr EXCEPT !.read = taken] \in Headers
    BY <1>0, <1>1 DEF BridgeTypeOK, Headers
  <2>2. held'.cmd = cmd' /\ ready' = ready /\ WriteHeader([ahdr EXCEPT !.read = taken])
    BY <1>0, <1>3 DEF AckWrite, BridgeTypeOK, readyVars
  <2>3. QED
    BY <1>0, <2>1, <2>2, HeaderWritten
<1>4. CASE WriteReady
  BY <1>1, <1>4 DEF WriteReady, EndOfBeat, queueVars, Telling
<1>5. CASE ConsumeNothing
  <2>1. held'.cmd = cmd /\ UNCHANGED <<cmd, lost, ready>>
    BY <1>0, <1>5 DEF ConsumeNothing, BridgeTypeOK, queueVars, readyVars
  <2>2. QED
    BY <1>1, <2>1
<1>6. CASE EnsureRead \/ EnsureRefused \/ WriteReadyFails \/ Sleep
  <2>1. UNCHANGED <<cmd, lost, ready>> /\ ~ Telling'
    BY <1>6 DEF EnsureRead, EnsureRefused, WriteReadyFails, Sleep, EndOfBeat, queueVars,
       readyVars, Telling
  <2>2. QED
    BY <1>1, <2>1
<1>7. CASE Consume \/ ReadRejected \/ Route \/ AckRead \/ AckRejected
  <2>1. UNCHANGED <<cmd, lost, ready, held>> /\ Telling
    BY <1>7 DEF Consume, ReadRejected, Route, AckRead, AckRejected, queueVars, readyVars, Telling
  <2>2. QED
    BY <1>1, <2>1
<1>8. CASE Fate \/ UNCHANGED vars
  <2>1. /\ UNCHANGED <<cmd, lost, ready>>
        /\ ~ Telling' \/ (UNCHANGED <<held, apc>>)
    BY <1>8 DEF Fate, Stop, Restart, ProcessDies, ProcessStarts, ReadyAges, vars, adapterVars,
       queueVars, readyVars, Telling
  <2>2. QED
    BY <1>1, <2>1 DEF Telling
<1>9. ASSUME NEW s \in Submitters, Submit(s)
      PROVE  /\ \/ lost' = lost /\ cmd'.write >= cmd.write
                \/ lost' = ready.stamp /\ ~ Telling
                \/ lost' = ready.stamp + 1
             /\ ready' = ready /\ held' = held /\ apc' = apc
  <2>1. UNCHANGED <<ready, held, apc>>
    BY <1>9, SubmitFrame DEF adapterVars, readyVars
  <2>2. CASE Publish(s)
    <3>1. [hdr[s] EXCEPT !.write = @ + 1] \in Headers
      BY <1>1 DEF Headers
    <3>2. QED
      BY <1>0, <2>1, <2>2, <3>1, HeaderWritten DEF Publish
  <2>3. CASE ~ Publish(s)
    BY <1>1, <1>9, <2>1, <2>3, SubmitFrame
  <2>4. QED
    BY <2>2, <2>3
<1>10. QED
  BY BridgeCases, <1>2, <1>3, <1>4, <1>5, <1>6, <1>7, <1>8, <1>9 DEF Adapter, Telling

\* What a step makes of a submission.
LEMMA SubmissionsAre ==
  ASSUME BridgeInv, [Next]_vars, NEW s \in Submitters
  PROVE  /\ \/ served'[s] = served[s]
            \/ /\ Publish(s) /\ ready' = ready /\ served'[s] = told[s].stamp
               /\ cmd'.write = hdr[s].write + 1 /\ spc'[s] \in {"append", "idle"}
         /\ \/ told'[s].stamp = told[s].stamp \/ told'[s].stamp = 0
            \/ WritesAgree(s) /\ ready' = ready /\ told'[s].stamp = ready.stamp
         /\ \/ seen'[s] = seen[s] \/ seen'[s] = NoHeartbeat
            \/ ready' = ready /\ seen'[s].stamp = ready.stamp /\ seen'[s].pid = ready.pid
                              /\ seen'[s].beat = ready.beat
         /\ spc'[s] \in {"writes", "publish"} =>
              \/ spc'[s] = spc[s] /\ hdr'[s] = hdr[s] /\ told'[s] = told[s]
              \/ hdr'[s] = cmd /\ cmd' = cmd /\ told'[s] = told[s]
         /\ spc'[s] \in {"reads", "heartbeat", "proof"} =>
              \/ WritesAgree(s) /\ UNCHANGED <<ready, lost>> /\ told'[s].stamp = ready.stamp
                                /\ served'[s] = served[s]
              \/ /\ spc[s] \in {"reads", "heartbeat", "proof"}
                 /\ told'[s].stamp = told[s].stamp /\ served'[s] = served[s]
<1>0. BridgeTypeOK
  BY DEF BridgeInv
<1>1. CASE Adapter \/ Fate \/ UNCHANGED vars
  <2>1. UNCHANGED <<served, seen, spc, hdr, told>>
    BY <1>1, AdapterFrame DEF submitterVars, vars
  <2>2. QED
    BY <2>1
<1>2. ASSUME NEW t \in Submitters, Submit(t), t # s
      PROVE  /\ served'[s] = served[s] /\ seen'[s] = seen[s] /\ spc'[s] = spc[s]
             /\ hdr'[s] = hdr[s] /\ told'[s] = told[s]
  BY <1>0, <1>2, OthersKeep
<1>3. ASSUME Submit(s) PROVE ready' = ready
  BY <1>3, SubmitFrame DEF readyVars
<1>4. CASE Submit(s) /\ ReadReady(s)
  BY <1>0, <1>3, <1>4 DEF BridgeTypeOK, ReadReady
<1>5. CASE Submit(s) /\ ReadQueue(s)
  BY <1>0, <1>3, <1>5 DEF BridgeTypeOK, ReadQueue, queueVars
<1>6. CASE Submit(s) /\ WritesAgree(s)
  BY <1>0, <1>3, <1>6 DEF BridgeTypeOK, WritesAgree, queueVars
<1>7. CASE Submit(s) /\ ReadsAgree(s)
  <2>1. told' = [told EXCEPT ![s] = [told[s] EXCEPT !.read = ready.cmd.read]]
    BY <1>7 DEF ReadsAgree
  <2>2. told[s] \in Tellings /\ told'[s] = [told[s] EXCEPT !.read = ready.cmd.read]
    BY <1>0, <2>1 DEF BridgeTypeOK
  <2>3. told'[s].stamp = told[s].stamp
    BY <2>2 DEF Tellings
  <2>4. QED
    BY <1>0, <1>3, <1>7, <2>3 DEF BridgeTypeOK, ReadsAgree
<1>8. CASE Submit(s) /\ (CheckHeartbeat(s) \/ Admit(s))
  BY <1>0, <1>3, <1>8 DEF BridgeTypeOK, CheckHeartbeat, Admit
<1>9. CASE Submit(s) /\ AppendRead(s)
  BY <1>0, <1>3, <1>9 DEF BridgeTypeOK, AppendRead, queueVars
<1>10. CASE Submit(s) /\ Publish(s)
  <2>1. hdr[s] \in Headers
    BY <1>0 DEF BridgeTypeOK
  <2>2. cmd'.write = hdr[s].write + 1 /\ served'[s] = told[s].stamp
    BY <1>0, <1>10, <2>1 DEF Publish, WriteHeader, Headers, BridgeTypeOK
  <2>3. \/ spc'[s] = "append" /\ seen'[s] = seen[s] /\ told'[s] = told[s]
        \/ spc'[s] = "idle" /\ seen'[s] = NoHeartbeat /\ told'[s] = ToldNothing
    BY <1>0, <1>10 DEF Publish, Leave, BridgeTypeOK
  <2>4. QED
    BY <1>3, <1>10, <2>2, <2>3, NoFileTyped
<1>11. CASE Submit(s) /\ Refused(s)
  BY <1>0, <1>3, <1>11, NoFileTyped DEF BridgeTypeOK, Refused, Leave
<1>12. QED
  BY BridgeCases, <1>1, <1>2, <1>4, <1>5, <1>6, <1>7, <1>8, <1>9, <1>10, <1>11, SubmitCases

LEMMA StampsStep ==
  ASSUME BridgeInv, [Next]_vars
  PROVE  StampsArePast'
<1>0. BridgeTypeOK /\ StampsArePast /\ Submitters' = Submitters
  BY BridgeCases DEF BridgeInv, Submitters
<1>1. /\ ready.stamp \in Nat
      /\ \A s \in Submitters :
           seen[s].stamp \in Nat /\ served[s] \in Nat /\ told[s].stamp \in Nat
  BY <1>0, CountersTyped
<1>2. ready' = ready \/ ready'.stamp = ready.stamp + 1
  BY FilesAre
<1>3. ready' = NoFile \/ ready'.stamp > 0
  BY <1>0, <1>1, <1>2 DEF StampsArePast
<1>4. ASSUME NEW s \in Submitters
      PROVE  /\ told'[s].stamp <= ready'.stamp /\ served'[s] <= ready'.stamp
             /\ seen'[s].stamp <= ready'.stamp
             /\ seen'[s].stamp = ready'.stamp =>
                  seen'[s].pid = ready'.pid /\ seen'[s].beat = ready'.beat
  <2>1. /\ told[s].stamp <= ready.stamp /\ served[s] <= ready.stamp
        /\ seen[s].stamp <= ready.stamp
        /\ seen[s].stamp = ready.stamp => seen[s].pid = ready.pid /\ seen[s].beat = ready.beat
    BY <1>0 DEF StampsArePast
  <2>2. told'[s].stamp <= ready'.stamp /\ served'[s] <= ready'.stamp
    BY <1>1, <1>2, <2>1, SubmissionsAre
  <2>3. CASE seen'[s] = seen[s]
    BY <1>1, <1>2, <2>1, <2>2, <2>3
  <2>4. CASE seen'[s] = NoHeartbeat
    BY <1>1, <1>2, <1>3, <2>2, <2>4, NoFileTyped
  <2>5. CASE /\ ready' = ready /\ seen'[s].stamp = ready.stamp /\ seen'[s].pid = ready.pid
             /\ seen'[s].beat = ready.beat
    BY <1>1, <2>2, <2>5
  <2>6. QED
    BY <2>3, <2>4, <2>5, SubmissionsAre
<1>5. QED
  BY <1>0, <1>3, <1>4 DEF StampsArePast

LEMMA OutdateStep ==
  ASSUME BridgeInv, [Next]_vars
  PROVE  AppendsOutdate'
<1>0. /\ BridgeTypeOK /\ BridgeTypeOK' /\ AppendsOutdate /\ StampsArePast
      /\ Submitters' = Submitters
  BY BridgeTypeStep, BridgeCases DEF BridgeInv, Submitters
<1>1. /\ cmd.write \in Nat /\ cmd'.write \in Nat /\ ready.stamp \in Nat /\ ready'.stamp \in Nat
      /\ ready.cmd.write \in Nat /\ held.cmd.write \in Nat /\ lost \in Nat /\ lost' \in Nat
      /\ \A s \in Submitters :
           served[s] \in Nat /\ told[s].stamp \in Nat /\ hdr[s].write \in Nat
  BY <1>0, CountersTyped DEF BridgeTypeOK, Headers, ReadyFiles
\* If the ready file stays and nothing is lost that it tells of, the queue has grown.
<1>2. ready' = ready /\ lost' < ready.stamp => lost' = lost /\ cmd'.write >= cmd.write
  BY <1>1, FilesAre
<1>3. lost' < ready'.stamp => ready'.cmd.write <= cmd'.write
  <2>1. CASE ready' = ready
    BY <1>0, <1>1, <1>2, <2>1 DEF AppendsOutdate
  <2>2. CASE ready' # ready
    <3>1. /\ ready'.stamp = ready.stamp + 1 /\ ready'.cmd = held.cmd /\ cmd' = cmd /\ Telling
          /\ lost' = lost
      BY <2>2, FilesAre DEF WriteReady, queueVars
    <3>2. QED
      BY <1>0, <1>1, <3>1 DEF AppendsOutdate
  <2>3. QED
    BY <2>1, <2>2
<1>4. Telling' /\ lost' <= ready'.stamp => held'.cmd.write <= cmd'.write
  <2>1. SUFFICES ASSUME Telling', lost' <= ready'.stamp, held'.cmd = held.cmd, Telling
                 PROVE  held.cmd.write <= cmd'.write
    BY <1>1, FilesAre
  <2>2. ready' = ready
    BY <2>1, FilesAre
  <2>3. lost' = lost /\ cmd'.write >= cmd.write
    BY <1>1, <2>1, <2>2, FilesAre
  <2>4. QED
    BY <1>0, <1>1, <2>1, <2>2, <2>3 DEF AppendsOutdate
<1>5. ASSUME NEW s \in Submitters, lost' < ready'.stamp
      PROVE  /\ served'[s] = ready'.stamp =>
                  /\ ready'.cmd.write < cmd'.write
                  /\ spc'[s] = "writes" => ready'.cmd.write < hdr'[s].write
             /\ spc'[s] = "publish" /\ told'[s].stamp = ready'.stamp =>
                  ready'.cmd.write <= hdr'[s].write
  <2>0. served[s] <= ready.stamp /\ told[s].stamp <= ready.stamp
    BY <1>0 DEF StampsArePast
  <2>1. CASE ready' # ready
    <3>1. ready'.stamp = ready.stamp + 1 /\ UNCHANGED <<served, told>>
      BY <2>1, FilesAre DEF WriteReady, submitterVars
    <3>2. QED
      BY <1>1, <2>0, <3>1
  <2>2. CASE ready' = ready
    <3>0. lost < ready.stamp /\ cmd'.write >= cmd.write /\ ready.cmd.write <= cmd.write
      BY <1>0, <1>1, <1>2, <1>5, <2>2 DEF AppendsOutdate
    <3>1. /\ served[s] = ready.stamp =>
               /\ ready.cmd.write < cmd.write
               /\ spc[s] = "writes" => ready.cmd.write < hdr[s].write
          /\ spc[s] = "publish" /\ told[s].stamp = ready.stamp =>
               ready.cmd.write <= hdr[s].write
      BY <1>0, <3>0 DEF AppendsOutdate
    <3>2. ASSUME served'[s] = ready.stamp
          PROVE  /\ ready.cmd.write < cmd'.write
                 /\ spc'[s] = "writes" => ready.cmd.write < hdr'[s].write
      <4>1. CASE served'[s] = served[s]
        <5>1. ready.cmd.write < cmd.write
          BY <3>1, <3>2, <4>1
        <5>2. ready.cmd.write < cmd'.write
          BY <1>1, <3>0, <5>1
        <5>3. spc'[s] = "writes" => (spc[s] = "writes" /\ hdr'[s] = hdr[s]) \/ hdr'[s] = cmd
          BY SubmissionsAre
        <5>4. QED
          BY <3>1, <3>2, <4>1, <5>1, <5>2, <5>3
      <4>2. CASE /\ Publish(s) /\ served'[s] = told[s].stamp
                 /\ cmd'.write = hdr[s].write + 1 /\ spc'[s] \in {"append", "idle"}
        <5>1. ready.cmd.write <= hdr[s].write
          BY <3>1, <3>2, <4>2 DEF Publish
        <5>2. QED
          BY <1>1, <4>2, <5>1
      <4>3. QED
        BY <4>1, <4>2, SubmissionsAre
    <3>3. ASSUME spc'[s] = "publish", told'[s].stamp = ready.stamp
          PROVE  ready.cmd.write <= hdr'[s].write
      <4>1. \/ spc[s] = "publish" /\ hdr'[s] = hdr[s] /\ told'[s] = told[s]
            \/ hdr'[s] = cmd
        BY <3>3, SubmissionsAre
      <4>2. QED
        BY <3>0, <3>1, <3>3, <4>1
    <3>4. QED
      BY <2>2, <3>2, <3>3
  <2>3. QED
    BY <2>1, <2>2
<1>6. QED
  BY <1>0, <1>3, <1>4, <1>5 DEF AppendsOutdate

LEMMA PacedStep ==
  ASSUME BridgeInv, [Next]_vars, NEW s \in Submitters
  PROVE  Paced(s)'
<1>0. BridgeTypeOK /\ AppendsOutdate /\ StampsArePast /\ Paced(s)
  BY DEF BridgeInv
<1>1. /\ ready.stamp \in Nat /\ told[s].stamp \in Nat /\ served[s] \in Nat /\ lost \in Nat
      /\ ready.cmd.write \in Nat /\ hdr[s].write \in Nat
      /\ told[s].stamp <= ready.stamp /\ served[s] <= ready.stamp
  BY <1>0, CountersTyped DEF StampsArePast, BridgeTypeOK
<1>2. CASE WritesAgree(s) /\ UNCHANGED <<ready, lost>> /\ told'[s].stamp = ready.stamp
           /\ served'[s] = served[s]
  <2>1. spc[s] = "writes" /\ ready.cmd.write = hdr[s].write
    BY <1>2 DEF WritesAgree, SameWrites
  <2>2. lost < ready.stamp => served[s] # ready.stamp
    BY <1>0, <1>1, <2>1 DEF AppendsOutdate
  <2>3. QED
    BY <1>1, <1>2, <2>2 DEF Paced
<1>3. CASE /\ spc[s] \in {"reads", "heartbeat", "proof"}
           /\ told'[s].stamp = told[s].stamp /\ served'[s] = served[s]
  <2>1. told[s].stamp > served[s] \/ told[s].stamp <= lost
    BY <1>0, <1>3 DEF Paced
  <2>2. told[s].stamp <= lost => told[s].stamp <= lost'
    BY <1>1, FilesAre
  <2>3. QED
    BY <1>3, <2>1, <2>2 DEF Paced
<1>4. CASE spc'[s] \notin {"reads", "heartbeat", "proof"}
  BY <1>4 DEF Paced
<1>5. QED
  BY <1>2, <1>3, <1>4, SubmissionsAre

\* Beats of the past are of the past after a step.
LEMMA TimeStep ==
  ASSUME BridgeInv, [Next]_vars
  PROVE  /\ process' > 0 /\ starts' >= process'
         /\ Restarted => Restarted'
         /\ \A p, b \in Nat : Before(p, b) => Before(p, b)'
<1>0. BridgeTypeOK /\ BeatsGoUp
  BY DEF BridgeInv
<1>1. process \in Nat /\ starts \in Nat /\ beat \in Nat /\ process > 0 /\ starts >= process
  BY <1>0 DEF BridgeTypeOK, BeatsGoUp
<1>2. ASSUME UNCHANGED <<process, starts, beat>>,
             apc' \notin {"off", "sleep"} => apc \notin {"off", "sleep"}
      PROVE  /\ process' > 0 /\ starts' >= process' /\ (Restarted => Restarted')
             /\ \A p, b \in Nat : Before(p, b) => Before(p, b)'
  BY <1>1, <1>2 DEF Before, Restarted
<1>3. CASE Sleep
  <2>1. UNCHANGED <<process, starts>> /\ beat' = beat + 1
    BY <1>3 DEF Sleep
  <2>2. QED
    BY <1>1, <2>1 DEF Before, Restarted
<1>4. CASE Adapter /\ ~ Sleep
  <2>1. UNCHANGED <<process, starts, beat>> /\ apc \notin {"off", "sleep"}
    <3>1. CASE EnsureRead \/ EnsureWrite \/ EnsureRefused \/ ConsumeNothing \/ Consume
      BY <3>1 DEF EnsureRead, EnsureWrite, EnsureRefused, ConsumeNothing, Consume
    <3>2. CASE ReadRejected \/ Route \/ AckRead \/ AckRejected \/ AckWrite
      BY <3>2 DEF ReadRejected, Route, AckRead, AckRejected, AckWrite
    <3>3. CASE WriteReady \/ WriteReadyFails
      BY <3>3 DEF WriteReady, WriteReadyFails
    <3>4. QED
      BY <1>4, <3>1, <3>2, <3>3 DEF Adapter
  <2>2. QED
    BY <1>2, <2>1
<1>5. CASE Restart
  <2>1. process' = process /\ starts' = starts + 1
    BY <1>5 DEF Restart
  <2>2. QED
    BY <1>1, <2>1 DEF Before, Restarted
<1>6. CASE ProcessStarts
  <2>1. process' = process + 1 /\ starts' = starts + 1
    BY <1>6 DEF ProcessStarts
  <2>2. QED
    BY <1>1, <2>1 DEF Before, Restarted
<1>7. CASE Stop \/ ProcessDies \/ ReadyAges \/ UNCHANGED vars
  <2>1. UNCHANGED <<process, starts, beat>> /\ apc' \in {apc, "off"}
    BY <1>7 DEF Stop, ProcessDies, ReadyAges, vars, adapterVars
  <2>2. QED
    BY <1>2, <2>1
<1>8. ASSUME NEW s \in Submitters, Submit(s) PROVE UNCHANGED <<process, starts, beat, apc>>
  BY <1>8, SubmitFrame DEF adapterVars
<1>9. QED
  BY BridgeCases, <1>2, <1>3, <1>4, <1>5, <1>6, <1>7, <1>8 DEF Fate

\* The state file after a step: as it was, or with what a submitter has read.
LEMMA RecordedIs ==
  ASSUME BridgeInv, [Next]_vars
  PROVE  \/ recorded' = recorded
         \/ /\ ready' = ready /\ recorded'.stamp = ready.stamp
            /\ \E s \in Submitters : recorded'.pid = seen[s].pid /\ recorded'.beat = seen[s].beat
<1>1. CASE Adapter \/ Fate \/ UNCHANGED vars
  BY <1>1, AdapterFrame DEF submitterVars, vars
<1>2. ASSUME NEW s \in Submitters, Submit(s), ~ CheckHeartbeat(s) PROVE recorded' = recorded
  <2>1. CASE ReadReady(s) \/ ReadQueue(s) \/ WritesAgree(s) \/ ReadsAgree(s) \/ Admit(s)
    BY <2>1 DEF ReadReady, ReadQueue, WritesAgree, ReadsAgree, Admit
  <2>2. CASE AppendRead(s) \/ Publish(s) \/ Refused(s)
    BY <2>2 DEF AppendRead, Publish, Refused
  <2>3. QED
    BY <1>2, <2>1, <2>2, SubmitCases
<1>3. ASSUME NEW s \in Submitters, CheckHeartbeat(s)
      PROVE  \/ recorded' = recorded
             \/ /\ ready' = ready /\ recorded'.stamp = ready.stamp
                /\ recorded'.pid = seen[s].pid /\ recorded'.beat = seen[s].beat
  <2>1. seen[s] \in Heartbeats
    BY DEF BridgeInv, BridgeTypeOK
  <2>2. QED
    BY <1>3, <2>1 DEF CheckHeartbeat, readyVars, Heartbeats
<1>4. QED
  BY BridgeCases, <1>1, <1>2, <1>3

LEMMA BeatsStep ==
  ASSUME BridgeInv, [Next]_vars
  PROVE  BeatsGoUp'
<1>0. BridgeTypeOK /\ BeatsGoUp /\ Submitters' = Submitters
  BY BridgeCases DEF BridgeInv, Submitters
<1>1. /\ process \in Nat /\ starts \in Nat /\ beat \in Nat
      /\ ready.pid \in Nat /\ ready.beat \in Nat /\ ready.stamp \in Nat
      /\ recorded.pid \in Nat /\ recorded.beat \in Nat /\ recorded.stamp \in Nat
      /\ \A s \in Submitters : seen[s].pid \in Nat /\ seen[s].beat \in Nat
  BY <1>0, CountersTyped DEF BridgeTypeOK
<1>2. /\ process' > 0 /\ starts' >= process' /\ (Restarted => Restarted')
  BY TimeStep
<1> DEFINE Later(p, b) ==
      /\ p <= process'
      /\ ~ Restarted' /\ p = process' =>
           b <= beat' /\ (apc' \notin {"off", "sleep"} => b < beat')
<1>3. \A p, b \in Nat : Before(p, b) => Later(p, b)
  BY TimeStep DEF Before
<1>4. /\ Later(ready.pid, ready.beat) /\ Later(recorded.pid, recorded.beat)
      /\ \A s \in Submitters : Later(seen[s].pid, seen[s].beat)
  <2>1. /\ Before(ready.pid, ready.beat) /\ Before(recorded.pid, recorded.beat)
        /\ \A s \in Submitters : Before(seen[s].pid, seen[s].beat)
    BY <1>0 DEF BeatsGoUp, BeatsBefore
  <2> HIDE DEF Later
  <2>2. QED
    BY <1>1, <1>3, <2>1
<1>5. CASE WriteReady
  <2>1. /\ ready'.pid = process /\ ready'.beat = beat /\ apc = "ready" /\ apc' = "sleep"
        /\ UNCHANGED <<process, starts, beat, seen, recorded>>
    BY <1>5 DEF WriteReady, EndOfBeat, submitterVars
  <2>2. Later(ready'.pid, ready'.beat)
    BY <1>1, <2>1
  <2>3. ~ Restarted' /\ recorded'.pid = ready'.pid => ready'.beat > recorded'.beat
    <3>1. Restarted' <=> Restarted
      BY <2>1 DEF Restarted
    <3>2. ~ Restarted /\ recorded.pid = process => recorded.beat < beat
      BY <1>0, <2>1 DEF BeatsGoUp, BeatsBefore, Before
    <3>3. QED
      BY <1>1, <2>1, <3>1, <3>2
  <2>4. QED
    BY <1>0, <1>2, <1>4, <2>1, <2>2, <2>3 DEF BeatsGoUp, BeatsBefore, Before
<1>6. CASE ready' = ready
  <2>1. \A s \in Submitters : Later(seen'[s].pid, seen'[s].beat)
    <3>1. Later(NoHeartbeat.pid, NoHeartbeat.beat)
      BY <1>1, <1>2, BridgeTypeStep, NoFileTyped DEF BridgeTypeOK
    <3> HIDE DEF Later
    <3>2. QED
      BY <1>4, <3>1, SubmissionsAre
  <2>2. Later(recorded'.pid, recorded'.beat)
    <3> HIDE DEF Later
    <3>1. QED
      BY <1>4, RecordedIs
  <2>3. ~ Restarted' /\ recorded'.pid = ready'.pid /\ ready'.stamp > recorded'.stamp =>
          ready'.beat > recorded'.beat
    BY <1>0, <1>1, <1>2, <1>6, RecordedIs DEF BeatsGoUp
  <2>4. QED
    BY <1>0, <1>2, <1>4, <1>6, <2>1, <2>2, <2>3 DEF BeatsGoUp, BeatsBefore, Before
<1>7. QED
  BY <1>5, <1>6, FilesAre

-----------------------------------------------------------------------------
(* The bridge: theorems.                                                   *)

LEMMA BridgeInvariance == Spec => []BridgeInv
<1>1. BridgeInv /\ [Next]_vars => BridgeInv'
  <2> SUFFICES ASSUME BridgeInv, [Next]_vars PROVE BridgeInv'
    OBVIOUS
  <2>1. Submitters' = Submitters
    BY BridgeCases DEF Submitters
  <2>2. (\A s \in Submitters : Paced(s))'
    BY <2>1, PacedStep
  <2>3. QED
    BY <2>2, BridgeTypeStep, WindowsStep, StampsStep, OutdateStep, BeatsStep DEF BridgeInv
<1>2. QED
  BY BridgeInit, <1>1, PTL DEF Spec

\* Whatever is written back from old copies: every header of a resident queue, in its
\* file, in the ready file or in a copy, is a window within the capacity, and only an
\* acknowledgement within its window is written (RuntimeResidentBridge.cpp).
THEOREM QueuesKeepTheirBounds == Spec => [](BridgeTypeOK /\ WindowsFit)
<1>1. BridgeInv => BridgeTypeOK /\ WindowsFit
  BY DEF BridgeInv
<1>2. QED
  BY BridgeInvariance, <1>1, PTL

\* Who has appended anything passes the checks again only on a ready file that was
\* written since, unless an append was lost that the file tells of
\* (submitRuntimeCommands, without any lock).
THEOREM SubmittersArePaced == Spec => []OneBatchPerReady
<1>1. BridgeInv => OneBatchPerReady
  BY DEF BridgeInv, Paced, OneBatchPerReady
<1>2. QED
  BY BridgeInvariance, <1>1, PTL

\* Who has read the ready file last written is not told that the heartbeat stands
\* still, unless an adapter was started again in its process.
THEOREM FreshFilesPass == Spec => []FreshIsNotCalledStalled
<1>1. ASSUME BridgeInv, NEW s \in Submitters, Stalled(s), ~ Restarted,
             seen[s].stamp = ready.stamp
      PROVE  FALSE
  <2>1. seen[s].pid = ready.pid /\ seen[s].beat = ready.beat
    BY <1>1 DEF BridgeInv, StampsArePast
  <2>2. ready.beat > recorded.beat /\ ready.beat <= recorded.beat
    BY <1>1, <2>1 DEF Stalled, BridgeInv, BeatsGoUp
  <2>3. ready.beat \in Nat /\ recorded.beat \in Nat
    BY <1>1, CountersTyped DEF BridgeInv
  <2>4. QED
    BY <2>2, <2>3
<1>2. BridgeInv => FreshIsNotCalledStalled
  BY <1>1 DEF FreshIsNotCalledStalled
<1>3. QED
  BY BridgeInvariance, <1>2, PTL

-----------------------------------------------------------------------------
(* The bridge: a lone submitter.                                           *)

\* The copies the adapter is about to write back make the queue no longer, and that of
\* the submitter is no shorter than the queue.
CopiesAreLonger(s) ==
  /\ apc = "ensureWrite" => Queued(ahdr) <= Queued(cmd)
  /\ apc = "ackWrite" => ahdr.write - taken <= Queued(cmd)
  /\ spc[s] \in {"writes", "reads", "heartbeat", "proof", "publish"} =>
       Queued(cmd) <= Queued(hdr[s])

\* The comparison leaves the submitter with a copy of what the ready file tells.
ToldAgrees(s) ==
  /\ spc[s] \in {"reads", "heartbeat", "proof"} => told[s].write = hdr[s].write
  /\ spc[s] \in {"heartbeat", "proof"} => told[s].read = hdr[s].read

\* There is room for what is left of the batch.
RoomForTheRest(s) ==
  /\ spc[s] \in {"append", "publish"} => left[s] > 0
  /\ fits[s] /\ spc[s] = "append" => Queued(cmd) + left[s] <= Capacity
  /\ fits[s] /\ spc[s] = "publish" => Queued(hdr[s]) + left[s] <= Capacity

PromiseInv(s) == CopiesAreLonger(s) /\ ToldAgrees(s) /\ RoomForTheRest(s)

LEMMA PromiseInit ==
  ASSUME Init, NEW s \in Submitters PROVE PromiseInv(s)
<1>1. spc[s] = "idle" /\ apc = "ensure"
  BY DEF Init
<1>2. QED
  BY <1>1 DEF PromiseInv, CopiesAreLonger, ToldAgrees, RoomForTheRest

\* The adapter never makes the queue longer.
LEMMA AdapterKeepsPromise ==
  ASSUME BridgeInv, NEW s \in Submitters, PromiseInv(s), setting' = setting,
         Adapter \/ Fate
  PROVE  PromiseInv(s)'
<1>0. BridgeTypeOK /\ WindowsFit /\ UNCHANGED <<spc, hdr, told, left, fits>> /\ Capacity' = Capacity
  BY AdapterFrame DEF BridgeInv, submitterVars, Capacity
<1>1. /\ cmd \in Headers /\ ahdr \in Headers /\ taken \in Nat /\ hdr[s] \in Headers
      /\ Queued(cmd) \in Int /\ Queued(ahdr) \in Int /\ Queued(hdr[s]) \in Int
      /\ left[s] \in Nat /\ Capacity \in Nat
  BY <1>0, CapacityTyped DEF BridgeTypeOK, Headers, Queued
<1>2. ASSUME Queued(cmd') \in Int, Queued(cmd') <= Queued(cmd),
             apc' = "ensureWrite" => Queued(ahdr') <= Queued(cmd'),
             apc' = "ackWrite" => ahdr'.write - taken' <= Queued(cmd')
      PROVE  PromiseInv(s)'
  <2>1. spc[s] \in {"writes", "reads", "heartbeat", "proof", "publish"} =>
          Queued(cmd') <= Queued(hdr[s])
    BY <1>1, <1>2 DEF PromiseInv, CopiesAreLonger
  <2>2. fits[s] /\ spc[s] = "append" => Queued(cmd') + left[s] <= Capacity
    BY <1>1, <1>2 DEF PromiseInv, RoomForTheRest
  <2>3. CopiesAreLonger(s)'
    BY <1>0, <1>2, <2>1 DEF CopiesAreLonger, Queued
  <2>4. ToldAgrees(s)'
    BY <1>0 DEF PromiseInv, ToldAgrees
  <2>5. RoomForTheRest(s)'
    BY <1>0, <2>2 DEF PromiseInv, RoomForTheRest, Queued
  <2>6. QED
    BY <2>3, <2>4, <2>5 DEF PromiseInv
<1>3. CASE EnsureRead
  <2>1. cmd' = cmd /\ ahdr'.read = cmd.read /\ ahdr'.write = cmd.write /\ apc' = "ensureWrite"
    BY <1>1, <1>3 DEF EnsureRead, queueVars, Headers
  <2>2. QED
    BY <1>1, <1>2, <2>1 DEF Queued
<1>4. CASE EnsureWrite
  <2>1. cmd' = ahdr /\ apc = "ensureWrite" /\ apc' = "consume"
    BY <1>4 DEF EnsureWrite, WriteHeader
  <2>2. QED
    BY <1>1, <1>2, <2>1 DEF PromiseInv, CopiesAreLonger
<1>5. CASE AckRead
  <2>1. cmd' = cmd /\ ahdr' = cmd /\ taken' = taken /\ cmd.read <= taken /\ apc' = "ackWrite"
    BY <1>1, <1>5 DEF AckRead, queueVars, Headers
  <2>2. ahdr'.write - taken' <= Queued(cmd')
    BY <1>1, <2>1 DEF Headers, Queued
  <2>3. QED
    BY <1>1, <1>2, <2>1, <2>2
<1>6. CASE AckWrite
  <2>1. /\ cmd'.read = taken /\ cmd'.write = ahdr.write /\ apc = "ackWrite" /\ apc' = "ready"
    BY <1>1, <1>6 DEF AckWrite, WriteHeader, Headers
  <2>2. Queued(cmd') = ahdr.write - taken /\ Queued(cmd') \in Int
    BY <1>1, <2>1 DEF Queued, Headers
  <2>3. Queued(cmd') <= Queued(cmd)
    BY <2>1, <2>2 DEF PromiseInv, CopiesAreLonger
  <2>4. QED
    BY <1>2, <2>1, <2>2, <2>3
<1>7. CASE EnsureRefused \/ ConsumeNothing \/ Consume \/ ReadRejected \/ Route \/ AckRejected
  <2>1. cmd' = cmd /\ apc' \notin {"ensureWrite", "ackWrite"}
    BY <1>7 DEF EnsureRefused, ConsumeNothing, Consume, ReadRejected, Route, AckRejected,
       queueVars
  <2>2. QED
    BY <1>1, <1>2, <2>1
<1>8. CASE WriteReady \/ WriteReadyFails \/ Sleep
  <2>1. cmd' = cmd /\ apc' \notin {"ensureWrite", "ackWrite"}
    BY <1>8 DEF WriteReady, WriteReadyFails, Sleep, EndOfBeat, queueVars
  <2>2. QED
    BY <1>1, <1>2, <2>1
<1>9. CASE Fate
  <2>1. cmd' = cmd /\ (apc' \notin {"ensureWrite", "ackWrite"} \/ UNCHANGED <<apc, ahdr, taken>>)
    BY <1>9 DEF Fate, Stop, Restart, ProcessDies, ProcessStarts, ReadyAges, adapterVars,
       queueVars
  <2>2. QED
    BY <1>1, <1>2, <2>1 DEF PromiseInv, CopiesAreLonger
<1>10. QED
  BY <1>3, <1>4, <1>5, <1>6, <1>7, <1>8, <1>9 DEF Adapter

\* Neither does the submitter, but by what it announced.
LEMMA SubmitterKeepsPromise ==
  ASSUME BridgeInv, NEW s \in Submitters, PromiseInv(s), setting' = setting, Submit(s)
  PROVE  PromiseInv(s)'
<1>0. /\ BridgeTypeOK /\ WindowsFit /\ UNCHANGED <<apc, ahdr, taken>> /\ Capacity' = Capacity
  BY SubmitFrame DEF BridgeInv, adapterVars, Capacity
<1>1. /\ cmd \in Headers /\ ahdr \in Headers /\ taken \in Nat /\ hdr[s] \in Headers
      /\ Queued(cmd) \in Int /\ Queued(ahdr) \in Int /\ Queued(hdr[s]) \in Int
      /\ ahdr.write - taken \in Int
      /\ left[s] \in Nat /\ Capacity \in Nat /\ told[s] \in Tellings
  BY <1>0, CapacityTyped DEF BridgeTypeOK, Headers, Queued
<1>2. CASE ReadReady(s)
  <2>1. spc'[s] = "queues" /\ cmd' = cmd
    BY <1>0, <1>2 DEF ReadReady, BridgeTypeOK, queueVars
  <2>2. QED
    BY <1>0, <2>1 DEF PromiseInv, CopiesAreLonger, ToldAgrees, RoomForTheRest, Queued
<1>3. CASE ReadQueue(s)
  <2>1. spc'[s] = "writes" /\ cmd' = cmd /\ hdr'[s] = cmd
    BY <1>0, <1>3 DEF ReadQueue, BridgeTypeOK, queueVars
  <2>2. CopiesAreLonger(s)'
    BY <1>0, <1>1, <2>1 DEF PromiseInv, CopiesAreLonger, Queued
  <2>3. QED
    BY <2>1, <2>2 DEF PromiseInv, ToldAgrees, RoomForTheRest
<1>4. CASE WritesAgree(s)
  <2>1. /\ spc[s] = "writes" /\ spc'[s] = "reads" /\ cmd' = cmd /\ hdr' = hdr
        /\ told'[s].write = hdr[s].write
    BY <1>0, <1>4 DEF WritesAgree, SameWrites, BridgeTypeOK, queueVars
  <2>2. CopiesAreLonger(s)'
    BY <1>0, <2>1 DEF PromiseInv, CopiesAreLonger, Queued
  <2>3. QED
    BY <2>1, <2>2 DEF PromiseInv, ToldAgrees, RoomForTheRest
<1>5. CASE ReadsAgree(s)
  <2>1. /\ spc[s] = "reads" /\ spc'[s] = "heartbeat" /\ cmd' = cmd /\ hdr' = hdr
        /\ ready.cmd.read = hdr[s].read
        /\ told' = [told EXCEPT ![s] = [told[s] EXCEPT !.read = ready.cmd.read]]
    BY <1>0, <1>5 DEF ReadsAgree, SameReads, BridgeTypeOK, queueVars
  <2>2. told'[s] = [told[s] EXCEPT !.read = ready.cmd.read]
    BY <1>0, <2>1 DEF BridgeTypeOK
  <2>3. told'[s].read = hdr[s].read /\ told'[s].write = told[s].write
    BY <1>1, <2>1, <2>2 DEF Tellings
  <2>4. CopiesAreLonger(s)'
    BY <1>0, <2>1 DEF PromiseInv, CopiesAreLonger, Queued
  <2>5. QED
    BY <2>1, <2>3, <2>4 DEF PromiseInv, ToldAgrees, RoomForTheRest
<1>6. CASE CheckHeartbeat(s)
  <2>1. spc[s] = "heartbeat" /\ spc'[s] = "proof" /\ cmd' = cmd /\ hdr' = hdr /\ told' = told
    BY <1>0, <1>6 DEF CheckHeartbeat, BridgeTypeOK, queueVars
  <2>2. CopiesAreLonger(s)'
    BY <1>0, <2>1 DEF PromiseInv, CopiesAreLonger, Queued
  <2>3. QED
    BY <2>1, <2>2 DEF PromiseInv, ToldAgrees, RoomForTheRest
<1>7. CASE Admit(s)
  <2>1. PICK n \in 1 .. BatchSize[s] :
          /\ left' = [left EXCEPT ![s] = n]
          /\ fits' = [fits EXCEPT ![s] = Queued(told[s]) + n <= Capacity]
    BY <1>7 DEF Admit
  <2>2. spc[s] = "proof" /\ spc'[s] = "append" /\ cmd' = cmd /\ hdr' = hdr
    BY <1>0, <1>7 DEF Admit, BridgeTypeOK, queueVars
  <2>3. BatchSize[s] \in Nat
    BY <1>0, SettingsAssumption DEF BridgeTypeOK, BatchSize, Submitters
  <2>4. left'[s] = n /\ n \in Nat /\ n > 0
    BY <1>0, <2>1, <2>3 DEF BridgeTypeOK
  <2>5. fits'[s] = (Queued(told[s]) + n <= Capacity)
    <3>1. s \in DOMAIN fits
      BY <1>0, Zenon DEF BridgeTypeOK
    <3>2. QED
      BY <2>1, <3>1, Zenon
  <2>6. Queued(told[s]) = Queued(hdr[s]) /\ Queued(cmd) <= Queued(hdr[s])
    BY <2>2 DEF PromiseInv, ToldAgrees, CopiesAreLonger, Queued
  <2>7. ASSUME fits'[s] PROVE Queued(cmd) + left'[s] <= Capacity
    <3>1. Queued(told[s]) + n <= Capacity
      BY <2>7, <2>5, Zenon
    <3>2. QED
      BY <1>1, <2>4, <2>6, <3>1
  <2>8. CopiesAreLonger(s)'
    BY <1>0, <2>2 DEF PromiseInv, CopiesAreLonger, Queued
  <2>9. RoomForTheRest(s)'
    BY <1>0, <2>2, <2>4, <2>7 DEF RoomForTheRest, Queued
  <2>10. QED
    BY <2>2, <2>8, <2>9 DEF PromiseInv, ToldAgrees
<1>8. CASE AppendRead(s)
  <2>1. /\ spc[s] = "append" /\ spc'[s] = "publish" /\ cmd' = cmd /\ hdr'[s] = cmd
        /\ left' = left /\ fits' = fits
    BY <1>0, <1>8 DEF AppendRead, BridgeTypeOK, queueVars
  <2>2. CopiesAreLonger(s)'
    BY <1>0, <1>1, <2>1 DEF PromiseInv, CopiesAreLonger, Queued
  <2>3. RoomForTheRest(s)'
    BY <1>0, <2>1 DEF PromiseInv, RoomForTheRest, Queued
  <2>4. QED
    BY <2>1, <2>2, <2>3 DEF PromiseInv, ToldAgrees
<1>9. CASE Publish(s)
  <2>1. spc[s] = "publish" /\ cmd'.read = hdr[s].read /\ cmd'.write = hdr[s].write + 1
    BY <1>1, <1>9 DEF Publish, WriteHeader, Headers
  <2>2. Queued(cmd') = Queued(hdr[s]) + 1 /\ Queued(cmd) <= Queued(hdr[s])
    BY <1>1, <2>1 DEF PromiseInv, CopiesAreLonger, Queued, Headers
  <2>3. spc'[s] \in {"append", "idle"}
    BY <1>0, <1>9 DEF Publish, Leave, BridgeTypeOK
  <2>4. /\ apc = "ensureWrite" => Queued(ahdr) <= Queued(cmd')
        /\ apc = "ackWrite" => ahdr.write - taken <= Queued(cmd')
    BY <1>1, <2>2 DEF PromiseInv, CopiesAreLonger
  <2>5. CopiesAreLonger(s)'
    BY <1>0, <2>3, <2>4 DEF CopiesAreLonger, Queued
  <2>6. spc'[s] = "append" => left'[s] = left[s] - 1 /\ left[s] > 1 /\ fits' = fits
    <3>1. CASE Leave(s)
      BY <1>0, <3>1 DEF Leave, BridgeTypeOK
    <3>2. CASE left[s] > 1 /\ left' = [left EXCEPT ![s] = @ - 1] /\ fits' = fits
      BY <1>0, <3>2 DEF BridgeTypeOK
    <3>3. QED
      BY <1>9, <3>1, <3>2 DEF Publish
  <2>7. fits[s] => Queued(hdr[s]) + left[s] <= Capacity
    BY <2>1 DEF PromiseInv, RoomForTheRest
  <2>8. spc'[s] = "append" =>
          left'[s] > 0 /\ (fits'[s] => Queued(cmd') + left'[s] <= Capacity)
    BY <1>1, <2>2, <2>6, <2>7
  <2>9. RoomForTheRest(s)'
    BY <1>0, <2>3, <2>8 DEF RoomForTheRest, Queued
  <2>10. QED
    BY <2>3, <2>5, <2>9 DEF PromiseInv, ToldAgrees
<1>10. CASE Refused(s)
  <2>1. spc'[s] = "idle" /\ cmd' = cmd
    BY <1>0, <1>10 DEF Refused, Leave, BridgeTypeOK, queueVars
  <2>2. QED
    BY <1>0, <2>1 DEF PromiseInv, CopiesAreLonger, ToldAgrees, RoomForTheRest, Queued
<1>11. QED
  BY <1>2, <1>3, <1>4, <1>5, <1>6, <1>7, <1>8, <1>9, <1>10, SubmitCases

\* A lone submitter is never cut short in a batch that the ready file it passed on
\* left room for: whatever the adapter writes back from old copies, rejects or leaves
\* unread, and whatever threads and processes of it come and go
\* (submitResidentRuntimeCommands).
THEOREM NoBatchIsCutShort == Spec => []NobodyIsCutShort
<1> DEFINE Promises == \A s \in Submitters : Submitters = {s} => PromiseInv(s)
<1>1. Init => Promises
  BY PromiseInit
<1>2. BridgeInv /\ Promises /\ [Next]_vars => Promises'
  <2> SUFFICES ASSUME BridgeInv, Promises, [Next]_vars PROVE Promises'
    OBVIOUS
  <2>1. setting' = setting /\ Submitters' = Submitters
    BY BridgeCases DEF Submitters
  <2>2. ASSUME NEW s \in Submitters, Submitters = {s} PROVE PromiseInv(s)'
    <3>1. PromiseInv(s)
      BY <2>2
    <3>2. CASE UNCHANGED vars
      <4>1. UNCHANGED <<setting, apc, ahdr, taken, cmd, spc, hdr, told, left, fits>>
        BY <3>2 DEF vars, adapterVars, queueVars, submitterVars
      <4>2. QED
        BY <3>1, <4>1 DEF PromiseInv, CopiesAreLonger, ToldAgrees, RoomForTheRest, Queued,
           Capacity
    <3>3. CASE Adapter \/ Fate
      BY <2>1, <3>1, <3>3, AdapterKeepsPromise
    <3>4. ASSUME NEW t \in Submitters, Submit(t) PROVE PromiseInv(s)'
      <4>1. t = s
        BY <2>2
      <4>2. QED
        BY <2>1, <3>1, <3>4, <4>1, SubmitterKeepsPromise
    <3>5. QED
      BY <3>2, <3>3, <3>4, BridgeCases
  <2>3. QED
    BY <2>1, <2>2
<1>3. BridgeInv /\ Promises => NobodyIsCutShort
  <2> SUFFICES ASSUME BridgeInv, Promises, NEW s \in Submitters, Submitters = {s},
                      spc[s] = "append", fits[s]
               PROVE  Queued(cmd) < Capacity
    BY DEF NobodyIsCutShort
  <2>1. Queued(cmd) + left[s] <= Capacity /\ left[s] > 0
    BY DEF PromiseInv, RoomForTheRest
  <2>2. Queued(cmd) \in Int /\ left[s] \in Nat /\ Capacity \in Nat
    BY CapacityTyped, CountersTyped DEF BridgeInv, BridgeTypeOK, Queued
  <2>3. QED
    BY <2>1, <2>2
<1>4. QED
  BY <1>1, <1>2, <1>3, BridgeInvariance, PTL DEF Spec

-----------------------------------------------------------------------------
(* The direct sink.                                                        *)

USE DirectAssumption DEF Actors, Game

\* The memory after a copy: the bytes of the call behind the first n, and
\* the first n as they were.
LEMMA CopyPlaces ==
  ASSUME DirectTypeOK, NEW a \in Actors, NEW n \in 0 .. BufferSize,
         cells' = WithBytesAt(n, a), UNCHANGED <<size, calls>>
  PROVE  /\ cells' \in [Memory -> AllBytes]
         /\ \A i \in 1 .. n : cells'[i] = cells[i]
         /\ \A k \in 1 .. size[a] : cells'[n + k] = Byte(a, k)'
<1> USE DEF DirectTypeOK, Memory
<1>1. size[a] \in 0 .. BufferSize /\ calls[a] \in Nat /\ BufferSize \in Nat
  OBVIOUS
<1>2. \A k \in 1 .. size[a] : Byte(a, k) \in AllBytes
  BY <1>1 DEF Byte, AllBytes
<1>3. \A i \in Memory : i \in n + 1 .. n + size[a] => i - n \in 1 .. size[a]
  BY <1>1
<1>4. cells' \in [Memory -> AllBytes]
  BY <1>2, <1>3 DEF WithBytesAt
<1>5. \A i \in 1 .. n : cells'[i] = cells[i]
  BY <1>1 DEF WithBytesAt
<1>6. ASSUME NEW k \in 1 .. size[a] PROVE cells'[n + k] = Byte(a, k)'
  <2>1. n + k \in Memory /\ n + k \in n + 1 .. n + size[a] /\ (n + k) - n = k
    BY <1>1
  <2>2. cells'[n + k] = Byte(a, k)
    BY <2>1 DEF WithBytesAt
  <2> QED
    BY <2>2 DEF Byte
<1> QED
  BY <1>4, <1>5, <1>6

\* What is accepted grows by the bytes of a call.
LEMMA BytesAppended ==
  ASSUME DirectTypeOK, NEW a \in Actors, accepted' = accepted \o Bytes(a)
  PROVE  /\ accepted' \in Seq(AllBytes)
         /\ Len(accepted') = Len(accepted) + size[a]
         /\ \A i \in 1 .. Len(accepted) : accepted'[i] = accepted[i]
         /\ \A k \in 1 .. size[a] : accepted'[Len(accepted) + k] = Byte(a, k)
<1>1. size[a] \in 0 .. BufferSize /\ calls[a] \in Nat /\ accepted \in Seq(AllBytes)
  BY DEF DirectTypeOK
<1>2. \A k \in 1 .. size[a] : Byte(a, k) \in AllBytes
  BY <1>1 DEF Byte, AllBytes
<1>3. /\ Bytes(a) \in Seq(AllBytes) /\ Len(Bytes(a)) = size[a]
      /\ \A k \in 1 .. size[a] : Bytes(a)[k] = Byte(a, k)
  BY <1>1, <1>2 DEF Bytes
<1>4. /\ accepted' \in Seq(AllBytes)
      /\ Len(accepted') = Len(accepted) + size[a]
      /\ \A i \in 1 .. Len(accepted) + size[a] :
           accepted'[i] = IF i <= Len(accepted) THEN accepted[i]
                                                ELSE Bytes(a)[i - Len(accepted)]
  BY <1>1, <1>3, ConcatProperties
<1>5. \A i \in 1 .. Len(accepted) : accepted'[i] = accepted[i]
  BY <1>1, <1>4
<1>6. ASSUME NEW k \in 1 .. size[a] PROVE accepted'[Len(accepted) + k] = Byte(a, k)
  <2>1. accepted'[Len(accepted) + k] = Bytes(a)[k]
    BY <1>1, <1>4
  <2> QED
    BY <2>1, <1>3
<1> QED
  BY <1>4, <1>5, <1>6

\* The initial state satisfies the inductive invariant.
LEMMA DirectInitInv == DirectInit => DirectInv
<1> SUFFICES ASSUME DirectInit PROVE DirectInv
  OBVIOUS
<1> USE DEF DirectInit
<1>1. DirectTypeOK
  <2>1. cells \in [Memory -> AllBytes]
    BY DEF AllBytes, Zero
  <2>2. << >> \in Seq(AllBytes)
    OBVIOUS
  <2>3. count \in 0 .. 2 * BufferSize
    OBVIOUS
  <2>4. /\ wpc \in [Actors -> {"idle", "bytes", "readback", "count", "copy", "add"}]
        /\ used \in [Writers -> 0 .. BufferSize]
        /\ size \in [Actors -> 0 .. BufferSize]
        /\ calls \in [Actors -> Nat]
    OBVIOUS
  <2> HIDE DEF DirectInit
  <2> QED
    BY <2>1, <2>2, <2>3, <2>4 DEF DirectTypeOK, DirectInit
<1>2. CallsFit
  BY DEF CallsFit, Writing, Queueing
<1>3. Alone
  BY DEF Alone, Writing, Queueing
<1>4. TurnIsWhole
  BY DEF TurnIsWhole
<1> QED
  BY <1>1, <1>2, <1>3, <1>4 DEF DirectInv

-----------------------------------------------------------------------------
(* Every step keeps it.                                                    *)

LEMMA ReadCountInv ==
  ASSUME DirectInv, NEW w \in Writers, NEW n \in Lengths, ReadCount(w, n)
  PROVE  DirectInv'
<1> USE DEF ReadCount, Begin, SinkHasRoom, DirectInv
<1>1. n \in 1 .. BufferSize /\ w # Game
  OBVIOUS
<1>2. DirectTypeOK'
  BY <1>1 DEF DirectTypeOK, AllBytes
<1>3. CallsFit'
  BY <1>1 DEF CallsFit, DirectTypeOK, Writing, Queueing
<1>4. ~overlapped' => ~overlapped /\ \A b \in Actors \ {w} : wpc[b] = "idle"
  BY DEF Busy
<1>5. Alone'
  BY <1>1, <1>4 DEF Alone, Busy, DirectTypeOK, Writing, Queueing
<1>6. TurnIsWhole'
  BY <1>4 DEF TurnIsWhole
<1> QED
  BY <1>2, <1>3, <1>5, <1>6

LEMMA WriteBytesInv ==
  ASSUME DirectInv, NEW w \in Writers, WriteBytes(w)
  PROVE  DirectInv'
<1> USE DEF WriteBytes, DirectInv
<1>1. used[w] \in 0 .. BufferSize /\ w # Game
  BY DEF DirectTypeOK
<1>2. /\ cells' \in [Memory -> AllBytes]
      /\ \A i \in 1 .. used[w] : cells'[i] = cells[i]
  BY <1>1, CopyPlaces
<1>3. DirectTypeOK'
  BY <1>2 DEF DirectTypeOK
<1>4. CallsFit'
  BY <1>1 DEF CallsFit, DirectTypeOK, Writing, Queueing
<1>5. ~overlapped' => \A b \in Actors \ {w} : wpc[b] = "idle"
  BY DEF Alone, Busy
<1>6. Alone'
  BY <1>1, <1>5 DEF Alone, Busy, DirectTypeOK, Writing, Queueing
<1>7. TurnIsWhole'
  BY <1>2 DEF TurnIsWhole, Alone, Writing
<1> QED
  BY <1>3, <1>4, <1>6, <1>7

LEMMA ReadBackInv ==
  ASSUME DirectInv, NEW w \in Writers, ReadBack(w)
  PROVE  DirectInv'
<1> USE DEF ReadBack, DirectInv
<1>1. w # Game /\ wpc' \in [Actors -> {"idle", "bytes", "readback", "count", "copy", "add"}]
  BY DEF DirectTypeOK
<1>2. DirectTypeOK'
  BY <1>1 DEF DirectTypeOK
<1>3. CallsFit'
  BY <1>1 DEF CallsFit, DirectTypeOK, Writing, Queueing
<1>4. InPlace(w)'
  BY DEF InPlace, Byte
<1>5. ~overlapped' => \A b \in Actors \ {w} : wpc[b] = "idle"
  BY DEF Alone, Busy
<1>6. Alone'
  BY <1>1, <1>4, <1>5 DEF Alone, Busy, DirectTypeOK, Writing, Queueing
<1>7. TurnIsWhole'
  BY DEF TurnIsWhole
<1> QED
  BY <1>2, <1>3, <1>6, <1>7

\* A submission that ends without having written the count.
LEMMA EndedInv ==
  ASSUME DirectInv, NEW w \in Writers,
         wpc' = [wpc EXCEPT ![w] = "idle"],
         UNCHANGED <<cells, count, used, size, calls, accepted, overlapped>>
  PROVE  DirectInv'
<1> USE DEF DirectInv
<1>1. w # Game
  OBVIOUS
<1>2. DirectTypeOK'
  BY DEF DirectTypeOK
<1>3. CallsFit'
  BY <1>1 DEF CallsFit, DirectTypeOK, Writing, Queueing
<1>4. \A b \in Actors : wpc'[b] # "idle" => wpc[b] # "idle" /\ wpc'[b] = wpc[b]
  BY DEF DirectTypeOK
<1>5. \A b \in Writers : InPlace(b)' <=> InPlace(b)
  BY DEF InPlace, Byte
<1>6. Alone'
  BY <1>1, <1>4, <1>5 DEF Alone, Busy, DirectTypeOK, Writing, Queueing, Byte
<1>7. TurnIsWhole'
  BY DEF TurnIsWhole
<1> QED
  BY <1>2, <1>3, <1>6, <1>7

LEMMA WriteCountInv ==
  ASSUME DirectInv, NEW w \in Writers, WriteCount(w)
  PROVE  DirectInv'
<1> USE DEF WriteCount, DirectInv
<1>1. /\ w # Game /\ w \in Actors
      /\ used[w] \in 0 .. BufferSize /\ size[w] \in 0 .. BufferSize
      /\ used[w] + size[w] <= BufferSize /\ BufferSize \in Nat
  BY DEF DirectTypeOK, CallsFit, Writing
<1>2. /\ accepted' \in Seq(AllBytes)
      /\ Len(accepted') = Len(accepted) + size[w]
      /\ \A i \in 1 .. Len(accepted) : accepted'[i] = accepted[i]
      /\ \A k \in 1 .. size[w] : accepted'[Len(accepted) + k] = Byte(w, k)
  BY <1>1, BytesAppended
<1>3. count' \in 0 .. BufferSize
  BY <1>1
<1>4. DirectTypeOK'
  BY <1>2, <1>3, SMTT(30) DEF DirectTypeOK
<1>5. CallsFit'
  BY <1>1, <1>3 DEF CallsFit, DirectTypeOK, Writing, Queueing
<1>6. ~overlapped' => \A b \in Actors : wpc'[b] = "idle"
  BY <1>1 DEF Alone, Busy, DirectTypeOK
<1>7. Alone'
  BY <1>1, <1>6 DEF Alone, Busy, Writing, Queueing
<1>8. TurnIsWhole'
  <2> SUFFICES ASSUME ~overlapped'
               PROVE  /\ count' = Len(accepted') /\ count' <= BufferSize
                      /\ \A i \in 1 .. count' : cells'[i] = accepted'[i]
    BY DEF TurnIsWhole
  <2>1. /\ used[w] = count /\ InPlace(w) /\ count = Len(accepted)
        /\ \A i \in 1 .. count : cells[i] = accepted[i]
    BY DEF Alone, Writing, TurnIsWhole
  <2>2. count' = Len(accepted') /\ count' <= BufferSize
    BY <1>1, <1>2, <2>1
  <2>3. ASSUME NEW i \in 1 .. count' PROVE cells'[i] = accepted'[i]
    <3>1. CASE i <= count
      BY <1>1, <1>2, <2>1, <3>1
    <3>2. CASE i > count
      <4>1. i - count \in 1 .. size[w] /\ count + (i - count) = i
        BY <1>1, <2>1, <3>2
      <4>2. cells[i] = Byte(w, i - count) /\ accepted'[i] = Byte(w, i - count)
        BY <4>1, <2>1, <1>2 DEF InPlace
      <4> QED
        BY <4>2
    <3>3. i \in Nat /\ count \in Nat
      BY <1>1, <2>1
    <3> HIDE DEF WriteCount
    <3> QED
      BY <3>1, <3>2, <3>3
  <2> QED
    BY <2>2, <2>3
<1> QED
  BY <1>4, <1>5, <1>7, <1>8

LEMMA QueueInv ==
  ASSUME DirectInv, NEW n \in Lengths, QueueCommand(n)
  PROVE  DirectInv'
<1> USE DEF QueueCommand, Begin, GameHasRoom, MaxBuffer, DirectInv
<1>1. /\ n \in 1 .. BufferSize /\ count \in 0 .. 2 * BufferSize
      /\ BufferSize \in Nat /\ n + count <= BufferSize
  BY DEF DirectTypeOK
<1>2. DirectTypeOK'
  BY <1>1 DEF DirectTypeOK
<1>3. CallsFit'
  BY <1>1 DEF CallsFit, DirectTypeOK, Writing, Queueing
<1>4. ~overlapped' => ~overlapped /\ \A b \in Actors \ {Game} : wpc[b] = "idle"
  BY DEF Busy
<1>5. Alone'
  BY <1>1, <1>4 DEF Alone, Busy, DirectTypeOK, Writing, Queueing
<1>6. TurnIsWhole'
  BY <1>4 DEF TurnIsWhole
<1> QED
  BY <1>2, <1>3, <1>5, <1>6

LEMMA QueueWhenFullInv ==
  ASSUME DirectInv, NEW n \in Lengths, QueueWhenFull(n)
  PROVE  DirectInv'
<1> USE DEF QueueWhenFull, Sent, DirectInv
<1>1. n \in 1 .. BufferSize /\ BufferSize \in Nat
  OBVIOUS
<1>2. DirectTypeOK'
  BY <1>1 DEF DirectTypeOK, Busy
<1>3. CallsFit'
  BY <1>1 DEF CallsFit, DirectTypeOK, Writing, Queueing
<1>4. ~overlapped' => \A b \in Actors \ {Game} : wpc[b] = "idle"
  BY DEF Busy
<1>5. Alone'
  BY <1>1, <1>4 DEF Alone, Busy, DirectTypeOK, Writing, Queueing
<1>6. TurnIsWhole'
  BY <1>1 DEF TurnIsWhole
<1> QED
  BY <1>2, <1>3, <1>5, <1>6

LEMMA GameCopiesInv ==
  ASSUME DirectInv, GameCopies
  PROVE  DirectInv'
<1> USE DEF GameCopies, DirectInv
<1>1. Game \in Actors /\ count \in 0 .. BufferSize
  BY DEF DirectTypeOK, CallsFit, Queueing
<1>2. /\ cells' \in [Memory -> AllBytes]
      /\ \A i \in 1 .. count : cells'[i] = cells[i]
      /\ \A k \in 1 .. size[Game] : cells'[count + k] = Byte(Game, k)'
  BY <1>1, CopyPlaces
<1>3. DirectTypeOK'
  BY <1>2 DEF DirectTypeOK
<1>4. CallsFit'
  BY DEF CallsFit, DirectTypeOK, Writing, Queueing
<1>5. ~overlapped' => \A b \in Actors \ {Game} : wpc[b] = "idle"
  BY DEF Alone, Busy
<1>6. Alone'
  BY <1>1, <1>2, <1>5 DEF Alone, Busy, DirectTypeOK, Writing, Queueing
<1>7. TurnIsWhole'
  BY <1>2 DEF TurnIsWhole
<1> QED
  BY <1>3, <1>4, <1>6, <1>7

LEMMA GameAddsInv ==
  ASSUME DirectInv, GameAdds
  PROVE  DirectInv'
<1> USE DEF GameAdds, DirectInv
<1>1. /\ Game \in Actors /\ BufferSize \in Nat
      /\ count \in 0 .. BufferSize /\ size[Game] \in 0 .. BufferSize
  BY DEF DirectTypeOK, CallsFit, Queueing
<1>2. /\ accepted' \in Seq(AllBytes)
      /\ Len(accepted') = Len(accepted) + size[Game]
      /\ \A i \in 1 .. Len(accepted) : accepted'[i] = accepted[i]
      /\ \A k \in 1 .. size[Game] : accepted'[Len(accepted) + k] = Byte(Game, k)
  BY <1>1, BytesAppended
<1>3. count' \in 0 .. 2 * BufferSize
  BY <1>1
<1>4. DirectTypeOK'
  BY <1>2, <1>3 DEF DirectTypeOK
<1>5. CallsFit'
  BY <1>1 DEF CallsFit, DirectTypeOK, Writing, Queueing
<1>6. ~overlapped' => \A b \in Actors : wpc'[b] = "idle"
  BY <1>1 DEF Alone, Busy, DirectTypeOK
<1>7. Alone'
  BY <1>1, <1>6 DEF Alone, Busy, Writing, Queueing
<1>8. TurnIsWhole'
  <2> SUFFICES ASSUME ~overlapped'
               PROVE  /\ count' = Len(accepted') /\ count' <= BufferSize
                      /\ \A i \in 1 .. count' : cells'[i] = accepted'[i]
    BY DEF TurnIsWhole
  <2>1. /\ count = Len(accepted) /\ count + size[Game] <= BufferSize
        /\ \A i \in 1 .. count : cells[i] = accepted[i]
        /\ \A k \in 1 .. size[Game] : cells[count + k] = Byte(Game, k)
    BY DEF Alone, Queueing, TurnIsWhole
  <2>2. count' = Len(accepted') /\ count' <= BufferSize
    BY <1>1, <1>2, <2>1
  <2>3. ASSUME NEW i \in 1 .. count' PROVE cells'[i] = accepted'[i]
    <3>1. CASE i <= count
      BY <1>1, <1>2, <2>1, <3>1
    <3>2. CASE i > count
      <4>1. i - count \in 1 .. size[Game] /\ count + (i - count) = i
        BY <1>1, <3>2
      <4>2. cells[i] = Byte(Game, i - count) /\ accepted'[i] = Byte(Game, i - count)
        BY <4>1, <2>1, <1>2
      <4> QED
        BY <4>2
    <3>3. i \in Nat /\ count \in Nat
      BY <1>1
    <3> HIDE DEF GameAdds
    <3> QED
      BY <3>1, <3>2, <3>3
  <2> QED
    BY <2>2, <2>3
<1> QED
  BY <1>4, <1>5, <1>7, <1>8

LEMMA SendTurnInv ==
  ASSUME DirectInv, SendTurn
  PROVE  DirectInv'
<1> USE DEF SendTurn, Sent, DirectInv
<1>1. DirectTypeOK'
  BY DEF DirectTypeOK, Busy
<1>2. CallsFit'
  BY DEF CallsFit, Writing, Queueing
<1>3. ~overlapped' => \A b \in Actors : wpc[b] = "idle"
  BY DEF Busy
<1>4. Alone'
  BY <1>3 DEF Alone, Busy, Writing, Queueing
<1>5. TurnIsWhole'
  BY DEF TurnIsWhole
<1> QED
  BY <1>1, <1>2, <1>4, <1>5

LEMMA DirectNextInv == DirectInv /\ [DirectNext]_directVars => DirectInv'
<1> SUFFICES ASSUME DirectInv, [DirectNext]_directVars PROVE DirectInv'
  OBVIOUS
<1>1. CASE UNCHANGED directVars
  BY <1>1 DEF directVars, DirectInv, DirectTypeOK, CallsFit, Alone, TurnIsWhole,
              Writing, Queueing, Busy, InPlace, Byte
<1>2. CASE GameStep
  BY <1>2, QueueInv, QueueWhenFullInv, GameCopiesInv, GameAddsInv, SendTurnInv DEF GameStep
<1>3. ASSUME NEW w \in Writers, Write(w) PROVE DirectInv'
  <2>1. CASE ReadBackDiffers(w) \/ Abandon(w)
    BY <2>1, EndedInv DEF ReadBackDiffers, Abandon
  <2> QED
    BY <1>3, <2>1, ReadCountInv, WriteBytesInv, ReadBackInv, WriteCountInv DEF Write
<1> QED
  BY <1>1, <1>2, <1>3 DEF DirectNext

-----------------------------------------------------------------------------
\* What QueueGameCommand and submitDirectRuntimeCommands put into the turn
\* buffer without overlapping is what the game sends: whole, in order, within
\* the buffer, and nothing of a rejected submission with it.
THEOREM TurnsAreWhole == DirectSpec => []TurnIsWhole
<1>1. DirectInv => TurnIsWhole
  BY DEF DirectInv
<1> QED
  BY <1>1, DirectInitInv, DirectNextInv, PTL DEF DirectSpec
=============================================================================

--------------------------- MODULE ResidentBridge ---------------------------
(***************************************************************************)
(* The bridge between a submitter of commands and the adapter resident in  *)
(* the game: a directory with the command and overlay queues and the ready *)
(* file, in which the adapter describes itself and its queues.  Each beat  *)
(* the adapter claims its queues, consumes what was submitted and rewrites *)
(* the ready file (residentAdapterMain).  A submitter reads the ready      *)
(* file, compares it with the queues, checks that the heartbeat advances,  *)
(* and only then appends its commands, one by one (submitRuntimeCommands). *)
(* Nothing is locked: an operation reads the header of a queue in one step *)
(* and writes it back in another, and a submitter goes on reading the      *)
(* ready file while the adapter replaces it.  The slots of the records are *)
(* the subject of ResidentQueue.                                           *)
(***************************************************************************)
EXTENDS Naturals, FiniteSets

CONSTANT
  Settings       \* the installations looked at, records of what is named below

ASSUME SettingsAssumption ==
  \A x \in Settings :
    /\ IsFiniteSet(x.submitters)
    /\ x.capacity \in Nat \ {0} /\ x.batchSize \in [x.submitters -> Nat \ {0}]
    /\ {x.beats, x.processes, x.starts, x.batches} \subseteq Nat

VARIABLES
  setting,       \* the one that this is
  process,       \* id of the game process, 1, 2, ...
  alive,         \* that process is running
  running,       \* residentAdapterRunning
  apc,           \* what the adapter does, "off" when there is no thread
  beat,          \* heartbeat of the adapter thread
  starts,        \* adapter threads started so far
  cmd,           \* header of the command queue
  ovl,           \* header of the overlay queue
  ahdr,          \* the adapter's copy of the header of the command queue
  taken,         \* sequence after the last record consumeResidentCommandQueue read
  held,          \* the queue headers the adapter will put into the ready file
  ready,         \* the ready file
  aged,          \* it is older than maximumReadyFileAgeMs
  recorded,      \* the heartbeat state file of the submitters
  spc,           \* what each submitter does
  seen,          \* the adapter and its heartbeat, as each one read them
  hdr,           \* each one's copy of the header of the command queue
  left,          \* commands each submitter has yet to append
  batches,       \* submissions of each submitter that passed the checks
  told,          \* history: the command queue in the ready file it was compared with
  fits,          \* history: that queue had room for the batch being appended
  served,        \* history: stamp of the ready file of each one's last append
  lost           \* history: stamp of the last ready file that tells of a lost append

adapterVars   == <<process, alive, running, apc, beat, starts, ahdr, taken, held>>
queueVars     == <<cmd, ovl, lost>>
readyVars     == <<ready, aged>>
submitterVars == <<recorded, spc, seen, hdr, left, batches, told, fits, served>>
vars == <<setting, adapterVars, queueVars, readyVars, submitterVars>>

Submitters   == setting.submitters
Capacity     == setting.capacity    \* capacity_records of both queues
BatchSize    == setting.batchSize   \* bound: commands in each one's submission
MaxBeats     == setting.beats       \* bound: beats of one adapter thread
MaxProcesses == setting.processes   \* bound: game processes, one after another
MaxStarts    == setting.starts      \* bound: times an adapter thread is started
MaxBatches   == setting.batches     \* bound: submissions of one that pass

-----------------------------------------------------------------------------
MinimumHeartbeat == 2    \* RuntimeResidentBridgeValidationOptions

EmptyQueue == [read |-> 0, write |-> 0, beat |-> 0]
Queued(queue) == queue.write - queue.read

Nothing == [cmd |-> EmptyQueue, ovl |-> EmptyQueue]

\* No file.  A stamp stands for the modification time: it counts the writes.
NoFile == [pid |-> 0, beat |-> 0, stamp |-> 0, cmd |-> EmptyQueue, ovl |-> EmptyQueue]

NoHeartbeat == [pid |-> 0, beat |-> 0, stamp |-> 0]
ToldNothing == [stamp |-> 0, read |-> 0, write |-> 0]

Init ==
  /\ setting \in Settings
  /\ process = 1 /\ alive = TRUE
  /\ running = TRUE /\ apc = "ensure" /\ beat = 1 /\ starts = 1
  /\ cmd = EmptyQueue /\ ovl = EmptyQueue /\ lost = 0
  /\ ahdr = EmptyQueue /\ taken = 0 /\ held = Nothing
  /\ ready = NoFile /\ aged = FALSE
  /\ recorded = NoHeartbeat
  /\ spc = [s \in Submitters |-> "idle"]
  /\ seen = [s \in Submitters |-> NoHeartbeat]
  /\ hdr = [s \in Submitters |-> EmptyQueue]
  /\ told = [s \in Submitters |-> ToldNothing]
  /\ fits = [s \in Submitters |-> FALSE]
  /\ left = [s \in Submitters |-> 0]
  /\ batches = [s \in Submitters |-> 0]
  /\ served = [s \in Submitters |-> 0]

-----------------------------------------------------------------------------
(* The adapter: one iteration of residentAdapterMain.                      *)

\* The adapter already holds what the next ready file will tell of the queues.
Telling == apc \in {"consume", "route", "ack", "ackWrite", "ready"}

\* writeResidentQueueHeaderFile writes the whole header, from a copy.  When that takes
\* the write sequence back, an append is lost that the ready file may tell of, or the
\* next one if the adapter already holds what that will tell.
WriteHeader(header) ==
  /\ cmd' = header
  /\ lost' = IF header.write >= cmd.write THEN lost
             ELSE IF Telling THEN ready.stamp + 1 ELSE ready.stamp

\* ensureRuntimeResidentQueueFile takes the sequences from the header there is ...
EnsureRead ==
  /\ apc = "ensure" /\ beat >= MinimumHeartbeat
  /\ ahdr' = [cmd EXCEPT !.beat = beat]
  /\ apc' = "ensureWrite"
  /\ UNCHANGED <<process, alive, running, beat, starts, taken, held, queueVars,
                 readyVars, submitterVars>>

\* ... and writes them back.  Nobody else writes to the overlay queue.
EnsureWrite ==
  /\ apc = "ensureWrite"
  /\ WriteHeader(ahdr)
  /\ ovl' = [ovl EXCEPT !.beat = beat]
  /\ held' = [cmd |-> ahdr, ovl |-> ovl']
  /\ apc' = "consume"
  /\ UNCHANGED <<process, alive, running, beat, starts, ahdr, taken, readyVars,
                 submitterVars>>

\* A heartbeat below the minimum is refused: the iteration is skipped.
EnsureRefused ==
  /\ apc = "ensure" /\ beat < MinimumHeartbeat
  /\ apc' = "sleep"
  /\ UNCHANGED <<process, alive, running, beat, starts, ahdr, taken, held, queueVars,
                 readyVars, submitterVars>>

\* readRuntimeResidentQueueRecords.
ConsumeNothing ==
  /\ apc = "consume" /\ Queued(cmd) = 0
  /\ held' = [held EXCEPT !.cmd = cmd]
  /\ apc' = "ready"
  /\ UNCHANGED <<process, alive, running, beat, starts, ahdr, taken, queueVars,
                 readyVars, submitterVars>>

\* All that the queue holds is read: it has no more slots than a call may read.
Consume ==
  /\ apc = "consume" /\ Queued(cmd) > 0
  /\ ahdr' = cmd /\ taken' = cmd.write
  /\ apc' = "route"
  /\ UNCHANGED <<process, alive, running, beat, starts, held, queueVars, readyVars,
                 submitterVars>>

\* A slot does not hold the record announced, or not yet: nothing is consumed, and
\* the ready file will tell what ensure wrote.
ReadRejected ==
  /\ apc = "consume" /\ Queued(cmd) > 0
  /\ apc' = "ready"
  /\ UNCHANGED <<process, alive, running, beat, starts, ahdr, taken, held, queueVars,
                 readyVars, submitterVars>>

\* Any of the commands may be overlay actions.  Those go to the overlay queue, which
\* nothing drains, as long as there is room.  The overlay header the adapter holds is
\* not refreshed.
Room == Capacity - Queued(ovl)

Route ==
  /\ apc = "route"
  /\ \E n \in 0 .. Queued(ahdr) :
        ovl' = [ovl EXCEPT !.write = @ + (IF n <= Room THEN n ELSE Room)]
  /\ apc' = "ack"
  /\ UNCHANGED <<process, alive, running, beat, starts, ahdr, taken, held, cmd, lost,
                 readyVars, submitterVars>>

\* acknowledgeRuntimeResidentQueueRecords reads the header again ...
AckRead ==
  /\ apc = "ack" /\ taken \in cmd.read .. cmd.write
  /\ ahdr' = cmd
  /\ apc' = "ackWrite"
  /\ UNCHANGED <<process, alive, running, beat, starts, taken, held, queueVars,
                 readyVars, submitterVars>>

\* ... and what was read may be outside the window by now: it will be read again.
AckRejected ==
  /\ apc = "ack" /\ taken \notin cmd.read .. cmd.write
  /\ apc' = "ready"
  /\ UNCHANGED <<process, alive, running, beat, starts, ahdr, taken, held, queueVars,
                 readyVars, submitterVars>>

AckWrite ==
  /\ apc = "ackWrite"
  /\ WriteHeader([ahdr EXCEPT !.read = taken])
  /\ held' = [held EXCEPT !.cmd = cmd']
  /\ apc' = "ready"
  /\ UNCHANGED <<process, alive, running, beat, starts, ahdr, taken, ovl, readyVars,
                 submitterVars>>

\* The iteration is over.
EndOfBeat == apc' = "sleep" /\ ahdr' = EmptyQueue /\ taken' = 0 /\ held' = Nothing

\* writeReadyFile: ready.tmp, renamed over the ready file.
WriteReady ==
  /\ apc = "ready"
  /\ ready' = [pid |-> process, beat |-> beat, stamp |-> ready.stamp + 1,
               cmd |-> held.cmd, ovl |-> held.ovl]
  /\ aged' = FALSE
  /\ EndOfBeat
  /\ UNCHANGED <<process, alive, running, beat, starts, queueVars, submitterVars>>

\* The temporary file cannot be written: the old ready file stays.
WriteReadyFails ==
  /\ apc = "ready"
  /\ EndOfBeat
  /\ UNCHANGED <<process, alive, running, beat, starts, queueVars, readyVars,
                 submitterVars>>

\* A second of sleep, and the test of the loop.
Sleep ==
  /\ apc = "sleep" /\ (running => beat < MaxBeats)
  /\ beat' = beat + 1
  /\ apc' = IF running THEN "ensure" ELSE "off"
  /\ UNCHANGED <<process, alive, running, starts, ahdr, taken, held, queueVars,
                 readyVars, submitterVars>>

-----------------------------------------------------------------------------
(* What happens to the adapter.                                            *)

\* stopResidentAdapter; it waits for the thread to end.
Stop ==
  /\ alive /\ running
  /\ running' = FALSE
  /\ UNCHANGED <<process, alive, apc, beat, starts, ahdr, taken, held, queueVars,
                 readyVars, submitterVars>>

\* startResidentAdapter: the heartbeat is a local variable of the new thread.
Restart ==
  /\ alive /\ ~running /\ apc = "off" /\ starts < MaxStarts
  /\ running' = TRUE /\ apc' = "ensure" /\ beat' = 1 /\ starts' = starts + 1
  /\ UNCHANGED <<process, alive, ahdr, taken, held, queueVars, readyVars,
                 submitterVars>>

\* The game process ends, the adapter with it; the files stay.
ProcessDies ==
  /\ alive
  /\ alive' = FALSE /\ running' = FALSE /\ apc' = "off"
  /\ ahdr' = EmptyQueue /\ taken' = 0 /\ held' = Nothing
  /\ UNCHANGED <<process, beat, starts, queueVars, readyVars, submitterVars>>

\* Another game, with the adapter loaded into it, over the same directory.
ProcessStarts ==
  /\ ~alive /\ process < MaxProcesses /\ starts < MaxStarts
  /\ process' = process + 1 /\ alive' = TRUE
  /\ running' = TRUE /\ apc' = "ensure" /\ beat' = 1 /\ starts' = starts + 1
  /\ UNCHANGED <<ahdr, taken, held, queueVars, readyVars, submitterVars>>

ReadyAges ==
  /\ ready # NoFile /\ ~aged
  /\ aged' = TRUE
  /\ UNCHANGED <<adapterVars, queueVars, ready, submitterVars>>

-----------------------------------------------------------------------------
(* A submission: submitRuntimeCommands.                                    *)

\* The submission ends, well or badly.
Leave(s) ==
  /\ spc' = [spc EXCEPT ![s] = "idle"]
  /\ seen' = [seen EXCEPT ![s] = NoHeartbeat]
  /\ hdr' = [hdr EXCEPT ![s] = EmptyQueue]
  /\ left' = [left EXCEPT ![s] = 0]
  /\ told' = [told EXCEPT ![s] = ToldNothing]
  /\ fits' = [fits EXCEPT ![s] = FALSE]

\* A submission that is refused has changed nothing else.
Refused(s) ==
  /\ Leave(s)
  /\ UNCHANGED <<adapterVars, queueVars, readyVars, recorded, batches, served>>

\* validateRuntimeResidentBridgeReadyFile, for the process selected, which is
\* the one that runs.
ReadyFits ==
  /\ ready # NoFile /\ ~aged
  /\ ready.pid = process /\ alive
  /\ ready.beat >= MinimumHeartbeat

ReadReady(s) ==
  /\ spc[s] = "idle" /\ batches[s] < MaxBatches
  /\ ReadyFits
  /\ seen' = [seen EXCEPT ![s] = [pid |-> ready.pid, beat |-> ready.beat,
                                  stamp |-> ready.stamp]]
  /\ spc' = [spc EXCEPT ![s] = "queues"]
  /\ UNCHANGED <<adapterVars, queueVars, readyVars, recorded, hdr, left, batches,
                 told, fits, served>>

\* validateOptionalResidentQueue reads the header of the queue and then, one by one
\* and each from the ready file there is by then, the values to compare it with.
ReadQueue(s) ==
  /\ spc[s] = "queues"
  /\ hdr' = [hdr EXCEPT ![s] = cmd]
  /\ spc' = [spc EXCEPT ![s] = "writes"]
  /\ UNCHANGED <<adapterVars, queueVars, readyVars, recorded, seen, left, batches,
                 told, fits, served>>

\* Mutant: only a ready file that is ahead of the queue is refused.
SameWrites_NotAhead(file, queue) == file.write <= queue.write

SameWrites(file, queue) == file.write = queue.write

WritesAgree(s) ==
  /\ spc[s] = "writes" /\ SameWrites(ready.cmd, hdr[s])
  /\ told' = [told EXCEPT ![s] = [stamp |-> ready.stamp, read |-> 0,
                                  write |-> ready.cmd.write]]
  /\ spc' = [spc EXCEPT ![s] = "reads"]
  /\ UNCHANGED <<adapterVars, queueVars, readyVars, recorded, seen, hdr, left, batches,
                 fits, served>>

\* The queue has not been read since the ready file was written, and is no older.
SameReads(file, queue) == file.read = queue.read /\ file.beat <= queue.beat

\* The overlay queue is compared after the command queue.
OverlayFits == SameWrites(ready.ovl, ovl) /\ SameReads(ready.ovl, ovl)

ReadsAgree(s) ==
  /\ spc[s] = "reads" /\ SameReads(ready.cmd, hdr[s]) /\ OverlayFits
  /\ told' = [told EXCEPT ![s].read = ready.cmd.read]
  /\ spc' = [spc EXCEPT ![s] = "heartbeat"]
  /\ UNCHANGED <<adapterVars, queueVars, readyVars, recorded, seen, hdr, left, batches,
                 fits, served>>

QueuesDiffer(s) ==
  /\ \/ spc[s] = "writes" /\ ~SameWrites(ready.cmd, hdr[s])
     \/ spc[s] = "reads" /\ ~(SameReads(ready.cmd, hdr[s]) /\ OverlayFits)
  /\ Refused(s)

\* Mutant: whether the ready file was written again is not asked.
Stalled_AnyFile(s) ==
  recorded.pid = seen[s].pid /\ seen[s].beat <= recorded.beat

\* validateResidentHeartbeatProgression: the modification time is that of the
\* ready file there is now.
Stalled(s) ==
  /\ recorded.pid = seen[s].pid
  /\ ready.stamp > recorded.stamp
  /\ seen[s].beat <= recorded.beat

CheckHeartbeat(s) ==
  /\ spc[s] = "heartbeat" /\ ~Stalled(s)
  /\ recorded' = IF seen[s].beat > recorded.beat \/ ready.stamp > recorded.stamp
                   THEN [seen[s] EXCEPT !.stamp = ready.stamp]
                   ELSE recorded
  /\ spc' = [spc EXCEPT ![s] = "proof"]
  /\ UNCHANGED <<adapterVars, queueVars, readyVars, seen, hdr, left, batches, told,
                 fits, served>>

CallStalled(s) ==
  /\ spc[s] = "heartbeat" /\ Stalled(s)
  /\ Refused(s)

\* validateSubmissionBridgeProof, which depends on the evidence in the ready
\* file, passes; the batch is about to be appended.
Admit(s) ==
  /\ spc[s] = "proof"
  /\ \E n \in 1 .. BatchSize[s] :
       /\ left' = [left EXCEPT ![s] = n]
       /\ fits' = [fits EXCEPT ![s] = Queued(told[s]) + n <= Capacity]
  /\ batches' = [batches EXCEPT ![s] = @ + 1]
  /\ spc' = [spc EXCEPT ![s] = "append"]
  /\ UNCHANGED <<adapterVars, queueVars, readyVars, recorded, seen, hdr, told, served>>

LackProof(s) ==
  /\ spc[s] = "proof"
  /\ Refused(s)

\* submitResidentRuntimeCommands, one command: appendRuntimeResidentQueueRecord reads
\* the header ...
AppendRead(s) ==
  /\ spc[s] = "append" /\ Queued(cmd) < Capacity
  /\ hdr' = [hdr EXCEPT ![s] = cmd]
  /\ spc' = [spc EXCEPT ![s] = "publish"]
  /\ UNCHANGED <<adapterVars, queueVars, readyVars, recorded, seen, left, batches,
                 told, fits, served>>

\* ... and writes it back, one record longer.
Publish(s) ==
  /\ spc[s] = "publish"
  /\ WriteHeader([hdr[s] EXCEPT !.write = @ + 1])
  /\ served' = [served EXCEPT ![s] = told[s].stamp]
  /\ \/ /\ left[s] > 1
        /\ left' = [left EXCEPT ![s] = @ - 1]
        /\ spc' = [spc EXCEPT ![s] = "append"]
        /\ UNCHANGED <<seen, hdr, told, fits>>
     \/ left[s] = 1 /\ Leave(s)
  /\ UNCHANGED <<adapterVars, ovl, readyVars, recorded, batches>>

\* The queue is full: the submission is rejected, but what it has appended
\* stays in the queue.
CutShort(s) ==
  /\ spc[s] = "append" /\ Queued(cmd) >= Capacity
  /\ Refused(s)

\* The submitting process is killed; its files stay, and another takes over.
SubmitterDies(s) ==
  /\ spc[s] # "idle"
  /\ Refused(s)

-----------------------------------------------------------------------------
Adapter ==
  \/ EnsureRead \/ EnsureWrite \/ EnsureRefused
  \/ ConsumeNothing \/ Consume \/ ReadRejected \/ Route
  \/ AckRead \/ AckRejected \/ AckWrite
  \/ WriteReady \/ WriteReadyFails \/ Sleep

Fate == Stop \/ Restart \/ ProcessDies \/ ProcessStarts \/ ReadyAges

Check(s) ==
  \/ ReadReady(s) \/ ReadQueue(s) \/ WritesAgree(s) \/ ReadsAgree(s) \/ QueuesDiffer(s)
  \/ CheckHeartbeat(s) \/ CallStalled(s) \/ Admit(s) \/ LackProof(s)

Submit(s) ==
  Check(s) \/ AppendRead(s) \/ Publish(s) \/ CutShort(s) \/ SubmitterDies(s)

Next ==
  /\ Adapter \/ Fate \/ \E s \in Submitters : Submit(s)
  /\ UNCHANGED setting

Spec == Init /\ [][Next]_vars

-----------------------------------------------------------------------------
(* Properties.                                                             *)

\* The comparison of the ready file with the queues paces the submitters: who has
\* appended anything passes again only on a ready file written since.  The one way
\* around that is a write-back that loses an append the ready file does not know of:
\* then the queue looks again as that file says.
OneBatchPerReady ==
  \A s \in Submitters :
     spc[s] \in {"heartbeat", "proof"} =>
       told[s].stamp > served[s] \/ told[s].stamp <= lost

\* A ready file keeps its promise to a lone submitter: if it left room for the batch,
\* no command of the batch finds the queue full, whatever the adapter writes back,
\* rejects or leaves unread meanwhile, and whatever threads and processes of it come
\* and go.  (A second submitter can break it: its write-back of an old copy takes an
\* acknowledgement back.)
NobodyIsCutShort ==
  \A s \in Submitters :
     Submitters = {s} /\ spc[s] = "append" /\ fits[s] => Queued(cmd) < Capacity

\* An adapter thread was started again in a process.
Restarted == starts > process

\* A submitter that has read the ready file last written is not told that the
\* heartbeat stands still, unless an adapter thread was started again.
FreshIsNotCalledStalled ==
  \A s \in Submitters :
     spc[s] = "heartbeat" /\ Stalled(s) => seen[s].stamp # ready.stamp \/ Restarted
=============================================================================

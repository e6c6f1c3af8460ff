----------------------------- MODULE MCRuntime -----------------------------
(* Small instances of ResidentBridge, of DirectSink and of the resident    *)
(* queue: one whose operations do not overlap, and one with a single       *)
(* producer that is not killed.  A behaviour is of one of the four parts.  *)
EXTENDS ResidentBridge, DirectSink

CONSTANTS s1, s2, w1, w2, Producers, OneProducer

\* Two submitters with a command each; a lone one whose batches fill the queue; and
\* games that die and adapters started again.
MCSettings ==
  { [submitters |-> {s1, s2}, capacity |-> 2, batchSize |-> [s \in {s1, s2} |-> 1],
     beats |-> 3, processes |-> 1, starts |-> 1, batches |-> 2],
    [submitters |-> {s1}, capacity |-> 3, batchSize |-> [s \in {s1} |-> 2],
     beats |-> 4, processes |-> 1, starts |-> 1, batches |-> 3],
    [submitters |-> {s1}, capacity |-> 1, batchSize |-> [s \in {s1} |-> 2],
     beats |-> 3, processes |-> 2, starts |-> 2, batches |-> 2] }

\* Two submissions of one writer, one of the other, two commands of the game.
MCCalls == [a \in Actors |-> IF a = w2 THEN 1 ELSE 2]

VARIABLES
  part,       \* "bridge", "direct", "serial" or "single"
  header, slots, pc, copies, sent, appended, adapterPc, adapterCopy, warm, batch,
  delivered, deaths, restarts

Queue == INSTANCE ResidentQueue WITH
  Capacity <- 2, MaxRead <- 1, MaxAppends <- 2, MaxDeaths <- 0, MaxRestarts <- 1,
  apc <- adapterPc, hdr <- copies, ahdr <- adapterCopy

\* Only the first of the producers appends anything.
Single == INSTANCE ResidentQueue WITH
  Producers <- {OneProducer}, Capacity <- 3, MaxRead <- 2, MaxAppends <- 5,
  MaxDeaths <- 0, MaxRestarts <- 1,
  apc <- adapterPc, hdr <- copies, ahdr <- adapterCopy

fileVars == <<header, slots, pc, copies, sent, appended, adapterPc, adapterCopy,
              warm, batch, delivered, deaths, restarts>>

MCInit ==
  /\ Init /\ DirectInit
  /\ \/ part \in {"bridge", "direct", "serial"} /\ Queue!Init
     \/ part = "single" /\ Single!Init
  /\ part # "bridge" => setting.processes = 1

MCVars == <<part, vars, directVars, fileVars>>

InSingle(A) == part = "single" /\ A /\ UNCHANGED <<part, vars, directVars>>

MCNext ==
  \/ part = "bridge" /\ Next /\ UNCHANGED <<part, directVars, fileVars>>
  \/ part = "direct" /\ DirectNext /\ UNCHANGED <<part, vars, fileVars>>
  \/ part = "serial" /\ Queue!SerialNext /\ UNCHANGED <<part, vars, directVars>>
  \/ InSingle(Single!Next)

\* Single!Fairness.
MCFairness ==
  /\ WF_MCVars(InSingle(Single!AdapterStep))
  /\ WF_MCVars(InSingle(Single!AppendPublish(OneProducer)
                                            \/ Single!AppendFlush(OneProducer)))

MCSpec == MCInit /\ [][MCNext]_MCVars /\ MCFairness

Serial(q) == IF part = "serial" THEN q ELSE <<>>

Records == INSTANCE RecordQueue WITH
  Capacity <- 2, MaxRead <- 1, Messages <- Queue!Commands,
  queue    <- Serial(Queue!AbstractQueue),
  taken    <- IF part = "serial" THEN Queue!AbstractTaken ELSE 0,
  handled  <- Serial(Queue!AbstractHandled)

\* Run one at a time, the operations on the queue file are a bounded FIFO
\* that hands every accepted command to the adapter at least once and in
\* order (ResidentQueue, RecordQueue).
ImplementsRecordQueue == Records!Spec

\* With one producer that is not killed, a queue with records in it is emptied
\* again (consumeResidentCommandQueue).
Drains == part = "single" => Single!Drains
=============================================================================

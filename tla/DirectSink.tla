----------------------------- MODULE DirectSink -----------------------------
(***************************************************************************)
(* The direct command sink: a submitter in another process writes encoded  *)
(* commands into the turn buffer of the game, behind the bytes that are    *)
(* there, and then the new count of bytes                                  *)
(* (submitDirectRuntimeCommands).  The game puts its own commands into the *)
(* same buffer (QueueGameCommand) and sends the buffer once a turn.        *)
(* Neither side locks anything.                                            *)
(***************************************************************************)
EXTENDS Naturals, Sequences

CONSTANTS
  Writers,        \* processes that submit to the direct sink
  BufferSize,     \* TURN_BUFFER_SIZE, capacityBytes of the sink
  MaxMessage,     \* the provider's maxmessagesize
  Lengths,        \* lengths of commands of the game and of encoded batches
  MaxCalls        \* bound: submissions of each writer, commands of the game

Game == "game"
Actors == Writers \cup {Game}

ASSUME DirectAssumption ==
  /\ Game \notin Writers
  /\ BufferSize \in Nat /\ MaxMessage \in Nat
  /\ Lengths \subseteq 1 .. BufferSize
  /\ MaxCalls \in [Actors -> Nat]

VARIABLES
  cells,          \* TurnBuffer and what lies behind it
  count,          \* sgdwBytesInCmdQueue
  wpc,            \* what each writer, or the game in QueueGameCommand, does
  used,           \* usedBytes, as each writer read it
  size,           \* length of what each one submits
  calls,          \* submissions and commands so far
  accepted,       \* history: what was accepted since the last turn was sent
  overlapped      \* history: two calls, or a call and a turn, overlapped since

directVars == <<cells, count, wpc, used, size, calls, accepted, overlapped>>

-----------------------------------------------------------------------------
\* A byte stands for its origin: whose call, the how-manieth, and the place.
Byte(a, k) == [of |-> a, call |-> calls[a], at |-> k]
Bytes(a) == [k \in 1 .. size[a] |-> Byte(a, k)]

Zero == [of |-> Game, call |-> 0, at |-> 0]

\* A copy is made at the count there is, checked or not: see GameCopies.
Memory == 1 .. 2 * BufferSize

\* The memory with the bytes of an actor behind the first n.
WithBytesAt(n, a) ==
  [i \in Memory |-> IF i \in n + 1 .. n + size[a] THEN Byte(a, i - n) ELSE cells[i]]

Busy(a) == \E b \in Actors \ {a} : wpc[b] # "idle"

DirectInit ==
  /\ cells = [i \in Memory |-> Zero] /\ count = 0
  /\ wpc = [a \in Actors |-> "idle"]
  /\ used = [a \in Writers |-> 0]
  /\ size = [a \in Actors |-> 0]
  /\ calls = [a \in Actors |-> 0]
  /\ accepted = << >> /\ overlapped = FALSE

\* An actor begins a call with something of length n.
Begin(a, n) ==
  /\ wpc[a] = "idle" /\ calls[a] < MaxCalls[a]
  /\ calls' = [calls EXCEPT ![a] = @ + 1]
  /\ size' = [size EXCEPT ![a] = n]
  /\ overlapped' = (overlapped \/ Busy(a))

-----------------------------------------------------------------------------
(* A writer: submitDirectRuntimeCommands.                                  *)

\* Mutant: the count is not asked for.
SinkHasRoom_Empty(n) == n <= BufferSize

\* usedBytes against the capacity, without wrapping below zero.
SinkHasRoom(n) == count <= BufferSize /\ n <= BufferSize - count

\* The count of bytes is read; there is room.  A batch that cannot be encoded
\* and one for which there is no room are rejected with nothing changed.
ReadCount(w, n) ==
  /\ Begin(w, n)
  /\ SinkHasRoom(n)
  /\ used' = [used EXCEPT ![w] = count]
  /\ wpc' = [wpc EXCEPT ![w] = "bytes"]
  /\ UNCHANGED <<cells, count, accepted>>

\* The bytes are written behind those.
WriteBytes(w) ==
  /\ wpc[w] = "bytes"
  /\ cells' = WithBytesAt(used[w], w)
  /\ wpc' = [wpc EXCEPT ![w] = "readback"]
  /\ UNCHANGED <<count, used, size, calls, accepted, overlapped>>

InPlace(w) == \A k \in 1 .. size[w] : cells[used[w] + k] = Byte(w, k)

\* They are read back and must be the same.
ReadBack(w) ==
  /\ wpc[w] = "readback" /\ InPlace(w)
  /\ wpc' = [wpc EXCEPT ![w] = "count"]
  /\ UNCHANGED <<cells, count, used, size, calls, accepted, overlapped>>

ReadBackDiffers(w) ==
  /\ wpc[w] = "readback" /\ ~InPlace(w)
  /\ wpc' = [wpc EXCEPT ![w] = "idle"]
  /\ UNCHANGED <<cells, count, used, size, calls, accepted, overlapped>>

\* The count is written, from what it was when it was read.
WriteCount(w) ==
  /\ wpc[w] = "count"
  /\ count' = used[w] + size[w]
  /\ accepted' = accepted \o Bytes(w)
  /\ wpc' = [wpc EXCEPT ![w] = "idle"]
  /\ UNCHANGED <<cells, used, size, calls, overlapped>>

\* A call of writeProcessMemory or readProcessMemory fails, or the writer is
\* killed: what has been written stays.
Abandon(w) ==
  /\ wpc[w] \in {"bytes", "readback", "count"}
  /\ wpc' = [wpc EXCEPT ![w] = "idle"]
  /\ UNCHANGED <<cells, count, used, size, calls, accepted, overlapped>>

-----------------------------------------------------------------------------
(* The game.                                                               *)

\* clamp(maxmessagesize, 0, TurnBuffer.size()).
MaxBuffer == IF MaxMessage <= BufferSize THEN MaxMessage ELSE BufferSize

GameHasRoom(n) == n + count <= MaxBuffer

\* QueueGameCommand with a command of length n for which there is room.
QueueCommand(n) ==
  /\ Begin(Game, n)
  /\ GameHasRoom(n)
  /\ wpc' = [wpc EXCEPT ![Game] = "copy"]
  /\ UNCHANGED <<cells, count, used, accepted>>

\* The turn is sent: BWFXN_sendTurn takes count bytes from the buffer.
Sent(busy) ==
  /\ count' = 0
  /\ accepted' = << >>
  /\ overlapped' = busy

\* The same when there is none: the turn is sent first, unless in the menus or
\* when too many turns are on their way, where the command is dropped.
QueueWhenFull(n) ==
  /\ wpc[Game] = "idle" /\ calls[Game] < MaxCalls[Game]
  /\ ~GameHasRoom(n)
  /\ calls' = [calls EXCEPT ![Game] = @ + 1]
  /\ size' = [size EXCEPT ![Game] = n]
  /\ wpc' = [wpc EXCEPT ![Game] = "copy"]
  /\ Sent(Busy(Game))
  /\ UNCHANGED <<cells, used>>

\* memcpy to the count as it is now, which a writer may have moved since.
GameCopies ==
  /\ wpc[Game] = "copy"
  /\ cells' = WithBytesAt(count, Game)
  /\ wpc' = [wpc EXCEPT ![Game] = "add"]
  /\ UNCHANGED <<count, used, size, calls, accepted, overlapped>>

\* sgdwBytesInCmdQueue += dwLength
GameAdds ==
  /\ wpc[Game] = "add"
  /\ count' = count + size[Game]
  /\ accepted' = accepted \o Bytes(Game)
  /\ wpc' = [wpc EXCEPT ![Game] = "idle"]
  /\ UNCHANGED <<cells, used, size, calls, overlapped>>

\* The turn is due.
SendTurn ==
  /\ wpc[Game] = "idle" /\ count > 0
  /\ Sent(Busy(Game))
  /\ UNCHANGED <<cells, wpc, used, size, calls>>

-----------------------------------------------------------------------------
Write(w) ==
  \/ \E n \in Lengths : ReadCount(w, n)
  \/ WriteBytes(w) \/ ReadBack(w) \/ ReadBackDiffers(w) \/ WriteCount(w) \/ Abandon(w)

GameStep ==
  \/ \E n \in Lengths : QueueCommand(n) \/ QueueWhenFull(n)
  \/ GameCopies \/ GameAdds \/ SendTurn

DirectNext == GameStep \/ \E w \in Writers : Write(w)

DirectSpec == DirectInit /\ [][DirectNext]_directVars

-----------------------------------------------------------------------------
(* Properties.                                                             *)

AllBytes == [of : Actors, call : Nat, at : 0 .. BufferSize]

DirectTypeOK ==
  /\ cells \in [Memory -> AllBytes]
  /\ count \in 0 .. 2 * BufferSize
  /\ wpc \in [Actors -> {"idle", "bytes", "readback", "count", "copy", "add"}]
  /\ used \in [Writers -> 0 .. BufferSize]
  /\ size \in [Actors -> 0 .. BufferSize]
  /\ calls \in [Actors -> Nat]
  /\ accepted \in Seq(AllBytes) /\ overlapped \in BOOLEAN

\* If no two of these calls, and no call and the sending of a turn, have
\* overlapped since the last turn was sent, then the bytes that the game will
\* send are those of the accepted commands and batches, whole and in the order
\* in which they were accepted, and they fit into the buffer.  A rejected
\* batch, or one whose writer was killed, leaves none of its bytes among them.
TurnIsWhole ==
  ~overlapped =>
    /\ count = Len(accepted) /\ count <= BufferSize
    /\ \A i \in 1 .. count : cells[i] = accepted[i]

(* The inductive invariant.                                                *)

Writing(w) == wpc[w] \in {"bytes", "readback", "count"}
Queueing   == wpc[Game] \in {"copy", "add"}

\* Whose steps are whose, and what was found to fit still does.
CallsFit ==
  /\ \A w \in Writers :
       /\ wpc[w] = "idle" \/ Writing(w)
       /\ Writing(w) => used[w] + size[w] <= BufferSize
  /\ wpc[Game] = "idle" \/ Queueing
  /\ Queueing => count <= BufferSize

\* A call that overlaps with nothing is the only one, and finds the count and
\* its bytes as it left them.
Alone ==
  ~overlapped =>
    /\ \A a \in Actors : wpc[a] # "idle" => ~Busy(a)
    /\ \A w \in Writers :
         /\ Writing(w) => used[w] = count
         /\ wpc[w] = "count" => InPlace(w)
    /\ Queueing => count + size[Game] <= BufferSize
    /\ wpc[Game] = "add" =>
         \A k \in 1 .. size[Game] : cells[count + k] = Byte(Game, k)

DirectInv == DirectTypeOK /\ CallsFit /\ Alone /\ TurnIsWhole
=============================================================================

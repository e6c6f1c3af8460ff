------------------------------ MODULE LocalPC ------------------------------
(***************************************************************************)
(* The network "Local PC" (LocalPC.cpp): peers of one machine that pass    *)
(* packets through shared memory, under a mutex of the whole machine.      *)
(*                                                                         *)
(* A peer's address is the index of its row.  One step per stretch that    *)
(* cannot block: with the mutex, a thread may still have to wait for the   *)
(* critical section of its process to pass on what it found, and another   *)
(* thread may hold that and wait for the mutex.                            *)
(* When the last process closes the memory, its content is gone.           *)
(***************************************************************************)
EXTENDS SNPModule

CONSTANTS
  Room         \* packets that a row can hold (16)

ASSUME LocalPCAssumption == Room \in Nat

VARIABLES
  mutex,         \* the thread that owns it, or Nobody
  self,          \* [Processes -> the index of its row, or 0]
  lastOccupied,  \* [Addresses -> tick count, 0 for a free row]
  advertising,   \* the rows whose peer is hosting
  incomingCount, \* [Addresses -> Nat]
  rows,          \* [Addresses -> the packets in the row]
  \* histories
  overrun,       \* [Processes -> BOOLEAN]: its row was counted beyond Room
  zeroTouch      \* some row was marked at tick count zero

smemVars == <<mutex, self, lastOccupied, advertising, incomingCount, rows,
              overrun, zeroTouch>>

LocalPCInit ==
  /\ mutex = Nobody
  /\ self = [p \in Processes |-> 0]
  /\ lastOccupied = [a \in Addresses |-> 0]
  /\ advertising = {}
  /\ incomingCount = [a \in Addresses |-> 0]
  /\ rows = [a \in Addresses |-> <<>>]
  /\ overrun = [p \in Processes |-> FALSE]
  /\ zeroTouch = FALSE

isOccupied(a) == lastOccupied[a] > 0

(* The memory behind the last packet of a row.                             *)
Beyond == [sender |-> 0, body |-> 0, id |-> 0]

Takes(t)    == mutex = Nobody /\ mutex' = t
MarksRow(p) == /\ lastOccupied' = [lastOccupied EXCEPT ![self[p]] = TickCount(now)]
               /\ zeroTouch' = (zeroTouch \/ TickCount(now) = 0)

---------------------------------------------------------------------------
(* processIncomingPackets, by spiSend, spiReceive and spiUnlockGameList:   *)
(* first the mutex and the mark, then everything in the row.               *)
MarkSelf(t) ==
  /\ call[t] \in {"unlock", "send", "receive"} /\ at[t] = "in"
  /\ Takes(t)
  /\ MarksRow(Home[t])
  /\ Goes(t, "passing")
  /\ UNCHANGED <<scene, now, up, critSec, msg, incoming, games, shown, picked,
                 joined, arrivals, delivered, heard, lists, sends, self,
                 advertising, incomingCount, rows, overrun>>

InRow(a) == [i \in 1..incomingCount[a] |-> IF i <= Room THEN rows[a][i] ELSE Beyond]

PassIncoming(t) ==
  LET p == Home[t] IN
  /\ at[t] = "passing" /\ MayLock(t)
  /\ PassPackets(p, self[p], InRow(self[p]))
  /\ overrun' = [overrun EXCEPT ![p] = @ \/ incomingCount[self[p]] > Room]
  /\ incomingCount' = [incomingCount EXCEPT ![self[p]] = 0]
  /\ rows' = [rows EXCEPT ![self[p]] = <<>>]
  /\ mutex' = Nobody
  /\ Goes(t, CASE call[t] = "unlock"  -> "ads"
               [] call[t] = "send"    -> "sending"
               [] call[t] = "receive" -> "back")
  /\ UNCHANGED <<scene, now, up, critSec, msg, games, shown, picked, joined,
                 arrivals, delivered, heard, lists, sends, self, lastOccupied,
                 advertising, zeroTouch>>

(* The rest of requestAds, under the mutex again.                          *)
LookForAds(t) ==
  /\ at[t] = "ads"
  /\ Takes(t)
  /\ Goes(t, "passingAds")
  /\ UNCHANGED <<scene, now, up, critSec, msg, incoming, games, shown, picked,
                 joined, arrivals, delivered, heard, lists, sends, self,
                 lastOccupied, advertising, incomingCount, rows, overrun, zeroTouch>>

(* Mutant: the mutex is not given back.                                    *)
PassAds_KeepsMutex(t) ==
  /\ at[t] = "passingAds" /\ MayLock(t)
  /\ PassAdvertisement(Home[t], {a \in advertising : isOccupied(a)})
  /\ Returns(t)
  /\ UNCHANGED <<scene, now, up, critSec, msg, incoming, shown, picked, joined,
                 arrivals, delivered, lists, sends, smemVars>>

PassAds(t) ==
  /\ at[t] = "passingAds" /\ MayLock(t)
  /\ PassAdvertisement(Home[t], {a \in advertising : isOccupied(a)})
  /\ mutex' = Nobody
  /\ Returns(t)
  /\ UNCHANGED <<scene, now, up, critSec, msg, incoming, shown, picked, joined,
                 arrivals, delivered, lists, sends, self, lastOccupied,
                 advertising, incomingCount, rows, overrun, zeroTouch>>

(* The rest of sendAsyn: the test is made before the mutex is taken.       *)
TargetOccupied(t) ==
  /\ at[t] = "sending"
  /\ \/ isOccupied(msg[t].to) /\ Goes(t, "pushing") /\ UNCHANGED msg
     \/ ~isOccupied(msg[t].to) /\ Returns(t) /\ msg' = [msg EXCEPT ![t] = NoMsg]
  /\ UNCHANGED <<scene, now, up, critSec, incoming, games, shown, picked,
                 joined, arrivals, delivered, heard, lists, sends, smemVars>>

(* Mutant: one packet too many.                                            *)
Full_OffByOne(a) == incomingCount[a] > Room

Full(a) == incomingCount[a] >= Room

(* A packet for which there is no room is counted and thrown away.         *)
PushPacket(t) ==
  LET him == msg[t].to IN
  /\ at[t] = "pushing"
  /\ mutex = Nobody
  /\ incomingCount' = [incomingCount EXCEPT ![him] = @ + 1]
  /\ IF Full(him)
       THEN UNCHANGED <<rows, arrivals>>
       ELSE /\ rows' = [rows EXCEPT ![him] = Append(@,
                 [sender |-> self[Home[t]], body |-> msg[t].body,
                  id |-> Len(arrivals) + 1])]
            /\ arrivals' = Append(arrivals, [to |-> him,
                 from |-> self[Home[t]], body |-> msg[t].body])
  /\ msg' = [msg EXCEPT ![t] = NoMsg]
  /\ Returns(t)
  /\ UNCHANGED <<scene, now, up, critSec, incoming, games, shown, picked,
                 joined, delivered, heard, lists, sends, mutex, self,
                 lastOccupied, advertising, overrun, zeroTouch>>

StartAdvertisingLocalPC(t) ==
  /\ call[t] = "start" /\ at[t] = "in"
  /\ mutex = Nobody
  /\ advertising' = advertising \cup {self[Home[t]]}
  /\ Releases(t) /\ Returns(t)
  /\ UNCHANGED <<scene, now, up, msg, incoming, games, shown, picked, joined,
                 arrivals, delivered, heard, lists, sends, mutex, self,
                 lastOccupied, incomingCount, rows, overrun, zeroTouch>>

(* spiStopAdvertisingGame as a whole; it does not take the mutex.          *)
StopAdvertisingLocalPC(t) ==
  /\ t \in scene.hosts /\ Idle(t) /\ critSec[Home[t]] = Nobody
  /\ self[Home[t]] \in advertising
  /\ advertising' = advertising \ {self[Home[t]]}
  /\ UNCHANGED <<snpVars, mutex, self, lastOccupied, incomingCount, rows,
                 overrun, zeroTouch>>

LocalPCStep(t) ==
  \/ MarkSelf(t) \/ PassIncoming(t) \/ LookForAds(t) \/ PassAds(t)
  \/ TargetOccupied(t) \/ PushPacket(t) \/ StartAdvertisingLocalPC(t)

LocalPCNext == \E t \in Threads : LocalPCStep(t) \/ StopAdvertisingLocalPC(t)

---------------------------------------------------------------------------
(* Mutant: the row is not marked before the first call.                    *)
Taken_Unmarked(row) == 0

(* What the mark of a row becomes that is taken.                           *)
Taken(row) == TickCount(now)

(* LocalPC::initialize: the first row that is not occupied; without one    *)
(* the process exits.  Memory that nobody has open is created, and zero.   *)
InitializeLocalPC(p) ==
  LET created == \A q \in Processes : ~up[q]
      free    == {a \in Addresses : created \/ ~isOccupied(a)}
      row     == Min(free)
  IN
  /\ ~up[p] /\ mutex = Nobody
  /\ free # {}
  /\ up' = [up EXCEPT ![p] = TRUE]
  /\ self' = [self EXCEPT ![p] = row]
  /\ lastOccupied' = [a \in Addresses |->
       IF a = row THEN Taken(row) ELSE IF created THEN 0 ELSE lastOccupied[a]]
  /\ zeroTouch' = (zeroTouch \/ TickCount(now) = 0)
  /\ advertising' = IF created THEN {} ELSE advertising \ {row}
  /\ incomingCount' = [a \in Addresses |->
       IF created \/ a = row THEN 0 ELSE incomingCount[a]]
  /\ rows' = [a \in Addresses |-> IF created \/ a = row THEN <<>> ELSE rows[a]]
  /\ UNCHANGED <<scene, now, critSec, call, at, msg, incoming, games, shown,
                 picked, joined, arrivals, delivered, heard, lists, sends, mutex,
                 overrun>>

(* LocalPC::destroy, when Storm has no other call under way.               *)
DestroyLocalPC(p) ==
  /\ \A t \in Threads : Home[t] = p => Idle(t)
  /\ up' = [up EXCEPT ![p] = FALSE]
  /\ lastOccupied' = [lastOccupied EXCEPT ![self[p]] = 0]
  /\ self' = [self EXCEPT ![p] = 0]
  /\ UNCHANGED <<scene, now, critSec, call, at, msg, incoming, games, shown,
                 picked, joined, arrivals, delivered, heard, lists, sends, mutex,
                 advertising, incomingCount, rows, overrun, zeroTouch>>
=============================================================================

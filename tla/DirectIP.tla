----------------------------- MODULE DirectIP ------------------------------
(***************************************************************************)
(* The network "Direct IP" (DirectIP.cpp, UDPSocket.cpp): datagrams        *)
(* between processes, which the network may lose, reorder and duplicate.   *)
(*                                                                         *)
(* processIncomingPackets is shared by spiSend, spiReceive and             *)
(* spiUnlockGameList; each turn of its loop is two steps, because the      *)
(* buffer that a datagram is received into is shared by the threads of a   *)
(* process, and only what is passed on to Storm is interlocked.            *)
(* Every process has its port bound.  Datagrams too short to have a type,  *)
(* errors of the socket and a host address that is wrong end or skip the   *)
(* loop as an empty socket does.                                           *)
(***************************************************************************)
EXTENDS SNPModule

CONSTANTS
  HostIP       \* [Processes -> Addresses]: the host that the user typed

ASSUME DirectIPAssumption ==
  Processes \subseteq Addresses /\ HostIP \in [Processes -> Addresses]

VARIABLES
  net,           \* the datagrams under way
  recvBuffer,    \* [Processes -> datagram], shared by the threads
  sender,        \* [Threads -> who sent the datagram at hand]
  isAdvertising, \* [Processes -> BOOLEAN]
  \* histories
  arrival,       \* [Threads -> its number in arrivals, or 0]
  overwritten,   \* [Processes -> BOOLEAN]: a datagram was received into the
                 \* buffer before another thread had used the one in it
  copies         \* counter of the bound

dripVars == <<net, recvBuffer, sender, isAdvertising, arrival, overwritten, copies>>

NoDatagram == [type |-> "none", from |-> 0, to |-> 0, body |-> 0]

DirectIPInit ==
  /\ net = {}
  /\ recvBuffer = [p \in Processes |-> NoDatagram]
  /\ sender = [t \in Threads |-> 0]
  /\ isAdvertising = [p \in Processes |-> FALSE]
  /\ arrival = [t \in Threads |-> 0]
  /\ overwritten = [p \in Processes |-> FALSE]
  /\ copies = 0

(* A process is its own address here.                                      *)
Datagram(type, from, to, body) ==
  [type |-> type, from |-> from, to |-> to, body |-> body]

Receives(t) == call[t] \in {"unlock", "send", "receive"} /\ at[t] = "in"

---------------------------------------------------------------------------
(* The next datagram for this process, in any order; the network may       *)
(* deliver it again.                                                       *)
ReceivePacket(t) ==
  LET p == Home[t] IN
  /\ Receives(t)
  /\ \E d \in net :
       /\ d.to = p
       /\ \/ net' = net \ {d} /\ UNCHANGED copies
          \/ copies < scene.maxCopies /\ copies' = copies + 1 /\ UNCHANGED net
       /\ recvBuffer' = [recvBuffer EXCEPT ![p] = d]
       /\ sender' = [sender EXCEPT ![t] = d.from]
       /\ IF d.type = "game"
            THEN /\ arrivals' = Append(arrivals,
                      [to |-> p, from |-> d.from, body |-> d.body])
                 /\ arrival' = [arrival EXCEPT ![t] = Len(arrivals) + 1]
            ELSE /\ arrival' = [arrival EXCEPT ![t] = 0]
                 /\ UNCHANGED arrivals
  /\ overwritten' = [overwritten EXCEPT ![p] =
       @ \/ \E u \in Threads \ {t} : Home[u] = p /\ at[u] = "handling"]
  /\ Goes(t, "handling")
  /\ UNCHANGED <<scene, now, up, critSec, msg, incoming, games, shown, picked,
                 joined, delivered, heard, lists, sends, isAdvertising>>

(* WSAEWOULDBLOCK: nothing has come, or not yet.                           *)
NoPacket(t) ==
  /\ Receives(t)
  /\ Goes(t, "received")
  /\ UNCHANGED <<scene, now, up, critSec, msg, incoming, games, shown, picked,
                 joined, arrivals, delivered, heard, lists, sends, dripVars>>

Answered(t) ==
  /\ recvBuffer[Home[t]].type = "request"
  /\ net' = IF isAdvertising[Home[t]]
              THEN net \cup {Datagram("stats", Home[t], sender[t], 0)}
              ELSE net
  /\ UNCHANGED <<incoming, games, heard>>

(* Mutant: passAdvertisement without INTERLOCKED.                          *)
AdPassed_Unlocked(t) ==
  /\ recvBuffer[Home[t]].type = "stats"
  /\ PassAdvertisement(Home[t], {sender[t]})
  /\ UNCHANGED <<net, incoming>>

AdPassed(t) ==
  /\ recvBuffer[Home[t]].type = "stats"
  /\ MayLock(t)
  /\ PassAdvertisement(Home[t], {sender[t]})
  /\ UNCHANGED <<net, incoming>>

PacketPassed(t) ==
  /\ recvBuffer[Home[t]].type = "game"
  /\ MayLock(t)
  /\ PassPackets(Home[t], Home[t],
       <<[sender |-> sender[t], id |-> arrival[t],
          body |-> recvBuffer[Home[t]].body]>>)
  /\ UNCHANGED <<net, games, heard>>

(* What is in the buffer by now is taken for a datagram of that sender.    *)
HandlePacket(t) ==
  /\ at[t] = "handling"
  /\ Answered(t) \/ AdPassed(t) \/ PacketPassed(t)
  /\ arrival' = [arrival EXCEPT ![t] = 0]
  /\ sender' = [sender EXCEPT ![t] = 0]
  /\ Goes(t, "in")
  /\ UNCHANGED <<scene, now, up, critSec, msg, shown, picked, joined, arrivals,
                 delivered, lists, sends, recvBuffer, isAdvertising,
                 overwritten, copies>>

(* The end of requestAds, sendAsyn or receive.                             *)
RequestAds(t) ==
  /\ call[t] = "unlock"
  /\ net' = net \cup {Datagram("request", Home[t], HostIP[Home[t]], 0)}
  /\ Returns(t)
  /\ UNCHANGED msg

SendAsyn(t) ==
  /\ call[t] = "send"
  /\ net' = net \cup {Datagram("game", Home[t], msg[t].to, msg[t].body)}
  /\ msg' = [msg EXCEPT ![t] = NoMsg]
  /\ Returns(t)

Receive(t) ==
  /\ call[t] = "receive"
  /\ Goes(t, "back")
  /\ UNCHANGED <<net, msg>>

FinishDirectIP(t) ==
  /\ at[t] = "received"
  /\ RequestAds(t) \/ SendAsyn(t) \/ Receive(t)
  /\ UNCHANGED <<scene, now, up, critSec, incoming, games, shown, picked,
                 joined, arrivals, delivered, heard, lists, sends, recvBuffer,
                 sender, isAdvertising, arrival, overwritten, copies>>

StartAdvertisingDirectIP(t) ==
  /\ call[t] = "start" /\ at[t] = "in"
  /\ isAdvertising' = [isAdvertising EXCEPT ![Home[t]] = TRUE]
  /\ Releases(t) /\ Returns(t)
  /\ UNCHANGED <<scene, now, up, msg, incoming, games, shown, picked, joined,
                 arrivals, delivered, heard, lists, sends, net, recvBuffer,
                 sender, arrival, overwritten, copies>>

(* spiStopAdvertisingGame as a whole.                                      *)
StopAdvertisingDirectIP(t) ==
  /\ t \in scene.hosts /\ Idle(t) /\ critSec[Home[t]] = Nobody
  /\ isAdvertising[Home[t]]
  /\ isAdvertising' = [isAdvertising EXCEPT ![Home[t]] = FALSE]
  /\ UNCHANGED <<snpVars, net, recvBuffer, sender, arrival, overwritten, copies>>

Lose ==
  /\ \E d \in net : net' = net \ {d}
  /\ UNCHANGED <<snpVars, recvBuffer, sender, isAdvertising, arrival,
                 overwritten, copies>>

DirectIPStep(t) ==
  \/ ReceivePacket(t) \/ NoPacket(t) \/ HandlePacket(t) \/ FinishDirectIP(t)
  \/ StartAdvertisingDirectIP(t)

DirectIPNext == (\E t \in Threads : DirectIPStep(t) \/ StopAdvertisingDirectIP(t)) \/ Lose

---------------------------------------------------------------------------
(* spiInitialize opens and binds the socket, spiDestroy closes it; what    *)
(* SNPModule keeps survives both.  Storm has no other call under way.      *)
InitializeDirectIP(p) ==
  /\ ~up[p]
  /\ up' = [up EXCEPT ![p] = TRUE]
  /\ UNCHANGED <<scene, now, critSec, call, at, msg, incoming, games, shown,
                 picked, joined, arrivals, delivered, heard, lists, sends, dripVars>>

DestroyDirectIP(p) ==
  /\ \A t \in Threads : Home[t] = p => Idle(t)
  /\ up' = [up EXCEPT ![p] = FALSE]
  /\ net' = {d \in net : d.to # p}
  /\ UNCHANGED <<scene, now, critSec, call, at, msg, incoming, games, shown,
                 picked, joined, arrivals, delivered, heard, lists, sends,
                 recvBuffer, sender, isAdvertising, arrival, overwritten, copies>>
=============================================================================

----------------------------- MODULE SNPModule -----------------------------
(***************************************************************************)
(* The half of the network provider that faces Storm: what SNPModule.cpp   *)
(* keeps between calls, and the calls themselves.  The calls leave the     *)
(* network to the plugged one, DirectIP or LocalPC, which EXTEND this      *)
(* module; NetworkProvider puts the three together.                        *)
(*                                                                         *)
(* Storm calls from several threads, for which the provider has a critical *)
(* section per process.  A call is a few steps: it enters (at = "in"), the *)
(* plugged network works, and the call returns, spiReceive after a last    *)
(* step of its own (at = "back").  Windows' critical sections may be       *)
(* entered again by their owner, and so may critSec here.                  *)
(*                                                                         *)
(* now is real time in units of the models; GetTickCount() is its          *)
(* remainder.  Left out: dialogs, error texts, the memory of a packet that *)
(* Storm has on loan (spiFree), stubs, and packets without an address.     *)
(***************************************************************************)
EXTENDS Integers, Sequences, FiniteSets, FiniteSetsExt

CONSTANTS
  Processes,    \* 1 .. n: games on which the provider runs
  Threads,      \* Storm's threads
  Home,         \* [Threads -> Processes]
  Addresses,    \* 1 .. n: of peers
  Nobody,
  AdLife,       \* an advertisement is listed for so long (2000 ms)
  PacketLife,   \* and a packet is kept for so long (10000 ms)
  TickRange,    \* GetTickCount() wraps here (2^32)
  Scenes        \* what a behaviour may be about: the network plugged in, the
                \* threads that make each call, and the bounds of the model

ASSUME SNPAssumption ==
  /\ Processes \subseteq Nat \ {0}
  /\ Addresses \subseteq Nat \ {0} /\ IsFiniteSet(Addresses)
  /\ Home \in [Threads -> Processes]
  /\ Nobody \notin Threads
  /\ Scenes \subseteq
       [network : {"DRIP", "SMEM"}, listers : SUBSET Threads,
        hosts : SUBSET Threads, senders : SUBSET Threads,
        receivers : SUBSET Threads,
        maxNow : Nat \ {0}, \* time
        maxLists : Nat,     \* lists read by a process
        maxSends : Nat,     \* packets sent by a process
        maxCopies : Nat,    \* datagrams duplicated by the network
        maxLives : Nat,     \* spiInitialize
        mortal : SUBSET Processes]  \* processes that may die
  /\ TickRange \in Nat \ {0} /\ AdLife \in Nat /\ PacketLife \in Nat

VARIABLES
  scene,        \* the member of Scenes that the behaviour is about
  now,
  up,           \* [Processes -> BOOLEAN]: between spiInitialize and spiDestroy
  critSec,      \* [Processes -> Threads or Nobody]
  call, at,     \* [Threads -> ...]: the call under way and where it is
  msg,          \* [Threads -> the packet that it sends]
  incoming,     \* incomingGamePackets
  games,        \* gameList
  shown,        \* the chain of games that Storm reads while it has the list
  picked,       \* the game that the player picked from it
  \* histories
  joined,       \* the game picked, and the one that Storm was given for it
  arrivals,     \* the packets that came to a peer's queue, in order
  delivered,    \* [Processes -> the packets that Storm was given]
  heard,        \* [Processes -> [Addresses -> last advertisement]]
  lists, sends  \* counters of the bounds

snpVars == <<scene, now, up, critSec, call, at, msg, incoming, games, shown,
             picked, joined, arrivals, delivered, heard, lists, sends>>

NoMsg  == [to |-> 0, body |-> 0]
NoPick == [host |-> 0, index |-> 0]
Never  == -1

(* SNPModule.cpp: dwIndex of a hosted game is cleared with the rest of it  *)
(* and sent with the advertisement.                                        *)
HostedIndex == 0

(* An entry of gameList that was erased, reached by a link that was made   *)
(* before: memory that is no longer a game.                                *)
Freed == [host |-> 0, index |-> 0, timer |-> 0]

SNPInit ==
  /\ scene \in Scenes
  /\ now = 1
  /\ critSec = [p \in Processes |-> Nobody]
  /\ call = [t \in Threads |-> "none"]
  /\ at = [t \in Threads |-> "out"]
  /\ msg = [t \in Threads |-> NoMsg]
  /\ incoming = [p \in Processes |-> <<>>]
  /\ games = [p \in Processes |-> <<>>]
  /\ shown = [p \in Processes |-> <<>>]
  /\ picked = [p \in Processes |-> NoPick]
  /\ joined = [p \in Processes |-> <<NoPick, NoPick>>]
  /\ arrivals = <<>>
  /\ delivered = [p \in Processes |-> <<>>]
  /\ heard = [p \in Processes |-> [a \in Addresses |-> Never]]
  /\ lists = [p \in Processes |-> 0]
  /\ sends = [p \in Processes |-> 0]

---------------------------------------------------------------------------
(* Time.                                                                   *)

TickCount(time) == time % TickRange

(* Mutant: the deadline itself is late.                                    *)
Outdated_Early(since, life) ==
  TickCount(now) >= (TickCount(since) + life) % TickRange

(* The tests of spiLockGameList and spiReceive, in 32 bits.                *)
Outdated(since, life) ==
  TickCount(now) > (TickCount(since) + life) % TickRange

(* Neither the deadline nor the time since has passed the wrap of the      *)
(* tick count.                                                             *)
SameLap(since, life) ==
  /\ since \div TickRange = (since + life) \div TickRange
  /\ since \div TickRange = now \div TickRange

---------------------------------------------------------------------------
(* The lists.                                                              *)

(* The members of a finite set of numbers, from the least on.              *)
InOrder(S) ==
  [k \in 1..Cardinality(S) |->
     CHOOSE i \in S : Cardinality({j \in S : j <= i}) = k]

NewHosts(list, hosts) ==
  InOrder({a \in hosts : \A i \in DOMAIN list : list[i].host # a})

(* Mutant: an advertisement that is known keeps its time.                  *)
Advertised_KeepsTimer(list, hosts) ==
  LET new == NewHosts(list, hosts)
  IN  list \o [i \in DOMAIN new |->
                 [host |-> new[i], index |-> HostedIndex, timer |-> now]]

(* passAdvertisement for each of these hosts in turn: an entry of the      *)
(* host's is written over, otherwise a new one goes to the end.  The       *)
(* number given to a new entry is written over by the advertisement's.     *)
Advertised(list, hosts) ==
  LET entry(a) == [host |-> a, index |-> HostedIndex, timer |-> now]
      new == NewHosts(list, hosts)
  IN  [i \in DOMAIN list |->
         IF list[i].host \in hosts THEN entry(list[i].host) ELSE list[i]]
      \o [i \in DOMAIN new |-> entry(new[i])]

PassAdvertisement(p, hosts) ==
  /\ games' = [games EXCEPT ![p] = Advertised(@, hosts)]
  /\ heard' = [heard EXCEPT ![p] =
                 [a \in Addresses |-> IF a \in hosts THEN now ELSE @[a]]]

Stamped(address, packets) ==
  [i \in DOMAIN packets |->
     [to |-> address, sender |-> packets[i].sender, body |-> packets[i].body,
      id |-> packets[i].id, since |-> now]]

(* Mutant: the queue is filled from the front.                             *)
PassPackets_Front(p, address, packets) ==
  incoming' = [incoming EXCEPT ![p] = Stamped(address, packets) \o @]

(* passPacket for each of these packets, stamped with the time.            *)
PassPackets(p, address, packets) ==
  incoming' = [incoming EXCEPT ![p] = @ \o Stamped(address, packets)]

Kept(list) == {i \in DOMAIN list : ~Outdated(list[i].timer, AdLife)}

(* The list without the outdated entries.                                  *)
Pruned(list) ==
  LET kept == InOrder(Kept(list)) IN [k \in DOMAIN kept |-> list[kept[k]]]

(* What Storm finds from the first entry that stays: the links were made   *)
(* before outdated entries were erased.                                    *)
Chain(list) ==
  LET kept == Kept(list)
      gone == {i \in DOMAIN list \ kept : i > Min(kept)}
      last == IF gone = {} THEN Len(list) ELSE Min(gone)
  IN  IF kept = {} THEN <<>>
      ELSE [k \in 1..(last - Min(kept) + 1) |->
              LET i == Min(kept) + k - 1
              IN  IF i \in kept THEN list[i] ELSE Freed]

---------------------------------------------------------------------------
(* The calls.                                                              *)

Idle(t) == up[Home[t]] /\ call[t] = "none"

(* INTERLOCKED, by a thread that enters or already is inside.              *)
MayLock(t) == critSec[Home[t]] \in {Nobody, t}

Enters(t, name) ==
  /\ Idle(t)
  /\ call' = [call EXCEPT ![t] = name]
  /\ at' = [at EXCEPT ![t] = "in"]

Returns(t) ==
  /\ call' = [call EXCEPT ![t] = "none"]
  /\ at' = [at EXCEPT ![t] = "out"]

Goes(t, place) == at' = [at EXCEPT ![t] = place] /\ UNCHANGED call

Acquires(t) == critSec[Home[t]] = Nobody /\ critSec' = [critSec EXCEPT ![Home[t]] = t]
Releases(t) == critSec' = [critSec EXCEPT ![Home[t]] = Nobody]

spiLockGameList(t) ==
  LET p == Home[t] IN
  /\ t \in scene.listers /\ lists[p] < scene.maxLists
  /\ Enters(t, "list")
  /\ Acquires(t)
  /\ games' = [games EXCEPT ![p] = Pruned(@)]
  /\ shown' = [shown EXCEPT ![p] = Chain(games[p])]
  /\ lists' = [lists EXCEPT ![p] = @ + 1]
  /\ UNCHANGED <<scene, now, up, msg, incoming, picked, joined, arrivals,
                 delivered, heard, sends>>

(* Storm has read the list, and the player may have picked a game.         *)
spiUnlockGameList(t) ==
  LET p == Home[t] IN
  /\ call[t] = "list"
  /\ call' = [call EXCEPT ![t] = "unlock"]
  /\ UNCHANGED at
  /\ Releases(t)
  /\ shown' = [shown EXCEPT ![p] = <<>>]
  /\ \/ UNCHANGED picked
     \/ \E i \in DOMAIN shown[p] :
          /\ shown[p][i] # Freed
          /\ picked' = [picked EXCEPT ![p] =
                          [host |-> shown[p][i].host, index |-> shown[p][i].index]]
  /\ UNCHANGED <<scene, now, up, msg, incoming, games, joined, arrivals,
                 delivered, heard, lists, sends>>

(* The game that is about to be joined, by the index of the picked one.    *)
spiGetGameInfo(t) ==
  LET p     == Home[t]
      found == {i \in DOMAIN games[p] : games[p][i].index = picked[p].index}
  IN
  /\ t \in scene.listers /\ Idle(t) /\ critSec[p] = Nobody
  /\ picked[p] # NoPick
  /\ joined' = [joined EXCEPT ![p] = <<picked[p],
       IF found = {} THEN NoPick
       ELSE [host |-> games[p][Min(found)].host,
             index |-> games[p][Min(found)].index]>>]
  /\ picked' = [picked EXCEPT ![p] = NoPick]
  /\ UNCHANGED <<scene, now, up, critSec, call, at, msg, incoming, games,
                 shown, arrivals, delivered, heard, lists, sends>>

spiStartAdvertisingLadderGame(t) ==
  /\ t \in scene.hosts
  /\ Enters(t, "start")
  /\ Acquires(t)
  /\ UNCHANGED <<scene, now, up, msg, incoming, games, shown, picked, joined,
                 arrivals, delivered, heard, lists, sends>>

(* Not interlocked.                                                        *)
spiSend(t, him) ==
  LET p == Home[t] IN
  /\ t \in scene.senders /\ sends[p] < scene.maxSends
  /\ Enters(t, "send")
  /\ msg' = [msg EXCEPT ![t] = [to |-> him, body |-> sends[p] + 1]]
  /\ sends' = [sends EXCEPT ![p] = @ + 1]
  /\ UNCHANGED <<scene, now, up, critSec, incoming, games, shown, picked,
                 joined, arrivals, delivered, heard, lists>>

spiReceive(t) ==
  /\ t \in scene.receivers
  /\ Enters(t, "receive")
  /\ Acquires(t)
  /\ UNCHANGED <<scene, now, up, msg, incoming, games, shown, picked, joined,
                 arrivals, delivered, heard, lists, sends>>

(* The rest of spiReceive: outdated packets are dropped up to the first    *)
(* that is not, which Storm gets.                                          *)
spiReceiveEnds(t) ==
  LET p     == Home[t]
      fresh == {i \in DOMAIN incoming[p] : ~Outdated(incoming[p][i].since, PacketLife)}
  IN
  /\ call[t] = "receive" /\ at[t] = "back"
  /\ \/ /\ fresh = {}
        /\ incoming' = [incoming EXCEPT ![p] = <<>>]
        /\ UNCHANGED delivered
     \/ /\ fresh # {}
        /\ delivered' = [delivered EXCEPT ![p] = Append(@, incoming[p][Min(fresh)])]
        /\ incoming' = [incoming EXCEPT ![p] = SubSeq(@, Min(fresh) + 1, Len(@))]
  /\ Releases(t)
  /\ Returns(t)
  /\ UNCHANGED <<scene, now, up, msg, games, shown, picked, joined, arrivals,
                 heard, lists, sends>>

Tick ==
  /\ now < scene.maxNow
  /\ now' = now + 1
  /\ UNCHANGED <<scene, up, critSec, call, at, msg, incoming, games, shown,
                 picked, joined, arrivals, delivered, heard, lists, sends>>

SNPNext ==
  \/ \E t \in Threads :
       \/ spiLockGameList(t) \/ spiUnlockGameList(t) \/ spiGetGameInfo(t)
       \/ spiStartAdvertisingLadderGame(t)
       \/ \E him \in Addresses : spiSend(t, him)
       \/ spiReceive(t) \/ spiReceiveEnds(t)
  \/ Tick

(* The process is gone, with its threads and all it knew.                  *)
ForgetsAll(p) ==
  /\ up' = [up EXCEPT ![p] = FALSE]
  /\ critSec' = [critSec EXCEPT ![p] = Nobody]
  /\ call' = [t \in Threads |-> IF Home[t] = p THEN "none" ELSE call[t]]
  /\ at' = [t \in Threads |-> IF Home[t] = p THEN "out" ELSE at[t]]
  /\ msg' = [t \in Threads |-> IF Home[t] = p THEN NoMsg ELSE msg[t]]
  /\ incoming' = [incoming EXCEPT ![p] = <<>>]
  /\ games' = [games EXCEPT ![p] = <<>>]
  /\ shown' = [shown EXCEPT ![p] = <<>>]
  /\ picked' = [picked EXCEPT ![p] = NoPick]
  /\ joined' = [joined EXCEPT ![p] = <<NoPick, NoPick>>]
  /\ delivered' = [delivered EXCEPT ![p] = <<>>]
  /\ heard' = [heard EXCEPT ![p] = [a \in Addresses |-> Never]]
  /\ UNCHANGED <<scene, now, arrivals, lists, sends>>
=============================================================================

-------------------------- MODULE NetworkProvider --------------------------
(***************************************************************************)
(* The network provider of SNP_DirectIP: SNPModule with the network that   *)
(* SnpBind plugged in, on every machine or process that takes part.        *)
(***************************************************************************)
EXTENDS DirectIP, LocalPC

VARIABLE lives    \* counter of a bound

vars == <<snpVars, dripVars, smemVars, lives>>

Init ==
  /\ SNPInit /\ DirectIPInit /\ LocalPCInit
  /\ up = [p \in Processes |-> FALSE]
  /\ lives = 0

Initialize(p) ==
  /\ lives < scene.maxLives
  /\ lives' = lives + 1
  /\ \/ scene.network = "DRIP" /\ InitializeDirectIP(p) /\ UNCHANGED smemVars
     \/ scene.network = "SMEM" /\ InitializeLocalPC(p) /\ UNCHANGED dripVars

Destroy(p) ==
  /\ up[p]
  /\ UNCHANGED lives
  /\ \/ scene.network = "DRIP" /\ DestroyDirectIP(p) /\ UNCHANGED smemVars
     \/ scene.network = "SMEM" /\ DestroyLocalPC(p) /\ UNCHANGED dripVars

(* What is under way to it is lost; Windows gives a mutex back whose owner *)
(* has died; its row stays occupied.                                       *)
ProcessDies(p) ==
  LET Mine(t) == Home[t] = p IN
  /\ up[p] /\ p \in scene.mortal
  /\ ForgetsAll(p)
  /\ net' = {d \in net : d.to # p}
  /\ recvBuffer' = [recvBuffer EXCEPT ![p] = NoDatagram]
  /\ sender' = [t \in Threads |-> IF Mine(t) THEN 0 ELSE sender[t]]
  /\ arrival' = [t \in Threads |-> IF Mine(t) THEN 0 ELSE arrival[t]]
  /\ isAdvertising' = [isAdvertising EXCEPT ![p] = FALSE]
  /\ overwritten' = [overwritten EXCEPT ![p] = FALSE]
  /\ mutex' = IF \E t \in Threads : Mine(t) /\ mutex = t THEN Nobody ELSE mutex
  /\ self' = [self EXCEPT ![p] = 0]
  /\ overrun' = [overrun EXCEPT ![p] = FALSE]
  /\ UNCHANGED <<copies, lastOccupied, advertising, incomingCount, rows,
                 zeroTouch, lives>>

Next ==
  \/ SNPNext /\ UNCHANGED <<dripVars, smemVars, lives>>
  \/ scene.network = "DRIP" /\ DirectIPNext /\ UNCHANGED <<smemVars, lives>>
  \/ scene.network = "SMEM" /\ LocalPCNext /\ UNCHANGED <<dripVars, lives>>
  \/ \E p \in Processes : Initialize(p) \/ Destroy(p) \/ ProcessDies(p)

(* A call that was made goes on; Storm gives the list back.                *)
Proceeds(t) ==
  \/ scene.network = "DRIP" /\ DirectIPStep(t) /\ UNCHANGED <<smemVars, lives>>
  \/ scene.network = "SMEM" /\ LocalPCStep(t) /\ UNCHANGED <<dripVars, lives>>
  \/ /\ spiUnlockGameList(t) \/ spiReceiveEnds(t)
     /\ UNCHANGED <<dripVars, smemVars, lives>>

(* Strong, for a thread that waits for a lock gets it in its turn.         *)
Spec == Init /\ [][Next]_vars /\ \A t \in Threads : SF_vars(Proceeds(t))

---------------------------------------------------------------------------
(* Properties.                                                             *)

Peer == Addresses \cup {0}

(* Every variable has its type, critical section and mutex are owned by    *)
(* threads that are inside a call, and Storm holds the list if and only if *)
(* its thread holds the critical section.                                  *)
TypeOK ==
  /\ scene \in Scenes /\ now \in 1..scene.maxNow
  /\ up \in [Processes -> BOOLEAN]
  /\ call \in [Threads -> {"none", "list", "unlock", "send", "receive", "start"}]
  /\ at \in [Threads -> {"out", "in", "handling", "received", "passing", "ads",
                         "passingAds", "sending", "pushing", "back"}]
  /\ \A t \in Threads : (at[t] = "out") <=> (call[t] = "none")
  /\ \A p \in Processes :
       /\ \A t \in Threads :
            critSec[p] = t <=> Home[t] = p /\ call[t] \in {"list", "receive", "start"}
       /\ shown[p] # <<>> => \E t \in Threads : Home[t] = p /\ call[t] = "list"
       /\ \A i \in DOMAIN games[p] : games[p][i].host \in Addresses
       /\ self[p] \in Peer
  /\ mutex # Nobody <=> \E t \in Threads : at[t] \in {"passing", "passingAds"}
  /\ advertising \subseteq Addresses
  /\ \A a \in Addresses : Len(rows[a]) <= Room

(* Storm gets packets that came, from whom and with what they came, in the *)
(* order in which they came, each once -- unless two threads of its        *)
(* process shared the receive buffer, or a row was counted beyond its end  *)
(* (passPacket, processIncomingPackets, spiReceive).                       *)
InArrivalOrder ==
  \A p \in Processes : overwritten[p] \/ overrun[p] \/
    LET got == delivered[p] IN
    \A i \in DOMAIN got :
      /\ got[i].id \in DOMAIN arrivals
      /\ arrivals[got[i].id] =
           [to |-> got[i].to, from |-> got[i].sender, body |-> got[i].body]
      /\ \A j \in 1..(i - 1) : got[j].id < got[i].id

(* While Storm reads the list of games, no thread changes it               *)
(* (spiLockGameList, spiUnlockGameList).                                   *)
ListHeldStill ==
  [][\A p \in Processes :
       up'[p] /\ (\E t \in Threads : Home[t] = p /\ call[t] = "list" /\ call'[t] = "list")
         => games'[p] = games[p]]_vars

(* When Storm locks the list, it reads the hosts that were heard of in the *)
(* last two seconds and no others, as far as its chain is sound, and if    *)
(* the tick count did not wrap meanwhile (spiLockGameList,                 *)
(* passAdvertisement).                                                     *)
ListIsCurrent ==
  [][\A t \in Threads : call[t] = "none" /\ call'[t] = "list" =>
       LET p    == Home[t]
           read == {shown'[p][i].host : i \in DOMAIN shown'[p]}
       IN  \A a \in Addresses :
             heard[p][a] # Never /\ SameLap(heard[p][a], AdLife) =>
               IF a \in read THEN now - heard[p][a] <= AdLife
               ELSE now - heard[p][a] > AdLife \/ Freed.host \in read]_vars

(* A packet is dropped only when it has waited for more than ten seconds,  *)
(* and handed over only when it has not, if the tick count did not wrap    *)
(* meanwhile (spiReceive).                                                 *)
DroppedIsOld ==
  [][\A t \in Threads : spiReceiveEnds(t) =>
       LET p   == Home[t]
           all == incoming[p]
           n   == Len(all) - Len(incoming'[p])
           got == Len(delivered'[p]) > Len(delivered[p])
       IN  \A i \in 1..n : SameLap(all[i].since, PacketLife) =>
             (now - all[i].since > PacketLife) <=> ~(got /\ i = n)]_vars

(* Two peers of one machine never share a row, unless one of them marked   *)
(* it when the tick count was zero, which is the mark of a free row        *)
(* (LocalPC::initialize, isOccupied).                                      *)
RowsAreOwned ==
  zeroTouch \/ \A p, q \in Processes :
    up[p] /\ up[q] /\ p # q /\ scene.network = "SMEM" => self[p] # self[q]

(* A thread with the mutex waits for the critical section of its process,  *)
(* whose owner waits for the mutex.                                        *)
LocksCrossed ==
  \E t, u \in Threads :
    /\ Home[t] = Home[u] /\ t # u
    /\ mutex = t /\ critSec[Home[u]] = u
    /\ at[u] = "in" /\ call[u] # "list"

(* Every call of Storm's returns, unless two threads of a process took     *)
(* critical section and mutex in opposite orders.                          *)
CallsReturn ==
  \A t \in Threads : call[t] # "none" ~> call[t] = "none" \/ LocksCrossed

(* The game that Storm is told to join is the one that was picked from the *)
(* list: "returns game info for the game we are about to join"             *)
(* (spiGetGameInfo).                                                       *)
JoinsThePickedGame ==
  \A p \in Processes : joined[p][2] # NoPick => joined[p][2].host = joined[p][1].host
=============================================================================

----------------------- MODULE NetworkProviderProofs -----------------------
(***************************************************************************)
(* Theorems about NetworkProvider, for every number of games, threads and  *)
(* addresses, every size of a row, every lifetime and every bound.         *)
(***************************************************************************)
EXTENDS NetworkProvider, FiniteSetTheorems, WellFoundedInduction, TLAPS

-----------------------------------------------------------------------------
(* The inductive invariant.                                                *)

(* Calls, and where they are.                                              *)

Holding  == {"list", "receive", "start"}       \* calls with the critical section
Draining == {"unlock", "send", "receive"}      \* ... that process what came in
WithMutex == {"passing", "passingAds"}         \* places with the mutex

\* A call is where its network and its kind can take it, in a game that is up.
PlaceOK(t) ==
  /\ call[t] \in {"none", "list", "start"} \cup Draining
  /\ at[t] \in {"out", "in", "handling", "received", "passing", "ads",
                "passingAds", "sending", "pushing", "back"}
  /\ at[t] = "out" <=> call[t] = "none"
  /\ call[t] # "none" => up[Home[t]]
  /\ call[t] \in {"list", "start"} => at[t] = "in"
  /\ at[t] \in {"handling", "received"} => scene.network = "DRIP" /\ call[t] \in Draining
  /\ at[t] = "passing" => call[t] \in Draining
  /\ at[t] \in {"ads", "passingAds"} => call[t] = "unlock"
  /\ at[t] \in {"sending", "pushing"} => call[t] = "send"
  /\ at[t] \in {"passing", "ads", "passingAds", "sending", "pushing"} =>
       scene.network = "SMEM"
  /\ at[t] = "back" => call[t] = "receive"

\* The locks are owned by the threads that are inside.
LocksOwned ==
  /\ \A p \in Processes : \A t \in Threads :
       critSec[p] = t <=> Home[t] = p /\ call[t] \in Holding
  /\ \A t \in Threads : mutex = t <=> at[t] \in WithMutex
  /\ \A p \in Processes :
       shown[p] # <<>> => \E t \in Threads : Home[t] = p /\ call[t] = "list"

CallsOK ==
  /\ scene \in Scenes /\ now \in 1..scene.maxNow
  /\ up \in [Processes -> BOOLEAN]
  /\ call \in [Threads -> {"none", "list", "start"} \cup Draining]
  /\ at \in [Threads -> {"out", "in", "handling", "received", "passing", "ads",
                         "passingAds", "sending", "pushing", "back"}]
  /\ critSec \in [Processes -> Threads \cup {Nobody}]
  /\ mutex \in Threads \cup {Nobody}
  /\ DOMAIN shown = Processes
  /\ \A t \in Threads : PlaceOK(t)
  /\ LocksOwned

(* Data.                                                                   *)

Datagrams  == [type : {"request", "stats", "game"}, from : Processes,
               to : Addresses, body : Nat]
Messages   == [to : Addresses, body : Nat]
Packets    == [to : Nat, sender : Nat, body : Nat, id : Nat, since : Nat]
RowPackets == [sender : Nat, body : Nat, id : Nat]
Arrivals   == [to : Nat, from : Nat, body : Nat]
Games      == [host : Addresses, index : {HostedIndex}, timer : Nat]

DataOK ==
  /\ msg \in [Threads -> Messages \cup {NoMsg}]
  /\ \A t \in Threads : call[t] = "send" => msg[t] \in Messages
  /\ incoming \in [Processes -> Seq(Packets)]
  /\ delivered \in [Processes -> Seq(Packets)]
  /\ arrivals \in Seq(Arrivals)
  /\ sends \in [Processes -> Nat]
  /\ net \subseteq Datagrams
  /\ recvBuffer \in [Processes -> Datagrams \cup {NoDatagram}]
  /\ sender \in [Threads -> Processes \cup {0}]
  /\ \A t \in Threads : at[t] = "handling" => sender[t] \in Processes
  /\ arrival \in [Threads -> Nat]
  /\ overwritten \in [Processes -> BOOLEAN]
  /\ overrun \in [Processes -> BOOLEAN]

RowsOK ==
  /\ self \in [Processes -> Peer]
  /\ lastOccupied \in [Addresses -> Nat]
  /\ advertising \subseteq Addresses
  /\ incomingCount \in [Addresses -> Nat]
  /\ rows \in [Addresses -> Seq(RowPackets)]
  /\ zeroTouch \in BOOLEAN
  /\ \A a \in Addresses :
       Len(rows[a]) = IF incomingCount[a] <= Room THEN incomingCount[a] ELSE Room
  /\ \A p \in Processes : up[p] /\ scene.network = "SMEM" => self[p] \in Addresses

(* Rows.                                                                   *)

\* A peer's row is marked, and its own.
RowsHeld ==
  zeroTouch \/ \A p \in Processes : up[p] /\ scene.network = "SMEM" =>
    /\ lastOccupied[self[p]] > 0
    /\ \A q \in Processes : up[q] /\ p # q => self[p] # self[q]

(* The list of games.                                                      *)

\* Every entry of the list is of a host of its own and has the time at which
\* that host was heard of last; a host that was heard of and has no entry was
\* outdated when its entry was erased.
GamesOK(p) ==
  LET list == games[p] IN
  /\ list \in Seq(Games)
  /\ heard[p] \in [Addresses -> Nat \cup {Never}]
  /\ \A a \in Addresses : heard[p][a] <= now
  /\ \A i, j \in DOMAIN list : list[i].host = list[j].host => i = j
  /\ \A i \in DOMAIN list : heard[p][list[i].host] = list[i].timer
  /\ \A a \in Addresses :
       /\ heard[p][a] # Never
       /\ \A i \in DOMAIN list : list[i].host # a
       /\ SameLap(heard[p][a], AdLife)
       => now - heard[p][a] > AdLife

ListsOK ==
  /\ DOMAIN games = Processes /\ DOMAIN heard = Processes
  /\ \A p \in Processes : GamesOK(p)

(* Order.                                                                  *)

\* The packet that came with this number.
Came(id, to, from, body) ==
  /\ id \in DOMAIN arrivals
  /\ arrivals[id] = [to |-> to, from |-> from, body |-> body]

Orderly(list) ==
  \A i \in DOMAIN list :
    /\ Came(list[i].id, list[i].to, list[i].sender, list[i].body)
    /\ \A j \in 1..(i - 1) : list[j].id < list[i].id

\* Every packet that the process has or had came before the one of that number.
Before(p, id) ==
  /\ \A i \in DOMAIN delivered[p] : delivered[p][i].id < id
  /\ \A i \in DOMAIN incoming[p] : incoming[p][i].id < id

Sound(p) == ~ overwritten[p] /\ ~ overrun[p]

ListsOrdered ==
  \A p \in Processes : Sound(p) =>
    /\ Orderly(delivered[p]) /\ Orderly(incoming[p])
    /\ \A i \in DOMAIN delivered[p] : \A j \in DOMAIN incoming[p] :
         delivered[p][i].id < incoming[p][j].id

\* The datagram that is being handled is newer than the packets of its process.
InHand ==
  \A t \in Threads :
    LET p == Home[t] IN
    at[t] = "handling" /\ ~ overwritten[p] =>
      /\ \A u \in Threads : Home[u] = p /\ at[u] = "handling" => u = t
      /\ recvBuffer[p].type \in {"request", "stats", "game"}
      /\ recvBuffer[p].type = "game" /\ ~ overrun[p] =>
           Came(arrival[t], p, sender[t], recvBuffer[p].body) /\ Before(p, arrival[t])

\* So are the packets in its row.
RowsOrdered ==
  /\ \A a \in Addresses : \A i \in DOMAIN rows[a] :
       /\ Came(rows[a][i].id, a, rows[a][i].sender, rows[a][i].body)
       /\ \A j \in 1..(i - 1) : rows[a][j].id < rows[a][i].id
  /\ \A p \in Processes : up[p] /\ scene.network = "SMEM" /\ Sound(p) =>
       \A i \in DOMAIN rows[self[p]] : Before(p, rows[self[p]][i].id)

OrderOK == ListsOrdered /\ InHand /\ RowsOrdered

NInv == CallsOK /\ DataOK /\ RowsOK /\ RowsHeld /\ ListsOK /\ OrderOK

-----------------------------------------------------------------------------
(* The operators of the model.                                             *)

LEMMA MinIsLeast ==
  ASSUME NEW S \in SUBSET Nat, S # {}
  PROVE  Min(S) \in S /\ \A y \in S : Min(S) <= y
<1> DEFINE R == {ss \in Nat \X Nat : ss[1] < ss[2]}
<1>1. IsWellFoundedOn(R, Nat)
  BY NatLessThanWellFounded DEF OpToRel
<1>2. PICK x \in S : \A y \in S : ~(<<y, x>> \in R)
  <2> HIDE DEF R
  <2> QED
    BY <1>1, WFMin, Zenon
<1>3. \A y \in S : x =< y
  <2> SUFFICES ASSUME NEW y \in S PROVE x =< y
    OBVIOUS
  <2>1. x \in Nat /\ y \in Nat
    OBVIOUS
  <2>2. ~(y < x)
    BY <1>2, <2>1
  <2> QED
    BY <2>1, <2>2
<1> HIDE DEF R
<1> QED
  BY <1>3 DEF Min

\* InOrder(S) lists the members of S, each once, from the least on: the number
\* of members up to i is a bijection of S and 1..Cardinality(S) that preserves
\* the order.
LEMMA InOrderLists ==
  ASSUME NEW S \in SUBSET Nat, IsFiniteSet(S)
  PROVE  /\ InOrder(S) \in Seq(S)
         /\ DOMAIN InOrder(S) = 1..Cardinality(S)
         /\ \A a \in S : \E k \in DOMAIN InOrder(S) : InOrder(S)[k] = a
         /\ \A j, k \in DOMAIN InOrder(S) : j < k => InOrder(S)[j] < InOrder(S)[k]
<1> DEFINE UpTo(i) == {j \in S : j <= i}
           n == Cardinality(S)
           rank == [i \in S |-> Cardinality(UpTo(i))]
           list == InOrder(S)
<1>1. n \in Nat
  BY FS_CardinalityType
<1>2. ASSUME NEW i \in S PROVE IsFiniteSet(UpTo(i)) /\ rank[i] \in 1..n
  <2>1. UpTo(i) \in SUBSET S /\ i \in UpTo(i)
    OBVIOUS
  <2>2. IsFiniteSet(UpTo(i)) /\ Cardinality(UpTo(i)) <= n
    BY <2>1, FS_Subset
  <2>3. Cardinality(UpTo(i)) \in Nat /\ Cardinality(UpTo(i)) # 0
    BY <2>1, <2>2, FS_CardinalityType, FS_EmptySet
  <2> QED
    BY <1>1, <2>2, <2>3
<1>3. ASSUME NEW i \in S, NEW k \in S, i < k PROVE rank[i] < rank[k]
  <2>0. i \in Nat /\ k \in Nat /\ \A j \in S : j \in Nat
    OBVIOUS
  <2>1. UpTo(i) \in SUBSET UpTo(k) /\ k \in UpTo(k) /\ k \notin UpTo(i)
    <3>1. \A j \in S : j <= i => j <= k
      BY <1>3, <2>0
    <3>2. k <= k /\ ~ (k <= i)
      BY <1>3, <2>0
    <3> QED
      BY <3>1, <3>2
  <2>2. /\ Cardinality(UpTo(i)) <= Cardinality(UpTo(k))
        /\ Cardinality(UpTo(k)) # Cardinality(UpTo(i))
    BY <1>2, <2>1, FS_Subset
  <2> QED
    BY <1>1, <1>2, <2>2
<1> HIDE DEF UpTo
<1>4. rank \in Injection(S, 1..n)
  <2>1. rank \in [S -> 1..n]
    BY <1>2
  <2>2. \A i, k \in S : i < k => rank[i] < rank[k]
    BY <1>3
  <2> HIDE DEF rank
  <2>3. ASSUME NEW i \in S, NEW k \in S, rank[i] = rank[k] PROVE i = k
    BY <1>1, <2>1, <2>2, <2>3
  <2> QED
    BY <2>1, <2>3 DEF Injection, IsInjective
<1>5. rank \in Surjection(S, 1..n)
  <2>1. IsFiniteSet(1..n) /\ Cardinality(1..n) = n
    BY <1>1, FS_Interval
  <2> HIDE DEF rank, n
  <2> QED
    BY <1>4, <2>1, FS_Injection DEF n
<1> DEFINE Ranked(k) == CHOOSE i \in S : Cardinality({j \in S : j <= i}) = k
<1>6. list = [k \in 1..n |-> Ranked(k)]
  BY DEF InOrder
<1>7. ASSUME NEW k \in 1..n PROVE list[k] \in S /\ rank[list[k]] = k
  <2>1. PICK i \in S : rank[i] = k
    BY <1>5 DEF Surjection
  <2>2. Cardinality({j \in S : j <= i}) = k
    BY <2>1 DEF UpTo
  <2>3. Ranked(k) \in S /\ Cardinality({j \in S : j <= Ranked(k)}) = k
    BY <2>2
  <2> HIDE DEF list, Ranked
  <2>4. list[k] = Ranked(k)
    BY <1>6
  <2> QED
    BY <2>3, <2>4 DEF UpTo
<1>8. DOMAIN list = 1..n /\ list \in Seq(S)
  <2> HIDE DEF rank, list, Ranked
  <2>1. \A k \in 1..n : Ranked(k) \in S
    BY <1>6, <1>7
  <2>2. list \in [1..n -> S]
    BY <1>6, <2>1
  <2> QED
    BY <1>1, <2>2
<1>9. ASSUME NEW a \in S PROVE \E k \in DOMAIN list : list[k] = a
  <2>1. rank[a] \in 1..n
    BY <1>2
  <2>2. list[rank[a]] \in S /\ rank[list[rank[a]]] = rank[a]
    BY <1>7, <2>1
  <2> HIDE DEF rank, list
  <2>3. list[rank[a]] = a
    BY <1>4, <2>2 DEF Injection, IsInjective
  <2> QED
    BY <1>8, <2>1, <2>3
<1>10. ASSUME NEW j \in DOMAIN list, NEW k \in DOMAIN list, j < k
       PROVE  list[j] < list[k]
  <2>1. /\ list[j] \in S /\ rank[list[j]] = j
        /\ list[k] \in S /\ rank[list[k]] = k
    BY <1>7, <1>8
  <2>2. \A x, y \in S : x < y => rank[x] < rank[y]
    BY <1>3
  <2> HIDE DEF rank, list
  <2> HIDE DEF Ranked, n
  <2>0. j \in Nat /\ k \in Nat /\ list[j] \in Nat /\ list[k] \in Nat
    <3>1. j \in 1..n /\ k \in 1..n
      BY <1>8
    <3>2. j \in Nat /\ k \in Nat
      BY <1>1, <3>1
    <3>3. list[j] \in Nat /\ list[k] \in Nat
      BY <2>1
    <3> QED
      BY <3>2, <3>3
  <2>3. list[j] # list[k] /\ ~ (list[k] < list[j])
    BY <1>10, <2>0, <2>1, <2>2
  <2> QED
    BY <2>0, <2>3
<1> QED
  BY <1>8, <1>9, <1>10

\* Within one lap of the tick count, the test in 32 bits is the one it is meant
\* to be.
LEMMA OutdatedIsLate ==
  ASSUME NEW since \in Nat, NEW life \in Nat, now \in Nat, SameLap(since, life)
  PROVE  Outdated(since, life) <=> now - since > life
<1> DEFINE R == TickRange
           q == since \div R
<1>1. R \in Nat /\ R > 0
  BY SNPAssumption
<1>2. q = (since + life) \div R /\ q = now \div R
  BY DEF SameLap
<1> HIDE DEF R
<1>3. /\ since = R * (since \div R) + (since % R) /\ since % R \in 0..R - 1
      /\ now = R * (now \div R) + (now % R) /\ now % R \in 0..R - 1
      /\ since + life = R * ((since + life) \div R) + ((since + life) % R)
      /\ (since + life) % R \in 0..R - 1
      /\ q \in Int
  BY <1>1
<1> HIDE DEF q
<1> DEFINE m == R * q
<1>4. m \in Int
  BY <1>1, <1>3
<1>5. /\ since = m + (since % R)
      /\ now = m + (now % R)
      /\ since + life = m + ((since + life) % R)
  BY <1>2, <1>3 DEF q
<1> HIDE DEF m
<1>6. (since % R) + life = (since + life) % R
  BY <1>1, <1>3, <1>4, <1>5
<1>7. ((since % R) + life) % R = (since % R) + life
  <2> DEFINE x == (since % R) + life
  <2>1. x \in 0..R - 1
    BY <1>3, <1>6
  <2> HIDE DEF x
  <2>2. x % R = x
    BY <1>1, <2>1
  <2> QED
    BY <2>2 DEF x
<1>8. Outdated(since, life) <=> now % R > (since % R) + life
  BY <1>7 DEF Outdated, TickCount, R
<1> QED
  BY <1>1, <1>3, <1>4, <1>5, <1>8

LEMMA TickCountType == ASSUME now \in Nat PROVE TickCount(now) \in Nat
BY SNPAssumption DEF TickCount

-----------------------------------------------------------------------------
(* Calls and locks.                                                        *)

LEMMA ConstantTypes ==
  /\ \A t \in Threads : Home[t] \in Processes /\ t # Nobody
  /\ \A p \in Processes : p \in Nat /\ p # 0 /\ p \in Addresses /\ HostIP[p] \in Addresses
  /\ \A a \in Addresses : a \in Nat /\ a # 0
  /\ TickRange \in Nat /\ TickRange > 0 /\ AdLife \in Nat /\ PacketLife \in Nat
  /\ Room \in Nat
  /\ \A s \in Scenes : s.network \in {"DRIP", "SMEM"} /\ s.maxNow \in Nat /\ s.maxNow > 0
BY SNPAssumption, DirectIPAssumption, LocalPCAssumption

LEMMA InitCalls == Init => CallsOK
<1> SUFFICES ASSUME Init PROVE CallsOK
  OBVIOUS
<1> USE DEF Init, SNPInit, LocalPCInit
<1>1. scene \in Scenes /\ now \in 1..scene.maxNow
  BY ConstantTypes
<1>2. \A t \in Threads : PlaceOK(t)
  BY DEF PlaceOK, Draining
<1>3. LocksOwned
  BY ConstantTypes DEF LocksOwned, Holding, WithMutex
<1> QED
  BY <1>1, <1>2, <1>3 DEF CallsOK

\* Where the two calls that read the lists leave the calls and the locks.
LEMMA InfoCalls ==
  ASSUME NEW t, spiGetGameInfo(t)
  PROVE  UNCHANGED <<scene, now, up, critSec, call, at, shown>>
BY ZenonT(30) DEF spiGetGameInfo

LEMMA ReceiveEndsCalls ==
  ASSUME NEW t, spiReceiveEnds(t)
  PROVE  /\ call[t] = "receive" /\ at[t] = "back"
         /\ Releases(t) /\ Returns(t) /\ UNCHANGED <<scene, now, up, shown>>
BY ZenonT(30) DEF spiReceiveEnds

\* The calls of SNPModule.
LEMMA CallsOfSNP == CallsOK /\ SNPNext /\ mutex' = mutex => CallsOK'
<1> SUFFICES ASSUME CallsOK, SNPNext, mutex' = mutex PROVE CallsOK'
  OBVIOUS
<1> USE ConstantTypes DEF CallsOK, LocksOwned, PlaceOK, Holding, Draining, WithMutex
<1>1. ASSUME NEW t \in Threads, spiLockGameList(t) PROVE CallsOK'
  BY <1>1 DEF spiLockGameList, Enters, Idle, Acquires
<1>2. ASSUME NEW t \in Threads, spiUnlockGameList(t) PROVE CallsOK'
  BY <1>2 DEF spiUnlockGameList, Releases
<1>3. ASSUME NEW t \in Threads, spiGetGameInfo(t) PROVE CallsOK'
  <2>1. UNCHANGED <<scene, now, up, critSec, call, at, shown>>
    BY <1>3, InfoCalls
  <2> QED
    BY <2>1
<1>4. ASSUME NEW t \in Threads, spiStartAdvertisingLadderGame(t) PROVE CallsOK'
  BY <1>4 DEF spiStartAdvertisingLadderGame, Enters, Idle, Acquires
<1>5. ASSUME NEW t \in Threads, NEW him \in Addresses, spiSend(t, him) PROVE CallsOK'
  BY <1>5 DEF spiSend, Enters, Idle
<1>6. ASSUME NEW t \in Threads, spiReceive(t) PROVE CallsOK'
  BY <1>6 DEF spiReceive, Enters, Idle, Acquires
<1>7. ASSUME NEW t \in Threads, spiReceiveEnds(t) PROVE CallsOK'
  <2>1. /\ call[t] = "receive" /\ at[t] = "back"
        /\ Releases(t) /\ Returns(t) /\ UNCHANGED <<scene, now, up, shown>>
    BY <1>7, ReceiveEndsCalls
  <2> QED
    BY <2>1 DEF Releases, Returns
<1>8. CASE Tick
  BY <1>8 DEF Tick
<1> QED
  BY <1>1, <1>2, <1>3, <1>4, <1>5, <1>6, <1>7, <1>8 DEF SNPNext

\* The steps of DirectIP.
LEMMA CallsOfDirectIP ==
  CallsOK /\ scene.network = "DRIP" /\ DirectIPNext /\ mutex' = mutex => CallsOK'
<1> SUFFICES ASSUME CallsOK, scene.network = "DRIP", DirectIPNext, mutex' = mutex
             PROVE  CallsOK'
  OBVIOUS
<1> USE ConstantTypes DEF CallsOK, LocksOwned, PlaceOK, Holding, Draining, WithMutex
<1>1. ASSUME NEW t \in Threads, ReceivePacket(t) PROVE CallsOK'
  BY <1>1 DEF ReceivePacket, Receives, Goes
<1>2. ASSUME NEW t \in Threads, NoPacket(t) PROVE CallsOK'
  BY <1>2 DEF NoPacket, Receives, Goes
<1>3. ASSUME NEW t \in Threads, HandlePacket(t) PROVE CallsOK'
  BY <1>3 DEF HandlePacket, Goes
<1>4. ASSUME NEW t \in Threads, FinishDirectIP(t) PROVE CallsOK'
  BY <1>4 DEF FinishDirectIP, RequestAds, SendAsyn, Receive, Returns, Goes
<1>5. ASSUME NEW t \in Threads, StartAdvertisingDirectIP(t) PROVE CallsOK'
  BY <1>5 DEF StartAdvertisingDirectIP, Releases, Returns
<1>6. ASSUME NEW t \in Threads, StopAdvertisingDirectIP(t) PROVE CallsOK'
  BY <1>6 DEF StopAdvertisingDirectIP, snpVars
<1>7. CASE Lose
  BY <1>7 DEF Lose, snpVars
<1> QED
  BY <1>1, <1>2, <1>3, <1>4, <1>5, <1>6, <1>7 DEF DirectIPNext, DirectIPStep

\* The steps of LocalPC.
LEMMA CallsOfLocalPC ==
  CallsOK /\ scene.network = "SMEM" /\ LocalPCNext => CallsOK'
<1> SUFFICES ASSUME CallsOK, scene.network = "SMEM", LocalPCNext
             PROVE  CallsOK'
  OBVIOUS
<1> USE ConstantTypes DEF CallsOK, LocksOwned, PlaceOK, Holding, Draining, WithMutex
<1>1. ASSUME NEW t \in Threads, MarkSelf(t) PROVE CallsOK'
  BY <1>1 DEF MarkSelf, Takes, Goes
<1>2. ASSUME NEW t \in Threads, PassIncoming(t) PROVE CallsOK'
  BY <1>2 DEF PassIncoming, Goes
<1>3. ASSUME NEW t \in Threads, LookForAds(t) PROVE CallsOK'
  BY <1>3 DEF LookForAds, Takes, Goes
<1>4. ASSUME NEW t \in Threads, PassAds(t) PROVE CallsOK'
  BY <1>4 DEF PassAds, Returns
<1>5. ASSUME NEW t \in Threads, TargetOccupied(t) PROVE CallsOK'
  <2>1. CASE Goes(t, "pushing")
    BY <1>5, <2>1 DEF TargetOccupied, Goes, smemVars
  <2>2. CASE Returns(t)
    BY <1>5, <2>2 DEF TargetOccupied, Returns, smemVars
  <2> QED
    BY <1>5, <2>1, <2>2 DEF TargetOccupied
<1>6. ASSUME NEW t \in Threads, PushPacket(t) PROVE CallsOK'
  BY <1>6 DEF PushPacket, Returns
<1>7. ASSUME NEW t \in Threads, StartAdvertisingLocalPC(t) PROVE CallsOK'
  BY <1>7 DEF StartAdvertisingLocalPC, Releases, Returns
<1>8. ASSUME NEW t \in Threads, StopAdvertisingLocalPC(t) PROVE CallsOK'
  BY <1>8 DEF StopAdvertisingLocalPC, snpVars
<1> QED
  BY <1>1, <1>2, <1>3, <1>4, <1>5, <1>6, <1>7, <1>8 DEF LocalPCNext, LocalPCStep

\* Games come and go.
LEMMA CallsOfLives ==
  ASSUME CallsOK, NEW p \in Processes, Initialize(p) \/ Destroy(p) \/ ProcessDies(p)
  PROVE  CallsOK'
<1> USE ConstantTypes DEF CallsOK, LocksOwned, PlaceOK, Holding, Draining, WithMutex
<1>1. CASE Initialize(p)
  <2>1. CASE InitializeDirectIP(p) /\ UNCHANGED smemVars
    BY <2>1 DEF InitializeDirectIP, smemVars
  <2>2. CASE InitializeLocalPC(p)
    BY <2>2 DEF InitializeLocalPC
  <2> QED
    BY <1>1, <2>1, <2>2 DEF Initialize
<1>2. CASE Destroy(p)
  <2>1. CASE DestroyDirectIP(p) /\ UNCHANGED smemVars
    BY <2>1 DEF DestroyDirectIP, Idle, smemVars
  <2>2. CASE DestroyLocalPC(p)
    BY <2>2 DEF DestroyLocalPC, Idle
  <2> QED
    BY <1>2, <2>1, <2>2 DEF Destroy
<1>3. CASE ProcessDies(p)
  <2>1. /\ scene' = scene /\ now' = now
        /\ up' = [up EXCEPT ![p] = FALSE]
        /\ critSec' = [critSec EXCEPT ![p] = Nobody]
        /\ call' = [t \in Threads |-> IF Home[t] = p THEN "none" ELSE call[t]]
        /\ at' = [t \in Threads |-> IF Home[t] = p THEN "out" ELSE at[t]]
        /\ shown' = [shown EXCEPT ![p] = <<>>]
        /\ mutex' = IF \E t \in Threads : Home[t] = p /\ mutex = t THEN Nobody ELSE mutex
    BY <1>3 DEF ProcessDies, ForgetsAll
  <2>2. \A t \in Threads : PlaceOK(t)'
    BY <2>1
  <2>3. \A t \in Threads : mutex' = t <=> at'[t] \in WithMutex
    BY <2>1
  <2>4. \A q \in Processes : \A t \in Threads :
          critSec'[q] = t <=> Home[t] = q /\ call'[t] \in Holding
    BY <2>1
  <2>5. \A q \in Processes :
          shown'[q] # <<>> => \E t \in Threads : Home[t] = q /\ call'[t] = "list"
    BY <2>1
  <2>6. LocksOwned'
    BY <2>3, <2>4, <2>5
  <2>7. /\ scene' \in Scenes /\ now' \in 1..scene'.maxNow
        /\ up' \in [Processes -> BOOLEAN]
        /\ critSec' \in [Processes -> Threads \cup {Nobody}]
        /\ mutex' \in Threads \cup {Nobody}
        /\ DOMAIN shown' = Processes
    BY <2>1
  <2>8. /\ call' \in [Threads -> {"none", "list", "start"} \cup Draining]
        /\ at' \in [Threads -> {"out", "in", "handling", "received", "passing", "ads",
                                "passingAds", "sending", "pushing", "back"}]
    BY <2>1
  <2> QED
    BY <2>2, <2>6, <2>7, <2>8
<1> QED
  BY <1>1, <1>2, <1>3

LEMMA CallsStep == CallsOK /\ [Next]_vars => CallsOK'
<1> SUFFICES ASSUME CallsOK, [Next]_vars PROVE CallsOK'
  OBVIOUS
<1>1. CASE SNPNext /\ UNCHANGED <<dripVars, smemVars, lives>>
  BY <1>1, CallsOfSNP DEF smemVars
<1>2. CASE scene.network = "DRIP" /\ DirectIPNext /\ UNCHANGED <<smemVars, lives>>
  BY <1>2, CallsOfDirectIP DEF smemVars
<1>3. CASE scene.network = "SMEM" /\ LocalPCNext /\ UNCHANGED <<dripVars, lives>>
  BY <1>3, CallsOfLocalPC
<1>4. CASE \E p \in Processes : Initialize(p) \/ Destroy(p) \/ ProcessDies(p)
  BY <1>4, CallsOfLives
<1>5. CASE UNCHANGED vars
  BY <1>5 DEF vars, snpVars, smemVars, CallsOK, LocksOwned, PlaceOK
<1> QED
  BY <1>1, <1>2, <1>3, <1>4, <1>5 DEF Next

-----------------------------------------------------------------------------
(* The list of games is held still.                                        *)

LEMMA HeldStill ==
  ASSUME CallsOK, [Next]_vars, NEW p \in Processes, up'[p],
         NEW t \in Threads, Home[t] = p, call[t] = "list", call'[t] = "list"
  PROVE  games'[p] = games[p]
<1>1. critSec[p] = t /\ at[t] = "in" /\ t # Nobody
  BY ConstantTypes DEF CallsOK, LocksOwned, PlaceOK, Holding
<1>2. ASSUME NEW u \in Threads, MayLock(u), at[u] \in {"handling", "passingAds"}
      PROVE  Home[u] # p
  BY <1>1, <1>2 DEF MayLock
<1>3. CASE SNPNext
  <2>1. ASSUME NEW u \in Threads, spiLockGameList(u) PROVE games'[p] = games[p]
    <3>1. Home[u] # p
      BY <1>1, <2>1 DEF spiLockGameList, Acquires
    <3> QED
      BY <2>1, <3>1 DEF spiLockGameList
  <2>2. \/ \E u \in Threads : spiLockGameList(u)
        \/ UNCHANGED games
    BY <1>3, ZenonT(30) DEF SNPNext, spiUnlockGameList, spiGetGameInfo,
       spiStartAdvertisingLadderGame, spiSend, spiReceive, spiReceiveEnds, Tick
  <2> QED
    BY <2>1, <2>2
<1>4. CASE DirectIPNext
  <2>1. ASSUME NEW u \in Threads, HandlePacket(u) PROVE games'[p] = games[p]
    <3>1. CASE AdPassed(u)
      BY <1>2, <2>1, <3>1 DEF HandlePacket, AdPassed, PassAdvertisement
    <3> QED
      BY <2>1, <3>1 DEF HandlePacket, Answered, PacketPassed
  <2> QED
    BY <1>4, <2>1 DEF DirectIPNext, DirectIPStep, ReceivePacket, NoPacket, FinishDirectIP,
       StartAdvertisingDirectIP, StopAdvertisingDirectIP, Lose, snpVars
<1>5. CASE LocalPCNext
  <2>1. ASSUME NEW u \in Threads, PassAds(u) PROVE games'[p] = games[p]
    BY <1>2, <2>1 DEF PassAds, PassAdvertisement
  <2> QED
    BY <1>5, <2>1 DEF LocalPCNext, LocalPCStep, MarkSelf, PassIncoming, LookForAds,
       TargetOccupied, PushPacket, StartAdvertisingLocalPC, StopAdvertisingLocalPC, snpVars
<1>6. ASSUME NEW q \in Processes, Initialize(q) \/ Destroy(q) \/ ProcessDies(q)
      PROVE  games'[p] = games[p]
  <2>1. ASSUME ProcessDies(q) PROVE p # q
    BY <2>1 DEF ProcessDies, ForgetsAll, CallsOK
  <2>2. CASE ProcessDies(q)
    BY <2>1, <2>2 DEF ProcessDies, ForgetsAll
  <2>3. CASE Initialize(q)
    BY <2>3 DEF Initialize, InitializeDirectIP, InitializeLocalPC
  <2>4. CASE Destroy(q)
    BY <2>4 DEF Destroy, DestroyDirectIP, DestroyLocalPC
  <2> QED
    BY <1>6, <2>2, <2>3, <2>4
<1>7. CASE UNCHANGED vars
  BY <1>7 DEF vars, snpVars
<1> QED
  BY <1>3, <1>4, <1>5, <1>6, <1>7 DEF Next

-----------------------------------------------------------------------------
(* Packets keep their type.                                                *)

LEMMA ConcatElements ==
  ASSUME NEW S, NEW s \in Seq(S), NEW r \in Seq(S)
  PROVE  /\ s \o r \in Seq(S) /\ Len(s \o r) = Len(s) + Len(r)
         /\ \A i \in 1..Len(s) : (s \o r)[i] = s[i]
         /\ \A i \in 1..Len(r) : (s \o r)[Len(s) + i] = r[i]
OBVIOUS

LEMMA AppendType ==
  ASSUME NEW S, NEW s \in Seq(S), NEW x \in S
  PROVE  /\ Append(s, x) \in Seq(S) /\ Len(Append(s, x)) = Len(s) + 1
         /\ \A i \in 1..Len(s) : Append(s, x)[i] = s[i]
         /\ Append(s, x)[Len(s) + 1] = x
OBVIOUS

LEMMA SubSeqElements ==
  ASSUME NEW S, NEW s \in Seq(S), NEW m \in 0..Len(s)
  PROVE  /\ SubSeq(s, m + 1, Len(s)) \in Seq(S)
         /\ Len(SubSeq(s, m + 1, Len(s))) = Len(s) - m
         /\ \A k \in 1..Len(s) - m : SubSeq(s, m + 1, Len(s))[k] = s[m + k]
OBVIOUS

LEMMA StampedType ==
  ASSUME now \in Nat, NEW address \in Nat, NEW packets \in Seq(RowPackets)
  PROVE  /\ Stamped(address, packets) \in Seq(Packets)
         /\ Len(Stamped(address, packets)) = Len(packets)
         /\ \A i \in 1..Len(packets) :
              Stamped(address, packets)[i] =
                [to |-> address, sender |-> packets[i].sender, body |-> packets[i].body,
                 id |-> packets[i].id, since |-> now]
<1> DEFINE packet(i) == [to |-> address, sender |-> packets[i].sender,
                         body |-> packets[i].body, id |-> packets[i].id, since |-> now]
<1>1. \A i \in 1..Len(packets) : packet(i) \in Packets
  <2> SUFFICES ASSUME NEW i \in 1..Len(packets) PROVE packet(i) \in Packets
    OBVIOUS
  <2>1. packets[i] \in RowPackets
    OBVIOUS
  <2> QED
    BY <2>1 DEF RowPackets, Packets
<1>2. Stamped(address, packets) = [i \in 1..Len(packets) |-> packet(i)]
  BY DEF Stamped
<1> HIDE DEF packet
<1>3. Stamped(address, packets) \in Seq(Packets)
  BY <1>1, <1>2
<1>4. Len(Stamped(address, packets)) = Len(packets)
  BY <1>2
<1> QED
  BY <1>2, <1>3, <1>4 DEF packet

\* What PassPackets does to the queue of the process.
LEMMA PassedType ==
  ASSUME now \in Nat, incoming \in [Processes -> Seq(Packets)], NEW p \in Processes,
         NEW address \in Nat, NEW packets \in Seq(RowPackets),
         PassPackets(p, address, packets)
  PROVE  /\ incoming' \in [Processes -> Seq(Packets)]
         /\ \A q \in Processes : q # p => incoming'[q] = incoming[q]
         /\ Len(incoming'[p]) = Len(incoming[p]) + Len(packets)
         /\ \A i \in 1..Len(incoming[p]) : incoming'[p][i] = incoming[p][i]
         /\ \A i \in 1..Len(packets) :
              incoming'[p][Len(incoming[p]) + i] =
                [to |-> address, sender |-> packets[i].sender, body |-> packets[i].body,
                 id |-> packets[i].id, since |-> now]
<1> DEFINE new == Stamped(address, packets)
<1>1. new \in Seq(Packets) /\ Len(new) = Len(packets)
  BY StampedType
<1>2. incoming' = [incoming EXCEPT ![p] = incoming[p] \o new]
  BY DEF PassPackets
<1>3. incoming[p] \in Seq(Packets)
  OBVIOUS
<1> HIDE DEF new
<1>4. incoming'[p] = incoming[p] \o new /\ incoming[p] \o new \in Seq(Packets)
  BY <1>1, <1>2, <1>3, ConcatElements
<1>5. /\ Len(incoming'[p]) = Len(incoming[p]) + Len(packets)
      /\ \A i \in 1..Len(incoming[p]) : incoming'[p][i] = incoming[p][i]
      /\ \A i \in 1..Len(packets) : incoming'[p][Len(incoming[p]) + i] = new[i]
  <2> DEFINE old == incoming[p]
  <2>1. old \in Seq(Packets)
    BY <1>3
  <2> HIDE DEF old
  <2>0. new \in Seq(Packets)
    BY <1>1
  <2>2. Len(old \o new) = Len(old) + Len(new)
    BY <2>0, <2>1, ConcatElements
  <2>3. \A i \in 1..Len(old) : (old \o new)[i] = old[i]
    BY <2>0, <2>1, ConcatElements
  <2>4. \A i \in 1..Len(new) : (old \o new)[Len(old) + i] = new[i]
    BY <2>0, <2>1, ConcatElements
  <2>5. incoming'[p] = old \o new
    BY <1>4 DEF old
  <2> QED
    BY <1>1, <2>2, <2>3, <2>4, <2>5 DEF old
<1>6. \A i \in 1..Len(packets) :
        new[i] = [to |-> address, sender |-> packets[i].sender, body |-> packets[i].body,
                  id |-> packets[i].id, since |-> now]
  BY StampedType DEF new
<1>7. /\ incoming' \in [Processes -> Seq(Packets)]
      /\ \A q \in Processes : q # p => incoming'[q] = incoming[q]
  BY <1>2, <1>4
<1> QED
  BY <1>5, <1>6, <1>7

\* The end of spiReceive: m packets leave the queue, and the last of them goes
\* to Storm when it is not outdated.
LEMMA ReceivedType ==
  ASSUME incoming \in [Processes -> Seq(Packets)], delivered \in [Processes -> Seq(Packets)],
         NEW t \in Threads, spiReceiveEnds(t), NEW p, p = Home[t]
  PROVE  /\ incoming' \in [Processes -> Seq(Packets)]
         /\ delivered' \in [Processes -> Seq(Packets)]
         /\ \A q \in Processes :
              q # p => incoming'[q] = incoming[q] /\ delivered'[q] = delivered[q]
         /\ \E m \in 0..Len(incoming[p]) :
              /\ Len(incoming'[p]) = Len(incoming[p]) - m
              /\ \A k \in 1..Len(incoming'[p]) : incoming'[p][k] = incoming[p][m + k]
              /\ \A i \in 1..m - 1 : Outdated(incoming[p][i].since, PacketLife)
              /\ \/ /\ delivered' = delivered
                    /\ m > 0 => Outdated(incoming[p][m].since, PacketLife)
                 \/ /\ m > 0
                    /\ delivered'[p] = Append(delivered[p], incoming[p][m])
                    /\ ~ Outdated(incoming[p][m].since, PacketLife)
<1> DEFINE all == incoming[p]
           fresh == {i \in DOMAIN all : ~ Outdated(all[i].since, PacketLife)}
<1>1. p \in Processes /\ all \in Seq(Packets) /\ delivered[p] \in Seq(Packets)
  BY ConstantTypes
<1>2. DOMAIN all = 1..Len(all) /\ Len(all) \in Nat /\ fresh \in SUBSET Nat
  BY <1>1
<1>3. CASE fresh = {}
  <2>1. incoming' = [incoming EXCEPT ![p] = <<>>] /\ delivered' = delivered
    BY <1>3, ZenonT(30) DEF spiReceiveEnds
  <2>2. incoming'[p] = <<>> /\ Len(incoming'[p]) = 0
    BY <1>1, <2>1
  <2>3. \A i \in 1..Len(all) : Outdated(all[i].since, PacketLife)
    BY <1>2, <1>3
  <2>4. <<>> \in Seq(Packets)
    OBVIOUS
  <2> HIDE DEF all, fresh
  <2>5. /\ incoming' \in [Processes -> Seq(Packets)]
        /\ \A q \in Processes : q # p => incoming'[q] = incoming[q]
    BY <2>1, <2>4
  <2>6. Len(all) \in 0..Len(all) /\ Len(incoming'[p]) = Len(all) - Len(all)
    BY <1>2, <2>2
  <2>7. /\ \A k \in 1..Len(incoming'[p]) : incoming'[p][k] = all[Len(all) + k]
        /\ \A i \in 1..Len(all) - 1 : Outdated(all[i].since, PacketLife)
        /\ Len(all) > 0 => Outdated(all[Len(all)].since, PacketLife)
    BY <1>2, <2>2, <2>3
  <2> QED
    BY <2>1, <2>5, <2>6, <2>7 DEF all
<1>4. CASE fresh # {}
  <2> DEFINE m == Min(fresh)
             rest == SubSeq(all, m + 1, Len(all))
  <2>1. /\ incoming' = [incoming EXCEPT ![p] = rest]
        /\ delivered' = [delivered EXCEPT ![p] = Append(delivered[p], all[m])]
    BY <1>4, ZenonT(30) DEF spiReceiveEnds
  <2>2. m \in fresh /\ \A i \in fresh : m <= i
    BY <1>2, <1>4, MinIsLeast
  <2> HIDE DEF m
  <2>3. m \in 1..Len(all) /\ ~ Outdated(all[m].since, PacketLife) /\ all[m] \in Packets
    BY <1>1, <1>2, <2>2
  <2>4. \A i \in 1..m - 1 : Outdated(all[i].since, PacketLife)
    <3> SUFFICES ASSUME NEW i \in 1..m - 1 PROVE i \notin fresh
      BY <1>2, <2>3
    <3>1. ~ (m <= i)
      BY <1>2, <2>3
    <3> HIDE DEF fresh
    <3> QED
      BY <2>2, <3>1
  <2> HIDE DEF fresh, all
  <2>5. /\ rest \in Seq(Packets) /\ Len(rest) = Len(all) - m
        /\ \A k \in 1..Len(rest) : rest[k] = all[m + k]
    <3>1. m \in 0..Len(all)
      BY <1>2, <2>3
    <3> QED
      BY <1>1, <3>1, SubSeqElements
  <2> HIDE DEF rest
  <2>6. incoming'[p] = rest /\ delivered'[p] = Append(delivered[p], all[m])
    BY <1>1, <2>1
  <2>7. incoming' \in [Processes -> Seq(Packets)] /\ delivered' \in [Processes -> Seq(Packets)]
    BY <1>1, <2>1, <2>3, <2>5
  <2>8. \A q \in Processes :
          q # p => incoming'[q] = incoming[q] /\ delivered'[q] = delivered[q]
    BY <2>1
  <2>9. m \in 0..Len(all) /\ m > 0
    BY <1>2, <2>3
  <2> QED
    BY <2>3, <2>4, <2>5, <2>6, <2>7, <2>8, <2>9 DEF all
<1> QED
  BY <1>3, <1>4

LEMMA InRowType ==
  ASSUME RowsOK, NEW a \in Addresses
  PROVE  /\ InRow(a) \in Seq(RowPackets) /\ Len(InRow(a)) = incomingCount[a]
         /\ incomingCount[a] <= Room =>
              Len(rows[a]) = incomingCount[a]
              /\ \A i \in 1..incomingCount[a] : InRow(a)[i] = rows[a][i]
<1> USE ConstantTypes
<1>1. incomingCount[a] \in Nat /\ rows[a] \in Seq(RowPackets)
  BY DEF RowsOK
<1>2. Beyond \in RowPackets
  BY DEF Beyond, RowPackets
<1>3. Len(rows[a]) = IF incomingCount[a] <= Room THEN incomingCount[a] ELSE Room
  BY DEF RowsOK
<1> DEFINE found(i) == IF i <= Room THEN rows[a][i] ELSE Beyond
<1>4. \A i \in 1..incomingCount[a] : found(i) \in RowPackets
  BY <1>1, <1>2, <1>3
<1>5. InRow(a) = [i \in 1..incomingCount[a] |-> found(i)]
  BY DEF InRow
<1>6. incomingCount[a] <= Room => \A i \in 1..incomingCount[a] : found(i) = rows[a][i]
  BY <1>1
<1> HIDE DEF found
<1> QED
  BY <1>1, <1>3, <1>4, <1>5, <1>6

LEMMA InitData == Init => DataOK /\ RowsOK
<1> SUFFICES ASSUME Init PROVE DataOK /\ RowsOK
  OBVIOUS
<1>1. <<>> \in Seq(Packets) /\ <<>> \in Seq(Arrivals) /\ <<>> \in Seq(RowPackets)
  OBVIOUS
<1>2. DataOK
  BY <1>1 DEF Init, SNPInit, DirectIPInit, LocalPCInit, DataOK
<1>3. \A a \in Addresses :
        Len(rows[a]) = IF incomingCount[a] <= Room THEN incomingCount[a] ELSE Room
  <2> SUFFICES ASSUME NEW a \in Addresses
               PROVE  Len(rows[a]) = 0 /\ incomingCount[a] = 0
    BY ConstantTypes
  <2>1. rows[a] = <<>> /\ incomingCount[a] = 0
    BY DEF Init, LocalPCInit
  <2> QED
    BY <2>1
<1>4. /\ self \in [Processes -> Peer]
      /\ lastOccupied \in [Addresses -> Nat]
      /\ advertising \subseteq Addresses
      /\ incomingCount \in [Addresses -> Nat]
      /\ rows \in [Addresses -> Seq(RowPackets)]
      /\ zeroTouch \in BOOLEAN
      /\ \A p \in Processes : ~ up[p]
  BY <1>1 DEF Init, LocalPCInit, Peer
<1>5. RowsOK
  BY <1>3, <1>4 DEF RowsOK
<1> QED
  BY <1>2, <1>5

LEMMA DataOfSNP ==
  ASSUME CallsOK, DataOK, SNPNext, UNCHANGED <<dripVars, smemVars>>
  PROVE  DataOK'
<1> USE ConstantTypes DEF DataOK, dripVars, smemVars
<1>1. ASSUME NEW t \in Threads, spiLockGameList(t) PROVE DataOK'
  BY <1>1 DEF spiLockGameList, Enters
<1>2. ASSUME NEW t \in Threads, spiUnlockGameList(t) PROVE DataOK'
  BY <1>2 DEF spiUnlockGameList
<1>3. ASSUME NEW t \in Threads, spiGetGameInfo(t) PROVE DataOK'
  BY <1>3, ZenonT(30) DEF spiGetGameInfo
<1>4. ASSUME NEW t \in Threads, spiStartAdvertisingLadderGame(t) PROVE DataOK'
  BY <1>4 DEF spiStartAdvertisingLadderGame, Enters
<1>5. ASSUME NEW t \in Threads, NEW him \in Addresses, spiSend(t, him) PROVE DataOK'
  <2>1. [to |-> him, body |-> sends[Home[t]] + 1] \in Messages
    BY DEF Messages
  <2>2. msg' \in [Threads -> Messages \cup {NoMsg}] /\ msg'[t] \in Messages
    BY <1>5, <2>1 DEF spiSend
  <2>3. sends' \in [Processes -> Nat]
    BY <1>5 DEF spiSend
  <2>4. \A u \in Threads : call'[u] = "send" => msg'[u] \in Messages
    BY <1>5, <2>2 DEF spiSend, Enters, CallsOK
  <2>5. \A u \in Threads : at'[u] = "handling" => sender'[u] \in Processes
    BY <1>5 DEF spiSend, Enters, CallsOK
  <2> QED
    BY <1>5, <2>2, <2>3, <2>4, <2>5 DEF spiSend
<1>6. ASSUME NEW t \in Threads, spiReceive(t) PROVE DataOK'
  BY <1>6 DEF spiReceive, Enters
<1>7. ASSUME NEW t \in Threads, spiReceiveEnds(t) PROVE DataOK'
  <2>1. /\ incoming' \in [Processes -> Seq(Packets)]
        /\ delivered' \in [Processes -> Seq(Packets)]
    BY <1>7, ReceivedType
  <2>2. /\ call' = [call EXCEPT ![t] = "none"] /\ at' = [at EXCEPT ![t] = "out"]
        /\ UNCHANGED <<msg, arrivals, sends>>
    BY <1>7, ZenonT(30) DEF spiReceiveEnds, Returns
  <2>3. /\ \A u \in Threads : call'[u] = "send" => msg'[u] \in Messages
        /\ \A u \in Threads : at'[u] = "handling" => sender'[u] \in Processes
    BY <2>2 DEF CallsOK
  <2> QED
    BY <2>1, <2>2, <2>3
<1>8. CASE Tick
  BY <1>8 DEF Tick
<1> QED
  BY <1>1, <1>2, <1>3, <1>4, <1>5, <1>6, <1>7, <1>8 DEF SNPNext

LEMMA DataOfDirectIP ==
  ASSUME CallsOK, DataOK, DirectIPNext, UNCHANGED smemVars
  PROVE  DataOK'
<1>0. now \in Nat
  BY DEF CallsOK
<1>00. arrivals \in Seq(Arrivals) /\ Len(arrivals) + 1 \in Nat /\ arrival \in [Threads -> Nat]
  BY DEF DataOK
<1> USE ConstantTypes DEF DataOK, smemVars
<1>1. ASSUME NEW t \in Threads, ReceivePacket(t) PROVE DataOK'
  <2>1. PICK d \in net :
          /\ net' = net \ {d} \/ net' = net
          /\ recvBuffer' = [recvBuffer EXCEPT ![Home[t]] = d]
          /\ sender' = [sender EXCEPT ![t] = d.from]
          /\ \/ /\ arrivals' = Append(arrivals, [to |-> Home[t], from |-> d.from, body |-> d.body])
                /\ arrival' = [arrival EXCEPT ![t] = Len(arrivals) + 1]
             \/ arrival' = [arrival EXCEPT ![t] = 0] /\ UNCHANGED arrivals
    BY <1>1 DEF ReceivePacket
  <2>2. d \in Datagrams /\ d.from \in Processes /\ d.body \in Nat
    BY DEF Datagrams
  <2>3. [to |-> Home[t], from |-> d.from, body |-> d.body] \in Arrivals
    BY <2>2 DEF Arrivals
  <2>4. arrivals' \in Seq(Arrivals) /\ arrival' \in [Threads -> Nat]
    <3> DEFINE came == [to |-> Home[t], from |-> d.from, body |-> d.body]
    <3>1. came \in Arrivals /\ (arrivals' = Append(arrivals, came) \/ arrivals' = arrivals)
      BY <2>1, <2>3
    <3> HIDE DEF DataOK, came
    <3>2. arrivals' \in Seq(Arrivals)
      BY <1>00, <3>1, AppendType
    <3>3. arrival' \in [Threads -> Nat]
      BY <1>00, <2>1
    <3> QED
      BY <3>2, <3>3
  <2>5. /\ net' \subseteq Datagrams
        /\ recvBuffer' \in [Processes -> Datagrams \cup {NoDatagram}]
        /\ sender' \in [Threads -> Processes \cup {0}]
        /\ \A u \in Threads : at'[u] = "handling" => sender'[u] \in Processes
    BY <1>1, <2>1, <2>2 DEF ReceivePacket, Goes, CallsOK
  <2>6. overwritten' \in [Processes -> BOOLEAN]
    BY <1>1 DEF ReceivePacket
  <2> QED
    BY <1>1, <2>4, <2>5, <2>6 DEF ReceivePacket, Goes
<1>2. ASSUME NEW t \in Threads, NoPacket(t) PROVE DataOK'
  BY <1>2 DEF NoPacket, Goes, dripVars, CallsOK
<1>3. ASSUME NEW t \in Threads, HandlePacket(t) PROVE DataOK'
  <2>1. /\ at[t] = "handling" /\ sender[t] \in Processes
        /\ arrival' = [arrival EXCEPT ![t] = 0]
        /\ sender' = [sender EXCEPT ![t] = 0]
        /\ at' = [at EXCEPT ![t] = "in"]
        /\ UNCHANGED <<call, msg, arrivals, delivered, sends, recvBuffer, overwritten, overrun>>
    BY <1>3 DEF HandlePacket, Goes
  <2>2. /\ arrival' \in [Threads -> Nat] /\ sender' \in [Threads -> Processes \cup {0}]
        /\ \A u \in Threads : at'[u] = "handling" => sender'[u] \in Processes
    BY <2>1 DEF CallsOK
  <2>3. net' \subseteq Datagrams /\ incoming' \in [Processes -> Seq(Packets)]
    <3>1. CASE Answered(t)
      <4>1. Datagram("stats", Home[t], sender[t], 0) \in Datagrams
        BY <2>1 DEF Datagram, Datagrams
      <4> QED
        BY <3>1, <4>1 DEF Answered
    <3>2. CASE AdPassed(t)
      BY <3>2 DEF AdPassed
    <3>3. CASE PacketPassed(t)
      <4> DEFINE packet == [sender |-> sender[t], id |-> arrival[t],
                            body |-> recvBuffer[Home[t]].body]
      <4>1. recvBuffer[Home[t]].body \in Nat
        BY DEF Datagrams, NoDatagram
      <4>2. packet \in RowPackets
        BY <2>1, <4>1 DEF RowPackets
      <4>3. PassPackets(Home[t], Home[t], <<packet>>) /\ net' = net
        BY <3>3 DEF PacketPassed
      <4> HIDE DEF packet
      <4>4. <<packet>> \in Seq(RowPackets)
        BY <4>2
      <4> QED
        BY <1>0, <4>3, <4>4, PassedType
    <3> QED
      BY <1>3, <3>1, <3>2, <3>3 DEF HandlePacket
  <2> QED
    BY <2>1, <2>2, <2>3
<1>4. ASSUME NEW t \in Threads, FinishDirectIP(t) PROVE DataOK'
  <2>1. net' \subseteq Datagrams /\ msg' \in [Threads -> Messages \cup {NoMsg}]
    <3>1. CASE RequestAds(t)
      <4>1. Datagram("request", Home[t], HostIP[Home[t]], 0) \in Datagrams
        BY DEF Datagram, Datagrams
      <4> QED
        BY <3>1, <4>1 DEF RequestAds
    <3>2. CASE SendAsyn(t)
      <4>1. msg[t] \in Messages
        BY <3>2 DEF SendAsyn
      <4>2. Datagram("game", Home[t], msg[t].to, msg[t].body) \in Datagrams
        BY <4>1 DEF Datagram, Datagrams, Messages
      <4> QED
        BY <3>2, <4>2 DEF SendAsyn
    <3> QED
      BY <1>4, <3>1, <3>2 DEF FinishDirectIP, Receive
  <2>2. \A u \in Threads : call'[u] = "send" => msg'[u] \in Messages
    BY <1>4 DEF FinishDirectIP, RequestAds, SendAsyn, Receive, Returns, Goes, CallsOK
  <2>3. \A u \in Threads : at'[u] = "handling" => sender'[u] \in Processes
    BY <1>4 DEF FinishDirectIP, RequestAds, SendAsyn, Receive, Returns, Goes, CallsOK
  <2> QED
    BY <1>4, <2>1, <2>2, <2>3 DEF FinishDirectIP
<1>5. ASSUME NEW t \in Threads, StartAdvertisingDirectIP(t) PROVE DataOK'
  BY <1>5 DEF StartAdvertisingDirectIP, Returns, CallsOK
<1>6. ASSUME NEW t \in Threads, StopAdvertisingDirectIP(t) PROVE DataOK'
  BY <1>6 DEF StopAdvertisingDirectIP, snpVars
<1>7. CASE Lose
  BY <1>7 DEF Lose, snpVars
<1> QED
  BY <1>1, <1>2, <1>3, <1>4, <1>5, <1>6, <1>7 DEF DirectIPNext, DirectIPStep

LEMMA DataOfLocalPC ==
  ASSUME CallsOK, DataOK, RowsOK, scene.network = "SMEM", LocalPCNext, UNCHANGED dripVars
  PROVE  DataOK'
<1> USE ConstantTypes DEF DataOK, dripVars
<1>0. now \in Nat
  BY DEF CallsOK
<1>1. ASSUME NEW t \in Threads, MarkSelf(t) PROVE DataOK'
  BY <1>1 DEF MarkSelf, Goes, CallsOK
<1>2. ASSUME NEW t \in Threads, PassIncoming(t) PROVE DataOK'
  <2>1. self[Home[t]] \in Addresses
    BY <1>2 DEF PassIncoming, CallsOK, PlaceOK, RowsOK
  <2>2. InRow(self[Home[t]]) \in Seq(RowPackets)
    BY <2>1, InRowType
  <2>3. PassPackets(Home[t], self[Home[t]], InRow(self[Home[t]]))
    BY <1>2 DEF PassIncoming
  <2>4. incoming' \in [Processes -> Seq(Packets)]
    BY <1>0, <2>1, <2>2, <2>3, PassedType
  <2>5. overrun' \in [Processes -> BOOLEAN]
    BY <1>2 DEF PassIncoming
  <2>6. \A u \in Threads : at'[u] = "handling" => at[u] = "handling"
    BY <1>2 DEF PassIncoming, Goes, CallsOK, PlaceOK, Draining
  <2> QED
    BY <1>2, <2>4, <2>5, <2>6 DEF PassIncoming, Goes
<1>3. ASSUME NEW t \in Threads, LookForAds(t) PROVE DataOK'
  BY <1>3 DEF LookForAds, Goes, CallsOK
<1>4. ASSUME NEW t \in Threads, PassAds(t) PROVE DataOK'
  BY <1>4 DEF PassAds, Returns, CallsOK
<1>5. ASSUME NEW t \in Threads, TargetOccupied(t) PROVE DataOK'
  <2>1. CASE Goes(t, "pushing") /\ UNCHANGED msg
    BY <1>5, <2>1 DEF TargetOccupied, Goes, smemVars, CallsOK
  <2>2. CASE Returns(t) /\ msg' = [msg EXCEPT ![t] = NoMsg]
    BY <1>5, <2>2 DEF TargetOccupied, Returns, smemVars, CallsOK
  <2> QED
    BY <1>5, <2>1, <2>2 DEF TargetOccupied
<1>6. ASSUME NEW t \in Threads, PushPacket(t) PROVE DataOK'
  <2>1. msg[t] \in Messages /\ self[Home[t]] \in Addresses
    BY <1>6 DEF PushPacket, CallsOK, PlaceOK, RowsOK
  <2>2. [to |-> msg[t].to, from |-> self[Home[t]], body |-> msg[t].body] \in Arrivals
    BY <2>1 DEF Messages, Arrivals
  <2>3. arrivals' \in Seq(Arrivals)
    <3> DEFINE came == [to |-> msg[t].to, from |-> self[Home[t]], body |-> msg[t].body]
    <3>1. arrivals' = Append(arrivals, came) \/ arrivals' = arrivals
      BY <1>6 DEF PushPacket
    <3>2. came \in Arrivals /\ arrivals \in Seq(Arrivals)
      BY <2>2
    <3> HIDE DEF DataOK, came
    <3> QED
      BY <3>1, <3>2, AppendType
  <2>4. /\ msg' \in [Threads -> Messages \cup {NoMsg}]
        /\ \A u \in Threads : call'[u] = "send" => msg'[u] \in Messages
        /\ \A u \in Threads : at'[u] = "handling" => sender'[u] \in Processes
    BY <1>6 DEF PushPacket, Returns, CallsOK
  <2> QED
    BY <1>6, <2>3, <2>4 DEF PushPacket
<1>7. ASSUME NEW t \in Threads, StartAdvertisingLocalPC(t) PROVE DataOK'
  BY <1>7 DEF StartAdvertisingLocalPC, Returns, CallsOK
<1>8. ASSUME NEW t \in Threads, StopAdvertisingLocalPC(t) PROVE DataOK'
  BY <1>8 DEF StopAdvertisingLocalPC, snpVars
<1> QED
  BY <1>1, <1>2, <1>3, <1>4, <1>5, <1>6, <1>7, <1>8 DEF LocalPCNext, LocalPCStep

LEMMA DataOfLives ==
  ASSUME CallsOK, DataOK, NEW p \in Processes, Initialize(p) \/ Destroy(p) \/ ProcessDies(p)
  PROVE  DataOK'
<1> USE DEF DataOK
<1>1. CASE Initialize(p)
  <2>1. CASE InitializeDirectIP(p) /\ UNCHANGED smemVars
    BY <2>1 DEF InitializeDirectIP, smemVars, dripVars
  <2>2. CASE InitializeLocalPC(p) /\ UNCHANGED dripVars
    BY <2>2 DEF InitializeLocalPC, dripVars
  <2> QED
    BY <1>1, <2>1, <2>2 DEF Initialize
<1>2. CASE Destroy(p)
  <2>1. CASE DestroyDirectIP(p) /\ UNCHANGED smemVars
    BY <2>1 DEF DestroyDirectIP, smemVars
  <2>2. CASE DestroyLocalPC(p) /\ UNCHANGED dripVars
    BY <2>2 DEF DestroyLocalPC, dripVars
  <2> QED
    BY <1>2, <2>1, <2>2 DEF Destroy
<1>3. CASE ProcessDies(p)
  <2>1. /\ call' = [t \in Threads |-> IF Home[t] = p THEN "none" ELSE call[t]]
        /\ at' = [t \in Threads |-> IF Home[t] = p THEN "out" ELSE at[t]]
        /\ msg' = [t \in Threads |-> IF Home[t] = p THEN NoMsg ELSE msg[t]]
        /\ sender' = [t \in Threads |-> IF Home[t] = p THEN 0 ELSE sender[t]]
        /\ arrival' = [t \in Threads |-> IF Home[t] = p THEN 0 ELSE arrival[t]]
        /\ incoming' = [incoming EXCEPT ![p] = <<>>]
        /\ delivered' = [delivered EXCEPT ![p] = <<>>]
        /\ net' = {d \in net : d.to # p}
        /\ recvBuffer' = [recvBuffer EXCEPT ![p] = NoDatagram]
        /\ overwritten' = [overwritten EXCEPT ![p] = FALSE]
        /\ overrun' = [overrun EXCEPT ![p] = FALSE]
        /\ UNCHANGED <<arrivals, sends>>
    BY <1>3 DEF ProcessDies, ForgetsAll
  <2>2. <<>> \in Seq(Packets)
    OBVIOUS
  <2>3. /\ incoming' \in [Processes -> Seq(Packets)]
        /\ delivered' \in [Processes -> Seq(Packets)]
    BY <2>1, <2>2
  <2>4. /\ msg' \in [Threads -> Messages \cup {NoMsg}]
        /\ sender' \in [Threads -> Processes \cup {0}]
        /\ arrival' \in [Threads -> Nat]
    BY <2>1
  <2>5. /\ \A t \in Threads : call'[t] = "send" => msg'[t] \in Messages
        /\ \A t \in Threads : at'[t] = "handling" => sender'[t] \in Processes
    BY <2>1
  <2>6. /\ net' \subseteq Datagrams
        /\ recvBuffer' \in [Processes -> Datagrams \cup {NoDatagram}]
        /\ overwritten' \in [Processes -> BOOLEAN]
        /\ overrun' \in [Processes -> BOOLEAN]
    BY <2>1
  <2> QED
    BY <2>1, <2>3, <2>4, <2>5, <2>6
<1> QED
  BY <1>1, <1>2, <1>3

LEMMA DataStep == CallsOK /\ DataOK /\ RowsOK /\ [Next]_vars => DataOK'
<1> SUFFICES ASSUME CallsOK, DataOK, RowsOK, [Next]_vars PROVE DataOK'
  OBVIOUS
<1>1. CASE SNPNext /\ UNCHANGED <<dripVars, smemVars, lives>>
  BY <1>1, DataOfSNP
<1>2. CASE scene.network = "DRIP" /\ DirectIPNext /\ UNCHANGED <<smemVars, lives>>
  BY <1>2, DataOfDirectIP
<1>3. CASE scene.network = "SMEM" /\ LocalPCNext /\ UNCHANGED <<dripVars, lives>>
  BY <1>3, DataOfLocalPC
<1>4. CASE \E p \in Processes : Initialize(p) \/ Destroy(p) \/ ProcessDies(p)
  BY <1>4, DataOfLives
<1>5. CASE UNCHANGED vars
  BY <1>5 DEF vars, snpVars, smemVars, dripVars, DataOK
<1> QED
  BY <1>1, <1>2, <1>3, <1>4, <1>5 DEF Next

-----------------------------------------------------------------------------
(* The rows of the shared memory keep their type and their owners.         *)

\* Only the steps of LocalPC and the beginning and end of a game touch them.
LEMMA RowsUntouched ==
  ASSUME CallsOK, RowsOK, UNCHANGED <<scene, up, self, lastOccupied, advertising,
                                      incomingCount, rows, zeroTouch>>
  PROVE  RowsOK' /\ (RowsHeld => RowsHeld')
BY DEF RowsOK, RowsHeld

LEMMA RowsOfLocalPC ==
  ASSUME CallsOK, DataOK, RowsOK, scene.network = "SMEM", LocalPCNext
  PROVE  RowsOK' /\ (RowsHeld => RowsHeld')
<1>0. /\ \A p \in Processes : up[p] => self[p] \in Addresses
      /\ \A t \in Threads : call[t] # "none" => up[Home[t]]
      /\ now \in Nat /\ TickCount(now) \in Nat
  BY TickCountType DEF RowsOK, CallsOK, PlaceOK
<1>1. ASSUME NEW t \in Threads, MarkSelf(t) PROVE RowsOK' /\ (RowsHeld => RowsHeld')
  <2>1. /\ self[Home[t]] \in Addresses /\ up[Home[t]]
        /\ lastOccupied' = [lastOccupied EXCEPT ![self[Home[t]]] = TickCount(now)]
        /\ zeroTouch' = (zeroTouch \/ TickCount(now) = 0)
        /\ UNCHANGED <<scene, up, self, advertising, incomingCount, rows>>
    BY <1>0, <1>1, ConstantTypes DEF MarkSelf, MarksRow
  <2>2. RowsOK'
    BY <1>0, <2>1 DEF RowsOK
  <2>3. ASSUME RowsHeld PROVE RowsHeld'
    <3> SUFFICES ASSUME ~ zeroTouch', NEW p \in Processes, up'[p], scene'.network = "SMEM"
                 PROVE  /\ lastOccupied'[self'[p]] > 0
                        /\ \A q \in Processes : up'[q] /\ p # q => self'[p] # self'[q]
      BY DEF RowsHeld
    <3>0. ~ zeroTouch /\ TickCount(now) # 0
      BY <2>1, Zenon
    <3>1. /\ ~ zeroTouch /\ TickCount(now) > 0
          /\ up[p] /\ scene.network = "SMEM" /\ self[p] \in Addresses
      BY <1>0, <2>1, <3>0
    <3>2. /\ lastOccupied[self[p]] > 0
          /\ \A q \in Processes : up[q] /\ p # q => self[p] # self[q]
      BY <2>3, <3>1 DEF RowsHeld
    <3>3. lastOccupied'[self[p]] > 0
      BY <2>1, <3>1, <3>2 DEF RowsOK
    <3> QED
      BY <2>1, <3>2, <3>3
  <2> QED
    BY <2>2, <2>3
<1>2. ASSUME NEW t \in Threads, PassIncoming(t) PROVE RowsOK' /\ (RowsHeld => RowsHeld')
  <2>1. /\ self[Home[t]] \in Addresses
        /\ incomingCount' = [incomingCount EXCEPT ![self[Home[t]]] = 0]
        /\ rows' = [rows EXCEPT ![self[Home[t]]] = <<>>]
        /\ UNCHANGED <<scene, up, self, lastOccupied, advertising, zeroTouch>>
    BY <1>0, <1>2, ConstantTypes DEF PassIncoming, CallsOK, PlaceOK
  <2>2. <<>> \in Seq(RowPackets) /\ Len(<<>>) = 0
    OBVIOUS
  <2>3. /\ incomingCount' \in [Addresses -> Nat]
        /\ rows' \in [Addresses -> Seq(RowPackets)]
    BY <2>1, <2>2 DEF RowsOK
  <2>4. \A a \in Addresses :
          Len(rows'[a]) = IF incomingCount'[a] <= Room THEN incomingCount'[a] ELSE Room
    BY <2>1, <2>2, ConstantTypes DEF RowsOK
  <2>5. RowsOK'
    BY <2>1, <2>3, <2>4 DEF RowsOK
  <2> QED
    BY <2>1, <2>5 DEF RowsHeld
<1>3. ASSUME NEW t \in Threads, PushPacket(t) PROVE RowsOK' /\ (RowsHeld => RowsHeld')
  <2> DEFINE him == msg[t].to
             packet == [sender |-> self[Home[t]], body |-> msg[t].body,
                        id |-> Len(arrivals) + 1]
  <2>1. msg[t] \in Messages /\ self[Home[t]] \in Addresses
    BY <1>0, <1>3, ConstantTypes DEF PushPacket, DataOK, CallsOK, PlaceOK
  <2>2. him \in Addresses /\ packet \in RowPackets
    BY <2>1, ConstantTypes DEF Messages, RowPackets, DataOK
  <2>3. /\ incomingCount' = [incomingCount EXCEPT ![him] = incomingCount[him] + 1]
        /\ \/ incomingCount[him] >= Room /\ rows' = rows
           \/ /\ ~ (incomingCount[him] >= Room)
              /\ rows' = [rows EXCEPT ![him] = Append(rows[him], packet)]
        /\ UNCHANGED <<scene, up, self, lastOccupied, advertising, zeroTouch>>
    BY <1>3 DEF PushPacket, Full
  <2> HIDE DEF him, packet
  <2>4. /\ rows[him] \in Seq(RowPackets) /\ incomingCount[him] \in Nat
        /\ rows \in [Addresses -> Seq(RowPackets)] /\ incomingCount \in [Addresses -> Nat]
        /\ \A a \in Addresses :
             Len(rows[a]) = IF incomingCount[a] <= Room THEN incomingCount[a] ELSE Room
    BY <2>2 DEF RowsOK
  <2>5. /\ Append(rows[him], packet) \in Seq(RowPackets)
        /\ Len(Append(rows[him], packet)) = Len(rows[him]) + 1
    BY <2>2, <2>4, AppendType
  <2>6. /\ incomingCount' \in [Addresses -> Nat]
        /\ rows' \in [Addresses -> Seq(RowPackets)]
    <3>1. incomingCount[him] + 1 \in Nat
      BY <2>4
    <3>2. incomingCount' \in [Addresses -> Nat]
      BY <2>3, <2>4, <3>1
    <3>3. [rows EXCEPT ![him] = Append(rows[him], packet)] \in [Addresses -> Seq(RowPackets)]
      BY <2>4, <2>5
    <3> QED
      BY <2>3, <2>4, <3>2, <3>3
  <2>7. ASSUME NEW a \in Addresses
        PROVE  Len(rows'[a]) = IF incomingCount'[a] <= Room THEN incomingCount'[a] ELSE Room
    <3>1. CASE a = him
      BY <2>2, <2>3, <2>4, <2>5, <3>1, ConstantTypes
    <3>2. CASE a # him
      BY <2>2, <2>3, <2>4, <3>2
    <3> QED
      BY <3>1, <3>2
  <2>8. RowsOK'
    BY <2>3, <2>6, <2>7 DEF RowsOK
  <2> QED
    BY <2>3, <2>8 DEF RowsHeld
<1>4. ASSUME NEW t \in Threads, StartAdvertisingLocalPC(t)
      PROVE  RowsOK' /\ (RowsHeld => RowsHeld')
  <2>1. self[Home[t]] \in Addresses
    BY <1>0, <1>4, ConstantTypes DEF StartAdvertisingLocalPC
  <2> QED
    BY <1>4, <2>1 DEF StartAdvertisingLocalPC, RowsOK, RowsHeld
<1>5. ASSUME NEW t \in Threads, StopAdvertisingLocalPC(t)
      PROVE  RowsOK' /\ (RowsHeld => RowsHeld')
  BY <1>5 DEF StopAdvertisingLocalPC, snpVars, RowsOK, RowsHeld
<1>6. ASSUME NEW t \in Threads, LookForAds(t) \/ PassAds(t) \/ TargetOccupied(t)
      PROVE  RowsOK' /\ (RowsHeld => RowsHeld')
  BY <1>6, RowsUntouched DEF LookForAds, PassAds, TargetOccupied, smemVars
<1> QED
  BY <1>1, <1>2, <1>3, <1>4, <1>5, <1>6 DEF LocalPCNext, LocalPCStep

LEMMA RowsOfInitialize ==
  ASSUME CallsOK, RowsOK, NEW p \in Processes, InitializeLocalPC(p)
  PROVE  RowsOK' /\ (RowsHeld => RowsHeld')
<1> DEFINE created == \A q \in Processes : ~ up[q]
           free == {a \in Addresses : created \/ ~ isOccupied(a)}
           row == Min(free)
<1>1. row \in free
  <2>1. free \in SUBSET Nat /\ free # {}
    BY ConstantTypes DEF InitializeLocalPC
  <2> HIDE DEF free
  <2> QED
    BY <2>1, MinIsLeast
<1>2. /\ ~ up[p] /\ up' = [up EXCEPT ![p] = TRUE]
      /\ self' = [self EXCEPT ![p] = row]
      /\ lastOccupied' = [a \in Addresses |->
           IF a = row THEN TickCount(now) ELSE IF created THEN 0 ELSE lastOccupied[a]]
      /\ zeroTouch' = (zeroTouch \/ TickCount(now) = 0)
      /\ advertising' = IF created THEN {} ELSE advertising \ {row}
      /\ incomingCount' = [a \in Addresses |->
           IF created \/ a = row THEN 0 ELSE incomingCount[a]]
      /\ rows' = [a \in Addresses |-> IF created \/ a = row THEN <<>> ELSE rows[a]]
      /\ scene' = scene
  BY DEF InitializeLocalPC, Taken
<1>3. row \in Addresses /\ (~ created => ~ (lastOccupied[row] > 0))
  BY <1>1 DEF isOccupied
<1> HIDE DEF row, free
<1>4. now \in Nat /\ TickCount(now) \in Nat
  BY TickCountType DEF CallsOK
<1>5. <<>> \in Seq(RowPackets) /\ Len(<<>>) = 0
  OBVIOUS
<1>6. \A a \in Addresses :
        Len(rows'[a]) = IF incomingCount'[a] <= Room THEN incomingCount'[a] ELSE Room
  BY <1>2, <1>5, ConstantTypes DEF RowsOK
<1>7. /\ rows' \in [Addresses -> Seq(RowPackets)]
      /\ incomingCount' \in [Addresses -> Nat]
      /\ lastOccupied' \in [Addresses -> Nat]
      /\ self' \in [Processes -> Peer]
      /\ advertising' \subseteq Addresses
      /\ zeroTouch' \in BOOLEAN
  BY <1>2, <1>3, <1>4, <1>5 DEF RowsOK, Peer
<1>8. \A q \in Processes : up'[q] /\ scene'.network = "SMEM" => self'[q] \in Addresses
  BY <1>2, <1>3 DEF RowsOK, CallsOK
<1>9. RowsOK'
  BY <1>6, <1>7, <1>8 DEF RowsOK
<1>10. ASSUME RowsHeld, ~ zeroTouch', NEW q \in Processes, up'[q], scene'.network = "SMEM"
       PROVE  /\ lastOccupied'[self'[q]] > 0
              /\ q # p => self'[q] # row /\ self'[q] = self[q] /\ up[q]
  <2>1. CASE q = p
    <3>1. self'[q] = row
      BY <1>2, <2>1 DEF RowsOK
    <3>2. lastOccupied'[row] = TickCount(now)
      BY <1>2, <1>3
    <3>3. TickCount(now) # 0
      BY <1>2, <1>10
    <3> QED
      BY <1>4, <2>1, <3>1, <3>2, <3>3
  <2>2. CASE q # p
    <3>1. up[q] /\ self'[q] = self[q] /\ ~ created /\ ~ zeroTouch
      BY <1>2, <1>10, <2>2 DEF RowsOK, CallsOK
    <3>2. lastOccupied[self[q]] > 0 /\ self[q] \in Addresses
      BY <1>2, <1>10, <3>1 DEF RowsHeld, RowsOK
    <3> QED
      BY <1>2, <1>3, <3>1, <3>2
  <2> QED
    BY <2>1, <2>2
<1>11. ASSUME RowsHeld PROVE RowsHeld'
  <2>1. self'[p] = row
    BY <1>2 DEF RowsOK
  <2>2. CASE zeroTouch'
    BY <2>2 DEF RowsHeld
  <2>3. CASE ~ zeroTouch'
    <3>1. ~ zeroTouch /\ scene' = scene
      BY <1>2, <2>3
    <3>2. ASSUME NEW q \in Processes, up'[q], scene'.network = "SMEM"
          PROVE  /\ lastOccupied'[self'[q]] > 0
                 /\ q # p => self'[q] # row /\ self'[q] = self[q] /\ up[q]
      BY <1>10, <1>11, <2>3, <3>2
    <3>3. ASSUME NEW q \in Processes, NEW r \in Processes,
                 up'[q], up'[r], q # r, scene'.network = "SMEM"
          PROVE  self'[q] # self'[r]
      <4>1. CASE q = p
        BY <2>1, <3>2, <3>3, <4>1
      <4>2. CASE r = p
        BY <2>1, <3>2, <3>3, <4>2
      <4>3. CASE q # p /\ r # p
        <5>1. up[q] /\ up[r] /\ self'[q] = self[q] /\ self'[r] = self[r]
          BY <3>2, <3>3, <4>3
        <5>2. self[q] # self[r]
          BY <1>11, <3>1, <3>3, <5>1 DEF RowsHeld
        <5> QED
          BY <5>1, <5>2
      <4> QED
        BY <4>1, <4>2, <4>3
    <3> QED
      BY <3>2, <3>3 DEF RowsHeld
  <2> QED
    BY <2>2, <2>3
<1> QED
  BY <1>9, <1>11

LEMMA RowsOfLives ==
  ASSUME CallsOK, RowsOK, NEW p \in Processes, Initialize(p) \/ Destroy(p) \/ ProcessDies(p)
  PROVE  RowsOK' /\ (RowsHeld => RowsHeld')
<1>1. CASE Initialize(p)
  <2>1. CASE scene.network = "DRIP" /\ InitializeDirectIP(p) /\ UNCHANGED smemVars
    BY <2>1 DEF InitializeDirectIP, smemVars, RowsOK, RowsHeld
  <2> QED
    BY <1>1, <2>1, RowsOfInitialize DEF Initialize
<1>2. CASE Destroy(p)
  <2>1. CASE scene.network = "DRIP" /\ DestroyDirectIP(p) /\ UNCHANGED smemVars
    BY <2>1 DEF DestroyDirectIP, smemVars, RowsOK, RowsHeld
  <2>2. CASE scene.network = "SMEM" /\ DestroyLocalPC(p)
    <3>1. /\ up[p] /\ self[p] \in Addresses
          /\ up' = [up EXCEPT ![p] = FALSE]
          /\ lastOccupied' = [lastOccupied EXCEPT ![self[p]] = 0]
          /\ self' = [self EXCEPT ![p] = 0]
          /\ UNCHANGED <<scene, advertising, incomingCount, rows, zeroTouch>>
      BY <1>2, <2>2 DEF Destroy, DestroyLocalPC, RowsOK
    <3>2. RowsOK'
      BY <3>1 DEF RowsOK, Peer, CallsOK
    <3>3. ASSUME RowsHeld PROVE RowsHeld'
      BY <2>2, <3>1, <3>3 DEF RowsHeld, RowsOK, CallsOK
    <3> QED
      BY <3>2, <3>3
  <2> QED
    BY <1>2, <2>1, <2>2 DEF Destroy
<1>3. CASE ProcessDies(p)
  <2>1. /\ up' = [up EXCEPT ![p] = FALSE]
        /\ self' = [self EXCEPT ![p] = 0]
        /\ UNCHANGED <<scene, lastOccupied, advertising, incomingCount, rows, zeroTouch>>
    BY <1>3 DEF ProcessDies, ForgetsAll
  <2> QED
    BY <2>1 DEF RowsOK, RowsHeld, Peer, CallsOK
<1> QED
  BY <1>1, <1>2, <1>3

LEMMA RowsStep ==
  CallsOK /\ DataOK /\ RowsOK /\ [Next]_vars => RowsOK' /\ (RowsHeld => RowsHeld')
<1> SUFFICES ASSUME CallsOK, DataOK, RowsOK, [Next]_vars
             PROVE  RowsOK' /\ (RowsHeld => RowsHeld')
  OBVIOUS
<1>1. CASE SNPNext /\ UNCHANGED <<dripVars, smemVars, lives>>
  <2>1. UNCHANGED <<scene, up>>
    BY <1>1, ZenonT(30) DEF SNPNext, spiLockGameList, spiUnlockGameList, spiGetGameInfo,
       spiStartAdvertisingLadderGame, spiSend, spiReceive, spiReceiveEnds, Tick
  <2> QED
    BY <1>1, <2>1, RowsUntouched DEF smemVars
<1>2. CASE scene.network = "DRIP" /\ DirectIPNext /\ UNCHANGED <<smemVars, lives>>
  <2>1. UNCHANGED <<scene, up>>
    BY <1>2 DEF DirectIPNext, DirectIPStep, ReceivePacket, NoPacket, HandlePacket,
       FinishDirectIP, StartAdvertisingDirectIP, StopAdvertisingDirectIP, Lose, snpVars
  <2> QED
    BY <1>2, <2>1, RowsUntouched DEF smemVars
<1>3. CASE scene.network = "SMEM" /\ LocalPCNext /\ UNCHANGED <<dripVars, lives>>
  BY <1>3, RowsOfLocalPC
<1>4. CASE \E p \in Processes : Initialize(p) \/ Destroy(p) \/ ProcessDies(p)
  BY <1>4, RowsOfLives
<1>5. CASE UNCHANGED vars
  BY <1>5, RowsUntouched DEF vars, snpVars, smemVars
<1> QED
  BY <1>1, <1>2, <1>3, <1>4, <1>5 DEF Next

-----------------------------------------------------------------------------
(* The list of games.                                                      *)

\* What passAdvertisement makes of the list: the entries of these hosts get the
\* time, and each of them that had no entry gets one at the end.
LEMMA AdvertisedEntries ==
  ASSUME now \in Nat, NEW list \in Seq(Games), NEW hosts \in SUBSET Addresses,
         NEW list2, list2 = Advertised(list, hosts)
  PROVE  /\ list2 \in Seq(Games) /\ Len(list2) >= Len(list)
         /\ \A i \in 1..Len(list) :
              /\ list2[i].host = list[i].host
              /\ list2[i].timer = IF list[i].host \in hosts THEN now ELSE list[i].timer
         /\ \A i \in Len(list) + 1..Len(list2) :
              /\ list2[i].host \in hosts /\ list2[i].timer = now
              /\ \A j \in 1..Len(list) : list[j].host # list2[i].host
              /\ \A j \in Len(list) + 1..i - 1 : list2[j].host # list2[i].host
         /\ \A a \in hosts : \E i \in 1..Len(list2) : list2[i].host = a
<1> DEFINE entry(a) == [host |-> a, index |-> HostedIndex, timer |-> now]
           N == {a \in hosts : \A i \in DOMAIN list : list[i].host # a}
           new == NewHosts(list, hosts)
           old == [i \in DOMAIN list |->
                     IF list[i].host \in hosts THEN entry(list[i].host) ELSE list[i]]
           add == [i \in DOMAIN new |-> entry(new[i])]
           n == Len(list)
<1>0. DOMAIN list = 1..n /\ n \in Nat
  OBVIOUS
<1>1. N \in SUBSET Nat /\ IsFiniteSet(N)
  <2>1. N \in SUBSET Addresses /\ IsFiniteSet(Addresses)
    BY SNPAssumption
  <2> QED
    BY <2>1, FS_Subset, ConstantTypes
<1>2. /\ new \in Seq(N) /\ DOMAIN new = 1..Cardinality(N)
      /\ \A a \in N : \E k \in DOMAIN new : new[k] = a
      /\ \A j, k \in DOMAIN new : j < k => new[j] < new[k]
  <2>1. new = InOrder(N)
    BY DEF NewHosts
  <2> HIDE DEF N, new
  <2> QED
    BY <1>1, <2>1, InOrderLists
<1>3. \A a \in Addresses : entry(a) \in Games
  BY DEF Games
<1>4. \A a \in N : a \in Addresses /\ a \in hosts /\ \A j \in 1..n : list[j].host # a
  BY <1>0
<1>5. list2 = old \o add
  BY DEF Advertised
<1>6. \A i \in 1..n : list[i] \in Games /\ list[i].host \in Addresses
  <2> SUFFICES ASSUME NEW i \in 1..n PROVE list[i] \in Games
    BY DEF Games
  <2> HIDE DEF Games
  <2> QED
    OBVIOUS
<1>7. old \in Seq(Games) /\ Len(old) = n /\ \A i \in 1..n :
         /\ old[i].host = list[i].host
         /\ old[i].timer = IF list[i].host \in hosts THEN now ELSE list[i].timer
  <2> DEFINE renewed(i) == IF list[i].host \in hosts THEN entry(list[i].host) ELSE list[i]
  <2>1. \A i \in 1..n : renewed(i) \in Games
    BY <1>3, <1>6
  <2>2. old = [i \in 1..n |-> renewed(i)]
    BY <1>0
  <2>3. \A i \in 1..n :
          /\ renewed(i).host = list[i].host
          /\ renewed(i).timer = IF list[i].host \in hosts THEN now ELSE list[i].timer
    OBVIOUS
  <2> HIDE DEF renewed, old
  <2>4. old \in Seq(Games) /\ Len(old) = n
    BY <1>0, <2>1, <2>2
  <2> QED
    BY <2>2, <2>3, <2>4
<1>8. Len(new) \in Nat /\ DOMAIN new = 1..Len(new) /\ \A k \in 1..Len(new) : new[k] \in N
  <2> HIDE DEF new, N, old, add, entry, n
  <2>1. new \in Seq(N)
    BY <1>2
  <2> QED
    BY <2>1
<1>9. /\ add \in Seq(Games) /\ Len(add) = Len(new)
      /\ \A k \in 1..Len(new) : add[k].host = new[k] /\ add[k].timer = now
  <2> HIDE DEF new, N
  <2> DEFINE e(k) == entry(new[k])
  <2>1. \A k \in 1..Len(new) : e(k) \in Games
    BY <1>3, <1>4, <1>8
  <2>2. add = [k \in 1..Len(new) |-> e(k)]
    BY <1>8
  <2>3. \A k \in 1..Len(new) : e(k).host = new[k] /\ e(k).timer = now
    OBVIOUS
  <2> HIDE DEF e, add
  <2>4. add \in Seq(Games) /\ Len(add) = Len(new)
    BY <1>8, <2>1, <2>2
  <2> QED
    BY <2>2, <2>3, <2>4
<1> HIDE DEF new, N, old, add, entry, n
<1>9a. old \in Seq(Games) /\ Len(old) = n /\ add \in Seq(Games) /\ Len(add) = Len(new)
  BY <1>7, <1>9
<1>9b. /\ old \o add \in Seq(Games)
       /\ Len(old \o add) = Len(old) + Len(add)
       /\ \A i \in 1..Len(old) : (old \o add)[i] = old[i]
       /\ \A k \in 1..Len(add) : (old \o add)[Len(old) + k] = add[k]
  <2>1. old \in Seq(Games)
    BY <1>9a
  <2>2. add \in Seq(Games)
    BY <1>9a
  <2>3. old \o add \in Seq(Games)
    BY <2>1, <2>2, ConcatElements
  <2>4. Len(old \o add) = Len(old) + Len(add)
    BY <2>1, <2>2, ConcatElements
  <2>5. \A i \in 1..Len(old) : (old \o add)[i] = old[i]
    BY <2>1, <2>2, ConcatElements
  <2>6. \A k \in 1..Len(add) : (old \o add)[Len(old) + k] = add[k]
    BY <2>1, <2>2, ConcatElements
  <2> QED
    BY <2>3, <2>4, <2>5, <2>6
<1>10. list2 \in Seq(Games)
  BY <1>5, <1>9b
<1>11. Len(list2) = n + Len(new)
  BY <1>5, <1>9a, <1>9b
<1>12. \A i \in 1..n : list2[i] = old[i]
  BY <1>5, <1>9a, <1>9b
<1>13. \A k \in 1..Len(new) : list2[n + k] = add[k]
  BY <1>5, <1>9a, <1>9b
<1>14. \A i \in n + 1..Len(list2) : i - n \in 1..Len(new) /\ list2[i] = add[i - n]
  <2> SUFFICES ASSUME NEW i \in n + 1..Len(list2)
               PROVE  i - n \in 1..Len(new) /\ list2[i] = add[i - n]
    OBVIOUS
  <2>1. i - n \in 1..Len(new) /\ n + (i - n) = i
    BY <1>0, <1>8, <1>11
  <2> QED
    BY <1>13, <2>1
<1>15. ASSUME NEW i \in n + 1..Len(list2)
       PROVE  /\ list2[i].host \in hosts /\ list2[i].timer = now
              /\ \A j \in 1..n : list[j].host # list2[i].host
              /\ \A j \in n + 1..i - 1 : list2[j].host # list2[i].host
  <2>1. i - n \in 1..Len(new) /\ list2[i].host = new[i - n] /\ list2[i].timer = now
    BY <1>9, <1>14
  <2>2. new[i - n] \in N
    BY <1>8, <2>1
  <2>3. ASSUME NEW j \in n + 1..i - 1 PROVE list2[j].host # list2[i].host
    <3>1. j \in n + 1..Len(list2) /\ j - n < i - n
      BY <1>0, <1>8, <1>11, <1>15
    <3>2. j - n \in 1..Len(new) /\ list2[j].host = new[j - n]
      BY <1>9, <1>14, <3>1
    <3>3. new[j - n] < new[i - n] /\ new[j - n] \in Nat /\ new[i - n] \in Nat
      BY <1>1, <1>2, <1>8, <2>1, <3>1, <3>2
    <3> QED
      BY <2>1, <3>2, <3>3
  <2> QED
    BY <1>4, <2>1, <2>2, <2>3
<1>16. ASSUME NEW a \in hosts PROVE \E i \in 1..Len(list2) : list2[i].host = a
  <2>1. CASE a \in N
    <3>1. PICK k \in 1..Len(new) : new[k] = a
      BY <1>2, <1>8, <2>1
    <3>2. list2[n + k].host = a /\ n + k \in 1..Len(list2)
      BY <1>0, <1>8, <1>9, <1>11, <1>13, <3>1
    <3> QED
      BY <3>2
  <2>2. CASE a \notin N
    <3>1. PICK i \in 1..n : list[i].host = a
      BY <1>0, <2>2 DEF N
    <3>2. list2[i].host = a /\ i \in 1..Len(list2)
      BY <1>0, <1>7, <1>8, <1>11, <1>12, <3>1
    <3> QED
      BY <3>2
  <2> QED
    BY <2>1, <2>2
<1>17. \A i \in 1..n :
         /\ list2[i].host = list[i].host
         /\ list2[i].timer = IF list[i].host \in hosts THEN now ELSE list[i].timer
  BY <1>7, <1>12
<1>18. Len(list2) >= n
  BY <1>0, <1>8, <1>11
<1> QED
  BY <1>10, <1>15, <1>16, <1>17, <1>18 DEF n

LEMMA AdvertisedKeeps ==
  ASSUME now \in Nat, UNCHANGED now, ListsOK, NEW p \in Processes,
         NEW hosts \in SUBSET Addresses, PassAdvertisement(p, hosts)
  PROVE  ListsOK'
<1> DEFINE list == games[p]
           list2 == games'[p]
           n == Len(list)
<1>1. /\ games' = [games EXCEPT ![p] = Advertised(list, hosts)]
      /\ heard' = [heard EXCEPT ![p] =
                     [a \in Addresses |-> IF a \in hosts THEN now ELSE heard[p][a]]]
  BY DEF PassAdvertisement
<1>2. /\ list \in Seq(Games) /\ DOMAIN list = 1..n /\ n \in Nat
      /\ heard[p] \in [Addresses -> Nat \cup {Never}]
      /\ \A a \in Addresses : heard[p][a] <= now
      /\ \A i, j \in DOMAIN list : list[i].host = list[j].host => i = j
      /\ \A i \in DOMAIN list : heard[p][list[i].host] = list[i].timer
      /\ \A a \in Addresses :
           /\ heard[p][a] # Never
           /\ \A i \in DOMAIN list : list[i].host # a
           /\ SameLap(heard[p][a], AdLife)
           => now - heard[p][a] > AdLife
  BY DEF ListsOK, GamesOK
<1>3. /\ DOMAIN games' = Processes /\ DOMAIN heard' = Processes
      /\ list2 = Advertised(list, hosts)
      /\ heard'[p] = [a \in Addresses |-> IF a \in hosts THEN now ELSE heard[p][a]]
      /\ \A q \in Processes : q # p => games'[q] = games[q] /\ heard'[q] = heard[q]
  BY <1>1 DEF ListsOK
<1> HIDE DEF list, list2, n
<1>4. /\ list2 \in Seq(Games) /\ Len(list2) >= n
      /\ \A i \in 1..n :
           /\ list2[i].host = list[i].host
           /\ list2[i].timer = IF list[i].host \in hosts THEN now ELSE list[i].timer
      /\ \A i \in n + 1..Len(list2) :
           /\ list2[i].host \in hosts /\ list2[i].timer = now
           /\ \A j \in 1..n : list[j].host # list2[i].host
           /\ \A j \in n + 1..i - 1 : list2[j].host # list2[i].host
      /\ \A a \in hosts : \E i \in 1..Len(list2) : list2[i].host = a
  BY <1>2, <1>3, AdvertisedEntries DEF n
<1>5. DOMAIN list2 = 1..Len(list2) /\ Len(list2) \in Nat
  BY <1>4
<1>6. \A i \in DOMAIN list2 : i \in 1..n \/ i \in n + 1..Len(list2)
  BY <1>2, <1>5
<1>7. ASSUME NEW i \in DOMAIN list2, NEW j \in DOMAIN list2, i < j
      PROVE  list2[i].host # list2[j].host
  <2>1. CASE j \in 1..n
    <3>1. i \in 1..n /\ i # j
      BY <1>2, <1>5, <1>7, <2>1
    <3> QED
      BY <1>2, <1>4, <2>1, <3>1
  <2>2. CASE j \in n + 1..Len(list2) /\ i \in 1..n
    BY <1>4, <2>2
  <2>3. CASE j \in n + 1..Len(list2) /\ i \in n + 1..Len(list2)
    <3>1. i \in n + 1..j - 1
      BY <1>2, <1>5, <1>7, <2>3
    <3> QED
      BY <1>4, <2>3, <3>1
  <2> QED
    BY <1>6, <2>1, <2>2, <2>3
<1>8. \A i, j \in DOMAIN list2 : list2[i].host = list2[j].host => i = j
  <2> SUFFICES ASSUME NEW i \in DOMAIN list2, NEW j \in DOMAIN list2, i # j
               PROVE  list2[i].host # list2[j].host
    OBVIOUS
  <2>1. i < j \/ j < i
    BY <1>5
  <2> QED
    BY <1>7, <2>1
<1>9. \A i \in 1..n : list[i].host \in Addresses
  <2> SUFFICES ASSUME NEW i \in 1..n PROVE list[i] \in Games
    BY DEF Games
  <2> HIDE DEF Games
  <2> QED
    BY <1>2
<1>10. \A i \in DOMAIN list2 : heard'[p][list2[i].host] = list2[i].timer
  <2> SUFFICES ASSUME NEW i \in DOMAIN list2
               PROVE  heard'[p][list2[i].host] = list2[i].timer
    OBVIOUS
  <2>1. CASE i \in 1..n
    BY <1>2, <1>3, <1>4, <1>9, <2>1
  <2>2. CASE i \in n + 1..Len(list2)
    BY <1>3, <1>4, <2>2
  <2> QED
    BY <1>6, <2>1, <2>2
<1>11. \A a \in Addresses :
         (\A i \in DOMAIN list2 : list2[i].host # a) =>
           heard'[p][a] = heard[p][a] /\ \A i \in DOMAIN list : list[i].host # a
  <2> SUFFICES ASSUME NEW a \in Addresses, \A i \in DOMAIN list2 : list2[i].host # a
               PROVE  heard'[p][a] = heard[p][a] /\ \A i \in 1..n : list[i].host # a
    BY <1>2
  <2>1. a \notin hosts
    BY <1>4, <1>5
  <2>2. \A i \in 1..n : i \in DOMAIN list2
    BY <1>2, <1>4, <1>5
  <2> QED
    BY <1>3, <1>4, <2>1, <2>2
<1>12. /\ heard'[p] \in [Addresses -> Nat \cup {Never}]
       /\ \A a \in Addresses : heard'[p][a] <= now
  BY <1>2, <1>3
<1>13. GamesOK(p)'
  BY <1>2, <1>4, <1>8, <1>10, <1>11, <1>12 DEF GamesOK, list2, SameLap
<1>14. \A q \in Processes : q # p => GamesOK(q)'
  BY <1>3 DEF ListsOK, GamesOK, SameLap
<1> QED
  BY <1>3, <1>13, <1>14 DEF ListsOK

\* spiLockGameList erases entries of hosts that were last heard of too long ago.
LEMMA KeptType ==
  ASSUME NEW list \in Seq(Games)
  PROVE  /\ Kept(list) \in SUBSET Nat /\ Kept(list) \in SUBSET (DOMAIN list)
         /\ IsFiniteSet(Kept(list))
<1>1. DOMAIN list = 1..Len(list) /\ Len(list) \in Nat
  OBVIOUS
<1>2. Kept(list) \in SUBSET (1..Len(list)) /\ IsFiniteSet(1..Len(list))
  BY <1>1, FS_Interval DEF Kept
<1>3. IsFiniteSet(Kept(list))
  BY <1>2, FS_Subset
<1> QED
  BY <1>1, <1>2, <1>3

LEMMA PrunedKeeps ==
  ASSUME now \in Nat, UNCHANGED <<now, heard>>, ListsOK, NEW p \in Processes,
         games' = [games EXCEPT ![p] = Pruned(games[p])]
  PROVE  ListsOK'
<1> DEFINE list == games[p]
           kept == InOrder(Kept(list))
           list2 == games'[p]
<1>1. /\ list \in Seq(Games)
      /\ heard[p] \in [Addresses -> Nat \cup {Never}]
      /\ \A a \in Addresses : heard[p][a] <= now
      /\ \A i, j \in DOMAIN list : list[i].host = list[j].host => i = j
      /\ \A i \in DOMAIN list : heard[p][list[i].host] = list[i].timer
      /\ \A a \in Addresses :
           /\ heard[p][a] # Never
           /\ \A i \in DOMAIN list : list[i].host # a
           /\ SameLap(heard[p][a], AdLife)
           => now - heard[p][a] > AdLife
  BY DEF ListsOK, GamesOK
<1>2. /\ DOMAIN games' = Processes /\ list2 = Pruned(list)
      /\ \A q \in Processes : q # p => games'[q] = games[q]
  BY DEF ListsOK
<1>3. list2 = [k \in DOMAIN kept |-> list[kept[k]]]
  BY <1>2 DEF Pruned
<1> HIDE DEF list, list2
<1>4. /\ kept \in Seq(Kept(list)) /\ DOMAIN kept = 1..Cardinality(Kept(list))
      /\ \A i \in Kept(list) : \E k \in DOMAIN kept : kept[k] = i
      /\ \A j, k \in DOMAIN kept : j < k => kept[j] < kept[k]
  BY <1>1, KeptType, InOrderLists
<1>5. /\ Cardinality(Kept(list)) \in Nat
      /\ \A i \in Kept(list) : i \in Nat /\ i \in DOMAIN list
  BY <1>1, KeptType, FS_CardinalityType
<1> HIDE DEF kept
<1>6. \A k \in DOMAIN kept : kept[k] \in Kept(list)
  <2> DEFINE K == Kept(list)
  <2> HIDE DEF K
  <2>1. kept \in Seq(K)
    BY <1>4 DEF K
  <2>2. \A k \in DOMAIN kept : kept[k] \in K
    BY <2>1
  <2> QED
    BY <2>2 DEF K
<1>7. \A i \in DOMAIN list : list[i] \in Games
  <2> HIDE DEF Games
  <2> QED
    BY <1>1
<1>8. list2 \in Seq(Games) /\ DOMAIN list2 = DOMAIN kept
  <2> HIDE DEF Games
  <2>1. \A k \in 1..Cardinality(Kept(list)) : list[kept[k]] \in Games
    BY <1>4, <1>5, <1>6, <1>7
  <2>2. list2 = [k \in 1..Cardinality(Kept(list)) |-> list[kept[k]]]
    BY <1>3, <1>4
  <2> QED
    BY <1>4, <1>5, <2>1, <2>2
<1>9. \A k \in DOMAIN list2 :
        list2[k] = list[kept[k]] /\ kept[k] \in DOMAIN list /\ kept[k] \in Nat
  BY <1>3, <1>5, <1>6, <1>8
<1>10. \A i, j \in DOMAIN list2 : list2[i].host = list2[j].host => i = j
  <2> SUFFICES ASSUME NEW i \in DOMAIN list2, NEW j \in DOMAIN list2,
                      list2[i].host = list2[j].host
               PROVE  i = j
    OBVIOUS
  <2>1. kept[i] = kept[j] /\ kept[i] \in Nat
    BY <1>1, <1>9
  <2>2. ~ (i < j) /\ ~ (j < i)
    BY <1>4, <1>8, <2>1
  <2>3. i \in Nat /\ j \in Nat
    BY <1>4, <1>5, <1>8
  <2> QED
    BY <2>2, <2>3
<1>11. \A i \in DOMAIN list2 : heard'[p][list2[i].host] = list2[i].timer
  BY <1>1, <1>9
<1>12. ASSUME NEW a \in Addresses, heard[p][a] # Never,
              \A k \in DOMAIN list2 : list2[k].host # a,
              SameLap(heard[p][a], AdLife)
       PROVE  now - heard[p][a] > AdLife
  <2>1. CASE \A i \in DOMAIN list : list[i].host # a
    BY <1>1, <1>12, <2>1
  <2>2. CASE \E i \in DOMAIN list : list[i].host = a
    <3>1. PICK i \in DOMAIN list : list[i].host = a
      BY <2>2
    <3>2. i \notin Kept(list)
      BY <1>4, <1>8, <1>9, <1>12, <3>1
    <3>3. Outdated(heard[p][a], AdLife)
      BY <1>1, <3>1, <3>2 DEF Kept
    <3>4. heard[p][a] \in Nat /\ AdLife \in Nat
      BY <1>1, <1>12, ConstantTypes
    <3> QED
      BY <1>12, <3>3, <3>4, OutdatedIsLate
  <2> QED
    BY <2>1, <2>2
<1>13. GamesOK(p)'
  BY <1>1, <1>8, <1>10, <1>11, <1>12 DEF GamesOK, list2, SameLap
<1>14. \A q \in Processes : q # p => GamesOK(q)'
  BY <1>2 DEF ListsOK, GamesOK, SameLap
<1> QED
  BY <1>2, <1>13, <1>14 DEF ListsOK

LEMMA LapsGrow ==
  ASSUME NEW x \in Nat, NEW y \in Nat, x <= y
  PROVE  x \div TickRange <= y \div TickRange
<1> DEFINE R == TickRange
           q == x \div R
           r == y \div R
<1>1. R \in Nat /\ R > 0
  BY ConstantTypes
<1> HIDE DEF R
<1>2. /\ x = R * q + (x % R) /\ x % R \in 0..R - 1 /\ q \in Int
      /\ y = R * r + (y % R) /\ y % R \in 0..R - 1 /\ r \in Int
  BY <1>1
<1> HIDE DEF q, r
<1>3. SUFFICES ASSUME q >= r + 1 PROVE FALSE
  BY <1>2 DEF q, r, R
<1>4. R * q >= R * r + R
  BY <1>1, <1>2, <1>3
<1>5. R * q \in Int /\ R * r \in Int
  BY <1>1, <1>2
<1> DEFINE a == R * q
           b == R * r
<1> HIDE DEF a, b
<1>6. a \in Int /\ b \in Int /\ a >= b + R /\ x = a + (x % R) /\ y = b + (y % R)
  BY <1>2, <1>4, <1>5 DEF a, b
<1>7. x % R \in 0..R - 1 /\ y % R \in 0..R - 1
  BY <1>2
<1> QED
  BY <1>1, <1>6, <1>7

LEMMA ListsOfTick == ASSUME CallsOK, ListsOK, Tick PROVE ListsOK'
<1>1. now \in Nat /\ now' = now + 1 /\ UNCHANGED <<games, heard>>
  BY DEF CallsOK, Tick
<1>2. SUFFICES ASSUME NEW p \in Processes PROVE GamesOK(p)'
  BY <1>1 DEF ListsOK
<1>3. /\ heard[p] \in [Addresses -> Nat \cup {Never}]
      /\ \A a \in Addresses : heard[p][a] <= now
  BY DEF ListsOK, GamesOK
<1>4. \A a \in Addresses : heard[p][a] <= now'
  BY <1>1, <1>3 DEF Never
<1>5. ASSUME NEW a \in Addresses, heard[p][a] # Never, SameLap(heard[p][a], AdLife)',
             \A i \in DOMAIN games[p] : games[p][i].host # a
      PROVE  now' - heard[p][a] > AdLife
  <2> DEFINE since == heard[p][a]
  <2>1. since \in Nat /\ since <= now
    BY <1>3, <1>5
  <2>2. since \div TickRange = (since + AdLife) \div TickRange
        /\ since \div TickRange = now' \div TickRange
    BY <1>1, <1>5 DEF SameLap
  <2> HIDE DEF since
  <2>3. /\ since \div TickRange <= now \div TickRange
        /\ now \div TickRange <= now' \div TickRange
    BY <1>1, <2>1, LapsGrow
  <2>4. since \div TickRange \in Int /\ now \div TickRange \in Int
    BY <1>1, <2>1, ConstantTypes
  <2>5. SameLap(since, AdLife)
    BY <2>2, <2>3, <2>4 DEF SameLap
  <2>6. now - since > AdLife
    BY <1>5, <2>5 DEF ListsOK, GamesOK, since
  <2> QED
    BY <1>1, <2>1, <2>6, ConstantTypes DEF since
<1> QED
  BY <1>1, <1>4, <1>5 DEF ListsOK, GamesOK

LEMMA ListsUntouched ==
  ASSUME ListsOK, UNCHANGED <<games, heard, now>> PROVE ListsOK'
BY DEF ListsOK, GamesOK, SameLap

LEMMA ListsOfLives ==
  ASSUME CallsOK, ListsOK, NEW p \in Processes, Initialize(p) \/ Destroy(p) \/ ProcessDies(p)
  PROVE  ListsOK'
<1>1. CASE Initialize(p)
  BY <1>1, ListsUntouched DEF Initialize, InitializeDirectIP, InitializeLocalPC
<1>2. CASE Destroy(p)
  BY <1>2, ListsUntouched DEF Destroy, DestroyDirectIP, DestroyLocalPC
<1>3. CASE ProcessDies(p)
  <2>1. /\ games' = [games EXCEPT ![p] = <<>>]
        /\ heard' = [heard EXCEPT ![p] = [a \in Addresses |-> Never]]
        /\ now' = now /\ now \in Nat
    BY <1>3 DEF ProcessDies, ForgetsAll, CallsOK
  <2>2. <<>> \in Seq(Games) /\ DOMAIN <<>> = {}
    OBVIOUS
  <2>3. /\ games'[p] = <<>> /\ heard'[p] = [a \in Addresses |-> Never]
        /\ DOMAIN games' = Processes /\ DOMAIN heard' = Processes
        /\ \A q \in Processes : q # p => games'[q] = games[q] /\ heard'[q] = heard[q]
    BY <2>1 DEF ListsOK
  <2>4. GamesOK(p)'
    BY <2>1, <2>2, <2>3 DEF GamesOK, Never
  <2>5. \A q \in Processes : q # p => GamesOK(q)'
    BY <2>1, <2>3 DEF ListsOK, GamesOK, SameLap
  <2> QED
    BY <2>3, <2>4, <2>5 DEF ListsOK
<1> QED
  BY <1>1, <1>2, <1>3

LEMMA ListsStep == CallsOK /\ DataOK /\ RowsOK /\ ListsOK /\ [Next]_vars => ListsOK'
<1> SUFFICES ASSUME CallsOK, DataOK, RowsOK, ListsOK, [Next]_vars PROVE ListsOK'
  OBVIOUS
<1>0. now \in Nat
  BY DEF CallsOK
<1>1. CASE SNPNext
  <2>1. ASSUME NEW t \in Threads, spiLockGameList(t) PROVE ListsOK'
    <3>1. /\ games' = [games EXCEPT ![Home[t]] = Pruned(games[Home[t]])]
          /\ UNCHANGED <<now, heard>> /\ Home[t] \in Processes
      BY <2>1, ConstantTypes DEF spiLockGameList
    <3> QED
      BY <1>0, <3>1, PrunedKeeps
  <2>2. CASE Tick
    BY <2>2, ListsOfTick
  <2>3. ASSUME NEW t \in Threads,
               \/ spiUnlockGameList(t) \/ spiGetGameInfo(t)
               \/ spiStartAdvertisingLadderGame(t)
               \/ \E him \in Addresses : spiSend(t, him)
               \/ spiReceive(t) \/ spiReceiveEnds(t)
        PROVE  ListsOK'
    BY <2>3, ListsUntouched, ZenonT(30) DEF spiUnlockGameList, spiGetGameInfo,
       spiStartAdvertisingLadderGame, spiSend, spiReceive, spiReceiveEnds
  <2> QED
    BY <1>1, <2>1, <2>2, <2>3 DEF SNPNext
<1>2. CASE scene.network = "DRIP" /\ DirectIPNext /\ UNCHANGED <<smemVars, lives>>
  <2>1. ASSUME NEW t \in Threads, HandlePacket(t) PROVE ListsOK'
    <3>1. UNCHANGED now /\ (Answered(t) \/ AdPassed(t) \/ PacketPassed(t))
      BY <2>1 DEF HandlePacket
    <3>2. CASE AdPassed(t)
      <4>1. Home[t] \in Processes /\ {sender[t]} \in SUBSET Addresses
        BY <2>1, ConstantTypes DEF HandlePacket, DataOK
      <4>2. PassAdvertisement(Home[t], {sender[t]})
        BY <3>2 DEF AdPassed
      <4> QED
        BY <1>0, <3>1, <4>1, <4>2, AdvertisedKeeps
    <3> QED
      BY <3>1, <3>2, ListsUntouched DEF Answered, PacketPassed
  <2>2. ASSUME NEW t \in Threads,
               \/ ReceivePacket(t) \/ NoPacket(t) \/ FinishDirectIP(t)
               \/ StartAdvertisingDirectIP(t) \/ StopAdvertisingDirectIP(t)
        PROVE  ListsOK'
    BY <2>2, ListsUntouched DEF ReceivePacket, NoPacket, FinishDirectIP,
       StartAdvertisingDirectIP, StopAdvertisingDirectIP, snpVars
  <2>3. CASE Lose
    BY <2>3, ListsUntouched DEF Lose, snpVars
  <2> QED
    BY <1>2, <2>1, <2>2, <2>3 DEF DirectIPNext, DirectIPStep
<1>3. CASE scene.network = "SMEM" /\ LocalPCNext /\ UNCHANGED <<dripVars, lives>>
  <2>1. ASSUME NEW t \in Threads, PassAds(t) PROVE ListsOK'
    <3>1. /\ UNCHANGED now /\ Home[t] \in Processes
          /\ {a \in advertising : isOccupied(a)} \in SUBSET Addresses
          /\ PassAdvertisement(Home[t], {a \in advertising : isOccupied(a)})
      BY <2>1, ConstantTypes DEF PassAds, RowsOK
    <3> QED
      BY <1>0, <3>1, AdvertisedKeeps
  <2>2. ASSUME NEW t \in Threads,
               \/ MarkSelf(t) \/ PassIncoming(t) \/ LookForAds(t) \/ TargetOccupied(t)
               \/ PushPacket(t) \/ StartAdvertisingLocalPC(t) \/ StopAdvertisingLocalPC(t)
        PROVE  ListsOK'
    BY <2>2, ListsUntouched DEF MarkSelf, PassIncoming, LookForAds, TargetOccupied,
       PushPacket, StartAdvertisingLocalPC, StopAdvertisingLocalPC, snpVars
  <2> QED
    BY <1>3, <2>1, <2>2 DEF LocalPCNext, LocalPCStep
<1>4. CASE \E p \in Processes : Initialize(p) \/ Destroy(p) \/ ProcessDies(p)
  BY <1>4, ListsOfLives
<1>5. CASE UNCHANGED vars
  BY <1>5, ListsUntouched DEF vars, snpVars
<1> QED
  BY <1>1, <1>2, <1>3, <1>4, <1>5 DEF Next

\* What Storm reads: entries that stay, each of them or else a link to one that
\* was erased.
LEMMA ChainElements ==
  ASSUME NEW list \in Seq(Games), NEW chain, chain = Chain(list)
  PROVE  /\ \A k \in DOMAIN chain :
              chain[k] = Freed \/ \E j \in Kept(list) : chain[k] = list[j]
         /\ \A j \in Kept(list) :
              \E k \in DOMAIN chain : chain[k] = list[j] \/ chain[k] = Freed
<1> DEFINE K == Kept(list)
           m == Min(K)
           gone == {i \in DOMAIN list \ K : i > m}
           last == IF gone = {} THEN Len(list) ELSE Min(gone)
           link(i) == IF i \in K THEN list[i] ELSE Freed
<1>1. /\ K \in SUBSET Nat /\ K \in SUBSET (DOMAIN list)
      /\ DOMAIN list = 1..Len(list) /\ Len(list) \in Nat
  BY KeptType
<1>2. CASE K = {}
  BY <1>2 DEF Chain
<1>3. CASE K # {}
  <2>1. chain = [k \in 1..(last - m + 1) |-> link(m + k - 1)]
    BY <1>3 DEF Chain
  <2> HIDE DEF K
  <2>2. m \in K /\ \A j \in K : m <= j
    BY <1>1, <1>3, MinIsLeast
  <2> HIDE DEF m
  <2>3. m \in Nat /\ m <= Len(list)
    <3>1. m \in 1..Len(list)
      BY <1>1, <2>2
    <3> QED
      BY <1>1, <3>1
  <2>4. gone \in SUBSET Nat /\ gone \in SUBSET (1..Len(list))
    BY <1>1
  <2>5. gone # {} => last \in gone
    BY <2>4, MinIsLeast
  <2>6. last \in Nat /\ last >= m /\ last \in 1..Len(list)
    <3>1. CASE gone = {}
      BY <1>1, <2>2, <2>3, <3>1
    <3>2. CASE gone # {}
      <4> HIDE DEF last
      <4>1. last \in gone
        BY <2>5, <3>2
      <4>2. last \in 1..Len(list) /\ last > m
        BY <1>1, <4>1
      <4> HIDE DEF gone
      <4>3. last \in Nat
        BY <4>2
      <4> QED
        BY <2>3, <4>2, <4>3
    <3> QED
      BY <3>1, <3>2
  <2>7. gone # {} => last > m /\ last \notin K
    <3> HIDE DEF last
    <3> QED
      BY <2>5
  <2>8. gone = {} => last = Len(list)
    OBVIOUS
  <2> HIDE DEF last, gone
  <2>9. \A k \in DOMAIN chain : chain[k] = Freed \/ \E j \in K : chain[k] = list[j]
    BY <2>1
  <2>10. ASSUME NEW j \in K
         PROVE  \E k \in DOMAIN chain : chain[k] = list[j] \/ chain[k] = Freed
    <3>0. j \in Nat /\ m <= j /\ j <= Len(list)
      BY <1>1, <2>2
    <3>1. CASE j <= last
      <4> DEFINE k == j - m + 1
      <4>1. k \in 1..(last - m + 1) /\ m + k - 1 = j
        BY <2>3, <2>6, <3>0, <3>1
      <4>2. chain[k] = list[j]
        <5> HIDE DEF k
        <5>1. chain[k] = link(m + k - 1)
          BY <2>1, <4>1
        <5> QED
          BY <4>1, <5>1
      <4> HIDE DEF k
      <4>3. k \in DOMAIN chain
        BY <2>1, <4>1
      <4> QED
        BY <4>2, <4>3
    <3>2. CASE j > last
      <4>1. last \notin K
        BY <2>6, <2>7, <2>8, <3>0, <3>2
      <4> DEFINE k == last - m + 1
      <4>2. k \in 1..(last - m + 1) /\ m + k - 1 = last
        BY <2>3, <2>6
      <4>3. chain[k] = Freed
        <5> HIDE DEF k
        <5>1. chain[k] = link(m + k - 1)
          BY <2>1, <4>2
        <5> QED
          BY <4>1, <4>2, <5>1
      <4> HIDE DEF k
      <4>4. k \in DOMAIN chain
        BY <2>1, <4>2
      <4> QED
        BY <4>3, <4>4
    <3> QED
      BY <2>6, <3>0, <3>1, <3>2
  <2> QED
    BY <2>9, <2>10 DEF K
<1> QED
  BY <1>2, <1>3

\* Storm has the list from spiLockGameList only.
LEMMA OnlyLockEnters ==
  ASSUME CallsOK, [Next]_vars, NEW t \in Threads, call[t] = "none", call'[t] = "list"
  PROVE  spiLockGameList(t)
<1> USE DEF CallsOK
<1>1. CASE SNPNext
  BY <1>1, ZenonT(60) DEF SNPNext, spiLockGameList, spiUnlockGameList, spiGetGameInfo,
     spiStartAdvertisingLadderGame, spiSend, spiReceive, spiReceiveEnds, Tick, Enters, Returns
<1>2. CASE DirectIPNext
  BY <1>2 DEF DirectIPNext, DirectIPStep, ReceivePacket, NoPacket, HandlePacket,
     FinishDirectIP, RequestAds, SendAsyn, Receive, StartAdvertisingDirectIP,
     StopAdvertisingDirectIP, Lose, Goes, Returns, snpVars
<1>3. CASE LocalPCNext
  BY <1>3 DEF LocalPCNext, LocalPCStep, MarkSelf, PassIncoming, LookForAds, PassAds,
     TargetOccupied, PushPacket, StartAdvertisingLocalPC, StopAdvertisingLocalPC,
     Goes, Returns, snpVars
<1>4. CASE \E p \in Processes : Initialize(p) \/ Destroy(p) \/ ProcessDies(p)
  BY <1>4 DEF Initialize, Destroy, InitializeDirectIP, InitializeLocalPC, DestroyDirectIP,
     DestroyLocalPC, ProcessDies, ForgetsAll
<1>5. CASE UNCHANGED vars
  BY <1>5 DEF vars, snpVars
<1> QED
  BY <1>1, <1>2, <1>3, <1>4, <1>5 DEF Next

LEMMA LockedListIsCurrent ==
  ASSUME CallsOK, ListsOK, NEW t \in Threads, spiLockGameList(t), NEW p, p = Home[t],
         NEW a \in Addresses, heard[p][a] # Never, SameLap(heard[p][a], AdLife),
         NEW read, read = {shown'[p][i].host : i \in DOMAIN shown'[p]}
  PROVE  IF a \in read THEN now - heard[p][a] <= AdLife
         ELSE now - heard[p][a] > AdLife \/ Freed.host \in read
<1> DEFINE list == games[p]
           chain == shown'[p]
           since == heard[p][a]
<1>1. /\ p \in Processes /\ now \in Nat /\ AdLife \in Nat /\ a # 0
  BY ConstantTypes DEF CallsOK
<1>2. /\ list \in Seq(Games) /\ heard[p] \in [Addresses -> Nat \cup {Never}]
      /\ \A i \in DOMAIN list : heard[p][list[i].host] = list[i].timer
      /\ (\A i \in DOMAIN list : list[i].host # a) => now - since > AdLife
  BY <1>1 DEF ListsOK, GamesOK
<1>3. shown' = [shown EXCEPT ![p] = Chain(list)]
  BY DEF spiLockGameList
<1>4. chain = Chain(list)
  BY <1>1, <1>3 DEF CallsOK
<1>5. since \in Nat
  BY <1>2
<1>6. Outdated(since, AdLife) <=> now - since > AdLife
  <2> HIDE DEF since
  <2>1. SameLap(since, AdLife)
    BY DEF since
  <2> QED
    BY <1>1, <1>5, <2>1, OutdatedIsLate
<1>7. read = {chain[i].host : i \in DOMAIN chain}
  OBVIOUS
<1> HIDE DEF list, chain
<1>8. /\ \A k \in DOMAIN chain :
           chain[k] = Freed \/ \E j \in Kept(list) : chain[k] = list[j]
      /\ \A j \in Kept(list) :
           \E k \in DOMAIN chain : chain[k] = list[j] \/ chain[k] = Freed
  BY <1>2, <1>4, ChainElements
<1>9. Freed.host = 0
  BY DEF Freed
<1>10. ASSUME a \in read PROVE ~ Outdated(since, AdLife)
  <2>1. PICK k \in DOMAIN chain : chain[k].host = a
    BY <1>7, <1>10
  <2>2. chain[k] # Freed
    BY <1>1, <1>9, <2>1
  <2>3. PICK j \in Kept(list) : chain[k] = list[j]
    BY <1>8, <2>2
  <2>4. j \in DOMAIN list /\ ~ Outdated(list[j].timer, AdLife)
    BY DEF Kept
  <2> QED
    BY <1>2, <2>1, <2>3, <2>4
<1>11. ASSUME a \notin read, Freed.host \notin read, ~ Outdated(since, AdLife) PROVE FALSE
  <2>1. PICK j \in DOMAIN list : list[j].host = a
    BY <1>2, <1>6, <1>11
  <2>2. j \in Kept(list)
    BY <1>2, <1>11, <2>1 DEF Kept
  <2>3. PICK k \in DOMAIN chain : chain[k] = list[j] \/ chain[k] = Freed
    BY <1>8, <2>2
  <2>4. chain[k].host \in read
    BY <1>7
  <2> QED
    BY <1>11, <2>1, <2>3, <2>4
<1> QED
  BY <1>1, <1>5, <1>6, <1>10, <1>11

-----------------------------------------------------------------------------
(* Packets keep the order in which they came.                              *)

\* A packet that came stays one, whatever comes after it.
LEMMA StillCame ==
  ASSUME arrivals \in Seq(Arrivals), NEW x \in Arrivals, arrivals' = Append(arrivals, x)
  PROVE  /\ \A id, to, from, body : Came(id, to, from, body) => Came(id, to, from, body)'
         /\ \A id : id = Len(arrivals) + 1 => Came(id, x.to, x.from, x.body)'
<1>1. /\ Append(arrivals, x) \in Seq(Arrivals)
      /\ Len(Append(arrivals, x)) = Len(arrivals) + 1
      /\ \A i \in 1..Len(arrivals) : Append(arrivals, x)[i] = arrivals[i]
      /\ Append(arrivals, x)[Len(arrivals) + 1] = x
  BY AppendType
<1>2. Len(arrivals) \in Nat /\ DOMAIN arrivals = 1..Len(arrivals)
  OBVIOUS
<1>3. DOMAIN arrivals' = 1..Len(arrivals) + 1
  <2> HIDE DEF Arrivals
  <2> QED
    BY <1>1, <1>2
<1>4. x = [to |-> x.to, from |-> x.from, body |-> x.body]
  BY DEF Arrivals
<1> HIDE DEF Arrivals
<1>5. ASSUME NEW id, NEW to, NEW from, NEW body, Came(id, to, from, body)
      PROVE  Came(id, to, from, body)'
  <2>1. id \in 1..Len(arrivals) /\ arrivals[id] = [to |-> to, from |-> from, body |-> body]
    BY <1>2, <1>5 DEF Came
  <2>2. id \in DOMAIN arrivals' /\ arrivals'[id] = arrivals[id]
    BY <1>1, <1>2, <1>3, <2>1
  <2> QED
    BY <2>1, <2>2 DEF Came
<1>6. ASSUME NEW id, id = Len(arrivals) + 1 PROVE Came(id, x.to, x.from, x.body)'
  <2>1. id \in DOMAIN arrivals' /\ arrivals'[id] = x
    BY <1>1, <1>2, <1>3, <1>6
  <2> QED
    BY <1>4, <2>1 DEF Came
<1> QED
  BY <1>5, <1>6

LEMMA CameType ==
  ASSUME arrivals \in Seq(Arrivals), NEW id, NEW to, NEW from, NEW body,
         Came(id, to, from, body)
  PROVE  id \in Nat /\ id < Len(arrivals) + 1
<1>1. Len(arrivals) \in Nat /\ DOMAIN arrivals = 1..Len(arrivals)
  OBVIOUS
<1> QED
  BY <1>1 DEF Came

LEMMA OrderlyConcat ==
  ASSUME arrivals \in Seq(Arrivals),
         NEW s \in Seq(Packets), NEW r \in Seq(Packets), NEW sr \in Seq(Packets),
         Len(sr) = Len(s) + Len(r),
         \A i \in 1..Len(s) : sr[i] = s[i],
         \A i \in 1..Len(r) : sr[Len(s) + i] = r[i],
         Orderly(s), Orderly(r),
         \A i \in DOMAIN s : \A j \in DOMAIN r : s[i].id < r[j].id
  PROVE  Orderly(sr)
<1> HIDE DEF Packets
<1>1. /\ DOMAIN s = 1..Len(s) /\ DOMAIN r = 1..Len(r) /\ DOMAIN sr = 1..Len(sr)
      /\ Len(s) \in Nat /\ Len(r) \in Nat /\ Len(sr) \in Nat
  OBVIOUS
<1>2. SUFFICES ASSUME NEW i \in 1..Len(sr)
               PROVE  /\ Came(sr[i].id, sr[i].to, sr[i].sender, sr[i].body)
                      /\ \A j \in 1..(i - 1) : sr[j].id < sr[i].id
  BY <1>1 DEF Orderly
<1>3. CASE i \in 1..Len(s)
  <2>1. sr[i] = s[i] /\ \A j \in 1..(i - 1) : sr[j] = s[j]
    BY <1>1, <1>3
  <2> QED
    BY <1>1, <1>3, <2>1 DEF Orderly
<1>4. CASE i \notin 1..Len(s)
  <2> DEFINE k == i - Len(s)
  <2>1. k \in 1..Len(r) /\ Len(s) + k = i
    BY <1>1, <1>4
  <2>2. sr[i] = r[k]
    BY <2>1
  <2>3. Came(sr[i].id, sr[i].to, sr[i].sender, sr[i].body)
    BY <1>1, <2>1, <2>2 DEF Orderly
  <2>4. ASSUME NEW j \in 1..(i - 1) PROVE sr[j].id < sr[i].id
    <3>1. CASE j \in 1..Len(s)
      BY <1>1, <2>1, <2>2, <3>1
    <3>2. CASE j \notin 1..Len(s)
      <4>1. /\ j - Len(s) \in 1..(k - 1) /\ Len(s) + (j - Len(s)) = j
            /\ j - Len(s) \in 1..Len(r)
        BY <1>1, <2>1, <2>4, <3>2
      <4>2. sr[j] = r[j - Len(s)]
        BY <4>1
      <4> QED
        BY <1>1, <2>1, <2>2, <4>1, <4>2 DEF Orderly
    <3> QED
      BY <3>1, <3>2
  <2> QED
    BY <2>3, <2>4
<1> QED
  BY <1>3, <1>4

\* Steps that move no packet.
LEMMA OrderKept ==
  ASSUME OrderOK,
         UNCHANGED <<scene, delivered, incoming, overwritten, overrun, arrivals,
                     recvBuffer, rows>>,
         \A p \in Processes :
           up'[p] /\ scene.network = "SMEM" => up[p] /\ self'[p] = self[p],
         \A t \in Threads : at'[t] = "handling" =>
           at[t] = "handling" /\ sender'[t] = sender[t] /\ arrival'[t] = arrival[t]
  PROVE  OrderOK'
<1>1. ListsOrdered'
  BY DEF OrderOK, ListsOrdered, Sound, Orderly, Came
<1>2. InHand'
  BY ConstantTypes DEF OrderOK, InHand, Came, Before
<1>3. RowsOrdered'
  BY DEF OrderOK, RowsOrdered, Sound, Came, Before
<1> QED
  BY <1>1, <1>2, <1>3 DEF OrderOK

\* What spiReceive gives to Storm is the next packet of its queue.
LEMMA OrderOfReceive ==
  ASSUME CallsOK, DataOK, OrderOK, NEW t \in Threads, spiReceiveEnds(t),
         UNCHANGED <<dripVars, smemVars>>
  PROVE  OrderOK'
<1> DEFINE p == Home[t]
           all == incoming[p]
           got == delivered[p]
           all2 == incoming'[p]
           got2 == delivered'[p]
<1>1. /\ p \in Processes
      /\ \A q \in Processes : incoming[q] \in Seq(Packets) /\ delivered[q] \in Seq(Packets)
      /\ incoming' \in [Processes -> Seq(Packets)] /\ delivered' \in [Processes -> Seq(Packets)]
      /\ \A q \in Processes :
           q # p => incoming'[q] = incoming[q] /\ delivered'[q] = delivered[q]
  BY ConstantTypes, ReceivedType DEF DataOK
<1>2. PICK m \in 0..Len(all) :
        /\ Len(all2) = Len(all) - m
        /\ \A k \in 1..Len(all2) : all2[k] = all[m + k]
        /\ \/ got2 = got
           \/ m > 0 /\ got2 = Append(got, all[m])
  <2>1. /\ incoming \in [Processes -> Seq(Packets)]
        /\ delivered \in [Processes -> Seq(Packets)]
    BY DEF DataOK
  <2>2. PICK m \in 0..Len(incoming[p]) :
          /\ Len(incoming'[p]) = Len(incoming[p]) - m
          /\ \A k \in 1..Len(incoming'[p]) : incoming'[p][k] = incoming[p][m + k]
          /\ \/ delivered' = delivered
             \/ m > 0 /\ delivered'[p] = Append(delivered[p], incoming[p][m])
    <3> HIDE DEF all, got, all2, got2
    <3>1. t \in Threads /\ spiReceiveEnds(t) /\ p = Home[t]
      OBVIOUS
    <3>2. \E m \in 0..Len(incoming[p]) :
            /\ Len(incoming'[p]) = Len(incoming[p]) - m
            /\ \A k \in 1..Len(incoming'[p]) : incoming'[p][k] = incoming[p][m + k]
            /\ \A i \in 1..m - 1 : Outdated(incoming[p][i].since, PacketLife)
            /\ \/ /\ delivered' = delivered
                  /\ m > 0 => Outdated(incoming[p][m].since, PacketLife)
               \/ /\ m > 0
                  /\ delivered'[p] = Append(delivered[p], incoming[p][m])
                  /\ ~ Outdated(incoming[p][m].since, PacketLife)
      BY <2>1, <3>1, ReceivedType, Zenon
    <3> QED
      BY <3>2
  <2> HIDE DEF p
  <2>3. m \in 0..Len(all)
    OBVIOUS
  <2>4. Len(all2) = Len(all) - m
    BY <2>2
  <2>5. \A k \in 1..Len(all2) : all2[k] = all[m + k]
    BY <2>2
  <2>6. got2 = got \/ (m > 0 /\ got2 = Append(got, all[m]))
    BY <2>2
  <2> HIDE DEF all, got, all2, got2
  <2> QED
    BY <2>3, <2>4, <2>5, <2>6
<1>3. /\ UNCHANGED <<scene, up, arrivals, overwritten, overrun, recvBuffer, rows, self>>
      /\ \A u \in Threads : at'[u] = "handling" =>
           at[u] = "handling" /\ sender'[u] = sender[u] /\ arrival'[u] = arrival[u]
  BY ZenonT(30) DEF spiReceiveEnds, Returns, dripVars, smemVars, CallsOK
<1>4. /\ all \in Seq(Packets) /\ got \in Seq(Packets)
      /\ all2 \in Seq(Packets) /\ got2 \in Seq(Packets)
  BY <1>1
<1> HIDE DEF p, all, got, all2, got2
<1>5. /\ Len(all) \in Nat /\ DOMAIN all = 1..Len(all)
      /\ Len(got) \in Nat /\ DOMAIN got = 1..Len(got)
      /\ Len(all2) \in Nat /\ DOMAIN all2 = 1..Len(all2)
      /\ Len(got2) \in Nat /\ DOMAIN got2 = 1..Len(got2)
  BY <1>4
<1>6. \A k \in DOMAIN all2 : m + k \in DOMAIN all /\ m + k > m /\ all2[k] = all[m + k]
  <2> SUFFICES ASSUME NEW k \in 1..Len(all2)
               PROVE  m + k \in 1..Len(all) /\ m + k > m /\ all2[k] = all[m + k]
    BY <1>5
  <2>1. Len(all2) = Len(all) - m /\ Len(all) \in Nat
    BY <1>2, <1>5, ZenonT(30)
  <2>2. m + k \in 1..Len(all) /\ m + k > m
    BY <2>1
  <2> QED
    BY <1>2, <2>2
<1>7. \/ got2 = got
      \/ /\ m \in DOMAIN all /\ Len(got2) = Len(got) + 1
         /\ \A i \in 1..Len(got) : got2[i] = got[i]
         /\ got2[Len(got) + 1] = all[m]
  <2>1. CASE got2 = got
    BY <2>1
  <2>2. CASE m > 0 /\ got2 = Append(got, all[m])
    <3> HIDE DEF Packets
    <3>1. m \in DOMAIN all /\ all[m] \in Packets
      BY <1>4, <1>5, <2>2
    <3> QED
      BY <1>4, <2>2, <3>1, AppendType
  <2> QED
    BY <1>2, <2>1, <2>2
<1>8. \A i \in DOMAIN got2 :
        \/ i \in DOMAIN got /\ got2[i] = got[i]
        \/ i = Len(got) + 1 /\ m \in DOMAIN all /\ got2[i] = all[m]
  <2> SUFFICES ASSUME NEW i \in 1..Len(got2)
               PROVE  \/ i \in 1..Len(got) /\ got2[i] = got[i]
                      \/ i = Len(got) + 1 /\ m \in DOMAIN all /\ got2[i] = all[m]
    BY <1>5
  <2>1. CASE got2 = got
    BY <2>1
  <2>2. CASE Len(got2) = Len(got) + 1
    <3>1. i \in 1..Len(got) \/ i = Len(got) + 1
      BY <1>5, <2>2
    <3> QED
      BY <1>7, <3>1
  <2> QED
    BY <1>7, <2>1, <2>2
<1>9. ASSUME Sound(p)
      PROVE  /\ Orderly(got2) /\ Orderly(all2)
             /\ \A i \in DOMAIN got2 : \A j \in DOMAIN all2 : got2[i].id < all2[j].id
  <2>1. /\ Orderly(got) /\ Orderly(all)
        /\ \A i \in DOMAIN got : \A j \in DOMAIN all : got[i].id < all[j].id
    BY <1>1, <1>9 DEF OrderOK, ListsOrdered, got, all
  <2>2. ASSUME NEW i \in DOMAIN all, NEW j \in DOMAIN all, i < j
        PROVE  all[i].id < all[j].id
    <3>1. i \in 1..(j - 1)
      BY <1>5, <2>2
    <3> QED
      BY <2>1, <3>1 DEF Orderly
  <2>3. Orderly(all2)
    <3> SUFFICES ASSUME NEW i \in DOMAIN all2
                 PROVE  /\ Came(all2[i].id, all2[i].to, all2[i].sender, all2[i].body)
                        /\ \A j \in 1..(i - 1) : all2[j].id < all2[i].id
      BY DEF Orderly
    <3>1. ASSUME NEW j \in 1..(i - 1) PROVE j \in DOMAIN all2 /\ m + j < m + i
      <4>1. i \in 1..Len(all2)
        BY <1>5
      <4>2. j \in 1..Len(all2) /\ m + j < m + i
        BY <4>1
      <4> QED
        BY <1>5, <4>2
    <3> QED
      BY <1>6, <2>1, <2>2, <3>1 DEF Orderly
  <2>4. Orderly(got2)
    <3> SUFFICES ASSUME NEW i \in DOMAIN got2
                 PROVE  /\ Came(got2[i].id, got2[i].to, got2[i].sender, got2[i].body)
                        /\ \A j \in 1..(i - 1) : got2[j].id < got2[i].id
      BY DEF Orderly
    <3>1. CASE i \in DOMAIN got /\ got2[i] = got[i]
      <4>1. ASSUME NEW j \in 1..(i - 1) PROVE got2[j] = got[j]
        <5>1. i \in 1..Len(got)
          BY <1>5, <3>1
        <5>2. j \in 1..Len(got)
          BY <5>1
        <5> QED
          BY <1>7, <5>2
      <4> QED
        BY <2>1, <3>1, <4>1 DEF Orderly
    <3>2. CASE i = Len(got) + 1 /\ m \in DOMAIN all /\ got2[i] = all[m]
      <4>1. ASSUME NEW j \in 1..(i - 1) PROVE j \in DOMAIN got /\ got2[j] = got[j]
        <5>1. j \in 1..Len(got)
          BY <3>2
        <5> QED
          BY <1>5, <1>7, <5>1, ZenonT(30)
      <4> QED
        BY <2>1, <3>2, <4>1 DEF Orderly
    <3> QED
      BY <1>8, <3>1, <3>2
  <2>5. ASSUME NEW i \in DOMAIN got2, NEW j \in DOMAIN all2 PROVE got2[i].id < all2[j].id
    BY <1>6, <1>8, <2>1, <2>2
  <2> QED
    BY <2>3, <2>4, <2>5
<1>10. ASSUME NEW q \in Processes, NEW id, Before(q, id) PROVE Before(q, id)'
  <2>1. CASE q # p
    BY <1>1, <1>10, <2>1 DEF Before
  <2>2. CASE q = p
    <3>1. /\ \A i \in DOMAIN got : got[i].id < id
          /\ \A i \in DOMAIN all : all[i].id < id
      BY <1>10, <2>2 DEF Before, got, all
    <3>2. /\ \A i \in DOMAIN got2 : got2[i].id < id
          /\ \A i \in DOMAIN all2 : all2[i].id < id
      BY <1>6, <1>8, <3>1
    <3> QED
      BY <2>2, <3>2 DEF Before, got2, all2
  <2> QED
    BY <2>1, <2>2
<1>11. ListsOrdered'
  <2> SUFFICES ASSUME NEW q \in Processes, Sound(q)'
               PROVE  /\ Orderly(delivered[q])' /\ Orderly(incoming[q])'
                      /\ \A i \in DOMAIN delivered'[q] : \A j \in DOMAIN incoming'[q] :
                           delivered'[q][i].id < incoming'[q][j].id
    BY DEF ListsOrdered
  <2>0. Sound(q)
    BY <1>3 DEF Sound
  <2>1. CASE q # p
    <3>1. incoming'[q] = incoming[q] /\ delivered'[q] = delivered[q]
      BY <1>1, <2>1
    <3>2. /\ Orderly(delivered[q]) /\ Orderly(incoming[q])
          /\ \A i \in DOMAIN delivered[q] : \A j \in DOMAIN incoming[q] :
               delivered[q][i].id < incoming[q][j].id
      BY <2>0 DEF OrderOK, ListsOrdered
    <3>3. Orderly(delivered[q])' /\ Orderly(incoming[q])'
      BY <1>3, <3>1, <3>2 DEF Orderly, Came
    <3> QED
      BY <3>1, <3>2, <3>3
  <2>2. CASE q = p
    <3>1. /\ Orderly(delivered'[q]) /\ Orderly(incoming'[q])
          /\ \A i \in DOMAIN delivered'[q] : \A j \in DOMAIN incoming'[q] :
               delivered'[q][i].id < incoming'[q][j].id
      BY <1>9, <2>0, <2>2 DEF got2, all2
    <3> QED
      BY <1>3, <3>1 DEF Orderly, Came
  <2> QED
    BY <2>1, <2>2
<1>12. InHand'
  BY <1>3, <1>10, ConstantTypes DEF OrderOK, InHand, Came
<1>13. RowsOrdered'
  BY <1>3, <1>10 DEF OrderOK, RowsOrdered, Sound, Came
<1> QED
  BY <1>11, <1>12, <1>13 DEF OrderOK

\* A datagram that comes is newer than all that its process has or had.
LEMMA OrderOfArrival ==
  ASSUME DataOK, OrderOK, NEW x \in Arrivals, arrivals' = Append(arrivals, x)
  PROVE  /\ \A list : Orderly(list) => Orderly(list)'
         /\ \A id, to, from, body : Came(id, to, from, body) => Came(id, to, from, body)'
         /\ \A id : id = Len(arrivals) + 1 =>
              /\ Came(id, x.to, x.from, x.body)'
              /\ \A p \in Processes : Sound(p) => Before(p, id)
<1>1. arrivals \in Seq(Arrivals)
  BY DEF DataOK
<1>2. /\ \A id, to, from, body : Came(id, to, from, body) => Came(id, to, from, body)'
      /\ \A id : id = Len(arrivals) + 1 => Came(id, x.to, x.from, x.body)'
  BY <1>1, StillCame
<1>3. ASSUME NEW list, Orderly(list) PROVE Orderly(list)'
  BY <1>2, <1>3 DEF Orderly
<1>4. ASSUME NEW list, Orderly(list)
      PROVE  \A i \in DOMAIN list : list[i].id < Len(arrivals) + 1
  BY <1>1, <1>4, CameType DEF Orderly
<1>5. ASSUME NEW p \in Processes, Sound(p), NEW id, id = Len(arrivals) + 1
      PROVE  Before(p, id)
  BY <1>4, <1>5 DEF OrderOK, ListsOrdered, Before
<1> QED
  BY <1>2, <1>3, <1>5

LEMMA OrderOfReceivePacket ==
  ASSUME CallsOK, DataOK, OrderOK, NEW t \in Threads, ReceivePacket(t),
         scene.network = "DRIP", UNCHANGED smemVars
  PROVE  OrderOK'
<1> DEFINE p == Home[t]
           id == Len(arrivals) + 1
<1>1. PICK d \in net :
        /\ recvBuffer' = [recvBuffer EXCEPT ![p] = d]
        /\ sender' = [sender EXCEPT ![t] = d.from]
        /\ \/ /\ d.type = "game"
              /\ arrivals' = Append(arrivals, [to |-> p, from |-> d.from, body |-> d.body])
              /\ arrival' = [arrival EXCEPT ![t] = id]
           \/ d.type # "game" /\ arrivals' = arrivals /\ arrival' = [arrival EXCEPT ![t] = 0]
  BY DEF ReceivePacket
<1>2. /\ overwritten' = [overwritten EXCEPT ![p] =
           @ \/ \E u \in Threads \ {t} : Home[u] = p /\ at[u] = "handling"]
      /\ at' = [at EXCEPT ![t] = "handling"]
      /\ UNCHANGED <<scene, up, incoming, delivered, overrun, rows, self>>
  BY DEF ReceivePacket, Goes, smemVars
<1>3. /\ p \in Processes /\ p \in Addresses /\ d \in Datagrams
      /\ d.type \in {"request", "stats", "game"} /\ d.from \in Processes
      /\ d.from \in Nat /\ d.body \in Nat /\ p \in Nat
  BY ConstantTypes DEF DataOK, Datagrams
<1> DEFINE x == [to |-> p, from |-> d.from, body |-> d.body]
<1>4. x \in Arrivals /\ x.to = p /\ x.from = d.from /\ x.body = d.body
  BY <1>3 DEF Arrivals
<1> HIDE DEF p, x, id
<1>5. arrivals' = arrivals \/ arrivals' = Append(arrivals, x)
  BY <1>1 DEF x
<1>6. /\ \A list : Orderly(list) => Orderly(list)'
      /\ \A i, to, from, body : Came(i, to, from, body) => Came(i, to, from, body)'
  <2>1. CASE arrivals' = arrivals
    BY <2>1 DEF Orderly, Came
  <2>2. CASE arrivals' = Append(arrivals, x)
    BY <1>4, <2>2, OrderOfArrival
  <2> QED
    BY <1>5, <2>1, <2>2
<1>7. ASSUME NEW q \in Processes, ~ overwritten'[q]
      PROVE  /\ ~ overwritten[q]
             /\ q = p => \A u \in Threads \ {t} : ~ (Home[u] = p /\ at[u] = "handling")
  <2>1. CASE q = p
    <3>1. overwritten'[p] =
            (overwritten[p] \/ \E u \in Threads \ {t} : Home[u] = p /\ at[u] = "handling")
      BY <1>2, <1>3 DEF DataOK
    <3> QED
      BY <1>7, <2>1, <3>1, Zenon
  <2>2. CASE q # p
    BY <1>2, <1>7, <2>2
  <2> QED
    BY <2>1, <2>2
<1>8. \A q \in Processes : Sound(q)' => Sound(q)
  BY <1>2, <1>7 DEF Sound
<1>9. ListsOrdered'
  <2> SUFFICES ASSUME NEW q \in Processes, Sound(q)'
               PROVE  /\ Orderly(delivered[q])' /\ Orderly(incoming[q])'
                      /\ \A i \in DOMAIN delivered'[q] : \A j \in DOMAIN incoming'[q] :
                           delivered'[q][i].id < incoming'[q][j].id
    BY DEF ListsOrdered
  <2>1. /\ Orderly(delivered[q]) /\ Orderly(incoming[q])
        /\ \A i \in DOMAIN delivered[q] : \A j \in DOMAIN incoming[q] :
             delivered[q][i].id < incoming[q][j].id
    BY <1>8 DEF OrderOK, ListsOrdered
  <2>2. Orderly(delivered[q])' /\ Orderly(incoming[q])'
    BY <1>2, <1>6, <2>1 DEF Orderly
  <2> QED
    BY <1>2, <2>1, <2>2
<1>10. InHand'
  <2> SUFFICES ASSUME NEW u \in Threads, at'[u] = "handling", ~ overwritten'[Home[u]]
               PROVE  /\ \A v \in Threads : Home[v] = Home[u] /\ at'[v] = "handling" => v = u
                      /\ recvBuffer'[Home[u]].type \in {"request", "stats", "game"}
                      /\ recvBuffer'[Home[u]].type = "game" /\ ~ overrun'[Home[u]] =>
                           /\ Came(arrival[u], Home[u], sender[u], recvBuffer[Home[u]].body)'
                           /\ Before(Home[u], arrival[u])'
    BY DEF InHand
  <2>0. Home[u] \in Processes
    BY ConstantTypes
  <2>1. CASE Home[u] = p
    <3>1. u = t /\ ~ overwritten[p]
      BY <1>2, <1>7, <2>0, <2>1 DEF CallsOK
    <3>2. \A v \in Threads : Home[v] = Home[u] /\ at'[v] = "handling" => v = u
      BY <1>2, <1>7, <2>0, <2>1, <3>1 DEF CallsOK
    <3>3. recvBuffer'[p] = d /\ sender'[t] = d.from
      BY <1>1, <1>3 DEF DataOK
    <3>4. ASSUME d.type = "game", ~ overrun'[p]
          PROVE  Came(arrival[u], Home[u], sender[u], recvBuffer[Home[u]].body)'
                 /\ Before(Home[u], arrival[u])'
      <4>0. PICK n : n = id
        OBVIOUS
      <4>1. arrivals' = Append(arrivals, x) /\ arrival'[t] = n
        BY <1>1, <3>4, <4>0 DEF x, DataOK
      <4>2. Came(n, p, d.from, d.body)' /\ Before(p, n)
        <5>1. Sound(p)
          BY <1>2, <3>1, <3>4 DEF Sound
        <5>2. n = Len(arrivals) + 1
          BY <4>0 DEF id
        <5>3. Came(n, x.to, x.from, x.body)' /\ Before(p, n)
          BY <1>3, <1>4, <4>1, <5>1, <5>2, OrderOfArrival
        <5> QED
          BY <1>4, <5>3
      <4>3. Came(arrival[u], Home[u], sender[u], recvBuffer[Home[u]].body)'
        BY <2>1, <3>1, <3>3, <4>1, <4>2 DEF Came
      <4>4. Before(Home[u], arrival[u])'
        BY <1>2, <2>1, <3>1, <4>1, <4>2 DEF Before
      <4> QED
        BY <4>3, <4>4
    <3> QED
      BY <1>3, <2>1, <3>2, <3>3, <3>4
  <2>2. CASE Home[u] # p
    <3>1. /\ u # t /\ at[u] = "handling" /\ ~ overwritten[Home[u]]
          /\ recvBuffer'[Home[u]] = recvBuffer[Home[u]]
          /\ sender'[u] = sender[u] /\ arrival'[u] = arrival[u]
          /\ \A v \in Threads : Home[v] = Home[u] => at'[v] = at[v]
      BY <1>1, <1>2, <1>7, <2>0, <2>2 DEF p, CallsOK, DataOK
    <3>2. /\ \A v \in Threads : Home[v] = Home[u] /\ at[v] = "handling" => v = u
          /\ recvBuffer[Home[u]].type \in {"request", "stats", "game"}
          /\ recvBuffer[Home[u]].type = "game" /\ ~ overrun[Home[u]] =>
               /\ Came(arrival[u], Home[u], sender[u], recvBuffer[Home[u]].body)
               /\ Before(Home[u], arrival[u])
      BY <3>1 DEF OrderOK, InHand
    <3>3. Came(arrival[u], Home[u], sender[u], recvBuffer[Home[u]].body) =>
            Came(arrival[u], Home[u], sender[u], recvBuffer[Home[u]].body)'
      BY <1>6, <3>1 DEF Came
    <3>4. Before(Home[u], arrival[u]) => Before(Home[u], arrival[u])'
      BY <1>2, <3>1 DEF Before
    <3> QED
      BY <1>2, <3>1, <3>2, <3>3, <3>4
  <2> QED
    BY <2>1, <2>2
<1>11. RowsOrdered'
  <2>1. \A a \in Addresses : \A i \in DOMAIN rows[a] :
          /\ Came(rows[a][i].id, a, rows[a][i].sender, rows[a][i].body)
          /\ \A j \in 1..(i - 1) : rows[a][j].id < rows[a][i].id
    BY DEF OrderOK, RowsOrdered
  <2>2. \A a \in Addresses : \A i \in DOMAIN rows'[a] :
          /\ Came(rows[a][i].id, a, rows[a][i].sender, rows[a][i].body)'
          /\ \A j \in 1..(i - 1) : rows'[a][j].id < rows'[a][i].id
    BY <1>2, <1>6, <2>1 DEF Came
  <2> QED
    BY <1>2, <2>2 DEF RowsOrdered
<1> QED
  BY <1>9, <1>10, <1>11 DEF OrderOK

\* Packets that are newer than those of the process, in order, go to the end of
\* its queue.
LEMMA OrderOfPassing ==
  ASSUME now \in Nat, DataOK, OrderOK, UNCHANGED <<arrivals, delivered>>,
         NEW p \in Processes, NEW address \in Nat, NEW packets \in Seq(RowPackets),
         PassPackets(p, address, packets), Sound(p),
         \A i \in 1..Len(packets) :
           /\ Came(packets[i].id, address, packets[i].sender, packets[i].body)
           /\ \A j \in 1..(i - 1) : packets[j].id < packets[i].id
           /\ Before(p, packets[i].id)
  PROVE  /\ Orderly(delivered[p])' /\ Orderly(incoming[p])'
         /\ \A i \in DOMAIN delivered'[p] : \A j \in DOMAIN incoming'[p] :
              delivered'[p][i].id < incoming'[p][j].id
<1> DEFINE new == Stamped(address, packets)
           all == incoming[p]
           all2 == incoming'[p]
           got == delivered[p]
<1>1. /\ new \in Seq(Packets) /\ Len(new) = Len(packets)
      /\ \A i \in 1..Len(packets) :
           new[i] = [to |-> address, sender |-> packets[i].sender, body |-> packets[i].body,
                     id |-> packets[i].id, since |-> now]
  BY StampedType
<1>2. incoming \in [Processes -> Seq(Packets)] /\ arrivals \in Seq(Arrivals)
  BY DEF DataOK
<1>3. /\ incoming' \in [Processes -> Seq(Packets)]
      /\ Len(incoming'[p]) = Len(incoming[p]) + Len(packets)
      /\ \A i \in 1..Len(incoming[p]) : incoming'[p][i] = incoming[p][i]
      /\ \A i \in 1..Len(packets) :
           incoming'[p][Len(incoming[p]) + i] =
             [to |-> address, sender |-> packets[i].sender, body |-> packets[i].body,
              id |-> packets[i].id, since |-> now]
  BY <1>2, PassedType
<1>4. /\ Orderly(got) /\ Orderly(all)
      /\ \A i \in DOMAIN got : \A j \in DOMAIN all : got[i].id < all[j].id
  BY DEF OrderOK, ListsOrdered
<1>5. all \in Seq(Packets) /\ all2 \in Seq(Packets)
  BY <1>2, <1>3
<1>6. /\ Len(all2) = Len(all) + Len(new)
      /\ \A i \in 1..Len(all) : all2[i] = all[i]
      /\ \A i \in 1..Len(new) : all2[Len(all) + i] = new[i]
  BY <1>1, <1>3
<1>7. \A i \in DOMAIN got : \A j \in 1..Len(packets) : got[i].id < packets[j].id
  BY DEF Before
<1>8. \A i \in DOMAIN all : \A j \in 1..Len(packets) : all[i].id < packets[j].id
  BY DEF Before
<1> HIDE DEF new, all, all2, got
<1>9. /\ DOMAIN new = 1..Len(new) /\ Len(new) \in Nat
      /\ DOMAIN all = 1..Len(all) /\ Len(all) \in Nat
      /\ DOMAIN all2 = 1..Len(all2) /\ Len(all2) \in Nat
  BY <1>1, <1>5
<1>10. \A i \in 1..Len(new) :
         /\ new[i].to = address /\ new[i].sender = packets[i].sender
         /\ new[i].body = packets[i].body /\ new[i].id = packets[i].id
  <2> SUFFICES ASSUME NEW i \in 1..Len(packets)
               PROVE  /\ new[i].to = address /\ new[i].sender = packets[i].sender
                      /\ new[i].body = packets[i].body /\ new[i].id = packets[i].id
    BY <1>1
  <2>1. new[i] = [to |-> address, sender |-> packets[i].sender, body |-> packets[i].body,
                  id |-> packets[i].id, since |-> now]
    BY <1>1
  <2> QED
    BY <2>1
<1>11. Orderly(new)
  <2> SUFFICES ASSUME NEW i \in 1..Len(new)
               PROVE  /\ Came(new[i].id, new[i].to, new[i].sender, new[i].body)
                      /\ \A j \in 1..(i - 1) : new[j].id < new[i].id
    BY <1>9 DEF Orderly
  <2>1. \A j \in 1..(i - 1) : j \in 1..Len(new)
    BY <1>9
  <2> QED
    BY <1>1, <1>10, <2>1
<1>12. \A i \in DOMAIN all : \A j \in DOMAIN new : all[i].id < new[j].id
  BY <1>1, <1>8, <1>9, <1>10
<1>13. Orderly(all2)
  BY <1>1, <1>2, <1>4, <1>5, <1>6, <1>11, <1>12, OrderlyConcat
<1>14. ASSUME NEW i \in DOMAIN got, NEW j \in DOMAIN all2 PROVE got[i].id < all2[j].id
  <2>1. CASE j \in 1..Len(all)
    BY <1>4, <1>6, <1>9, <2>1
  <2>2. CASE j \notin 1..Len(all)
    <3>1. j - Len(all) \in 1..Len(new) /\ Len(all) + (j - Len(all)) = j
      BY <1>6, <1>9, <2>2
    <3>2. all2[j] = new[j - Len(all)]
      BY <1>6, <3>1
    <3> QED
      BY <1>1, <1>7, <1>10, <3>1, <3>2
  <2> QED
    BY <2>1, <2>2
<1>15. Orderly(delivered[p])'
  BY <1>4 DEF Orderly, Came, got
<1>16. Orderly(incoming[p])'
  BY <1>13 DEF Orderly, Came, all2
<1> QED
  BY <1>14, <1>15, <1>16 DEF got, all2

\* The other processes keep theirs.
LEMMA OrderOfOthers ==
  ASSUME OrderOK, NEW p \in Processes, Sound(p),
         UNCHANGED <<arrivals, incoming[p], delivered[p]>>
  PROVE  /\ Orderly(delivered[p])' /\ Orderly(incoming[p])'
         /\ \A i \in DOMAIN delivered'[p] : \A j \in DOMAIN incoming'[p] :
              delivered'[p][i].id < incoming'[p][j].id
<1>1. /\ Orderly(delivered[p]) /\ Orderly(incoming[p])
      /\ \A i \in DOMAIN delivered[p] : \A j \in DOMAIN incoming[p] :
           delivered[p][i].id < incoming[p][j].id
  BY DEF OrderOK, ListsOrdered
<1>2. Orderly(delivered[p])' /\ Orderly(incoming[p])'
  BY <1>1 DEF Orderly, Came
<1> QED
  BY <1>1, <1>2

LEMMA OrderOfHandlePacket ==
  ASSUME CallsOK, DataOK, OrderOK, scene.network = "DRIP", UNCHANGED smemVars,
         NEW t \in Threads, HandlePacket(t)
  PROVE  OrderOK'
<1> DEFINE p == Home[t]
<1>1. /\ at[t] = "handling"
      /\ arrival' = [arrival EXCEPT ![t] = 0] /\ sender' = [sender EXCEPT ![t] = 0]
      /\ at' = [at EXCEPT ![t] = "in"]
      /\ UNCHANGED <<scene, up, arrivals, delivered, recvBuffer, overwritten,
                     overrun, rows, self>>
  BY DEF HandlePacket, Goes, smemVars
<1>2. /\ p \in Processes /\ p \in Nat /\ now \in Nat /\ sender[t] \in Processes
      /\ sender[t] \in Nat
  BY <1>1, ConstantTypes DEF DataOK, CallsOK
<1>3. \A u \in Threads : at'[u] = "handling" =>
        u # t /\ at[u] = "handling" /\ sender'[u] = sender[u] /\ arrival'[u] = arrival[u]
  BY <1>1 DEF CallsOK, DataOK
<1>4. CASE Answered(t) \/ AdPassed(t)
  <2>1. UNCHANGED incoming
    BY <1>4 DEF Answered, AdPassed
  <2> QED
    BY <1>1, <1>3, <2>1, OrderKept
<1>5. CASE PacketPassed(t)
  <2> DEFINE packet == [sender |-> sender[t], id |-> arrival[t], body |-> recvBuffer[p].body]
  <2>1. recvBuffer[p].type = "game" /\ PassPackets(p, p, <<packet>>)
    BY <1>5 DEF PacketPassed
  <2>2. packet \in RowPackets
    BY <1>2 DEF RowPackets, DataOK, Datagrams, NoDatagram
  <2>3. packet.id = arrival[t] /\ packet.sender = sender[t] /\ packet.body = recvBuffer[p].body
    OBVIOUS
  <2> HIDE DEF p, packet
  <2>4. /\ <<packet>> \in Seq(RowPackets) /\ Len(<<packet>>) = 1
        /\ <<packet>>[1] = packet
    BY <2>2
  <2>5. \A q \in Processes : q # p => incoming'[q] = incoming[q]
    BY <1>2, <2>1, <2>4, PassedType DEF DataOK
  <2>6. ASSUME Sound(p)
        PROVE  /\ Orderly(delivered[p])' /\ Orderly(incoming[p])'
               /\ \A i \in DOMAIN delivered'[p] : \A j \in DOMAIN incoming'[p] :
                    delivered'[p][i].id < incoming'[p][j].id
    <3>1. Came(packet.id, p, packet.sender, packet.body) /\ Before(p, packet.id)
      BY <1>1, <1>2, <2>1, <2>3, <2>6 DEF OrderOK, InHand, Sound, p
    <3>2. \A i \in 1..Len(<<packet>>) : i = 1 /\ <<packet>>[i] = packet
      BY <2>4
    <3>3. \A i \in 1..Len(<<packet>>) :
            /\ Came(<<packet>>[i].id, p, <<packet>>[i].sender, <<packet>>[i].body)
            /\ \A j \in 1..(i - 1) : <<packet>>[j].id < <<packet>>[i].id
            /\ Before(p, <<packet>>[i].id)
      BY <3>1, <3>2
    <3> QED
      BY <1>1, <1>2, <2>1, <2>4, <2>6, <3>3, OrderOfPassing
  <2>7. ListsOrdered'
    <3> SUFFICES ASSUME NEW q \in Processes, Sound(q)'
                 PROVE  /\ Orderly(delivered[q])' /\ Orderly(incoming[q])'
                        /\ \A i \in DOMAIN delivered'[q] : \A j \in DOMAIN incoming'[q] :
                             delivered'[q][i].id < incoming'[q][j].id
      BY DEF ListsOrdered
    <3>1. Sound(q)
      BY <1>1 DEF Sound
    <3>2. CASE q = p
      BY <2>6, <3>1, <3>2
    <3>3. CASE q # p
      <4>1. UNCHANGED <<arrivals, incoming[q], delivered[q]>>
        BY <1>1, <2>5, <3>3
      <4> QED
        BY <3>1, <4>1, OrderOfOthers
    <3> QED
      BY <3>2, <3>3
  <2>8. InHand'
    <3> SUFFICES ASSUME NEW u \in Threads, at'[u] = "handling", ~ overwritten'[Home[u]]
                 PROVE  /\ \A v \in Threads : Home[v] = Home[u] /\ at'[v] = "handling" => v = u
                        /\ recvBuffer'[Home[u]].type \in {"request", "stats", "game"}
                        /\ recvBuffer'[Home[u]].type = "game" /\ ~ overrun'[Home[u]] =>
                             /\ Came(arrival[u], Home[u], sender[u], recvBuffer[Home[u]].body)'
                             /\ Before(Home[u], arrival[u])'
      BY DEF InHand
    <3>1. /\ Home[u] \in Processes /\ ~ overwritten[Home[u]]
          /\ u # t /\ at[u] = "handling" /\ sender'[u] = sender[u] /\ arrival'[u] = arrival[u]
      BY <1>1, <1>3, ConstantTypes
    <3>2. /\ \A v \in Threads : Home[v] = Home[u] /\ at[v] = "handling" => v = u
          /\ recvBuffer[Home[u]].type \in {"request", "stats", "game"}
          /\ recvBuffer[Home[u]].type = "game" /\ ~ overrun[Home[u]] =>
               /\ Came(arrival[u], Home[u], sender[u], recvBuffer[Home[u]].body)
               /\ Before(Home[u], arrival[u])
      BY <3>1 DEF OrderOK, InHand
    <3>3. Home[u] # p
      BY <1>1, <3>1, <3>2 DEF p
    <3>4. incoming'[Home[u]] = incoming[Home[u]]
      BY <2>5, <3>1, <3>3
    <3> QED
      BY <1>1, <1>3, <3>1, <3>2, <3>4 DEF Came, Before
  <2>9. RowsOrdered'
    BY <1>1 DEF OrderOK, RowsOrdered, Came
  <2> QED
    BY <2>7, <2>8, <2>9 DEF OrderOK
<1> QED
  BY <1>4, <1>5 DEF HandlePacket

\* A process takes all that is in its row.
LEMMA OrderOfPassIncoming ==
  ASSUME CallsOK, DataOK, RowsOK, OrderOK, scene.network = "SMEM", UNCHANGED dripVars,
         NEW t \in Threads, PassIncoming(t)
  PROVE  OrderOK'
<1> DEFINE p == Home[t]
           row == self[p]
<1>1. /\ at[t] = "passing" /\ p \in Processes /\ up[p] /\ row \in Addresses /\ row \in Nat
      /\ now \in Nat
  BY ConstantTypes DEF PassIncoming, CallsOK, PlaceOK, RowsOK
<1>2. /\ PassPackets(p, row, InRow(row))
      /\ overrun' = [overrun EXCEPT ![p] = @ \/ incomingCount[row] > Room]
      /\ rows' = [rows EXCEPT ![row] = <<>>]
      /\ \A u \in Threads : at'[u] = "handling" => at[u] = "handling"
      /\ UNCHANGED <<scene, up, arrivals, delivered, overwritten, self>>
  BY DEF PassIncoming, Goes, dripVars, CallsOK, PlaceOK, Draining
<1>3. /\ InRow(row) \in Seq(RowPackets) /\ Len(InRow(row)) = incomingCount[row]
      /\ incomingCount[row] <= Room =>
           Len(rows[row]) = incomingCount[row]
           /\ \A i \in 1..incomingCount[row] : InRow(row)[i] = rows[row][i]
      /\ incomingCount[row] \in Nat /\ Room \in Nat
  BY <1>1, InRowType, ConstantTypes DEF RowsOK
<1>4. /\ \A a \in Addresses : rows[a] \in Seq(RowPackets)
      /\ overrun \in [Processes -> BOOLEAN] /\ rows \in [Addresses -> Seq(RowPackets)]
  BY DEF RowsOK, DataOK
<1> HIDE DEF p, row
<1>5. \A q \in Processes : q # p => incoming'[q] = incoming[q]
  BY <1>1, <1>2, <1>3, PassedType DEF DataOK
<1>6. ASSUME NEW q \in Processes, Sound(q)'
      PROVE  Sound(q) /\ (q = p => incomingCount[row] <= Room)
  <2>1. CASE q = p
    <3>1. overrun'[p] = (overrun[p] \/ incomingCount[row] > Room)
      BY <1>1, <1>2, <1>4
    <3>2. ~ overrun[p] /\ ~ (incomingCount[row] > Room)
      BY <1>6, <2>1, <3>1, Zenon DEF Sound
    <3> QED
      BY <1>2, <1>3, <1>6, <2>1, <3>2 DEF Sound
  <2>2. CASE q # p
    BY <1>2, <1>6, <2>2 DEF Sound
  <2> QED
    BY <2>1, <2>2
<1>7. ASSUME Sound(p)'
      PROVE  /\ Orderly(delivered[p])' /\ Orderly(incoming[p])'
             /\ \A i \in DOMAIN delivered'[p] : \A j \in DOMAIN incoming'[p] :
                  delivered'[p][i].id < incoming'[p][j].id
  <2> DEFINE list == rows[row]
             found == InRow(row)
  <2>1. Sound(p) /\ incomingCount[row] <= Room
    BY <1>1, <1>6, <1>7
  <2>2. list \in Seq(RowPackets)
    BY <1>1, <1>4
  <2>3. \A i \in DOMAIN list :
          /\ Came(list[i].id, row, list[i].sender, list[i].body)
          /\ \A j \in 1..(i - 1) : list[j].id < list[i].id
    BY <1>1 DEF OrderOK, RowsOrdered
  <2>4. \A i \in DOMAIN list : Before(p, list[i].id)
    BY <1>1, <2>1 DEF OrderOK, RowsOrdered, row
  <2>5. Len(found) = Len(list) /\ \A i \in 1..Len(found) : found[i] = list[i]
    BY <1>3, <2>1
  <2> HIDE DEF list, found
  <2>6. DOMAIN list = 1..Len(list) /\ Len(list) \in Nat
    BY <2>2
  <2>7. ASSUME NEW i \in 1..Len(found)
        PROVE  /\ Came(found[i].id, row, found[i].sender, found[i].body)
               /\ \A j \in 1..(i - 1) : found[j].id < found[i].id
               /\ Before(p, found[i].id)
    <3>1. i \in DOMAIN list /\ found[i] = list[i]
      BY <2>5, <2>6
    <3>2. \A j \in 1..(i - 1) : found[j] = list[j]
      BY <2>5, <2>6
    <3> QED
      BY <2>3, <2>4, <3>1, <3>2
  <2>8. found \in Seq(RowPackets) /\ PassPackets(p, row, found)
    BY <1>2, <1>3 DEF found
  <2> QED
    BY <1>1, <1>2, <2>1, <2>7, <2>8, OrderOfPassing
<1>8. ListsOrdered'
  <2> SUFFICES ASSUME NEW q \in Processes, Sound(q)'
               PROVE  /\ Orderly(delivered[q])' /\ Orderly(incoming[q])'
                      /\ \A i \in DOMAIN delivered'[q] : \A j \in DOMAIN incoming'[q] :
                           delivered'[q][i].id < incoming'[q][j].id
    BY DEF ListsOrdered
  <2>1. CASE q = p
    BY <1>7, <2>1
  <2>2. CASE q # p
    <3>1. Sound(q) /\ UNCHANGED <<arrivals, incoming[q], delivered[q]>>
      BY <1>2, <1>5, <1>6, <2>2
    <3> QED
      BY <3>1, OrderOfOthers
  <2> QED
    BY <2>1, <2>2
<1>9. InHand'
  <2>1. \A u \in Threads : at[u] # "handling"
    BY DEF CallsOK, PlaceOK
  <2> QED
    BY <1>2, <2>1 DEF InHand
<1>10. /\ rows'[row] = <<>> /\ DOMAIN <<>> = {}
       /\ \A a \in Addresses : a # row => rows'[a] = rows[a]
  BY <1>1, <1>2, <1>4
<1>11. \A a \in Addresses : \A i \in DOMAIN rows'[a] :
         /\ Came(rows[a][i].id, a, rows[a][i].sender, rows[a][i].body)'
         /\ \A j \in 1..(i - 1) : rows'[a][j].id < rows'[a][i].id
  BY <1>2, <1>10 DEF OrderOK, RowsOrdered, Came
<1>12. ASSUME NEW q \in Processes, up'[q], Sound(q)', NEW i \in DOMAIN rows'[self'[q]]
       PROVE  Before(q, rows[self[q]][i].id)'
  <2>1. /\ up[q] /\ self'[q] = self[q] /\ self[q] \in Addresses /\ Sound(q)
    BY <1>2, <1>6, <1>12 DEF RowsOK
  <2>2. self[q] # row /\ rows'[self[q]] = rows[self[q]]
    BY <1>10, <1>12, <2>1
  <2>3. q # p
    BY <2>2 DEF row
  <2>4. Before(q, rows[self[q]][i].id)
    BY <1>12, <2>1, <2>2 DEF OrderOK, RowsOrdered
  <2> QED
    BY <1>2, <1>5, <2>1, <2>2, <2>3, <2>4 DEF Before
<1>13. RowsOrdered'
  BY <1>2, <1>11, <1>12 DEF RowsOrdered
<1> QED
  BY <1>8, <1>9, <1>13 DEF OrderOK

\* A packet that goes to a row is newer than all that its peer has.
LEMMA OrderOfPushPacket ==
  ASSUME CallsOK, DataOK, RowsOK, OrderOK, scene.network = "SMEM", UNCHANGED dripVars,
         NEW t \in Threads, PushPacket(t)
  PROVE  OrderOK'
<1>0. PICK him, x :
        him = msg[t].to /\ x = [to |-> him, from |-> self[Home[t]], body |-> msg[t].body]
  OBVIOUS
<1>1. /\ msg[t] \in Messages /\ self[Home[t]] \in Addresses /\ him \in Addresses
      /\ Len(arrivals) \in Nat
  BY <1>0, ConstantTypes, SMTT(30) DEF PushPacket, CallsOK, PlaceOK, RowsOK, DataOK, Messages
<1>2. x \in Arrivals
  BY <1>0, <1>1, ConstantTypes DEF Messages, Arrivals
<1>3. /\ UNCHANGED <<scene, up, incoming, delivered, overwritten, overrun, recvBuffer,
                     sender, arrival, self>>
      /\ \A u \in Threads : at'[u] = "handling" => at[u] = "handling"
  BY DEF PushPacket, Returns, dripVars, CallsOK
<1>4. CASE rows' = rows /\ arrivals' = arrivals
  BY <1>3, <1>4, OrderKept
<1>5. CASE \E id : /\ id = Len(arrivals) + 1 /\ arrivals' = Append(arrivals, x)
                   /\ rows' = [rows EXCEPT ![him] =
                        Append(rows[him], [sender |-> x.from, body |-> x.body, id |-> id])]
  <2>1. PICK id : /\ id = Len(arrivals) + 1 /\ arrivals' = Append(arrivals, x)
                  /\ rows' = [rows EXCEPT ![him] =
                       Append(rows[him], [sender |-> x.from, body |-> x.body, id |-> id])]
    BY <1>5
  <2>0. PICK packet, list, list2 :
          /\ packet = [sender |-> x.from, body |-> x.body, id |-> id]
          /\ list = rows[him] /\ list2 = rows'[him]
    OBVIOUS
  <2>2. packet \in RowPackets /\ x.to = him
    BY <1>0, <1>1, <1>2, <2>0, <2>1 DEF RowPackets, Arrivals
  <2>3. packet.id = id /\ packet.sender = x.from /\ packet.body = x.body
    BY <2>0
  <2>4. list \in Seq(RowPackets) /\ list2 = Append(list, packet)
        /\ \A a \in Addresses : a # him => rows'[a] = rows[a]
    BY <1>1, <2>0, <2>1 DEF RowsOK
  <2>5. /\ \A l : Orderly(l) => Orderly(l)'
        /\ \A i, to, from, body : Came(i, to, from, body) => Came(i, to, from, body)'
        /\ Came(id, him, x.from, x.body)'
        /\ \A p \in Processes : Sound(p) => Before(p, id)
    BY <1>2, <2>1, <2>2, OrderOfArrival
  <2>6. /\ list2 \in Seq(RowPackets) /\ Len(list2) = Len(list) + 1
        /\ \A i \in 1..Len(list) : list2[i] = list[i]
        /\ list2[Len(list) + 1] = packet
    BY <2>2, <2>4, AppendType
  <2>7. /\ DOMAIN list = 1..Len(list) /\ Len(list) \in Nat
        /\ DOMAIN list2 = 1..Len(list2) /\ Len(list2) \in Nat
    <3> HIDE DEF RowPackets
    <3> QED
      BY <2>4, <2>6
  <2>8. \A i \in DOMAIN list2 :
          \/ i \in DOMAIN list /\ list2[i] = list[i]
          \/ i = Len(list) + 1 /\ list2[i] = packet
    <3> SUFFICES ASSUME NEW i \in 1..Len(list2)
                 PROVE  \/ i \in 1..Len(list) /\ list2[i] = list[i]
                        \/ i = Len(list) + 1 /\ list2[i] = packet
      BY <2>7
    <3>1. i \in 1..Len(list) \/ i = Len(list) + 1
      BY <2>6, <2>7
    <3> QED
      BY <2>6, <3>1
  <2>9. \A i \in DOMAIN list :
          /\ Came(list[i].id, him, list[i].sender, list[i].body)
          /\ list[i].id < id
          /\ \A j \in 1..(i - 1) : list[j].id < list[i].id
    <3>1. \A i \in DOMAIN list :
            /\ Came(list[i].id, him, list[i].sender, list[i].body)
            /\ \A j \in 1..(i - 1) : list[j].id < list[i].id
      BY <1>1, <2>0 DEF OrderOK, RowsOrdered
    <3> QED
      BY <2>1, <3>1, CameType DEF DataOK
  <2>10. ASSUME NEW i \in DOMAIN list2
         PROVE  /\ Came(list2[i].id, him, list2[i].sender, list2[i].body)'
                /\ \A j \in 1..(i - 1) : list2[j].id < list2[i].id
    <3>1. CASE i \in DOMAIN list /\ list2[i] = list[i]
      <4>1. ASSUME NEW j \in 1..(i - 1) PROVE list2[j] = list[j]
        <5>1. i \in 1..Len(list)
          BY <2>7, <3>1
        <5>2. j \in 1..Len(list)
          BY <2>7, <5>1
        <5> QED
          BY <2>6, <5>2
      <4> QED
        BY <2>5, <2>9, <3>1, <4>1
    <3>2. CASE i = Len(list) + 1 /\ list2[i] = packet
      <4>1. ASSUME NEW j \in 1..(i - 1) PROVE j \in DOMAIN list /\ list2[j] = list[j]
        <5>1. j \in 1..Len(list)
          BY <2>7, <3>2
        <5> QED
          BY <2>6, <2>7, <5>1
      <4> QED
        BY <2>3, <2>5, <2>9, <3>2, <4>1
    <3> QED
      BY <2>8, <3>1, <3>2
  <2>11. ListsOrdered'
    BY <1>3, <2>5 DEF OrderOK, ListsOrdered, Sound, Orderly
  <2>12. InHand'
    <3>1. \A u \in Threads : at[u] # "handling"
      BY DEF CallsOK, PlaceOK
    <3> QED
      BY <1>3, <3>1 DEF InHand
  <2>13. \A a \in Addresses : \A i \in DOMAIN rows'[a] :
           /\ Came(rows[a][i].id, a, rows[a][i].sender, rows[a][i].body)'
           /\ \A j \in 1..(i - 1) : rows'[a][j].id < rows'[a][i].id
    <3> SUFFICES ASSUME NEW a \in Addresses, NEW i \in DOMAIN rows'[a]
                 PROVE  /\ Came(rows[a][i].id, a, rows[a][i].sender, rows[a][i].body)'
                        /\ \A j \in 1..(i - 1) : rows'[a][j].id < rows'[a][i].id
      OBVIOUS
    <3>1. CASE a = him
      BY <2>0, <2>10, <3>1 DEF Came
    <3>2. CASE a # him
      <4>1. /\ Came(rows[a][i].id, a, rows[a][i].sender, rows[a][i].body)
            /\ \A j \in 1..(i - 1) : rows[a][j].id < rows[a][i].id
        BY <2>4, <3>2 DEF OrderOK, RowsOrdered
      <4> QED
        BY <2>4, <2>5, <3>2, <4>1 DEF Came
    <3> QED
      BY <3>1, <3>2
  <2>14. ASSUME NEW p \in Processes, up'[p], Sound(p)', NEW i \in DOMAIN rows'[self'[p]]
         PROVE  Before(p, rows[self[p]][i].id)'
    <3>1. up[p] /\ Sound(p) /\ self'[p] = self[p] /\ self[p] \in Addresses
      BY <1>3, <2>14 DEF Sound, RowsOK
    <3>2. CASE self[p] # him \/ (i \in DOMAIN list /\ list2[i] = list[i])
      <4>1. i \in DOMAIN rows[self[p]] /\ rows'[self[p]][i] = rows[self[p]][i]
        BY <2>0, <2>4, <2>14, <3>1, <3>2
      <4>2. Before(p, rows[self[p]][i].id)
        BY <3>1, <4>1 DEF OrderOK, RowsOrdered
      <4> QED
        BY <1>3, <3>1, <4>1, <4>2 DEF Before
    <3>3. CASE self[p] = him /\ list2[i] = packet
      <4>1. rows'[self'[p]][i].id = id
        BY <2>0, <2>3, <3>1, <3>3
      <4>2. Before(p, id)
        BY <2>5, <3>1
      <4> QED
        BY <1>3, <4>1, <4>2 DEF Before
    <3> QED
      BY <2>0, <2>8, <2>14, <3>1, <3>2, <3>3
  <2>15. RowsOrdered'
    BY <2>13, <2>14 DEF RowsOrdered
  <2> QED
    BY <2>11, <2>12, <2>15 DEF OrderOK
<1> QED
  BY <1>0, <1>4, <1>5 DEF PushPacket

\* A row that is taken is empty, and a process that dies has nothing left.
LEMMA OrderOfLives ==
  ASSUME CallsOK, DataOK, RowsOK, OrderOK, NEW p \in Processes,
         Initialize(p) \/ Destroy(p) \/ ProcessDies(p)
  PROVE  OrderOK'
<1>1. CASE scene.network = "DRIP" /\ InitializeDirectIP(p) /\ UNCHANGED smemVars
  BY <1>1, OrderKept DEF InitializeDirectIP, smemVars, dripVars
<1>2. CASE scene.network = "SMEM" /\ InitializeLocalPC(p) /\ UNCHANGED dripVars
  <2> DEFINE created == \A q \in Processes : ~ up[q]
             row == Min({a \in Addresses : created \/ ~ isOccupied(a)})
  <2>1. /\ up' = [up EXCEPT ![p] = TRUE]
        /\ self' = [self EXCEPT ![p] = row]
        /\ rows' = [a \in Addresses |-> IF created \/ a = row THEN <<>> ELSE rows[a]]
        /\ UNCHANGED <<scene, delivered, incoming, overwritten, overrun, arrivals,
                       recvBuffer, at, sender, arrival>>
    BY <1>2 DEF InitializeLocalPC, dripVars
  <2> HIDE DEF row
  <2>2. DOMAIN <<>> = {}
    OBVIOUS
  <2>3. ASSUME NEW a \in Addresses, NEW i \in DOMAIN rows'[a]
        PROVE  rows'[a] = rows[a] /\ a # row
    <3>1. rows'[a] # <<>>
      BY <2>2, <2>3
    <3> QED
      BY <2>1, <3>1
  <2>4. ListsOrdered'
    BY <2>1, SMTT(30) DEF OrderOK, ListsOrdered, Sound, Orderly, Came
  <2>5. InHand'
    BY <2>1, ConstantTypes DEF OrderOK, InHand, Came, Before
  <2>6. ASSUME NEW a \in Addresses, NEW i \in DOMAIN rows'[a]
        PROVE  /\ Came(rows[a][i].id, a, rows[a][i].sender, rows[a][i].body)'
               /\ \A j \in 1..(i - 1) : rows'[a][j].id < rows'[a][i].id
    <3>1. rows'[a] = rows[a]
      BY <2>3, <2>6
    <3>2. /\ Came(rows[a][i].id, a, rows[a][i].sender, rows[a][i].body)
          /\ \A j \in 1..(i - 1) : rows[a][j].id < rows[a][i].id
      BY <2>6, <3>1 DEF OrderOK, RowsOrdered
    <3> QED
      BY <2>1, <3>1, <3>2 DEF Came
  <2>7. ASSUME NEW q \in Processes, up'[q], Sound(q)', NEW i \in DOMAIN rows'[self'[q]]
        PROVE  Before(q, rows[self[q]][i].id)'
    <3>0. self'[p] = row /\ (q # p => up[q] /\ self'[q] = self[q])
      BY <2>1, <2>7 DEF RowsOK, CallsOK
    <3>1. row \in Addresses
      <4>1. {a \in Addresses : created \/ ~ isOccupied(a)} \in SUBSET Nat
            /\ {a \in Addresses : created \/ ~ isOccupied(a)} # {}
        BY <1>2, ConstantTypes DEF InitializeLocalPC
      <4>2. row \in {a \in Addresses : created \/ ~ isOccupied(a)}
        BY <4>1, MinIsLeast DEF row
      <4> QED
        BY <4>2
    <3>2. q # p
      BY <2>3, <2>7, <3>0, <3>1
    <3>3. up[q] /\ self'[q] = self[q] /\ self[q] \in Addresses /\ Sound(q)
      BY <1>2, <2>1, <2>7, <3>0, <3>2 DEF RowsOK, Sound
    <3>4. rows'[self[q]] = rows[self[q]]
      BY <2>3, <2>7, <3>3
    <3>5. Before(q, rows[self[q]][i].id)
      BY <1>2, <2>7, <3>3, <3>4 DEF OrderOK, RowsOrdered
    <3> QED
      BY <2>1, <3>3, <3>4, <3>5 DEF Before
  <2>8. RowsOrdered'
    BY <2>1, <2>6, <2>7 DEF RowsOrdered
  <2> QED
    BY <2>4, <2>5, <2>8 DEF OrderOK
<1>3. CASE scene.network = "DRIP" /\ DestroyDirectIP(p) /\ UNCHANGED smemVars
  BY <1>3, OrderKept DEF DestroyDirectIP, smemVars
<1>4. CASE scene.network = "SMEM" /\ DestroyLocalPC(p) /\ UNCHANGED dripVars
  <2>1. /\ up' = [up EXCEPT ![p] = FALSE] /\ self' = [self EXCEPT ![p] = 0]
        /\ UNCHANGED <<scene, delivered, incoming, overwritten, overrun, arrivals,
                       recvBuffer, rows, at, sender, arrival>>
    BY <1>4 DEF DestroyLocalPC, dripVars
  <2>2. \A q \in Processes : up'[q] => up[q] /\ self'[q] = self[q]
    BY <2>1 DEF CallsOK
  <2> QED
    BY <2>1, <2>2, OrderKept
<1>5. CASE ProcessDies(p)
  <2>1. /\ up' = [up EXCEPT ![p] = FALSE]
        /\ at' = [t \in Threads |-> IF Home[t] = p THEN "out" ELSE at[t]]
        /\ sender' = [t \in Threads |-> IF Home[t] = p THEN 0 ELSE sender[t]]
        /\ arrival' = [t \in Threads |-> IF Home[t] = p THEN 0 ELSE arrival[t]]
        /\ incoming' = [incoming EXCEPT ![p] = <<>>]
        /\ delivered' = [delivered EXCEPT ![p] = <<>>]
        /\ recvBuffer' = [recvBuffer EXCEPT ![p] = NoDatagram]
        /\ overwritten' = [overwritten EXCEPT ![p] = FALSE]
        /\ overrun' = [overrun EXCEPT ![p] = FALSE]
        /\ self' = [self EXCEPT ![p] = 0]
        /\ UNCHANGED <<scene, arrivals, rows>>
    BY <1>5 DEF ProcessDies, ForgetsAll
  <2>2. DOMAIN <<>> = {}
    OBVIOUS
  <2>3. \A q \in Processes : q # p =>
          /\ incoming'[q] = incoming[q] /\ delivered'[q] = delivered[q]
          /\ recvBuffer'[q] = recvBuffer[q] /\ overwritten'[q] = overwritten[q]
          /\ overrun'[q] = overrun[q] /\ self'[q] = self[q]
    BY <2>1
  <2>4. ListsOrdered'
    <3> SUFFICES ASSUME NEW q \in Processes, Sound(q)'
                 PROVE  /\ Orderly(delivered[q])' /\ Orderly(incoming[q])'
                        /\ \A i \in DOMAIN delivered'[q] : \A j \in DOMAIN incoming'[q] :
                             delivered'[q][i].id < incoming'[q][j].id
      BY DEF ListsOrdered
    <3>1. CASE q = p
      <4>1. delivered'[q] = <<>> /\ incoming'[q] = <<>>
        BY <2>1, <3>1 DEF DataOK
      <4> QED
        BY <2>1, <2>2, <3>1, <4>1 DEF Orderly
    <3>2. CASE q # p
      <4>1. Sound(q) /\ UNCHANGED <<arrivals, incoming[q], delivered[q]>>
        BY <2>1, <2>3, <3>2 DEF Sound
      <4> QED
        BY <4>1, OrderOfOthers
    <3> QED
      BY <3>1, <3>2
  <2>5. InHand'
    <3> SUFFICES ASSUME NEW u \in Threads, at'[u] = "handling", ~ overwritten'[Home[u]]
                 PROVE  /\ \A v \in Threads : Home[v] = Home[u] /\ at'[v] = "handling" => v = u
                        /\ recvBuffer'[Home[u]].type \in {"request", "stats", "game"}
                        /\ recvBuffer'[Home[u]].type = "game" /\ ~ overrun'[Home[u]] =>
                             /\ Came(arrival[u], Home[u], sender[u], recvBuffer[Home[u]].body)'
                             /\ Before(Home[u], arrival[u])'
      BY DEF InHand
    <3>1. /\ Home[u] \in Processes /\ Home[u] # p /\ at[u] = "handling"
          /\ sender'[u] = sender[u] /\ arrival'[u] = arrival[u]
          /\ \A v \in Threads : Home[v] = Home[u] => at'[v] = at[v]
      BY <2>1, ConstantTypes
    <3>2. ~ overwritten[Home[u]]
      BY <2>3, <3>1
    <3>3. /\ \A v \in Threads : Home[v] = Home[u] /\ at[v] = "handling" => v = u
          /\ recvBuffer[Home[u]].type \in {"request", "stats", "game"}
          /\ recvBuffer[Home[u]].type = "game" /\ ~ overrun[Home[u]] =>
               /\ Came(arrival[u], Home[u], sender[u], recvBuffer[Home[u]].body)
               /\ Before(Home[u], arrival[u])
      BY <3>1, <3>2 DEF OrderOK, InHand
    <3> QED
      BY <2>1, <2>3, <3>1, <3>3 DEF Came, Before
  <2>6. RowsOrdered'
    <3>1. \A q \in Processes : up'[q] => up[q] /\ q # p
      BY <2>1 DEF CallsOK
    <3>2. \A a \in Addresses : \A i \in DOMAIN rows'[a] :
            /\ Came(rows[a][i].id, a, rows[a][i].sender, rows[a][i].body)'
            /\ \A j \in 1..(i - 1) : rows'[a][j].id < rows'[a][i].id
      BY <2>1 DEF OrderOK, RowsOrdered, Came
    <3>3. ASSUME NEW q \in Processes, up'[q], scene'.network = "SMEM", Sound(q)',
                 NEW i \in DOMAIN rows'[self'[q]]
          PROVE  Before(q, rows[self[q]][i].id)'
      <4>1. up[q] /\ q # p /\ Sound(q) /\ self'[q] = self[q] /\ i \in DOMAIN rows[self[q]]
        BY <2>1, <2>3, <3>1, <3>3 DEF Sound
      <4>2. Before(q, rows[self[q]][i].id)
        BY <2>1, <3>3, <4>1 DEF OrderOK, RowsOrdered
      <4> QED
        BY <2>1, <2>3, <4>1, <4>2 DEF Before
    <3> QED
      BY <3>2, <3>3 DEF RowsOrdered
  <2> QED
    BY <2>4, <2>5, <2>6 DEF OrderOK
<1> QED
  BY <1>1, <1>2, <1>3, <1>4, <1>5 DEF Initialize, Destroy

LEMMA OrderStep ==
  CallsOK /\ DataOK /\ RowsOK /\ OrderOK /\ [Next]_vars => OrderOK'
<1> SUFFICES ASSUME CallsOK, DataOK, RowsOK, OrderOK, [Next]_vars PROVE OrderOK'
  OBVIOUS
<1>1. CASE SNPNext /\ UNCHANGED <<dripVars, smemVars, lives>>
  <2>1. ASSUME NEW t \in Threads, spiReceiveEnds(t) PROVE OrderOK'
    BY <1>1, <2>1, OrderOfReceive
  <2>2. ASSUME NEW t \in Threads,
               \/ spiLockGameList(t) \/ spiUnlockGameList(t) \/ spiGetGameInfo(t)
               \/ spiStartAdvertisingLadderGame(t)
               \/ \E him \in Addresses : spiSend(t, him)
               \/ spiReceive(t)
        PROVE  OrderOK'
    <3>1. /\ UNCHANGED <<scene, up, delivered, incoming, arrivals>>
          /\ \A u \in Threads : at'[u] = "handling" => at[u] = "handling"
      BY <2>2, ZenonT(30) DEF spiLockGameList, spiUnlockGameList, spiGetGameInfo,
         spiStartAdvertisingLadderGame, spiSend, spiReceive, Enters, CallsOK
    <3> QED
      BY <1>1, <3>1, OrderKept DEF dripVars, smemVars
  <2>3. CASE Tick
    BY <1>1, <2>3, OrderKept DEF Tick, dripVars, smemVars
  <2> QED
    BY <1>1, <2>1, <2>2, <2>3 DEF SNPNext
<1>2. CASE scene.network = "DRIP" /\ DirectIPNext /\ UNCHANGED <<smemVars, lives>>
  <2>1. ASSUME NEW t \in Threads, ReceivePacket(t) PROVE OrderOK'
    BY <1>2, <2>1, OrderOfReceivePacket
  <2>2. ASSUME NEW t \in Threads, HandlePacket(t) PROVE OrderOK'
    BY <1>2, <2>2, OrderOfHandlePacket
  <2>3. ASSUME NEW t \in Threads,
               \/ NoPacket(t) \/ FinishDirectIP(t) \/ StartAdvertisingDirectIP(t)
               \/ StopAdvertisingDirectIP(t)
        PROVE  OrderOK'
    <3>1. /\ UNCHANGED <<scene, up, delivered, incoming, overwritten, arrivals,
                         recvBuffer, sender, arrival>>
          /\ \A u \in Threads : at'[u] = "handling" => at[u] = "handling"
      BY <2>3 DEF NoPacket, FinishDirectIP, RequestAds, SendAsyn, Receive,
         StartAdvertisingDirectIP, StopAdvertisingDirectIP, Goes, Returns, dripVars,
         snpVars, CallsOK
    <3> QED
      BY <1>2, <3>1, OrderKept DEF smemVars
  <2>4. CASE Lose
    BY <1>2, <2>4, OrderKept DEF Lose, snpVars, smemVars
  <2> QED
    BY <1>2, <2>1, <2>2, <2>3, <2>4 DEF DirectIPNext, DirectIPStep
<1>3. CASE scene.network = "SMEM" /\ LocalPCNext /\ UNCHANGED <<dripVars, lives>>
  <2>1. ASSUME NEW t \in Threads, PassIncoming(t) PROVE OrderOK'
    BY <1>3, <2>1, OrderOfPassIncoming
  <2>2. ASSUME NEW t \in Threads, PushPacket(t) PROVE OrderOK'
    BY <1>3, <2>2, OrderOfPushPacket
  <2>3. ASSUME NEW t \in Threads,
               \/ MarkSelf(t) \/ LookForAds(t) \/ PassAds(t) \/ TargetOccupied(t)
               \/ StartAdvertisingLocalPC(t) \/ StopAdvertisingLocalPC(t)
        PROVE  OrderOK'
    <3>1. /\ UNCHANGED <<scene, up, delivered, incoming, overrun, arrivals, rows, self>>
          /\ \A u \in Threads : at'[u] = "handling" => at[u] = "handling"
      BY <2>3 DEF MarkSelf, LookForAds, PassAds, TargetOccupied, StartAdvertisingLocalPC,
         StopAdvertisingLocalPC, Goes, Returns, smemVars, snpVars, CallsOK
    <3> QED
      BY <1>3, <3>1, OrderKept DEF dripVars
  <2> QED
    BY <1>3, <2>1, <2>2, <2>3 DEF LocalPCNext, LocalPCStep
<1>4. CASE \E p \in Processes : Initialize(p) \/ Destroy(p) \/ ProcessDies(p)
  BY <1>4, OrderOfLives
<1>5. CASE UNCHANGED vars
  BY <1>5, OrderKept DEF vars, snpVars, dripVars, smemVars
<1> QED
  BY <1>1, <1>2, <1>3, <1>4, <1>5 DEF Next

LEMMA InitOrder == Init => RowsHeld /\ ListsOK /\ OrderOK
<1> SUFFICES ASSUME Init PROVE RowsHeld /\ ListsOK /\ OrderOK
  OBVIOUS
<1> USE DEF Init, SNPInit, DirectIPInit, LocalPCInit
<1>1. <<>> \in Seq(Games) /\ DOMAIN <<>> = {}
  OBVIOUS
<1>2. RowsHeld
  BY DEF RowsHeld
<1>3. ListsOK
  <2> SUFFICES ASSUME NEW p \in Processes PROVE GamesOK(p)
    BY DEF ListsOK
  <2>1. games[p] = <<>> /\ heard[p] = [a \in Addresses |-> Never] /\ now = 1
    OBVIOUS
  <2> HIDE DEF Init
  <2> QED
    BY <1>1, <2>1 DEF GamesOK, Never
<1>4. OrderOK
  <2>1. /\ \A p \in Processes : delivered[p] = <<>> /\ incoming[p] = <<>> /\ ~ up[p]
        /\ \A t \in Threads : at[t] = "out"
        /\ \A a \in Addresses : rows[a] = <<>>
    OBVIOUS
  <2> HIDE DEF Init
  <2> QED
    BY <1>1, <2>1 DEF OrderOK, ListsOrdered, InHand, RowsOrdered, Orderly
<1> QED
  BY <1>2, <1>3, <1>4

\* NInv holds in every reachable state, whatever threads, peers and datagrams do
\* between each other's calls.
THEOREM Invariance == Spec => []NInv
<1>1. Init => NInv
  BY InitCalls, InitData, InitOrder DEF NInv
<1>2. NInv /\ [Next]_vars => NInv'
  BY CallsStep, DataStep, RowsStep, ListsStep, OrderStep DEF NInv
<1> QED
  BY <1>1, <1>2, PTL DEF Spec

-----------------------------------------------------------------------------
(* The theorems.                                                           *)

\* TypeOK: critical section and mutex are owned by threads that are inside a
\* call, and a row is never filled beyond its room (spiLockGameList,
\* spiReceive, LocalPC.cpp).
THEOREM TypeCorrect == Spec => []TypeOK
<1>1. ASSUME NInv PROVE TypeOK
  <2>0. CallsOK /\ DataOK /\ RowsOK /\ ListsOK
    BY <1>1 DEF NInv
  <2>1. /\ scene \in Scenes /\ now \in 1..scene.maxNow
        /\ up \in [Processes -> BOOLEAN]
        /\ call \in [Threads -> {"none", "list", "unlock", "send", "receive", "start"}]
        /\ at \in [Threads -> {"out", "in", "handling", "received", "passing", "ads",
                               "passingAds", "sending", "pushing", "back"}]
        /\ \A t \in Threads : (at[t] = "out") <=> (call[t] = "none")
    BY <2>0 DEF CallsOK, PlaceOK, Draining
  <2>2. ASSUME NEW p \in Processes
        PROVE  /\ \A t \in Threads :
                    critSec[p] = t <=> Home[t] = p /\ call[t] \in {"list", "receive", "start"}
               /\ shown[p] # <<>> => \E t \in Threads : Home[t] = p /\ call[t] = "list"
    BY <2>0 DEF CallsOK, LocksOwned, Holding
  <2>3. ASSUME NEW p \in Processes, NEW i \in DOMAIN games[p]
        PROVE  games[p][i].host \in Addresses
    <3>1. games[p] \in Seq(Games)
      BY <2>0 DEF ListsOK, GamesOK
    <3>2. games[p][i] \in Games
      <4> HIDE DEF Games
      <4> QED
        BY <2>3, <3>1
    <3> QED
      BY <3>2 DEF Games
  <2>4. mutex # Nobody <=> \E t \in Threads : at[t] \in {"passing", "passingAds"}
    BY <2>0, ConstantTypes DEF CallsOK, LocksOwned, WithMutex
  <2>5. \A p \in Processes : self[p] \in Peer
    BY <2>0 DEF RowsOK
  <2>6. advertising \subseteq Addresses /\ \A a \in Addresses : Len(rows[a]) <= Room
    BY <2>0, ConstantTypes DEF RowsOK
  <2> QED
    BY <2>1, <2>2, <2>3, <2>4, <2>5, <2>6 DEF TypeOK
<1> QED
  BY <1>1, Invariance, PTL

\* RowsAreOwned: two peers of one machine never share a row, unless one of them
\* marked it when the tick count was zero (LocalPC::initialize, isOccupied).
THEOREM RowsHaveOneOwner == Spec => []RowsAreOwned
<1>1. NInv => RowsAreOwned
  BY DEF NInv, RowsHeld, RowsAreOwned
<1> QED
  BY <1>1, Invariance, PTL

\* InArrivalOrder: Storm gets packets that came, in the order in which they
\* came, each once, unless two threads shared the receive buffer or a row was
\* counted beyond its end (passPacket, processIncomingPackets, spiReceive).
THEOREM PacketsKeepTheirOrder == Spec => []InArrivalOrder
<1>1. NInv => InArrivalOrder
  BY DEF NInv, OrderOK, ListsOrdered, Sound, Orderly, Came, InArrivalOrder
<1> QED
  BY <1>1, Invariance, PTL

\* ListHeldStill: while Storm reads the list of games, no thread changes it
\* (spiLockGameList, spiUnlockGameList, the critical section).
THEOREM ListIsHeldStill == Spec => ListHeldStill
<1>1. ASSUME NInv, [Next]_vars
      PROVE  [\A p \in Processes :
                up'[p] /\ (\E t \in Threads : Home[t] = p /\ call[t] = "list" /\ call'[t] = "list")
                  => games'[p] = games[p]]_vars
  BY <1>1, HeldStill DEF NInv
<1> QED
  BY <1>1, Invariance, PTL DEF Spec, ListHeldStill

\* DroppedIsOld: a packet is dropped only when it has waited for more than ten
\* seconds, and handed over only when it has not, as long as the tick count
\* does not wrap (spiReceive).
THEOREM OnlyOldPacketsAreDropped == Spec => DroppedIsOld
<1>1. ASSUME NInv, NEW t \in Threads, spiReceiveEnds(t)
      PROVE  LET p   == Home[t]
                 all == incoming[p]
                 n   == Len(all) - Len(incoming'[p])
                 got == Len(delivered'[p]) > Len(delivered[p])
             IN  \A i \in 1..n : SameLap(all[i].since, PacketLife) =>
                   (now - all[i].since > PacketLife) <=> ~(got /\ i = n)
  <2> DEFINE p == Home[t]
             all == incoming[p]
             n == Len(all) - Len(incoming'[p])
             got == Len(delivered'[p]) > Len(delivered[p])
  <2>0. CallsOK /\ DataOK
    BY <1>1 DEF NInv
  <2>1. /\ incoming \in [Processes -> Seq(Packets)]
        /\ delivered \in [Processes -> Seq(Packets)] /\ p \in Processes /\ now \in Nat
    BY <2>0, ConstantTypes DEF DataOK, CallsOK
  <2>2. /\ incoming' \in [Processes -> Seq(Packets)]
        /\ delivered' \in [Processes -> Seq(Packets)]
    BY <1>1, <2>1, ReceivedType
  <2>3. PICK m \in 0..Len(incoming[p]) :
          /\ Len(incoming'[p]) = Len(incoming[p]) - m
          /\ \A k \in 1..Len(incoming'[p]) : incoming'[p][k] = incoming[p][m + k]
          /\ \A i \in 1..m - 1 : Outdated(incoming[p][i].since, PacketLife)
          /\ \/ /\ delivered' = delivered
                /\ m > 0 => Outdated(incoming[p][m].since, PacketLife)
             \/ /\ m > 0
                /\ delivered'[p] = Append(delivered[p], incoming[p][m])
                /\ ~ Outdated(incoming[p][m].since, PacketLife)
    <3> HIDE DEF all, n, got
    <3>1. t \in Threads /\ spiReceiveEnds(t) /\ p = Home[t]
      BY <1>1
    <3> QED
      BY <2>1, <3>1, ReceivedType, Zenon
  <2>4. all \in Seq(Packets) /\ delivered[p] \in Seq(Packets)
    BY <2>1
  <2>5. Len(all) \in Nat /\ DOMAIN all = 1..Len(all) /\ Len(delivered[p]) \in Nat
    BY <2>4
  <2>6. n = m
    BY <2>3, <2>5
  <2>7. ASSUME NEW i \in 1..m, SameLap(all[i].since, PacketLife)
        PROVE  Outdated(all[i].since, PacketLife) <=> now - all[i].since > PacketLife
    <3>1. i \in DOMAIN all
      BY <2>3, <2>5
    <3>2. all[i] \in Packets
      <4> HIDE DEF Packets, all
      <4> QED
        BY <2>4, <3>1
    <3>3. all[i].since \in Nat /\ PacketLife \in Nat
      BY <3>2, ConstantTypes DEF Packets
    <3> HIDE DEF all
    <3> QED
      BY <2>1, <2>7, <3>3, OutdatedIsLate
  <2>8. CASE /\ delivered' = delivered
             /\ m > 0 => Outdated(all[m].since, PacketLife)
    <3>1. ~ got
      BY <2>5, <2>8
    <3>2. \A i \in 1..m : Outdated(all[i].since, PacketLife)
      <4> SUFFICES ASSUME NEW i \in 1..m PROVE Outdated(all[i].since, PacketLife)
        OBVIOUS
      <4>1. i \in 1..m - 1 \/ i = m
        BY <2>3, <2>5
      <4> QED
        BY <2>3, <2>5, <2>8, <4>1
    <3> QED
      BY <2>6, <2>7, <3>1, <3>2
  <2>9. CASE /\ m > 0
             /\ delivered'[p] = Append(delivered[p], all[m])
             /\ ~ Outdated(all[m].since, PacketLife)
    <3>1. got
      <4>1. m \in DOMAIN all
        BY <2>3, <2>5, <2>9
      <4>2. all[m] \in Packets
        <5> HIDE DEF Packets, all
        <5> QED
          BY <2>4, <4>1
      <4> HIDE DEF Packets, all
      <4>3. Len(Append(delivered[p], all[m])) = Len(delivered[p]) + 1
        BY <2>4, <4>2, AppendType
      <4> QED
        BY <2>5, <2>9, <4>3
    <3>2. \A i \in 1..m : Outdated(all[i].since, PacketLife) <=> i # m
      <4> SUFFICES ASSUME NEW i \in 1..m PROVE Outdated(all[i].since, PacketLife) <=> i # m
        OBVIOUS
      <4>1. i \in 1..m - 1 \/ i = m
        BY <2>3, <2>5
      <4>2. i \in 1..m - 1 => i # m
        BY <2>3, <2>5
      <4> QED
        BY <2>3, <2>9, <4>1, <4>2
    <3> QED
      BY <2>6, <2>7, <3>1, <3>2
  <2> QED
    BY <2>3, <2>8, <2>9
<1>2. ASSUME NInv, [Next]_vars
      PROVE  [\A t \in Threads : spiReceiveEnds(t) =>
                LET p   == Home[t]
                    all == incoming[p]
                    n   == Len(all) - Len(incoming'[p])
                    got == Len(delivered'[p]) > Len(delivered[p])
                IN  \A i \in 1..n : SameLap(all[i].since, PacketLife) =>
                      (now - all[i].since > PacketLife) <=> ~(got /\ i = n)]_vars
  BY <1>1, <1>2
<1> QED
  BY <1>2, Invariance, PTL DEF Spec, DroppedIsOld

\* ListIsCurrent: when Storm locks the list, it reads the hosts that were heard
\* of in the last two seconds and no others, as far as its chain is sound and
\* the tick count does not wrap (spiLockGameList, passAdvertisement).
THEOREM LockedListsAreCurrent == Spec => ListIsCurrent
<1>1. ASSUME NInv, [Next]_vars, NEW t \in Threads, call[t] = "none", call'[t] = "list"
      PROVE  LET p    == Home[t]
                 read == {shown'[p][i].host : i \in DOMAIN shown'[p]}
             IN  \A a \in Addresses :
                   heard[p][a] # Never /\ SameLap(heard[p][a], AdLife) =>
                     IF a \in read THEN now - heard[p][a] <= AdLife
                     ELSE now - heard[p][a] > AdLife \/ Freed.host \in read
  <2> DEFINE p == Home[t]
             read == {shown'[p][i].host : i \in DOMAIN shown'[p]}
  <2>1. CallsOK /\ ListsOK
    BY <1>1 DEF NInv
  <2>2. spiLockGameList(t)
    BY <1>1, <2>1, OnlyLockEnters
  <2>3. ASSUME NEW a \in Addresses, heard[p][a] # Never, SameLap(heard[p][a], AdLife)
        PROVE  IF a \in read THEN now - heard[p][a] <= AdLife
               ELSE now - heard[p][a] > AdLife \/ Freed.host \in read
    BY <2>1, <2>2, <2>3, LockedListIsCurrent
  <2> QED
    BY <2>3
<1>2. ASSUME NInv, [Next]_vars
      PROVE  [\A t \in Threads : call[t] = "none" /\ call'[t] = "list" =>
                LET p    == Home[t]
                    read == {shown'[p][i].host : i \in DOMAIN shown'[p]}
                IN  \A a \in Addresses :
                      heard[p][a] # Never /\ SameLap(heard[p][a], AdLife) =>
                        IF a \in read THEN now - heard[p][a] <= AdLife
                        ELSE now - heard[p][a] > AdLife \/ Freed.host \in read]_vars
  BY <1>1, <1>2
<1> QED
  BY <1>2, Invariance, PTL DEF Spec, ListIsCurrent
=============================================================================

-------------------------- MODULE GameTableProofs --------------------------
(***************************************************************************)
(* Theorems about GameTable, for every set of games, clients and rows: a   *)
(* process is listed once, a game that is up is listed, and rows are kept, *)
(* the last two unless games once started together or the table was full.  *)
(***************************************************************************)
EXTENDS GameTable, FiniteSetTheorems, WellFoundedInduction, TLAPS

Row == [pid : Games \cup {Nobody}, isConnected : BOOLEAN, alive : Nat]

TableTypeOK ==
  /\ rows \in [Rows -> Row]
  /\ gpc \in [Games -> {"off", "fresh", "search", "claim", "setup", "up"}]
  /\ index \in [Games -> Nat]
  /\ connected \in [Games -> BOOLEAN]
  /\ raced \in BOOLEAN /\ displaced \in BOOLEAN

HaveRows == \A g \in Games : gpc[g] \in {"claim", "setup", "up"} => index[g] \in Rows

\* A game that is about to claim a row is listed nowhere else.
ClaimsItsOwn ==
  \A g \in Games : gpc[g] = "claim" => \A i \in Rows : rows[i].pid = g => i = index[g]

\* As long as no two games have started together ...
StartsAlone ==
  \A g \in Games :
    Starting(g) /\ ~raced =>
      /\ \A h \in Games : Starting(h) => h = g
      /\ gpc[g] = "fresh" => /\ \A h \in Games \ {g} : gpc[h] = "off"
                             /\ \A i \in Rows : rows[i].pid = Nobody
      /\ gpc[g] = "claim" => displaced \/ rows[index[g]].pid \in {g, Nobody}

TableInv ==
  /\ TableTypeOK
  /\ HaveRows
  /\ ClaimsItsOwn
  /\ ListedOnce
  /\ StartsAlone
  /\ ListedUnlessRace

RowKept(i) ==
  \/ rows'[i].pid = rows[i].pid
  \/ rows[i].pid = Nobody
  \/ raced
  \/ displaced
  \/ \A g \in Games : gpc[g] = "off"

-----------------------------------------------------------------------------
(* Which row is found.                                                     *)

LEMMA LeastExists ==
  ASSUME NEW S \in SUBSET Nat, S # {}
  PROVE  \E x \in S : \A y \in S : x <= y
<1> DEFINE R == {ss \in Nat \X Nat : ss[1] < ss[2]}
<1>1. IsWellFoundedOn(R, Nat)
  BY NatLessThanWellFounded DEF OpToRel
<1>2. PICK x \in S : \A y \in S : ~(<<y, x>> \in R)
  <2> HIDE DEF R
  <2> QED  BY <1>1, WFMin, Zenon
<1>3. ASSUME NEW y \in S  PROVE x <= y
  <2>1. x \in Nat /\ y \in Nat
    OBVIOUS
  <2>2. ~(y < x)
    BY <1>2, <2>1
  <2> QED  BY <2>1, <2>2
<1> QED  BY <1>3

LEMMA OldestExists == ASSUME TableTypeOK PROVE Oldest(rows, Rows) # {}
<1>1. Rows \in SUBSET Nat /\ Rows # {}
  BY RowsAssumption
<1>2. \A i \in Rows : rows[i].alive \in Nat
  BY DEF TableTypeOK, Row
<1> DEFINE times == {rows[i].alive : i \in Rows}
<1>3. PICK t \in times : \A a \in times : t <= a
  BY <1>1, <1>2, LeastExists, ZenonT(30)
<1> DEFINE late == {i \in Rows : rows[i].alive = t}
<1>4. PICK i \in late : \A j \in late : i <= j
  BY <1>1, LeastExists
<1>5. ASSUME NEW j \in Rows
      PROVE  \/ rows[i].alive < rows[j].alive
             \/ rows[i].alive = rows[j].alive /\ i <= j
  <2>1. rows[i].alive = t /\ t <= rows[j].alive /\ t \in Nat /\ rows[j].alive \in Nat
    BY <1>2, <1>3
  <2>2. rows[j].alive = t => i <= j
    BY <1>4
  <2> QED  BY <2>1, <2>2
<1>6. i \in Rows
  BY <1>4
<1>7. i \in Oldest(rows, Rows)
  <2> HIDE DEF late, times
  <2> QED  BY <1>5, <1>6 DEF Oldest
<1> QED  BY <1>7

LEMMA RowFound ==
  ASSUME TableTypeOK, NEW g \in Games
  PROVE  /\ RowFor(g) \in Rows
         /\ (\E i \in Rows : rows[i].pid = g) => rows[RowFor(g)].pid = g
<1> DEFINE mine == {i \in Rows : rows[i].pid = g}
           empty == {i \in Rows : rows[i].pid = Nobody}
           first(S) == CHOOSE i \in S : \A j \in S : i <= j
<1>1. \A S \in SUBSET Rows : S # {} => first(S) \in S
  <2> SUFFICES ASSUME NEW S \in SUBSET Rows, S # {}  PROVE first(S) \in S
    OBVIOUS
  <2>1. \E i \in S : \A j \in S : i <= j
    BY RowsAssumption, LeastExists
  <2>2. PICK i \in S : \A j \in S : i <= j
    BY <2>1
  <2> QED  BY <2>2, Zenon
<1>2. CASE mine # {}
  <2>1. RowFor(g) = first(mine)
    BY <1>2 DEF RowFor
  <2>2. first(mine) \in mine
    <3> HIDE DEF first
    <3> QED  BY <1>1, <1>2
  <2> HIDE DEF first
  <2> QED  BY <2>1, <2>2
<1>3. CASE mine = {} /\ empty # {}
  <2>1. RowFor(g) = first(empty)
    BY <1>3 DEF RowFor
  <2> QED  BY <1>1, <1>3, <2>1
<1>4. CASE mine = {} /\ empty = {}
  <2>1. RowFor(g) = CHOOSE i \in Oldest(rows, Rows) : TRUE
    BY <1>4 DEF RowFor
  <2>2. RowFor(g) \in Oldest(rows, Rows)
    BY <2>1, OldestExists
  <2> QED  BY <1>4, <2>2 DEF Oldest
<1> QED  BY <1>2, <1>3, <1>4

\* Ranks are numbers, and ranking changes nothing else.
LEMMA RankedRows ==
  ASSUME NEW table \in [Rows -> Row]
  PROVE  /\ Ranked(table) \in [Rows -> Row]
         /\ \A i \in Rows : Ranked(table)[i].pid = table[i].pid
<1>1. ASSUME NEW a \in Nat  PROVE Cardinality(Alive(table) \cap (1 .. a)) \in Nat
  <2>1. IsFiniteSet(1 .. a)
    BY FS_Interval
  <2>2. IsFiniteSet(Alive(table) \cap (1 .. a))
    BY <2>1, FS_Subset
  <2> QED  BY <2>2, FS_CardinalityType
<1>2. ASSUME NEW i \in Rows
      PROVE  /\ Ranked(table)[i] \in Row
             /\ Ranked(table)[i].pid = table[i].pid
  <2>1. table[i] \in Row
    OBVIOUS
  <2>2. Ranked(table)[i] = [table[i] EXCEPT !.alive = Cardinality(Alive(table) \cap (1 .. table[i].alive))]
    BY DEF Ranked
  <2>3. Cardinality(Alive(table) \cap (1 .. table[i].alive)) \in Nat
    BY <1>1, <2>1 DEF Row
  <2> QED  BY <2>1, <2>2, <2>3 DEF Row
<1>3. Ranked(table) = [i \in Rows |-> Ranked(table)[i]]
  BY DEF Ranked
<1> QED  BY <1>2, <1>3

-----------------------------------------------------------------------------
LEMMA TableInit == Init => TableInv
<1> SUFFICES ASSUME Init  PROVE TableInv
  OBVIOUS
<1> USE DEF Init, EmptyRow
<1>1. TableTypeOK
  BY DEF TableTypeOK, Row
<1>2. HaveRows /\ ClaimsItsOwn /\ ListedUnlessRace
  BY DEF HaveRows, ClaimsItsOwn, ListedUnlessRace
<1>3. ListedOnce
  BY DEF ListedOnce
<1>4. StartsAlone
  BY DEF StartsAlone, Starting
<1> QED  BY <1>1, <1>2, <1>3, <1>4 DEF TableInv

\* Steps that leave the processes in the rows and the stages of the games as
\* they are, or take games out.
LEMMA QuietKeeps ==
  ASSUME TableInv,
         TableTypeOK', raced' = raced, displaced' = displaced,
         \A i \in Rows : rows'[i].pid = rows[i].pid,
         \A g \in Games : gpc'[g] = "off" \/ (gpc'[g] = gpc[g] /\ index'[g] = index[g])
  PROVE  TableInv' /\ \A i \in Rows : RowKept(i)
<1> USE DEF TableInv
<1>1. HaveRows' /\ ClaimsItsOwn'
  BY DEF HaveRows, ClaimsItsOwn
<1>2. ListedOnce'
  BY DEF ListedOnce
<1>3. ListedUnlessRace'
  <2> SUFFICES ASSUME NEW g \in Games, gpc'[g] \in {"setup", "up"}, ~raced, ~displaced
               PROVE  rows'[index'[g]].pid = g
    BY DEF ListedUnlessRace
  <2>1. gpc[g] \in {"setup", "up"} /\ index'[g] = index[g] /\ index[g] \in Rows
    BY DEF HaveRows
  <2> QED  BY <2>1 DEF ListedUnlessRace
<1>4. StartsAlone'
  <2> SUFFICES ASSUME NEW g \in Games, Starting(g)', ~raced
               PROVE  /\ \A h \in Games : Starting(h)' => h = g
                      /\ gpc'[g] = "fresh" => /\ \A h \in Games \ {g} : gpc'[h] = "off"
                                              /\ \A i \in Rows : rows'[i].pid = Nobody
                      /\ gpc'[g] = "claim" => displaced \/ rows'[index'[g]].pid \in {g, Nobody}
    BY DEF StartsAlone
  <2>1. Starting(g) /\ gpc'[g] = gpc[g] /\ index'[g] = index[g]
    BY DEF Starting
  <2>2. ASSUME NEW h \in Games, Starting(h)'  PROVE h = g
    <3>1. Starting(h)
      BY <2>2 DEF Starting
    <3> QED  BY <2>1, <3>1 DEF StartsAlone
  <2>3. gpc[g] = "fresh" => /\ \A h \in Games \ {g} : gpc'[h] = "off"
                            /\ \A i \in Rows : rows'[i].pid = Nobody
    BY <2>1 DEF StartsAlone
  <2>4. gpc[g] = "claim" => displaced \/ rows'[index'[g]].pid \in {g, Nobody}
    BY <2>1 DEF StartsAlone, HaveRows
  <2> QED  BY <2>1, <2>2, <2>3, <2>4
<1> QED  BY <1>1, <1>2, <1>3, <1>4 DEF RowKept

-----------------------------------------------------------------------------
(* A game that starts.                                                     *)

LEMMA OpenTableKeeps ==
  ASSUME TableInv, NEW g \in Games, OpenTable(g)
  PROVE  TableInv' /\ \A i \in Rows : RowKept(i)
<1> USE DEF TableInv, TableTypeOK
<1>1. TableTypeOK'
  BY DEF OpenTable, Row, EmptyRow
<1>2. gpc[g] = "off" /\ (raced' = (raced \/ \E h \in Games : Starting(h)))
      /\ index' = index /\ displaced' = displaced
      /\ \A h \in Games \ {g} : gpc'[h] = gpc[h]
  BY DEF OpenTable
<1>3. CASE TableExists
  <2>1. rows' = rows /\ gpc'[g] = "search"
    BY <1>3 DEF OpenTable
  <2>2. HaveRows' /\ ClaimsItsOwn'
    BY <1>2, <2>1 DEF HaveRows, ClaimsItsOwn
  <2>3. ListedOnce' /\ ListedUnlessRace'
    BY <1>2, <2>1 DEF ListedOnce, ListedUnlessRace
  <2>4. StartsAlone'
    <3> SUFFICES ASSUME NEW h \in Games, Starting(h)', ~raced'
                 PROVE  /\ \A k \in Games : Starting(k)' => k = h
                        /\ h = g
      BY <2>1 DEF StartsAlone
    <3>1. \A k \in Games : ~Starting(k)
      BY <1>2
    <3>2. \A k \in Games : Starting(k)' => k = g
      BY <1>2, <3>1 DEF Starting
    <3> QED  BY <3>2
  <2> QED  BY <1>1, <2>1, <2>2, <2>3, <2>4 DEF RowKept
<1>4. CASE ~TableExists
  <2>1. \A h \in Games : gpc[h] = "off"
    BY <1>4 DEF TableExists
  <2>2. gpc'[g] = "fresh" /\ \A h \in Games \ {g} : gpc'[h] = "off"
    BY <1>2, <1>4, <2>1 DEF OpenTable
  <2>3. \A i \in Rows : rows'[i].pid = Nobody
    BY <1>4 DEF OpenTable, EmptyRow
  <2>4. HaveRows' /\ ClaimsItsOwn'
    BY <2>2 DEF HaveRows, ClaimsItsOwn
  <2>5. ListedOnce' /\ ListedUnlessRace'
    BY <2>2, <2>3 DEF ListedOnce, ListedUnlessRace
  <2>6. StartsAlone'
    BY <2>2, <2>3 DEF StartsAlone, Starting
  <2> QED  BY <1>1, <2>1, <2>4, <2>5, <2>6 DEF RowKept
<1> QED  BY <1>3, <1>4

LEMMA InitTableKeeps ==
  ASSUME TableInv, NEW g \in Games, InitTable(g)
  PROVE  TableInv' /\ \A i \in Rows : RowKept(i)
<1> USE DEF TableInv, TableTypeOK
<1>1. TableTypeOK'
  BY DEF InitTable, Row, EmptyRow
<1>2. /\ gpc[g] = "fresh" /\ gpc'[g] = "search"
      /\ \A h \in Games \ {g} : gpc'[h] = gpc[h]
      /\ index' = index /\ raced' = raced /\ displaced' = displaced
      /\ \A i \in Rows : rows'[i].pid = Nobody
  BY DEF InitTable, EmptyRow
<1>3. ~raced => /\ \A h \in Games \ {g} : gpc[h] = "off"
                /\ \A i \in Rows : rows[i].pid = Nobody
  BY <1>2 DEF StartsAlone, Starting
<1>4. HaveRows' /\ ClaimsItsOwn'
  BY <1>2, NobodyAssumption DEF HaveRows, ClaimsItsOwn
<1>5. ListedOnce' /\ ListedUnlessRace'
  BY <1>2, <1>3 DEF ListedOnce, ListedUnlessRace
<1>6. StartsAlone'
  BY <1>2, <1>3 DEF StartsAlone, Starting
<1> QED  BY <1>1, <1>3, <1>4, <1>5, <1>6 DEF RowKept

LEMMA FindRowKeeps ==
  ASSUME TableInv, NEW g \in Games, FindRow(g)
  PROVE  TableInv' /\ \A i \in Rows : RowKept(i)
<1> USE DEF TableInv
<1> DEFINE r == RowFor(g)
<1>1. r \in Rows /\ ((\E i \in Rows : rows[i].pid = g) => rows[r].pid = g)
  BY RowFound
<1>2. /\ gpc[g] = "search" /\ gpc'[g] = "claim" /\ index'[g] = r
      /\ \A h \in Games \ {g} : gpc'[h] = gpc[h] /\ index'[h] = index[h]
      /\ rows' = rows /\ raced' = raced
      /\ displaced' = (displaced \/ rows[r].pid \notin {g, Nobody})
  BY DEF FindRow, TableTypeOK
<1> HIDE DEF r
<1>3. TableTypeOK'
  <2>1. index' \in [Games -> Nat]
    BY <1>1, RowsAssumption DEF FindRow, TableTypeOK, r
  <2> QED  BY <1>2, <2>1 DEF FindRow, TableTypeOK
<1>4. HaveRows'
  BY <1>1, <1>2 DEF HaveRows
<1>5. ClaimsItsOwn'
  <2>1. \A i \in Rows : rows[i].pid = g => i = r
    BY <1>1, NobodyAssumption DEF ListedOnce
  <2> QED  BY <1>2, <2>1 DEF ClaimsItsOwn
<1>6. ListedOnce' /\ ListedUnlessRace'
  BY <1>2 DEF ListedOnce, ListedUnlessRace
<1>7. StartsAlone'
  <2> SUFFICES ASSUME NEW h \in Games, Starting(h)', ~raced
               PROVE  /\ \A k \in Games : Starting(k)' => k = h
                      /\ gpc'[h] = "claim" => displaced' \/ rows[index'[h]].pid \in {h, Nobody}
                      /\ gpc'[h] # "fresh"
    BY <1>2 DEF StartsAlone
  <2>1. \A k \in Games : Starting(k)' <=> Starting(k)
    BY <1>2 DEF Starting
  <2>2. h = g /\ \A k \in Games : Starting(k)' => k = h
    BY <1>2, <2>1 DEF StartsAlone, Starting
  <2> QED  BY <1>2, <2>2
<1> QED  BY <1>2, <1>3, <1>4, <1>5, <1>6, <1>7 DEF RowKept

LEMMA ClaimRowKeeps ==
  ASSUME TableInv, NEW g \in Games, ClaimRow(g)
  PROVE  TableInv' /\ \A i \in Rows : RowKept(i)
<1> USE DEF TableInv
<1>1. /\ gpc[g] = "claim" /\ gpc'[g] = "setup"
      /\ \A h \in Games \ {g} : gpc'[h] = gpc[h]
      /\ index' = index /\ raced' = raced /\ displaced' = displaced
      /\ index[g] \in Rows
  BY DEF ClaimRow, TableTypeOK, HaveRows
<1>2. /\ rows' \in [Rows -> Row]
      /\ \A i \in Rows : rows'[i].pid = IF i = index[g] THEN g ELSE rows[i].pid
  <2>1. PICK t \in Now :
          rows' = Ranked([rows EXCEPT ![index[g]] = [pid |-> g, isConnected |-> FALSE, alive |-> t]])
    BY DEF ClaimRow
  <2> DEFINE table == [rows EXCEPT ![index[g]] = [pid |-> g, isConnected |-> FALSE, alive |-> t]]
  <2>2. t \in Nat
    BY RowsAssumption, FS_CardinalityType DEF Now
  <2>3. table \in [Rows -> Row]
    BY <2>2 DEF TableTypeOK, Row
  <2>4. \A i \in Rows : table[i].pid = IF i = index[g] THEN g ELSE rows[i].pid
    BY DEF TableTypeOK
  <2> HIDE DEF table
  <2>5. rows' = Ranked(table)
    BY <2>1 DEF table
  <2> QED  BY <2>3, <2>4, <2>5, RankedRows
<1>3. TableTypeOK' /\ HaveRows'
  BY <1>1, <1>2 DEF ClaimRow, TableTypeOK, HaveRows
<1>4. \A i \in Rows : rows[i].pid = g => i = index[g]
  BY <1>1 DEF ClaimsItsOwn
<1>5. ~raced /\ ~displaced => rows[index[g]].pid \in {g, Nobody}
  BY <1>1 DEF StartsAlone, Starting
<1>6. ClaimsItsOwn'
  BY <1>1, <1>2 DEF ClaimsItsOwn
<1>7. ListedOnce'
  BY <1>1, <1>2, <1>4 DEF ListedOnce
<1>8. ListedUnlessRace'
  <2> SUFFICES ASSUME NEW h \in Games, gpc'[h] \in {"setup", "up"}, ~raced, ~displaced
               PROVE  rows'[index[h]].pid = h
    BY <1>1 DEF ListedUnlessRace
  <2>1. CASE h = g
    BY <1>1, <1>2, <2>1
  <2>2. CASE h # g
    <3>1. rows[index[h]].pid = h /\ index[h] \in Rows
      BY <1>1, <2>2 DEF ListedUnlessRace, HaveRows
    <3>2. index[h] # index[g]
      BY <1>5, <2>2, <3>1, NobodyAssumption
    <3> QED  BY <1>2, <3>1, <3>2
  <2> QED  BY <2>1, <2>2
<1>9. StartsAlone'
  <2> SUFFICES ASSUME NEW h \in Games, Starting(h)', ~raced  PROVE FALSE
    BY <1>1 DEF StartsAlone
  <2>1. h # g /\ Starting(h) /\ Starting(g)
    BY <1>1 DEF Starting
  <2> QED  BY <2>1 DEF StartsAlone
<1>10. \A i \in Rows : RowKept(i)
  BY <1>2, <1>5 DEF RowKept
<1> QED  BY <1>3, <1>6, <1>7, <1>8, <1>9, <1>10

LEMMA CreatePipeKeeps ==
  ASSUME TableInv, NEW g \in Games, CreatePipe(g)
  PROVE  TableInv' /\ \A i \in Rows : RowKept(i)
<1> USE DEF TableInv
<1>1. /\ gpc[g] = "setup" /\ gpc'[g] = "up"
      /\ \A h \in Games \ {g} : gpc'[h] = gpc[h]
      /\ UNCHANGED <<rows, index, connected, raced, displaced>>
  BY DEF CreatePipe, TableTypeOK
<1>2. TableTypeOK' /\ HaveRows' /\ ClaimsItsOwn'
  BY <1>1 DEF CreatePipe, TableTypeOK, HaveRows, ClaimsItsOwn
<1>3. ListedOnce' /\ ListedUnlessRace'
  BY <1>1 DEF ListedOnce, ListedUnlessRace
<1>4. StartsAlone'
  BY <1>1 DEF StartsAlone, Starting
<1> QED  BY <1>1, <1>2, <1>3, <1>4 DEF RowKept

-----------------------------------------------------------------------------
(* A game that runs.                                                       *)

LEMMA RefreshKeeps ==
  ASSUME TableTypeOK, NEW g \in Games, index[g] \in Rows, RefreshRow(g)
  PROVE  rows' \in [Rows -> Row] /\ \A i \in Rows : rows'[i].pid = rows[i].pid
<1>1. PICK t \in Now :
        rows' = Ranked([rows EXCEPT ![index[g]].isConnected = connected[g],
                                    ![index[g]].alive = t])
  BY DEF RefreshRow
<1> DEFINE table == [rows EXCEPT ![index[g]].isConnected = connected[g],
                                 ![index[g]].alive = t]
<1>2. t \in Nat
  BY RowsAssumption, FS_CardinalityType DEF Now
<1>3. table \in [Rows -> Row]
  BY <1>2, ZenonT(30) DEF TableTypeOK, Row
<1>4. \A i \in Rows : table[i].pid = rows[i].pid
  BY DEF TableTypeOK, Row
<1> HIDE DEF table
<1>5. rows' = Ranked(table)
  BY <1>1 DEF table
<1> QED  BY <1>3, <1>4, <1>5, RankedRows

LEMMA UpdateKeeps ==
  ASSUME TableInv, NEW g \in Games, Update(g)
  PROVE  TableInv' /\ \A i \in Rows : RowKept(i)
<1>1. TableTypeOK /\ index[g] \in Rows
  BY DEF TableInv, HaveRows, Update, UpdateServing, UpdateMenu, UpdateMatch
<1>2. RefreshRow(g) /\ UNCHANGED <<gpc, index, raced, displaced>>
  BY DEF Update, UpdateServing, UpdateMenu, UpdateMatch, gameVars
<1>3. rows' \in [Rows -> Row] /\ \A i \in Rows : rows'[i].pid = rows[i].pid
  BY <1>1, <1>2, RefreshKeeps
<1>4. connected' \in [Games -> BOOLEAN]
  <2>1. (pipe[g] \in Clients) \in BOOLEAN
    OBVIOUS
  <2>2. \/ connected' = connected
        \/ connected' = [connected EXCEPT ![g] = pipe[g] \in Clients]
    BY DEF Update, UpdateServing, UpdateMenu, UpdateMatch, gameVars
  <2> QED  BY <1>1, <2>1, <2>2, Zenon DEF TableTypeOK
<1>5. TableTypeOK'
  BY <1>1, <1>2, <1>3, <1>4 DEF TableTypeOK
<1> QED  BY <1>2, <1>3, <1>5, QuietKeeps

LEMMA ExitKeeps ==
  ASSUME TableInv, NEW g \in Games, Exit(g)
  PROVE  TableInv' /\ \A i \in Rows : RowKept(i)
<1>1. TableTypeOK'
  BY DEF TableInv, TableTypeOK, Exit
<1>2. UNCHANGED <<rows, raced, displaced>>
  BY DEF Exit
<1>3. \A h \in Games : gpc'[h] = "off" \/ (gpc'[h] = gpc[h] /\ index'[h] = index[h])
  BY DEF TableInv, TableTypeOK, Exit
<1> QED  BY <1>1, <1>2, <1>3, QuietKeeps

LEMMA OthersKeep ==
  ASSUME TableInv, UNCHANGED <<rows, gameVars, raced, displaced>>
  PROVE  TableInv' /\ \A i \in Rows : RowKept(i)
<1>1. UNCHANGED <<rows, gpc, index, connected, raced, displaced>>
  BY DEF gameVars
<1>2. TableTypeOK'
  BY <1>1 DEF TableInv, TableTypeOK
<1> QED  BY <1>1, <1>2, QuietKeeps

LEMMA TableStep ==
  ASSUME TableInv, [Next]_vars
  PROVE  TableInv' /\ \A i \in Rows : RowKept(i)
<1>1. ASSUME NEW g \in Games, Start(g)  PROVE TableInv' /\ \A i \in Rows : RowKept(i)
  BY <1>1, OpenTableKeeps, InitTableKeeps, FindRowKeeps, ClaimRowKeeps, CreatePipeKeeps DEF Start
<1>2. ASSUME NEW g \in Games, Update(g)  PROVE TableInv' /\ \A i \in Rows : RowKept(i)
  BY <1>2, UpdateKeeps
<1>3. ASSUME NEW g \in Games, Exit(g)  PROVE TableInv' /\ \A i \in Rows : RowKept(i)
  BY <1>3, ExitKeeps
<1>4. ASSUME NEW c \in Clients, ScanTable(c) \/ OpenPipe(c) \/ LoseGame(c) \/ ClientDies(c)
      PROVE  TableInv' /\ \A i \in Rows : RowKept(i)
  <2>1. UNCHANGED <<rows, gameVars, raced, displaced>>
    BY <1>4 DEF ScanTable, OpenPipe, LoseGame, ClientDies
  <2> QED  BY <2>1, OthersKeep
<1>5. ASSUME UNCHANGED vars  PROVE TableInv' /\ \A i \in Rows : RowKept(i)
  BY <1>5, OthersKeep DEF vars
<1> QED  BY <1>1, <1>2, <1>3, <1>4, <1>5 DEF Next

-----------------------------------------------------------------------------
\* The invariant the theorems below rest on.
LEMMA TableInvariant == Spec => []TableInv
<1>1. Init => TableInv
  BY TableInit
<1>2. TableInv /\ [Next]_vars => TableInv'
  BY TableStep
<1> QED  BY <1>1, <1>2, PTL DEF Spec

\* However games race for rows, exit and start again, the search of
\* Server::Server for the process's own row keeps it from being listed twice.
THEOREM NoGameIsListedTwice == Spec => []ListedOnce
<1>1. TableInv => ListedOnce
  BY DEF TableInv
<1> QED  BY <1>1, TableInvariant, PTL

\* A game that is up can be found by clients, in the row it refreshes, as long
\* as no two games started together and no row in use was taken over.
THEOREM GamesAreListed == Spec => []ListedUnlessRace
<1>1. TableInv => ListedUnlessRace
  BY DEF TableInv
<1> QED  BY <1>1, TableInvariant, PTL

\* No step of a game or of a client takes a row from another process, races
\* and a full table apart, until the table itself is gone.
THEOREM RowsStay == Spec => RowsAreKept
<1>1. TableInv /\ [Next]_vars
        => [\A i \in Rows : rows'[i].pid = rows[i].pid
                          \/ rows[i].pid = Nobody
                          \/ raced
                          \/ displaced
                          \/ (\A g \in Games : gpc[g] = "off")]_vars
  BY TableStep DEF RowKept
<1> QED  BY <1>1, TableInvariant, PTL DEF Spec, RowsAreKept
=============================================================================

--------------------------- MODULE LatencyProofs ---------------------------
(***************************************************************************)
(* Proofs about LatencyCompensation, for any prices, wealth, latency and   *)
(* turns, any length of a queue and any number of commands: commands are   *)
(* paid for and what is shown is what will be, for an AI whose             *)
(* cancellations are foreseeable.  The invariant is IsSettled.             *)
(***************************************************************************)
EXTENDS LatencyCompensation, FiniteSetTheorems, SequenceTheorems, WellFoundedInduction, TLAPS

\* One step of each of the folds of LatencyCompensation.
Folded(how, x, e) ==
  CASE how = "carry" -> Carry(x, e.cmd)
    [] how = "now"   -> ExecuteTemp(x, e, TRUE)
    [] how = "later" -> ExecuteTemp(x, e, FALSE)
    [] how = "slot"  -> Effects(x, e, FALSE)

\* f is the fold over the members of s that stand at each set of places up to n.
Folds(how, f, b, s, n) ==
  f = [t \in SUBSET (1 .. n) |->
         IF t = {} THEN b ELSE Folded(how, f[t \ {Max(t)}], s[Max(t)])]

-----------------------------------------------------------------------------
(* Folds.  FoldLeft is defined by the fold over sets of places; what it    *)
(* does to a sequence follows by induction on natural numbers.             *)

\* Every set of natural numbers has a least one.
LEMMA LeastExists ==
  ASSUME NEW S \in SUBSET Nat, S # {}
  PROVE  \E x \in S : \A y \in S : x <= y
<1> DEFINE R == {ss \in Nat \X Nat : ss[1] < ss[2]}
<1>1. IsWellFoundedOn(R, Nat)
  BY NatLessThanWellFounded DEF OpToRel
<1>2. PICK x \in S : \A y \in S : ~(<<y, x>> \in R)
  <2> HIDE DEF R
  <2> QED  BY <1>1, WFMin, Zenon
<1>3. ASSUME NEW y \in S PROVE x <= y
  <2>1. x \in Nat /\ y \in Nat /\ ~(y < x)
    BY <1>2
  <2> QED  BY <2>1
<1> QED  BY <1>3

\* What holds of zero, and of a number's successor if of the number, holds up to n.
LEMMA UpTo ==
  ASSUME NEW n \in Nat, NEW T, 0 \in T,
         \A k \in 0 .. n - 1 : k \in T => k + 1 \in T
  PROVE  \A k \in 0 .. n : k \in T
<1> SUFFICES ASSUME {k \in 0 .. n : k \notin T} # {} PROVE FALSE
  OBVIOUS
<1>1. {k \in 0 .. n : k \notin T} \in SUBSET Nat
  OBVIOUS
<1>2. PICK k \in {j \in 0 .. n : j \notin T} : \A y \in {j \in 0 .. n : j \notin T} : k <= y
  BY <1>1, LeastExists
<1>3. k \in 1 .. n
  BY <1>2
<1>4. k - 1 \in 0 .. n - 1 /\ k - 1 \in T
  BY <1>2, <1>3
<1>5. (k - 1) + 1 \in T
  BY <1>4
<1> QED  BY <1>2, <1>3, <1>5

\* The largest of a set of places.
LEMMA MaxOfPlaces ==
  ASSUME NEW n \in Nat, NEW t \in SUBSET (1 .. n), n \in t
  PROVE  Max(t) = n
<1>1. \A y \in t : n >= y
  OBVIOUS
<1>2. \A x \in t : (\A y \in t : x >= y) => x = n
  BY <1>1
<1> QED  BY <1>1, <1>2 DEF Max

\* The largest of the first n places, and the rest.
LEMMA MaxOfFirst ==
  ASSUME NEW n \in Nat, n # 0
  PROVE  Max(1 .. n) = n /\ (1 .. n) \ {n} = 1 .. (n - 1)
  BY MaxOfPlaces

\* There is a fold over every sequence.
LEMMA FoldsExist ==
  ASSUME NEW how, NEW b, NEW s, NEW n \in Nat
  PROVE  \E f : Folds(how, f, b, s, n)
<1> DEFINE T == {k \in 0 .. n : \E f : Folds(how, f, b, s, k)}
<1>1. 0 \in T
  <2> DEFINE f == [t \in SUBSET (1 .. 0) |-> b]
  <2>1. 1 .. 0 = {}
    OBVIOUS
  <2>2. Folds(how, f, b, s, 0)
    BY <2>1 DEF Folds
  <2> QED  BY <2>2
<1>2. ASSUME NEW k \in 0 .. n - 1, k \in T PROVE k + 1 \in T
  <2>1. PICK f : Folds(how, f, b, s, k)
    BY <1>2
  <2> DEFINE g == [t \in SUBSET (1 .. k + 1) |->
                     IF k + 1 \in t THEN Folded(how, f[t \ {k + 1}], s[k + 1]) ELSE f[t]]
  <2>2. ASSUME NEW t \in SUBSET (1 .. k + 1)
        PROVE  g[t] = IF t = {} THEN b ELSE Folded(how, g[t \ {Max(t)}], s[Max(t)])
    <3>1. CASE k + 1 \in t
      <4>1. Max(t) = k + 1
        BY <3>1, MaxOfPlaces
      <4>2. t \ {k + 1} \in SUBSET (1 .. k + 1) /\ k + 1 \notin t \ {k + 1}
        OBVIOUS
      <4>3. g[t \ {k + 1}] = f[t \ {k + 1}]
        BY <4>2
      <4> QED  BY <3>1, <4>1, <4>3
    <3>2. CASE k + 1 \notin t
      <4>1. t \in SUBSET (1 .. k)
        BY <3>2
      <4>2. g[t] = f[t]
        BY <3>2
      <4>3. f[t] = IF t = {} THEN b ELSE Folded(how, f[t \ {Max(t)}], s[Max(t)])
        BY <2>1, <4>1 DEF Folds
      <4>4. t \ {Max(t)} \in SUBSET (1 .. k + 1) /\ k + 1 \notin t \ {Max(t)}
        BY <3>2
      <4>5. g[t \ {Max(t)}] = f[t \ {Max(t)}]
        BY <4>4
      <4> QED  BY <4>2, <4>3, <4>5
    <3> QED  BY <3>1, <3>2
  <2>3. Folds(how, g, b, s, k + 1)
    <3> DEFINE G(t) == IF t = {} THEN b ELSE Folded(how, g[t \ {Max(t)}], s[Max(t)])
    <3>1. g = [t \in SUBSET (1 .. k + 1) |-> g[t]]
      OBVIOUS
    <3>2. \A t \in SUBSET (1 .. k + 1) : g[t] = G(t)
      BY <2>2
    <3> HIDE DEF g
    <3>3. g = [t \in SUBSET (1 .. k + 1) |-> G(t)]
      BY <3>1, <3>2
    <3> QED  BY <3>3 DEF Folds
  <2> QED  BY <2>3
<1> HIDE DEF T
<1>3. \A k \in 0 .. n : k \in T
  BY <1>1, <1>2, UpTo
<1> QED  BY <1>3 DEF T

\* A fold over the first places is that over one place fewer, one step further.
LEMMA FoldsLast ==
  ASSUME NEW how, NEW b, NEW s, NEW n \in Nat, NEW f, Folds(how, f, b, s, n),
         NEW k \in Nat, k + 1 <= n
  PROVE  f[1 .. k + 1] = Folded(how, f[1 .. k], s[k + 1])
<1>1. Max(1 .. k + 1) = k + 1 /\ (1 .. k + 1) \ {k + 1} = 1 .. k
  BY MaxOfFirst
<1>2. PICK t : t = 1 .. k + 1
  OBVIOUS
<1>3. t \in SUBSET (1 .. n) /\ t # {}
  BY <1>2
<1>4. f[t] = Folded(how, f[t \ {Max(t)}], s[Max(t)])
  BY <1>3, ZenonT(30) DEF Folds
<1> QED  BY <1>1, <1>2, <1>4

\* Two folds agree as far as their sequences do.
LEMMA FoldsAgree ==
  ASSUME NEW how, NEW b, NEW s, NEW r, NEW m \in Nat, NEW n \in Nat,
         NEW f, NEW g, Folds(how, f, b, s, m), Folds(how, g, b, r, n),
         NEW k \in Nat, k <= m, k <= n, \A i \in 1 .. k : s[i] = r[i]
  PROVE  f[1 .. k] = g[1 .. k]
<1>1. \A j \in Nat : j + 1 <= m => f[1 .. j + 1] = Folded(how, f[1 .. j], s[j + 1])
  BY FoldsLast
<1>2. \A j \in Nat : j + 1 <= n => g[1 .. j + 1] = Folded(how, g[1 .. j], r[j + 1])
  BY FoldsLast
<1> DEFINE T == {j \in 0 .. k : f[1 .. j] = g[1 .. j]}
<1>3. 0 \in T
  <2>1. 1 .. 0 = {}
    OBVIOUS
  <2> QED  BY <2>1 DEF Folds
<1>4. ASSUME NEW j \in 0 .. k - 1, j \in T PROVE j + 1 \in T
  <2>1. j \in Nat /\ j + 1 <= m /\ j + 1 <= n /\ s[j + 1] = r[j + 1]
    OBVIOUS
  <2>2. f[1 .. j + 1] = Folded(how, f[1 .. j], s[j + 1])
    BY <1>1, <2>1
  <2>3. g[1 .. j + 1] = Folded(how, g[1 .. j], r[j + 1])
    BY <1>2, <2>1
  <2> QED  BY <1>4, <2>1, <2>2, <2>3
<1> HIDE DEF T
<1>5. \A j \in 0 .. k : j \in T
  BY <1>3, <1>4, UpTo
<1> QED  BY <1>5 DEF T

\* CarryAll is a fold,
LEMMA CarryFolds ==
  ASSUME NEW g0, NEW s, NEW n \in Nat, DOMAIN s = 1 .. n
  PROVE  \E f : Folds("carry", f, BeginAddon(g0), s, n) /\ CarryAll(g0, s) = f[1 .. n]
<1> DEFINE b == BeginAddon(g0)
<1> HIDE DEF b
<1>1. PICK g : Folds("carry", g, b, s, n)
  BY FoldsExist
<1> DEFINE D == 1 .. n
<1> DEFINE Is(f) == f = [t \in SUBSET D |->
              IF t = {} THEN b ELSE Carry(f[t \ {Max(t)}], s[Max(t)].cmd)]
<1>2. \A f : Is(f) <=> Folds("carry", f, b, s, n)
  BY DEF Folds, Folded
<1>3. Is(CHOOSE f : Is(f))
  BY <1>1, <1>2, Zenon
<1>4. CarryAll(g0, s) = (CHOOSE f : Is(f))[D]
  BY Zenon DEF CarryAll, FoldLeft, MapThenFoldSet, b
<1> HIDE DEF Is
<1>5. \E f : Folds("carry", f, b, s, n) /\ CarryAll(g0, s) = f[1 .. n]
  BY <1>2, <1>3, <1>4, Zenon
<1> QED  BY <1>5 DEF b

\* so are the effects on the current frame,
LEMMA NowFolds ==
  ASSUME NEW b, NEW s, NEW n \in Nat, DOMAIN s = 1 .. n
  PROVE  \E f : Folds("now", f, b, s, n) /\ Effects(b, s, TRUE) = f[1 .. n]
<1>1. PICK g : Folds("now", g, b, s, n)
  BY FoldsExist
<1> DEFINE D == 1 .. n
<1> DEFINE Is(f) == f = [t \in SUBSET D |->
              IF t = {} THEN b ELSE ExecuteTemp(f[t \ {Max(t)}], s[Max(t)], TRUE)]
<1>2. \A f : Is(f) <=> Folds("now", f, b, s, n)
  BY DEF Folds, Folded
<1>3. Is(CHOOSE f : Is(f))
  BY <1>1, <1>2, Zenon
<1>4. Effects(b, s, TRUE) = (CHOOSE f : Is(f))[D]
  BY Zenon DEF FoldLeft, MapThenFoldSet, Effects
<1> QED  BY <1>2, <1>3, <1>4, Zenon

\* those on later frames,
LEMMA LaterFolds ==
  ASSUME NEW b, NEW s, NEW n \in Nat, DOMAIN s = 1 .. n
  PROVE  \E f : Folds("later", f, b, s, n) /\ Effects(b, s, FALSE) = f[1 .. n]
<1>1. PICK g : Folds("later", g, b, s, n)
  BY FoldsExist
<1> DEFINE D == 1 .. n
<1> DEFINE Is(f) == f = [t \in SUBSET D |->
              IF t = {} THEN b ELSE ExecuteTemp(f[t \ {Max(t)}], s[Max(t)], FALSE)]
<1>2. \A f : Is(f) <=> Folds("later", f, b, s, n)
  BY DEF Folds, Folded
<1>3. Is(CHOOSE f : Is(f))
  BY <1>1, <1>2, Zenon
<1>4. Effects(b, s, FALSE) = (CHOOSE f : Is(f))[D]
  BY Zenon DEF FoldLeft, MapThenFoldSet, Effects
<1> QED  BY <1>2, <1>3, <1>4, Zenon

\* and Predict, over the slots of the buffer.
LEMMA SlotFolds ==
  ASSUME NEW b, NEW buffer, NEW n \in Nat, DOMAIN SubSeq(buffer, 1, n) = 1 .. n
  PROVE  \E f : Folds("slot", f, b, SubSeq(buffer, 1, n), n) /\ Predict(b, buffer, n) = f[1 .. n]
<1> DEFINE s == SubSeq(buffer, 1, n)
<1> HIDE DEF s
<1>1. PICK g : Folds("slot", g, b, s, n)
  BY FoldsExist
<1> DEFINE D == 1 .. n
<1> DEFINE Is(f) == f = [t \in SUBSET D |->
              IF t = {} THEN b ELSE Effects(f[t \ {Max(t)}], s[Max(t)], FALSE)]
<1>2. \A f : Is(f) <=> Folds("slot", f, b, s, n)
  BY DEF Folds, Folded
<1>3. Is(CHOOSE f : Is(f))
  BY <1>1, <1>2, Zenon
<1>4. DOMAIN s = D
  BY DEF s
<1>5. Predict(b, buffer, n) = (CHOOSE f : Is(f))[D]
  BY <1>4, Zenon DEF Predict, FoldLeft, MapThenFoldSet, s
<1> HIDE DEF Is
<1>6. \E f : Folds("slot", f, b, s, n) /\ Predict(b, buffer, n) = f[1 .. n]
  BY <1>2, <1>3, <1>5, Zenon
<1> QED  BY <1>6 DEF s

\* One more member is one more step.
LEMMA FoldsStep ==
  ASSUME NEW how, NEW b, NEW s, NEW r, NEW n \in Nat, NEW f, NEW g,
         Folds(how, f, b, s, n), Folds(how, g, b, r, n + 1), \A i \in 1 .. n : s[i] = r[i]
  PROVE  g[1 .. n + 1] = Folded(how, f[1 .. n], r[n + 1])
<1>1. n + 1 \in Nat /\ n + 1 <= n + 1
  OBVIOUS
<1>2. g[1 .. n + 1] = Folded(how, g[1 .. n], r[n + 1])
  BY <1>1, FoldsLast
<1>3. f[1 .. n] = g[1 .. n]
  BY FoldsAgree
<1> QED  BY <1>2, <1>3

\* Nothing changes without members.
LEMMA FoldsNone ==
  ASSUME NEW how, NEW b, NEW s, NEW f, Folds(how, f, b, s, 0)
  PROVE  f[1 .. 0] = b
<1>1. 1 .. 0 = {}
  OBVIOUS
<1> QED  BY <1>1 DEF Folds

\* The first n members of a sequence.
LEMMA Prefix ==
  ASSUME NEW s, NEW S, s \in Seq(S), NEW n \in 0 .. Len(s)
  PROVE  /\ SubSeq(s, 1, n) \in Seq(S)
         /\ DOMAIN SubSeq(s, 1, n) = 1 .. n /\ Len(SubSeq(s, 1, n)) = n
         /\ \A i \in 1 .. n : SubSeq(s, 1, n)[i] = s[i]
  OBVIOUS

\* The step from the first n members to the next.
LEMMA FoldsNext ==
  ASSUME NEW how, NEW b, NEW S, NEW s, s \in Seq(S), NEW n \in 0 .. Len(s) - 1, NEW f, NEW g,
         Folds(how, f, b, SubSeq(s, 1, n), n), Folds(how, g, b, SubSeq(s, 1, n + 1), n + 1)
  PROVE  g[1 .. n + 1] = Folded(how, f[1 .. n], s[n + 1])
<1> DEFINE p == SubSeq(s, 1, n)
           r == SubSeq(s, 1, n + 1)
<1>1. n \in Nat /\ n \in 0 .. Len(s) /\ n + 1 \in 0 .. Len(s)
  OBVIOUS
<1>2. (\A i \in 1 .. n : p[i] = r[i]) /\ r[n + 1] = s[n + 1]
  BY <1>1, Prefix
<1>3. Folds(how, f, b, p, n) /\ Folds(how, g, b, r, n + 1)
  OBVIOUS
<1> HIDE DEF p, r
<1>4. g[1 .. n + 1] = Folded(how, f[1 .. n], r[n + 1])
  BY <1>1, <1>2, <1>3, FoldsStep
<1> QED  BY <1>2, <1>4

-----------------------------------------------------------------------------
(* The match when the first h commands of s have been carried out from g on, *)
(* and when the addon ordered last has been begun too.                      *)

Trace(g, s, h) == CarryAll(g, SubSeq(s, 1, h))
After(g, s, h) == BeginAddon(Trace(g, s, h))

\* A trace begins with the addon and goes on command by command.
LEMMA TraceStep ==
  ASSUME NEW S, NEW s \in Seq(S), NEW g
  PROVE  /\ Trace(g, s, 0) = BeginAddon(g)
         /\ \A h \in 0 .. Len(s) - 1 :
              Trace(g, s, h + 1) = Carry(Trace(g, s, h), s[h + 1].cmd)
<1>1. Trace(g, s, 0) = BeginAddon(g)
  <2>1. DOMAIN SubSeq(s, 1, 0) = 1 .. 0
    BY Prefix
  <2>2. PICK f : Folds("carry", f, BeginAddon(g), SubSeq(s, 1, 0), 0) /\ Trace(g, s, 0) = f[1 .. 0]
    BY <2>1, CarryFolds, Zenon DEF Trace
  <2> QED  BY <2>2, FoldsNone
<1>2. ASSUME NEW h \in 0 .. Len(s) - 1
      PROVE  Trace(g, s, h + 1) = Carry(Trace(g, s, h), s[h + 1].cmd)
  <2>1. /\ h \in Nat /\ h + 1 \in Nat
        /\ DOMAIN SubSeq(s, 1, h) = 1 .. h /\ DOMAIN SubSeq(s, 1, h + 1) = 1 .. h + 1
    <3>1. h \in 0 .. Len(s) /\ h + 1 \in 0 .. Len(s)
      OBVIOUS
    <3> QED  BY <3>1, Prefix
  <2>2. PICK f : Folds("carry", f, BeginAddon(g), SubSeq(s, 1, h), h) /\ CarryAll(g, SubSeq(s, 1, h)) = f[1 .. h]
    BY <2>1, CarryFolds
  <2>3. PICK f2 : /\ Folds("carry", f2, BeginAddon(g), SubSeq(s, 1, h + 1), h + 1)
                  /\ CarryAll(g, SubSeq(s, 1, h + 1)) = f2[1 .. h + 1]
    BY <2>1, CarryFolds
  <2>4. f2[1 .. h + 1] = Folded("carry", f[1 .. h], s[h + 1])
    BY <2>2, <2>3, FoldsNext
  <2> QED  BY <2>2, <2>3, <2>4 DEF Folded, Trace
<1> QED  BY <1>1, <1>2

\* What has been added at the end does not matter before.
LEMMA TraceOfPrefix ==
  ASSUME NEW S, NEW s \in Seq(S), NEW r \in Seq(S), NEW g,
         NEW h \in 0 .. Len(s), h <= Len(r), \A i \in 1 .. h : s[i] = r[i]
  PROVE  Trace(g, s, h) = Trace(g, r, h)
<1>1. SubSeq(s, 1, h) = SubSeq(r, 1, h)
  OBVIOUS
<1> QED  BY <1>1 DEF Trace

\* The effects of the first events of a slot.
LEMMA ApplyStep ==
  ASSUME NEW S, NEW slot \in Seq(S), NEW d, NEW now \in BOOLEAN
  PROVE  /\ Effects(d, SubSeq(slot, 1, 0), now) = d
         /\ Effects(d, SubSeq(slot, 1, Len(slot)), now) = Effects(d, slot, now)
         /\ \A n \in 0 .. Len(slot) - 1 :
              Effects(d, SubSeq(slot, 1, n + 1), now)
                = ExecuteTemp(Effects(d, SubSeq(slot, 1, n), now), slot[n + 1], now)
<1> DEFINE how == IF now THEN "now" ELSE "later"
<1>1. ASSUME NEW s, NEW n \in Nat, DOMAIN s = 1 .. n
      PROVE  \E f : Folds(how, f, d, s, n) /\ Effects(d, s, now) = f[1 .. n]
  BY <1>1, NowFolds, LaterFolds
<1>2. \A x, e : Folded(how, x, e) = ExecuteTemp(x, e, now)
  BY DEF Folded
<1> HIDE DEF how
<1>3. Effects(d, SubSeq(slot, 1, 0), now) = d
  <2>1. DOMAIN SubSeq(slot, 1, 0) = 1 .. 0
    BY Prefix
  <2> QED  BY <2>1, <1>1, FoldsNone
<1>4. SubSeq(slot, 1, Len(slot)) = slot
  OBVIOUS
<1>5. ASSUME NEW n \in 0 .. Len(slot) - 1
      PROVE  Effects(d, SubSeq(slot, 1, n + 1), now)
               = ExecuteTemp(Effects(d, SubSeq(slot, 1, n), now), slot[n + 1], now)
  <2>1. /\ n \in Nat /\ n + 1 \in Nat
        /\ DOMAIN SubSeq(slot, 1, n) = 1 .. n /\ DOMAIN SubSeq(slot, 1, n + 1) = 1 .. n + 1
    <3>1. n \in 0 .. Len(slot) /\ n + 1 \in 0 .. Len(slot)
      OBVIOUS
    <3> QED  BY <3>1, Prefix
  <2>2. PICK f : Folds(how, f, d, SubSeq(slot, 1, n), n) /\ Effects(d, SubSeq(slot, 1, n), now) = f[1 .. n]
    BY <2>1, <1>1
  <2>3. PICK f2 : /\ Folds(how, f2, d, SubSeq(slot, 1, n + 1), n + 1)
                  /\ Effects(d, SubSeq(slot, 1, n + 1), now) = f2[1 .. n + 1]
    BY <2>1, <1>1
  <2>4. f2[1 .. n + 1] = Folded(how, f[1 .. n], slot[n + 1])
    BY <2>2, <2>3, FoldsNext
  <2> QED  BY <2>1, <2>2, <2>3, <2>4, <1>2
<1> QED  BY <1>3, <1>4, <1>5

-----------------------------------------------------------------------------
(* Brood War.                                                              *)

\* The matches.
Game == [minerals : Int, queue : Seq(TrainKinds), seen : Seq(TrainKinds),
         addon : {"none", "placed", "begun"}, tech : BOOLEAN, short : BOOLEAN, full : BOOLEAN]

\* The commands, but for the cancellation of the first slot.
SoundCommands == {c \in CostlyCommands : c.type = "Cancel_Train" => c.what # 0}

\* The commands, by their type.
LEMMA CommandKinds ==
  ASSUME NEW c \in SoundCommands
  PROVE  \/ c.type = "Train" /\ c.what \in TrainKinds
         \/ c.type = "Cancel_Train" /\ c.what \in CancelSlots \ {0}
         \/ c.type \in {"Build_Addon", "Cancel_Addon", "Research", "Cancel_Research"}
  BY DEF SoundCommands, CostlyCommands, Command

\* A match is the record of its fields.
LEMMA GameFields ==
  ASSUME NEW g
  PROVE  g \in Game <=>
           /\ g = [minerals |-> g.minerals, queue |-> g.queue, seen |-> g.seen, addon |-> g.addon,
                   tech |-> g.tech, short |-> g.short, full |-> g.full]
           /\ g.minerals \in Int /\ g.queue \in Seq(TrainKinds) /\ g.seen \in Seq(TrainKinds)
           /\ g.addon \in {"none", "placed", "begun"}
           /\ g.tech \in BOOLEAN /\ g.short \in BOOLEAN /\ g.full \in BOOLEAN
  BY DEF Game

\* What beginning an addon does: it is paid for, or minerals are short.
LEMMA BeginAddonFacts ==
  ASSUME LatencyAssumption, NEW g \in Game
  PROVE  LET b == BeginAddon(g) IN
         /\ b \in Game /\ b.addon # "placed"
         /\ b.queue = g.queue /\ b.seen = g.seen /\ b.tech = g.tech /\ b.full = g.full
         /\ g.addon # "placed" => b = g
         /\ g.addon = "placed" =>
              \/ /\ g.minerals >= AddonPrice /\ b.minerals = g.minerals - AddonPrice
                 /\ b.addon = "begun" /\ b.short = g.short
              \/ g.minerals < AddonPrice /\ b.short
         /\ g.short => b.short
<1> USE DEF Game
<1>0. AddonPrice \in Nat
  BY DEF LatencyAssumption
<1>1. CASE g.addon # "placed"
  BY <1>1 DEF BeginAddon
<1>2. CASE g.addon = "placed" /\ g.minerals < AddonPrice
  <2>1. BeginAddon(g) = [[g EXCEPT !.addon = "none"] EXCEPT !.short = TRUE]
    BY <1>2 DEF BeginAddon, Pay
  <2> QED  BY <2>1, <1>2
<1>3. CASE g.addon = "placed" /\ ~(g.minerals < AddonPrice)
  <2>1. BeginAddon(g) = [[g EXCEPT !.addon = "begun"] EXCEPT !.minerals = g.minerals - AddonPrice]
    BY <1>3 DEF BeginAddon, Pay
  <2>2. g.minerals - AddonPrice \in Int /\ g.minerals >= AddonPrice
    BY <1>0, <1>3
  <2> QED  BY <2>1, <2>2, <1>3
<1> QED  BY <1>1, <1>2, <1>3

\* A queue with one unit less.
LEMMA RemoveOne ==
  ASSUME NEW q \in Seq(TrainKinds), NEW i \in DOMAIN q
  PROVE  /\ RemoveAt(q, i) \in Seq(TrainKinds) /\ q[i] \in TrainKinds
         /\ Len(q) > 1 => RemoveAt(q, i) # <<>>
<1>1. i \in 1 .. Len(q) /\ Len(q) \in Nat
  OBVIOUS
<1>2. SubSeq(q, 1, i - 1) \in Seq(TrainKinds) /\ Len(SubSeq(q, 1, i - 1)) = i - 1
  BY <1>1
<1>3. SubSeq(q, i + 1, Len(q)) \in Seq(TrainKinds) /\ Len(SubSeq(q, i + 1, Len(q))) = Len(q) - i
  <2>1. CASE i = Len(q)
    <3>1. SubSeq(q, i + 1, Len(q)) = <<>>
      BY <1>1, <2>1
    <3> QED  BY <3>1, <2>1, <1>1
  <2>2. CASE i < Len(q)
    BY <1>1, <2>2
  <2> QED  BY <1>1, <2>1, <2>2
<1> DEFINE a == SubSeq(q, 1, i - 1)
           z == SubSeq(q, i + 1, Len(q))
<1>4. RemoveAt(q, i) = a \o z
  BY DEF RemoveAt
<1> HIDE DEF a, z
<1>5. a \in Seq(TrainKinds) /\ z \in Seq(TrainKinds) /\ Len(a) + Len(z) = Len(q) - 1
  <2>1. Len(a) = i - 1 /\ Len(z) = Len(q) - i
    BY <1>2, <1>3 DEF a, z
  <2>2. a \in Seq(TrainKinds) /\ z \in Seq(TrainKinds)
    BY <1>2, <1>3 DEF a, z
  <2> QED  BY <1>1, <2>1, <2>2
<1>6. a \o z \in Seq(TrainKinds) /\ Len(a \o z) = Len(a) + Len(z)
  BY <1>5
<1> QED  BY <1>1, <1>4, <1>5, <1>6

\* Which unit a cancellation takes from the queue.
PlaceOf(g, c) == IF c.what = -2 THEN Len(g.queue) ELSE c.what + 1

\* What each command does when Brood War carries it out.
LEMMA CarryTrain ==
  ASSUME LatencyAssumption, NEW g \in Game, NEW c \in SoundCommands, c.type = "Train"
  PROVE  LET b == Carry(g, c) IN
         /\ b \in Game /\ b.seen = g.seen /\ b.addon = g.addon /\ b.tech = g.tech
         /\ g.full => b.full
         /\ g.short => b.short
         /\ Price[c.what] \in Nat /\ c.what \in TrainKinds
         /\ \/ Len(g.queue) = QueueMax /\ b.full
            \/ /\ Len(g.queue) # QueueMax /\ g.minerals >= Price[c.what] /\ b.full = g.full
               /\ b.short = g.short /\ b.minerals = g.minerals - Price[c.what]
               /\ b.queue = Append(g.queue, c.what)
            \/ Len(g.queue) # QueueMax /\ g.minerals < Price[c.what] /\ b.short /\ b.full = g.full
               /\ b.queue = g.queue
<1> USE DEF Game
<1>1. c.what \in TrainKinds /\ Price[c.what] \in Nat
  BY CommandKinds DEF LatencyAssumption
<1>2. Carry(g, c) = IF Len(g.queue) = QueueMax THEN [g EXCEPT !.full = TRUE]
         ELSE Pay(g, Price[c.what], [g EXCEPT !.queue = Append(@, c.what)])
  BY DEF Carry
<1>3. Append(g.queue, c.what) \in Seq(TrainKinds)
  BY <1>1
<1>4. CASE Len(g.queue) = QueueMax
  BY <1>1, <1>2, <1>4
<1>5. CASE Len(g.queue) # QueueMax /\ g.minerals < Price[c.what]
  <2>1. Carry(g, c) = [g EXCEPT !.short = TRUE]
    BY <1>2, <1>5 DEF Pay
  <2> QED  BY <1>1, <1>5, <2>1
<1>6. CASE Len(g.queue) # QueueMax /\ ~(g.minerals < Price[c.what])
  <2>1. Carry(g, c) = [[g EXCEPT !.queue = Append(@, c.what)]
                         EXCEPT !.minerals = g.minerals - Price[c.what]]
    BY <1>2, <1>6 DEF Pay
  <2>2. g.minerals - Price[c.what] \in Int /\ g.minerals >= Price[c.what]
    BY <1>1, <1>6
  <2> QED  BY <1>1, <1>3, <1>6, <2>1, <2>2
<1> QED  BY <1>4, <1>5, <1>6

\* A cancelled unit is paid back if it is there.
LEMMA CarryCancelTrain ==
  ASSUME LatencyAssumption, NEW g \in Game, NEW c \in SoundCommands, c.type = "Cancel_Train"
  PROVE  LET b == Carry(g, c)  i == PlaceOf(g, c) IN
         /\ b \in Game /\ b.seen = g.seen /\ b.addon = g.addon /\ b.tech = g.tech
         /\ b.full = g.full /\ b.short = g.short /\ b.minerals >= g.minerals
         /\ i \in DOMAIN g.queue => /\ b.minerals = g.minerals + Price[g.queue[i]]
                                    /\ Price[g.queue[i]] \in Nat
                                    /\ b.queue = RemoveAt(g.queue, i)
         /\ i \notin DOMAIN g.queue => b = g
<1> DEFINE i == PlaceOf(g, c)
<1>1. Carry(g, c) = IF i \in DOMAIN g.queue THEN CancelSlot(g, i) ELSE g
  BY DEF Carry, PlaceOf
<1> HIDE DEF i
<1>2. CASE i \notin DOMAIN g.queue
  BY <1>1, <1>2 DEF Game, i
<1>3. CASE i \in DOMAIN g.queue
  <2>1. RemoveAt(g.queue, i) \in Seq(TrainKinds) /\ g.queue[i] \in TrainKinds
    BY <1>3, RemoveOne DEF Game
  <2>2. Price[g.queue[i]] \in Nat
    BY <2>1 DEF LatencyAssumption
  <2>3. Carry(g, c) = [g EXCEPT !.minerals = @ + Price[g.queue[i]], !.queue = RemoveAt(@, i)]
    BY <1>1, <1>3 DEF CancelSlot
  <2>4. g.minerals + Price[g.queue[i]] \in Int /\ g.minerals + Price[g.queue[i]] >= g.minerals
    BY <2>2 DEF Game
  <2>5. Carry(g, c) \in Game
    BY <2>1, <2>3, <2>4 DEF Game
  <2> QED  BY <1>3, <2>2, <2>3, <2>4, <2>5 DEF Game, i
<1> QED  BY <1>2, <1>3

\* An addon is placed; the minerals are taken later.
LEMMA CarryBuildAddon ==
  ASSUME LatencyAssumption, NEW g \in Game, NEW c, c.type = "Build_Addon"
  PROVE  LET b == Carry(g, c) IN
         /\ b \in Game
         /\ b.minerals = g.minerals /\ b.queue = g.queue /\ b.seen = g.seen /\ b.tech = g.tech
         /\ b.short = g.short /\ b.full = g.full
         /\ b.addon = IF g.addon = "none" THEN "placed" ELSE g.addon
<1>1. Carry(g, c) = IF g.addon = "none" THEN [g EXCEPT !.addon = "placed"] ELSE g
  BY DEF Carry
<1> QED  BY <1>1 DEF Game

\* An addon that has been begun is given back in part.
LEMMA CarryCancelAddon ==
  ASSUME LatencyAssumption, NEW g \in Game, NEW c, c.type = "Cancel_Addon"
  PROVE  LET b == Carry(g, c) IN
         /\ b \in Game /\ Refund(AddonPrice) \in Nat
         /\ b.queue = g.queue /\ b.seen = g.seen /\ b.tech = g.tech
         /\ b.short = g.short /\ b.full = g.full
         /\ b.minerals = g.minerals + (IF g.addon = "begun" THEN Refund(AddonPrice) ELSE 0)
         /\ b.addon = IF g.addon = "begun" THEN "none" ELSE g.addon
<1>1. Refund(AddonPrice) \in Nat
  BY DEF Refund, LatencyAssumption
<1>2. Carry(g, c) = IF g.addon = "begun"
         THEN [g EXCEPT !.minerals = @ + Refund(AddonPrice), !.addon = "none"] ELSE g
  BY DEF Carry
<1>3. g.minerals \in Int
  BY DEF Game
<1> HIDE DEF Refund
<1>4. CASE g.addon = "begun"
  <2>1. g.minerals + Refund(AddonPrice) \in Int
    BY <1>1, <1>3
  <2> QED  BY <1>1, <1>2, <1>4, <2>1 DEF Game
<1>5. CASE g.addon # "begun"
  BY <1>1, <1>2, <1>3, <1>5 DEF Game
<1> QED  BY <1>4, <1>5

\* Research is paid at once.
LEMMA CarryResearch ==
  ASSUME LatencyAssumption, NEW g \in Game, NEW c, c.type = "Research"
  PROVE  LET b == Carry(g, c) IN
         /\ b \in Game
         /\ b.queue = g.queue /\ b.seen = g.seen /\ b.addon = g.addon /\ b.full = g.full
         /\ g.short => b.short
         /\ g.tech => b = g
         /\ ~g.tech /\ g.minerals >= TechPrice =>
              b.minerals = g.minerals - TechPrice /\ b.tech /\ b.short = g.short
         /\ ~g.tech /\ g.minerals < TechPrice => b.short
<1>0. TechPrice \in Nat
  BY DEF LatencyAssumption
<1>1. Carry(g, c) = IF g.tech THEN g ELSE Pay(g, TechPrice, [g EXCEPT !.tech = TRUE])
  BY DEF Carry
<1>2. CASE g.tech
  BY <1>1, <1>2 DEF Game
<1>3. CASE ~g.tech /\ g.minerals < TechPrice
  <2>1. Carry(g, c) = [g EXCEPT !.short = TRUE]
    BY <1>1, <1>3 DEF Pay
  <2>2. g.tech = FALSE /\ ~(g.minerals >= TechPrice)
    BY <1>0, <1>3 DEF Game
  <2> QED  BY <1>3, <2>1, <2>2 DEF Game
<1>4. CASE ~g.tech /\ ~(g.minerals < TechPrice)
  <2>1. Carry(g, c) = [[g EXCEPT !.tech = TRUE] EXCEPT !.minerals = g.minerals - TechPrice]
    BY <1>1, <1>4 DEF Pay
  <2>2. g.minerals - TechPrice \in Int
    BY <1>0 DEF Game
  <2> QED  BY <1>0, <1>4, <2>1, <2>2 DEF Game
<1> QED  BY <1>2, <1>3, <1>4

\* Cancelled research is paid back.
LEMMA CarryCancelResearch ==
  ASSUME LatencyAssumption, NEW g \in Game, NEW c, c.type = "Cancel_Research"
  PROVE  LET b == Carry(g, c) IN
         /\ b \in Game
         /\ b.queue = g.queue /\ b.seen = g.seen /\ b.addon = g.addon
         /\ b.short = g.short /\ b.full = g.full
         /\ b.minerals = g.minerals + (IF g.tech THEN TechPrice ELSE 0) /\ ~b.tech
<1>0. TechPrice \in Nat /\ g.minerals \in Int
  BY DEF LatencyAssumption, Game
<1>1. Carry(g, c) = IF g.tech THEN [g EXCEPT !.minerals = @ + TechPrice, !.tech = FALSE] ELSE g
  BY DEF Carry
<1>2. CASE g.tech
  <2>1. g.minerals + TechPrice \in Int
    BY <1>0
  <2> QED  BY <1>1, <1>2, <2>1 DEF Game
<1>3. CASE ~g.tech
  <2>1. g.minerals + 0 = g.minerals
    BY <1>0
  <2> QED  BY <1>1, <1>3, <2>1
<1> QED  BY <1>2, <1>3

\* What is so once stays so.
LEMMA CarryKeeps ==
  ASSUME LatencyAssumption, NEW g \in Game, NEW c \in SoundCommands
  PROVE  LET b == Carry(g, c) IN
         /\ b \in Game /\ b.seen = g.seen
         /\ g.full => b.full
         /\ g.short => b.short
<1>1. CASE c.type = "Train"
  BY <1>1, CarryTrain
<1>2. CASE c.type = "Cancel_Train"
  BY <1>2, CarryCancelTrain
<1>3. CASE c.type = "Build_Addon"
  BY <1>3, CarryBuildAddon
<1>4. CASE c.type = "Cancel_Addon"
  BY <1>4, CarryCancelAddon
<1>5. CASE c.type = "Research"
  BY <1>5, CarryResearch
<1>6. CASE c.type = "Cancel_Research"
  BY <1>6, CarryCancelResearch
<1> QED  BY <1>1, <1>2, <1>3, <1>4, <1>5, <1>6, CommandKinds

-----------------------------------------------------------------------------
(* The effects of events.                                                  *)

\* The data of a unit and its player, and the events that change them.
DataFields == {"minerals", "queue", "training", "placing", "addon", "researching", "tech",
               "isResearching"}

Events == [cmd : SoundCommands, type : {"Resource", "Order"}]

\* The second part of a command.
IsOrder(e) == e.type = "Order" /\ e.cmd.type \notin {"Train", "Research"}

\* The data read are data.
LEMMA ReadData ==
  ASSUME NEW g
  PROVE  DOMAIN Read(g) = DataFields
  BY DEF Read, DataFields

\* An Order changes nothing but the queue and what is being researched.
LEMMA ExecuteOrder ==
  ASSUME NEW d, DOMAIN d = DataFields, NEW e \in Events, IsOrder(e)
  PROVE  LET f == ExecuteTemp(d, e, FALSE) IN
         /\ DOMAIN f = DataFields
         /\ f.minerals = d.minerals /\ f.placing = d.placing /\ f.addon = d.addon
         /\ f.tech = d.tech /\ f.isResearching = d.isResearching
         /\ e.cmd.type # "Cancel_Train" => f.queue = d.queue /\ f.training = d.training
<1>1. e.cmd \in SoundCommands /\ e.type = "Order"
  BY DEF Events, IsOrder
<1>2. CASE e.cmd.type = "Cancel_Train"
  <2>1. ExecuteTemp(d, e, FALSE) \in {d, [d EXCEPT !.queue = Front(@)]}
    BY <1>1, <1>2 DEF ExecuteTemp, CancelLast, CancelTrainSlot
  <2> QED  BY <1>2, <2>1 DEF DataFields
<1>3. CASE e.cmd.type = "Build_Addon"
  <2>1. ExecuteTemp(d, e, FALSE) = d
    BY <1>1, <1>3 DEF ExecuteTemp, BuildAddon
  <2> QED  BY <2>1
<1>4. CASE e.cmd.type = "Cancel_Addon"
  <2>1. ExecuteTemp(d, e, FALSE) = d
    BY <1>1, <1>4 DEF ExecuteTemp, CancelAddon
  <2> QED  BY <2>1
<1>5. CASE e.cmd.type = "Cancel_Research"
  <2>1. ExecuteTemp(d, e, FALSE) = [d EXCEPT !.researching = FALSE]
    BY <1>1, <1>5 DEF ExecuteTemp, CancelResearch
  <2> QED  BY <2>1 DEF DataFields
<1> QED  BY <1>1, <1>2, <1>3, <1>4, <1>5, CommandKinds DEF IsOrder

\* On the frame itself only what is trained and what an addon costs is reserved.
LEMMA ExecuteNow ==
  ASSUME NEW d, DOMAIN d = DataFields, NEW e, e.cmd \in SoundCommands,
         e.type = "Resource" \/ IsOrder(e)
  PROVE  LET f == ExecuteTemp(d, e, TRUE) IN
         /\ DOMAIN f = DataFields
         /\ d.placing => f.placing
         /\ f.addon = d.addon
         /\ f.tech = d.tech /\ f.isResearching = d.isResearching
         /\ f.minerals = IF e.type = "Resource" /\ e.cmd.type = "Build_Addon"
                         THEN d.minerals - AddonPrice ELSE d.minerals
         /\ IF e.type = "Resource" /\ e.cmd.type = "Train"
            THEN f.queue = Append(d.queue, e.cmd.what) /\ f.training
            ELSE f.queue = d.queue /\ f.training = d.training
<1>1. CASE e.cmd.type = "Train"
  <2>1. ExecuteTemp(d, e, TRUE) = [d EXCEPT !.minerals = @, !.queue = Append(@, e.cmd.what), !.training = TRUE]
    BY <1>1 DEF ExecuteTemp, Train
  <2>2. e.type = "Resource"
    BY <1>1 DEF IsOrder
  <2> QED  BY <1>1, <2>1, <2>2 DEF DataFields
<1>2. CASE e.cmd.type = "Build_Addon"
  <2>1. CASE e.type = "Order"
    <3>1. ExecuteTemp(d, e, TRUE) = d
      BY <1>2, <2>1 DEF ExecuteTemp, BuildAddon
    <3> QED  BY <1>2, <2>1, <3>1
  <2>2. CASE e.type = "Resource"
    <3>1. ExecuteTemp(d, e, TRUE) = [d EXCEPT !.minerals = @ - AddonPrice, !.placing = @ \/ ~TRUE]
      BY <1>2, <2>2 DEF ExecuteTemp, BuildAddon
    <3> QED  BY <1>2, <2>2, <3>1 DEF DataFields
  <2> QED  BY <2>1, <2>2 DEF IsOrder
<1>3. CASE e.cmd.type \notin {"Train", "Build_Addon"}
  <2>1. ExecuteTemp(d, e, TRUE) = d
    BY <1>3 DEF ExecuteTemp
  <2> QED  BY <1>3, <2>1
<1> QED  BY <1>1, <1>2, <1>3

\* What each command does to the data when it is due.
LEMMA ExecuteTrain ==
  ASSUME NEW d, DOMAIN d = DataFields, NEW c, c.type = "Train"
  PROVE  LET f == ExecuteTemp(d, Event(c, "Resource"), FALSE) IN
         /\ DOMAIN f = DataFields
         /\ f.minerals = d.minerals - Price[c.what]
         /\ f.queue = Append(d.queue, c.what) /\ f.training
         /\ f.placing = d.placing /\ f.addon = d.addon
         /\ f.tech = d.tech /\ f.isResearching = d.isResearching
<1>1. ExecuteTemp(d, Event(c, "Resource"), FALSE)
        = [d EXCEPT !.minerals = @ - Price[c.what], !.queue = Append(@, c.what), !.training = TRUE]
  BY DEF ExecuteTemp, Train, Event
<1> QED  BY <1>1 DEF DataFields

\* The price of an addon is taken when it is due.
LEMMA ExecuteBuildAddon ==
  ASSUME NEW d, DOMAIN d = DataFields, NEW c, c.type = "Build_Addon"
  PROVE  LET f == ExecuteTemp(d, Event(c, "Resource"), FALSE) IN
         /\ DOMAIN f = DataFields
         /\ f.minerals = d.minerals - AddonPrice /\ f.placing
         /\ f.queue = d.queue /\ f.training = d.training
         /\ f.addon = d.addon /\ f.tech = d.tech /\ f.isResearching = d.isResearching
<1>1. ExecuteTemp(d, Event(c, "Resource"), FALSE)
        = [d EXCEPT !.minerals = @ - AddonPrice, !.placing = @ \/ ~FALSE]
  BY DEF ExecuteTemp, BuildAddon, Event
<1> QED  BY <1>1 DEF DataFields

\* An addon is given back if there is one.
LEMMA ExecuteCancelAddon ==
  ASSUME NEW d, DOMAIN d = DataFields, NEW c, c.type = "Cancel_Addon"
  PROVE  LET f == ExecuteTemp(d, Event(c, "Resource"), FALSE) IN
         /\ DOMAIN f = DataFields /\ ~f.addon
         /\ f.minerals = IF d.addon THEN d.minerals + Refund(AddonPrice) ELSE d.minerals
         /\ f.queue = d.queue /\ f.training = d.training /\ f.placing = d.placing
         /\ f.tech = d.tech /\ f.isResearching = d.isResearching
<1>1. ExecuteTemp(d, Event(c, "Resource"), FALSE)
        = IF ~d.addon THEN d
          ELSE [d EXCEPT !.minerals = @ + Refund(AddonPrice), !.addon = FALSE]
  BY DEF ExecuteTemp, CancelAddon, Event
<1>2. CASE d.addon
  BY <1>1, <1>2 DEF DataFields
<1>3. CASE ~d.addon
  BY <1>1, <1>3
<1> QED  BY <1>2, <1>3

\* The price of research is taken.
LEMMA ExecuteResearch ==
  ASSUME NEW d, DOMAIN d = DataFields, NEW c, c.type = "Research"
  PROVE  LET f == ExecuteTemp(d, Event(c, "Resource"), FALSE) IN
         /\ DOMAIN f = DataFields
         /\ f.minerals = d.minerals - TechPrice /\ f.tech = TRUE /\ f.isResearching
         /\ f.queue = d.queue /\ f.training = d.training
         /\ f.placing = d.placing /\ f.addon = d.addon
<1>1. ExecuteTemp(d, Event(c, "Resource"), FALSE)
        = [d EXCEPT !.minerals = @ - TechPrice, !.tech = TRUE, !.researching = TRUE,
                    !.isResearching = TRUE]
  BY DEF ExecuteTemp, Research, Event
<1> QED  BY <1>1 DEF DataFields

\* The price of research is given back if it goes on.
LEMMA ExecuteCancelResearch ==
  ASSUME NEW d, DOMAIN d = DataFields, NEW c, c.type = "Cancel_Research"
  PROVE  LET f == ExecuteTemp(d, Event(c, "Resource"), FALSE) IN
         /\ DOMAIN f = DataFields
         /\ f.minerals = IF d.tech THEN d.minerals + TechPrice ELSE d.minerals
         /\ f.tech = FALSE
         /\ f.queue = d.queue /\ f.training = d.training
         /\ f.placing = d.placing /\ f.addon = d.addon /\ f.isResearching = d.isResearching
<1>1. ExecuteTemp(d, Event(c, "Resource"), FALSE)
        = [d EXCEPT !.minerals = IF d.tech THEN @ + TechPrice ELSE @, !.tech = FALSE]
  BY DEF ExecuteTemp, CancelResearch, Event
<1> QED  BY <1>1 DEF DataFields

\* A cancellation that finds what it cancels gives its price back.
LEMMA ExecuteCancelTrain ==
  ASSUME LatencyAssumption, NEW d, DOMAIN d = DataFields,
         NEW c \in SoundCommands, c.type = "Cancel_Train", NEW g, d.queue = g.queue
  PROVE  LET f == ExecuteTemp(d, Event(c, "Resource"), FALSE) IN
         /\ DOMAIN f = DataFields
         /\ f.minerals = d.minerals + Price[g.queue[PlaceOf(g, c)]]
         /\ f.placing = d.placing /\ f.addon = d.addon
         /\ f.tech = d.tech /\ f.isResearching = d.isResearching
<1>1. c.what \in {-2} \cup (Nat \ {0})
  BY CommandKinds DEF LatencyAssumption
<1>2. CASE c.what = -2
  <2>1. ExecuteTemp(d, Event(c, "Resource"), FALSE) = CancelLast(d, Event(c, "Resource"))
    BY <1>2 DEF ExecuteTemp, Event
  <2>2. CancelLast(d, Event(c, "Resource"))
          = [d EXCEPT !.minerals = @ + Price[d.queue[Len(d.queue)]],
                      !.training = @ /\ Len(d.queue) # 1]
    BY DEF CancelLast, Event, Last
  <2> QED  BY <1>2, <2>1, <2>2, ZenonT(60) DEF DataFields, PlaceOf
<1>3. CASE c.what # -2
  <2>1. ExecuteTemp(d, Event(c, "Resource"), FALSE)
          = CancelTrainSlot(d, Event(c, "Resource"), c.what + 1)
    BY <1>1, <1>3 DEF ExecuteTemp, Event
  <2>2. CancelTrainSlot(d, Event(c, "Resource"), c.what + 1)
          = [d EXCEPT !.minerals = @ + Price[d.queue[c.what + 1]],
                      !.queue = RemoveAt(@, c.what + 1)]
    BY DEF CancelTrainSlot, Event
  <2> QED  BY <1>1, <1>3, <2>1, <2>2, ZenonT(60) DEF DataFields, PlaceOf
<1> QED  BY <1>2, <1>3

-----------------------------------------------------------------------------
(* What lies ahead, and what it means to foresee it.                       *)

\* The commands under way.
Sent == [cmd : SoundCommands, in : 1 .. Latency]

\* A command of the type is one of the first h.
GivenUpTo(s, h, type) == \E i \in 1 .. h : s[i].cmd.type = type

\* At most one addon is on its way, and none is cancelled behind it.
OneAddon(g, s) ==
  /\ \A i \in DOMAIN s : s[i].cmd.type = "Build_Addon" =>
       /\ g.addon = "none"
       /\ \A j \in DOMAIN s : s[j].cmd.type = "Build_Addon" => j = i
       /\ \A j \in DOMAIN s : s[j].cmd.type = "Cancel_Addon" => j < i
  /\ g.addon = "placed" => \A i \in DOMAIN s : s[i].cmd.type # "Cancel_Addon"

\* At most one research is on its way.
OneResearch(g, s) ==
  \A i \in DOMAIN s : s[i].cmd.type = "Research" =>
    /\ ~g.tech
    /\ \A j \in DOMAIN s : s[j].cmd.type = "Research" => j = i

\* However many of the commands have been carried out, all were paid for,
\* unless there was no room in the queue.
AllPaid(g, s) == \A h \in 0 .. Len(s) : After(g, s, h).short => After(g, s, h).full

\* A cancellation finds its unit.
CancelsFind(g, s) ==
  \A h \in DOMAIN s : s[h].cmd.type = "Cancel_Train" =>
    \/ After(g, s, h).full
    \/ PlaceOf(Trace(g, s, h - 1), s[h].cmd) \in DOMAIN Trace(g, s, h - 1).queue

\* What lies ahead of the match g with the commands s on their way.
Prospects(g, s) ==
  /\ g \in Game /\ s \in Seq(Sent)
  /\ OneAddon(g, s) /\ OneResearch(g, s) /\ AllPaid(g, s) /\ CancelsFind(g, s)

\* The data d are what they will be when the first h commands have been
\* carried out,
Foreseen(g, s, d, h) ==
  /\ DOMAIN d = DataFields
  /\ g.addon # "none" \/ GivenUpTo(s, h, "Build_Addon") => d.placing
  /\ g.tech \/ GivenUpTo(s, h, "Research") => d.isResearching
  /\ ~After(g, s, h).full =>
       /\ d.minerals = After(g, s, h).minerals
       /\ d.tech = Trace(g, s, h).tech
       /\ g.addon # "placed" => (d.addon <=> Trace(g, s, h).addon = "begun")

\* and so is the training queue.
QueueForeseen(g, s, d, h) ==
  ~After(g, s, h).full =>
    d.queue = Trace(g, s, h).queue /\ (d.training => d.queue # <<>>)

\* An addon that was paid for took its price.
LEMMA Moment ==
  ASSUME LatencyAssumption, NEW g \in Game
  PROVE  LET b == BeginAddon(g) IN
         /\ b \in Game /\ b.full = g.full
         /\ g.short => b.short
         /\ ~b.short => /\ b.minerals = IF g.addon = "placed" THEN g.minerals - AddonPrice ELSE g.minerals
                        /\ g.addon = "placed" => g.minerals >= AddonPrice
  BY BeginAddonFacts

\* The commands under way, one by one.
LEMMA SentIs ==
  ASSUME NEW s \in Seq(Sent)
  PROVE  /\ Len(s) \in Nat /\ DOMAIN s = 1 .. Len(s)
         /\ \A i \in DOMAIN s : s[i] \in Sent /\ s[i].cmd \in SoundCommands /\ s[i].in \in 1 .. Latency
         /\ \A h \in 0 .. Len(s) - 1 : h + 1 \in DOMAIN s /\ h + 1 \in 0 .. Len(s)
<1>1. \A x \in Sent : x.cmd \in SoundCommands /\ x.in \in 1 .. Latency
  BY DEF Sent
<1>2. \A i \in DOMAIN s : s[i] \in Sent
  OBVIOUS
<1> QED  BY <1>1, <1>2

\* Every trace is a match, and once the queue was full it remains so.
LEMMA TraceGame ==
  ASSUME LatencyAssumption, NEW g \in Game, NEW s \in Seq(Sent)
  PROVE  \A h \in 0 .. Len(s) :
           /\ Trace(g, s, h) \in Game /\ Trace(g, s, h).seen = g.seen
           /\ After(g, s, h) \in Game /\ After(g, s, h).full = Trace(g, s, h).full
           /\ h # Len(s) /\ After(g, s, h).full => After(g, s, h + 1).full
<1> DEFINE P(h) == /\ Trace(g, s, h) \in Game /\ Trace(g, s, h).seen = g.seen
                   /\ After(g, s, h) \in Game /\ After(g, s, h).full = Trace(g, s, h).full
           T == {h \in 0 .. Len(s) : P(h)}
<1>0. Len(s) \in Nat
  BY SentIs
<1>1. 0 \in T
  <2>1. BeginAddon(g) \in Game /\ BeginAddon(g).seen = g.seen
    BY BeginAddonFacts
  <2>2. Trace(g, s, 0) = BeginAddon(g)
    BY TraceStep
  <2> QED  BY <1>0, <2>1, <2>2, Moment DEF After
<1>2. ASSUME NEW h \in 0 .. Len(s) - 1, P(h)
      PROVE  P(h + 1) /\ (Trace(g, s, h).full => Trace(g, s, h + 1).full)
  <2>1. s[h + 1].cmd \in SoundCommands
    BY SentIs
  <2>2. Trace(g, s, h + 1) = Carry(Trace(g, s, h), s[h + 1].cmd)
    BY TraceStep
  <2>3. /\ Trace(g, s, h + 1) \in Game /\ Trace(g, s, h + 1).seen = g.seen
        /\ Trace(g, s, h).full => Trace(g, s, h + 1).full
    BY <1>2, <2>1, <2>2, CarryKeeps
  <2> QED  BY <2>3, Moment DEF After
<1>3. ASSUME NEW h \in 0 .. Len(s) - 1, h \in T PROVE h + 1 \in T
  BY <1>2, <1>3
<1>4. \A h \in 0 .. Len(s) : h \in T
  <2> HIDE DEF T
  <2> QED  BY <1>0, <1>1, <1>3, UpTo
<1> QED  BY <1>0, <1>2, <1>4

\* What the commands carried out so far have to do with the addon and the
\* research.
LEMMA TraceFacts ==
  ASSUME LatencyAssumption, NEW g \in Game, NEW s \in Seq(Sent)
  PROVE  \A h \in 0 .. Len(s) :
           /\ g.addon = "none" /\ ~GivenUpTo(s, h, "Build_Addon") => Trace(g, s, h).addon = "none"
           /\ Trace(g, s, h).addon = "placed" => GivenUpTo(s, h, "Build_Addon")
           /\ ~g.tech /\ ~GivenUpTo(s, h, "Research") => ~Trace(g, s, h).tech
<1> DEFINE P(h) ==
      /\ g.addon = "none" /\ ~GivenUpTo(s, h, "Build_Addon") => Trace(g, s, h).addon = "none"
      /\ Trace(g, s, h).addon = "placed" => GivenUpTo(s, h, "Build_Addon")
      /\ ~g.tech /\ ~GivenUpTo(s, h, "Research") => ~Trace(g, s, h).tech
           T == {h \in 0 .. Len(s) : P(h)}
<1>0. Len(s) \in Nat
  BY SentIs
<1>1. 0 \in T
  <2>1. Trace(g, s, 0) = BeginAddon(g)
    BY TraceStep
  <2> QED  BY <1>0, <2>1, BeginAddonFacts
<1>2. ASSUME NEW h \in 0 .. Len(s) - 1, h \in T PROVE h + 1 \in T
  <2> DEFINE t == Trace(g, s, h)
             u == Trace(g, s, h + 1)
             c == s[h + 1].cmd
  <2>1. c \in SoundCommands /\ t \in Game /\ h + 1 \in 0 .. Len(s)
    BY TraceGame, SentIs
  <2>2. u = Carry(t, c)
    BY TraceStep
  <2>3. /\ GivenUpTo(s, h, "Build_Addon") \/ c.type = "Build_Addon"
             <=> GivenUpTo(s, h + 1, "Build_Addon")
        /\ GivenUpTo(s, h, "Research") \/ c.type = "Research"
             <=> GivenUpTo(s, h + 1, "Research")
    BY DEF GivenUpTo
  <2>4. P(h)
    BY <1>2
  <2> HIDE DEF t, u, c
  <2>5. /\ c.type # "Build_Addon" => (t.addon = "none" => u.addon = "none")
        /\ c.type # "Build_Addon" => (u.addon = "placed" => t.addon = "placed")
        /\ c.type # "Research" => (~t.tech => ~u.tech)
    <3>1. CASE c.type = "Train"
      BY <2>1, <2>2, <3>1, CarryTrain
    <3>2. CASE c.type = "Cancel_Train"
      BY <2>1, <2>2, <3>2, CarryCancelTrain
    <3>3. CASE c.type = "Build_Addon"
      BY <2>1, <2>2, <3>3, CarryBuildAddon
    <3>4. CASE c.type = "Cancel_Addon"
      BY <2>1, <2>2, <3>4, CarryCancelAddon
    <3>5. CASE c.type = "Research"
      BY <2>1, <2>2, <3>5, CarryResearch
    <3>6. CASE c.type = "Cancel_Research"
      BY <2>1, <2>2, <3>6, CarryCancelResearch
    <3> QED  BY <2>1, <3>1, <3>2, <3>3, <3>4, <3>5, <3>6, CommandKinds
  <2>6. P(h + 1)
    BY <2>3, <2>4, <2>5 DEF t, u
  <2> QED  BY <2>1, <2>6
<1>3. \A h \in 0 .. Len(s) : h \in T
  <2> HIDE DEF T
  <2> QED  BY <1>0, <1>1, <1>2, UpTo
<1> QED  BY <1>3

\* The second part of a command leaves foreseen what was.
LEMMA OrderForeseen ==
  ASSUME NEW g, NEW s, NEW d, NEW h, Foreseen(g, s, d, h), NEW e \in Events, IsOrder(e)
  PROVE  /\ Foreseen(g, s, ExecuteTemp(d, e, FALSE), h)
         /\ e.cmd.type # "Cancel_Train" /\ QueueForeseen(g, s, d, h)
              => QueueForeseen(g, s, ExecuteTemp(d, e, FALSE), h)
<1> DEFINE f == ExecuteTemp(d, e, FALSE)
<1>1. /\ DOMAIN f = DataFields
      /\ f.minerals = d.minerals /\ f.placing = d.placing /\ f.addon = d.addon
      /\ f.tech = d.tech /\ f.isResearching = d.isResearching
      /\ e.cmd.type # "Cancel_Train" => f.queue = d.queue /\ f.training = d.training
  BY ExecuteOrder DEF Foreseen
<1> HIDE DEF f
<1>2. Foreseen(g, s, f, h)
  BY <1>1 DEF Foreseen
<1>3. e.cmd.type # "Cancel_Train" /\ QueueForeseen(g, s, d, h) => QueueForeseen(g, s, f, h)
  BY <1>1 DEF QueueForeseen
<1> QED  BY <1>2, <1>3 DEF f

\* The first part of the next command makes its effect foreseen.
LEMMA ResourceForeseen ==
  ASSUME LatencyAssumption, NEW g, NEW s, Prospects(g, s), NEW h \in 0 .. Len(s) - 1,
         NEW d, Foreseen(g, s, d, h),
         s[h + 1].cmd.type = "Cancel_Train" => QueueForeseen(g, s, d, h)
  PROVE  LET f == ExecuteTemp(d, Event(s[h + 1].cmd, "Resource"), FALSE) IN
         /\ Foreseen(g, s, f, h + 1)
         /\ s[h + 1].cmd.type # "Cancel_Train" /\ QueueForeseen(g, s, d, h)
              => QueueForeseen(g, s, f, h + 1)
<1> DEFINE c == s[h + 1].cmd
           f == ExecuteTemp(d, Event(c, "Resource"), FALSE)
           t == Trace(g, s, h)
           u == Trace(g, s, h + 1)
           a == After(g, s, h)
           b == After(g, s, h + 1)
<1>1. /\ g \in Game /\ s \in Seq(Sent) /\ h \in 0 .. Len(s) /\ h + 1 \in 0 .. Len(s)
      /\ h + 1 \in DOMAIN s /\ c \in SoundCommands
  BY SentIs DEF Prospects
<1>2. /\ t \in Game /\ u \in Game /\ u = Carry(t, c) /\ a = BeginAddon(t) /\ b = BeginAddon(u)
      /\ a.full = t.full /\ b.full = u.full /\ (a.full => b.full)
      /\ (t.full => u.full) /\ (t.short => u.short)
      /\ a \in Game /\ b \in Game
  <2>1. /\ t \in Game /\ u \in Game /\ a.full = t.full /\ b.full = u.full
        /\ a \in Game /\ b \in Game
    BY <1>1, TraceGame
  <2>2. u = Carry(t, c)
    BY <1>1, TraceStep
  <2> QED  BY <1>1, <2>1, <2>2, CarryKeeps DEF After
<1>3. ~b.full =>
        /\ ~a.full /\ ~t.full /\ ~u.full /\ ~a.short /\ ~b.short /\ ~t.short /\ ~u.short
        /\ a.minerals = IF t.addon = "placed" THEN t.minerals - AddonPrice ELSE t.minerals
        /\ t.addon = "placed" => t.minerals >= AddonPrice
        /\ b.minerals = IF u.addon = "placed" THEN u.minerals - AddonPrice ELSE u.minerals
        /\ u.addon = "placed" => u.minerals >= AddonPrice
  <2>1. (b.short => b.full) /\ (a.short => a.full)
    BY <1>1 DEF Prospects, AllPaid
  <2> QED  BY <1>2, <2>1, Moment
<1>4. /\ GivenUpTo(s, h + 1, "Build_Addon") <=> GivenUpTo(s, h, "Build_Addon") \/ c.type = "Build_Addon"
      /\ GivenUpTo(s, h + 1, "Research") <=> GivenUpTo(s, h, "Research") \/ c.type = "Research"
  BY DEF GivenUpTo
<1>5. /\ DOMAIN d = DataFields
      /\ g.addon # "none" \/ GivenUpTo(s, h, "Build_Addon") => d.placing
      /\ g.tech \/ GivenUpTo(s, h, "Research") => d.isResearching
      /\ ~a.full =>
          /\ d.minerals = a.minerals /\ d.tech = t.tech
          /\ g.addon # "placed" => (d.addon <=> t.addon = "begun")
  BY DEF Foreseen
<1>6. QueueForeseen(g, s, d, h) <=>
        (~a.full => d.queue = t.queue /\ (d.training => d.queue # <<>>))
  BY DEF QueueForeseen
<1>7. /\ AddonPrice \in Nat /\ TechPrice \in Nat /\ t.minerals \in Int /\ u.minerals \in Int
      /\ t.tech \in BOOLEAN /\ t.addon \in {"none", "placed", "begun"}
      /\ t.queue \in Seq(TrainKinds)
  BY <1>2 DEF Game, LatencyAssumption
\* What there is to show.
<1>8. ASSUME DOMAIN f = DataFields, d.placing => f.placing, c.type = "Build_Addon" => f.placing,
             d.isResearching => f.isResearching, c.type = "Research" => f.isResearching,
             ~b.full => /\ f.minerals = b.minerals /\ f.tech = u.tech
                        /\ g.addon # "placed" => (f.addon <=> u.addon = "begun")
      PROVE  Foreseen(g, s, f, h + 1)
  <2> HIDE DEF f, c
  <2> QED  BY <1>4, <1>5, <1>8 DEF Foreseen
<1>9. ASSUME c.type # "Cancel_Train", QueueForeseen(g, s, d, h),
             ~b.full => f.queue = u.queue /\ (f.training => f.queue # <<>>)
      PROVE  QueueForeseen(g, s, f, h + 1)
  <2> HIDE DEF f, c
  <2> QED  BY <1>9 DEF QueueForeseen
<1>10. c.type = "Cancel_Train" => QueueForeseen(g, s, d, h)
  OBVIOUS
<1>11. c.type = "Build_Addon" => t.addon = "none"
  <2>1. ASSUME c.type = "Build_Addon" PROVE g.addon = "none" /\ ~GivenUpTo(s, h, "Build_Addon")
    <3>1. /\ g.addon = "none"
          /\ \A j \in DOMAIN s : s[j].cmd.type = "Build_Addon" => j = h + 1
      BY <1>1, <2>1 DEF Prospects, OneAddon
    <3> QED  BY <1>1, <3>1, SentIs DEF GivenUpTo
  <2> QED  BY <1>1, <2>1, TraceFacts
<1>12. c.type = "Cancel_Addon" => g.addon # "placed" /\ t.addon # "placed"
  <2>1. ASSUME c.type = "Cancel_Addon" PROVE g.addon # "placed" /\ ~GivenUpTo(s, h, "Build_Addon")
    <3>1. /\ g.addon # "placed"
          /\ \A i \in DOMAIN s : s[i].cmd.type = "Build_Addon" => h + 1 < i
      BY <1>1, <2>1 DEF Prospects, OneAddon
    <3> QED  BY <1>1, <3>1, SentIs DEF GivenUpTo
  <2> QED  BY <1>1, <2>1, TraceFacts
<1>13. c.type = "Research" => ~t.tech
  <2>1. ASSUME c.type = "Research" PROVE ~g.tech /\ ~GivenUpTo(s, h, "Research")
    <3>1. /\ ~g.tech
          /\ \A j \in DOMAIN s : s[j].cmd.type = "Research" => j = h + 1
      BY <1>1, <2>1 DEF Prospects, OneResearch
    <3> QED  BY <1>1, <3>1, SentIs DEF GivenUpTo
  <2> QED  BY <1>1, <2>1, TraceFacts
<1>14. c.type = "Cancel_Train" /\ ~b.full => PlaceOf(t, c) \in DOMAIN t.queue
  BY <1>1 DEF Prospects, CancelsFind
<1> DEFINE Shows == /\ Foreseen(g, s, f, h + 1)
                    /\ c.type # "Cancel_Train" /\ QueueForeseen(g, s, d, h)
                         => QueueForeseen(g, s, f, h + 1)
<1> HIDE DEF t, u, a, b, c
<1>15. ASSUME c.type = "Train" PROVE Shows
  <2>1. /\ DOMAIN f = DataFields
        /\ f.minerals = d.minerals - Price[c.what]
        /\ f.queue = Append(d.queue, c.what) /\ f.training
        /\ f.placing = d.placing /\ f.addon = d.addon
        /\ f.tech = d.tech /\ f.isResearching = d.isResearching
    BY <1>5, <1>15, ExecuteTrain
  <2>2. /\ u.addon = t.addon /\ u.tech = t.tech /\ c.what \in TrainKinds
        /\ Price[c.what] \in Nat
        /\ ~b.full => u.minerals = t.minerals - Price[c.what] /\ u.queue = Append(t.queue, c.what)
    BY <1>1, <1>2, <1>3, <1>15, CarryTrain
  <2> HIDE DEF f
  <2>3. ~b.full => f.minerals = b.minerals
    BY <1>3, <1>5, <1>7, <2>1, <2>2
  <2>4. Append(t.queue, c.what) # <<>>
    BY <1>7, <2>2, AppendProperties
  <2> QED  BY <1>3, <1>5, <1>6, <1>8, <1>9, <1>15, <2>1, <2>2, <2>3, <2>4
<1>16. ASSUME c.type = "Cancel_Train" PROVE Shows
  <2>1. u.addon = t.addon /\ u.tech = t.tech
    BY <1>1, <1>2, <1>16, CarryCancelTrain
  <2>2. ASSUME ~b.full
        PROVE  /\ u.minerals = t.minerals + Price[t.queue[PlaceOf(t, c)]]
               /\ Price[t.queue[PlaceOf(t, c)]] \in Nat /\ d.queue = t.queue
    BY <1>1, <1>2, <1>3, <1>6, <1>10, <1>14, <1>16, <2>2, CarryCancelTrain
  <2>3. /\ DOMAIN f = DataFields
        /\ f.placing = d.placing /\ f.addon = d.addon
        /\ f.tech = d.tech /\ f.isResearching = d.isResearching
    BY <1>1, <1>5, <1>16, ExecuteCancelTrain
  <2>4. ~b.full => f.minerals = d.minerals + Price[t.queue[PlaceOf(t, c)]]
    BY <1>1, <1>5, <1>16, <2>2, ExecuteCancelTrain
  <2> HIDE DEF f
  <2>5. ~b.full => f.minerals = b.minerals
    BY <1>3, <1>5, <1>7, <2>1, <2>2, <2>4
  <2> QED  BY <1>3, <1>5, <1>8, <1>16, <2>1, <2>3, <2>5
<1>17. ASSUME c.type = "Build_Addon" PROVE Shows
  <2>1. /\ DOMAIN f = DataFields
        /\ f.minerals = d.minerals - AddonPrice /\ f.placing
        /\ f.queue = d.queue /\ f.training = d.training
        /\ f.addon = d.addon /\ f.tech = d.tech /\ f.isResearching = d.isResearching
    BY <1>5, <1>17, ExecuteBuildAddon
  <2>2. u.minerals = t.minerals /\ u.queue = t.queue /\ u.tech = t.tech /\ u.addon = "placed"
    BY <1>2, <1>11, <1>17, CarryBuildAddon
  <2> HIDE DEF f
  <2>3. ~b.full => f.minerals = b.minerals
    BY <1>3, <1>5, <1>7, <1>11, <1>17, <2>1, <2>2
  <2> QED  BY <1>3, <1>5, <1>6, <1>8, <1>9, <1>11, <1>17, <2>1, <2>2, <2>3
<1>18. ASSUME c.type = "Cancel_Addon" PROVE Shows
  <2>1. /\ DOMAIN f = DataFields /\ ~f.addon
        /\ f.minerals = IF d.addon THEN d.minerals + Refund(AddonPrice) ELSE d.minerals
        /\ f.queue = d.queue /\ f.training = d.training /\ f.placing = d.placing
        /\ f.tech = d.tech /\ f.isResearching = d.isResearching
    BY <1>5, <1>18, ExecuteCancelAddon
  <2>2. /\ u.queue = t.queue /\ u.tech = t.tech /\ Refund(AddonPrice) \in Nat
        /\ u.minerals = t.minerals + (IF t.addon = "begun" THEN Refund(AddonPrice) ELSE 0)
        /\ u.addon = IF t.addon = "begun" THEN "none" ELSE t.addon
    BY <1>2, <1>18, CarryCancelAddon
  <2> HIDE DEF f
  <2>3. ~b.full => f.minerals = b.minerals
    BY <1>3, <1>5, <1>7, <1>12, <1>18, <2>1, <2>2
  <2> QED  BY <1>3, <1>5, <1>6, <1>8, <1>9, <1>12, <1>18, <2>1, <2>2, <2>3
<1>19. ASSUME c.type = "Research" PROVE Shows
  <2>1. /\ DOMAIN f = DataFields
        /\ f.minerals = d.minerals - TechPrice /\ f.tech = TRUE /\ f.isResearching
        /\ f.queue = d.queue /\ f.training = d.training
        /\ f.placing = d.placing /\ f.addon = d.addon
    BY <1>5, <1>19, ExecuteResearch
  <2>2. /\ u.queue = t.queue /\ u.addon = t.addon
        /\ ~b.full => u.minerals = t.minerals - TechPrice /\ u.tech
        /\ u.tech \in BOOLEAN
    <3>1. /\ u.queue = t.queue /\ u.addon = t.addon
          /\ ~t.tech /\ t.minerals >= TechPrice => u.minerals = t.minerals - TechPrice /\ u.tech
          /\ ~t.tech /\ t.minerals < TechPrice => u.short
      BY <1>2, <1>19, CarryResearch
    <3>2. u.tech \in BOOLEAN
      BY <1>2 DEF Game
    <3> QED  BY <1>3, <1>7, <1>13, <1>19, <3>1, <3>2
  <2> HIDE DEF f
  <2>3. ~b.full => f.minerals = b.minerals
    BY <1>3, <1>5, <1>7, <1>19, <2>1, <2>2
  <2> QED  BY <1>3, <1>5, <1>6, <1>8, <1>9, <1>19, <2>1, <2>2, <2>3
<1>20. ASSUME c.type = "Cancel_Research" PROVE Shows
  <2>1. /\ DOMAIN f = DataFields
        /\ f.minerals = IF d.tech THEN d.minerals + TechPrice ELSE d.minerals
        /\ f.tech = FALSE
        /\ f.queue = d.queue /\ f.training = d.training
        /\ f.placing = d.placing /\ f.addon = d.addon /\ f.isResearching = d.isResearching
    BY <1>5, <1>20, ExecuteCancelResearch
  <2>2. /\ u.queue = t.queue /\ u.addon = t.addon
        /\ u.minerals = t.minerals + (IF t.tech THEN TechPrice ELSE 0) /\ u.tech = FALSE
    BY <1>2, <1>20, CarryCancelResearch, SMTT(60) DEF Game
  <2> HIDE DEF f
  <2>3. ~b.full => f.minerals = b.minerals
    BY <1>3, <1>5, <1>7, <1>20, <2>1, <2>2
  <2> QED  BY <1>3, <1>5, <1>6, <1>8, <1>9, <1>20, <2>1, <2>2, <2>3
<1>21. Shows
  BY <1>1, <1>15, <1>16, <1>17, <1>18, <1>19, <1>20, CommandKinds
<1> QED  BY <1>21 DEF c

-----------------------------------------------------------------------------
(* The buffer, slot by slot.                                               *)

\* The first h commands are those due within k frames.
Reaches(s, k, h) == h \in 0 .. Len(s) /\ \A i \in DOMAIN s : s[i].in <= k <=> i <= h

\* A slot has orders first, then the first parts of the commands after lo up
\* to hi.
Holds(s, slot, lo, hi, m) ==
  /\ Len(slot) = m + hi - lo
  /\ \A n \in 1 .. m : IsOrder(slot[n])
  /\ \A n \in 1 .. (hi - lo) : slot[m + n] = Event(s[lo + n].cmd, "Resource")

\* The slot k has the first parts of the commands due then.
SlotHolds(s, slot, k) ==
  \E lo, hi \in 0 .. Len(s), m \in 0 .. Len(slot) :
    Reaches(s, k - 1, lo) /\ Reaches(s, k, hi) /\ Holds(s, slot, lo, hi, m)

\* Every slot of the buffer has.
BufferHolds(s, buffer) ==
  /\ buffer \in Seq(Seq(Events)) /\ Len(buffer) = Latency + 1
  /\ \A k \in 1 .. Latency + 1 : SlotHolds(s, buffer[k], k)

\* An event of a cancellation.
IsCancel(e) == e.cmd.type = "Cancel_Train"

\* At most one cancellation is on its way, and its order is in the slot after
\* it and nowhere else.
OneCancel(s, buffer) ==
  \A i \in DOMAIN s : s[i].cmd.type = "Cancel_Train" =>
    /\ \A j \in DOMAIN s : s[j].cmd.type = "Cancel_Train" => j = i
    /\ \A k \in DOMAIN buffer : \A n \in DOMAIN buffer[k] :
         IsCancel(buffer[k][n]) /\ buffer[k][n].type = "Order" => k = s[i].in + 1
    /\ \E n \in DOMAIN buffer[s[i].in + 1] :
         /\ IsCancel(buffer[s[i].in + 1][n])
         /\ buffer[s[i].in + 1][n].type = "Order"

\* There is one number of commands due within k frames.
LEMMA ReachesOnce ==
  ASSUME NEW s \in Seq(Sent), NEW k, NEW h, NEW j, Reaches(s, k, h), Reaches(s, k, j)
  PROVE  h = j
<1> SUFFICES ASSUME h # j PROVE FALSE
  OBVIOUS
<1>1. h \in 0 .. Len(s) /\ j \in 0 .. Len(s) /\ Len(s) \in Nat /\ DOMAIN s = 1 .. Len(s)
  BY SentIs DEF Reaches
<1>2. CASE h < j
  <2>1. j \in DOMAIN s
    BY <1>1, <1>2
  <2> QED  BY <1>1, <1>2, <2>1 DEF Reaches
<1>3. CASE j < h
  <2>1. h \in DOMAIN s
    BY <1>1, <1>3
  <2> QED  BY <1>1, <1>3, <2>1 DEF Reaches
<1> QED  BY <1>1, <1>2, <1>3

\* The events of one slot.
LEMMA SlotForeseen ==
  ASSUME LatencyAssumption, NEW g, NEW s, Prospects(g, s),
         NEW slot \in Seq(Events), NEW lo \in 0 .. Len(s), NEW hi \in 0 .. Len(s),
         NEW m \in 0 .. Len(slot), Holds(s, slot, lo, hi, m),
         NEW d, Foreseen(g, s, d, lo),
         \A i \in lo + 1 .. hi : s[i].cmd.type = "Cancel_Train" =>
           /\ QueueForeseen(g, s, d, lo)
           /\ \A j \in DOMAIN s : s[j].cmd.type = "Cancel_Train" => j = i
           /\ \A n \in 1 .. m : ~IsCancel(slot[n])
  PROVE  /\ Foreseen(g, s, Effects(d, slot, FALSE), hi)
         /\ (\A n \in DOMAIN slot : ~IsCancel(slot[n])) /\ QueueForeseen(g, s, d, lo)
              => QueueForeseen(g, s, Effects(d, slot, FALSE), hi)
<1> DEFINE x(n) == Effects(d, SubSeq(slot, 1, n), FALSE)
           at(n) == IF n <= m THEN lo ELSE lo + n - m
           P(n) == /\ Foreseen(g, s, x(n), at(n))
                   /\ (\A j \in 1 .. n : ~IsCancel(slot[j])) /\ QueueForeseen(g, s, d, lo)
                        => QueueForeseen(g, s, x(n), at(n))
           T == {n \in 0 .. Len(slot) : P(n)}
<1>1. /\ s \in Seq(Sent) /\ Len(s) \in Nat /\ DOMAIN s = 1 .. Len(s) /\ Len(slot) \in Nat
      /\ Len(slot) = m + hi - lo /\ m \in Nat /\ DOMAIN slot = 1 .. Len(slot)
  <2>1. s \in Seq(Sent) /\ Len(slot) = m + hi - lo
    BY DEF Prospects, Holds
  <2>2. Len(s) \in Nat /\ DOMAIN s = 1 .. Len(s)
    BY <2>1, SentIs
  <2>3. Len(slot) \in Nat /\ DOMAIN slot = 1 .. Len(slot) /\ m \in Nat
    OBVIOUS
  <2> QED  BY <2>1, <2>2, <2>3
<1>2. /\ x(0) = d /\ x(Len(slot)) = Effects(d, slot, FALSE)
      /\ \A n \in 0 .. Len(slot) - 1 : x(n + 1) = ExecuteTemp(x(n), slot[n + 1], FALSE)
  BY ApplyStep, ZenonT(60)
<1> HIDE DEF x
<1>3. 0 \in T
  BY <1>1, <1>2
<1>4. ASSUME NEW n \in 0 .. Len(slot) - 1, n \in T PROVE n + 1 \in T
  <2>1. P(n)
    BY <1>4
  <2>2. x(n + 1) = ExecuteTemp(x(n), slot[n + 1], FALSE)
    BY <1>2
  <2>3. CASE n + 1 <= m
    <3>1. IsOrder(slot[n + 1]) /\ slot[n + 1] \in Events
      BY <1>1, <2>3 DEF Holds
    <3>2. at(n) = lo /\ at(n + 1) = lo
      BY <1>1, <2>3
    <3> HIDE DEF at
    <3>3. /\ Foreseen(g, s, x(n + 1), lo)
          /\ ~IsCancel(slot[n + 1]) /\ QueueForeseen(g, s, x(n), lo)
               => QueueForeseen(g, s, x(n + 1), lo)
      BY <2>1, <2>2, <3>1, <3>2, OrderForeseen DEF IsCancel
    <3>4. (\A j \in 1 .. n + 1 : ~IsCancel(slot[j]))
            => ~IsCancel(slot[n + 1]) /\ \A j \in 1 .. n : ~IsCancel(slot[j])
      BY SMTT(30)
    <3>5. P(n + 1)
      BY <2>1, <3>2, <3>3, <3>4
    <3> QED  BY <3>5
  <2>4. CASE ~(n + 1 <= m)
    <3> DEFINE h == lo + n - m
    <3>1. /\ h \in 0 .. Len(s) - 1 /\ h + 1 \in lo + 1 .. hi /\ n - m \in Nat
          /\ slot[n + 1] = Event(s[h + 1].cmd, "Resource")
      <4>1. n + 1 - m \in 1 .. (hi - lo)
        BY <1>1, <2>4
      <4>2. m + (n + 1 - m) = n + 1 /\ lo + (n + 1 - m) = h + 1
        BY <1>1
      <4>3. slot[n + 1] = Event(s[h + 1].cmd, "Resource")
        BY <4>1, <4>2 DEF Holds
      <4>4. lo \in Nat /\ hi \in Nat /\ n \in Nat /\ n >= m /\ n <= m + hi - lo - 1 /\ hi <= Len(s)
        BY <1>1, <2>4
      <4>5. h \in Nat /\ h + 1 <= hi /\ h + 1 >= lo + 1 /\ n - m \in Nat
        BY <1>1, <4>4
      <4> HIDE DEF h
      <4> QED  BY <1>1, <4>3, <4>4, <4>5, SMTT(30)
    <3>2. at(n) = h /\ at(n + 1) = h + 1
      <4>1. lo \in Nat /\ n \in Nat /\ n >= m
        BY <1>1, <2>4
      <4> QED  BY <1>1, <2>4, <4>1
    <3>3. s[h + 1].cmd.type = "Cancel_Train" => QueueForeseen(g, s, x(n), h)
      <4> SUFFICES ASSUME s[h + 1].cmd.type = "Cancel_Train" PROVE QueueForeseen(g, s, x(n), h)
        OBVIOUS
      <4>1. /\ QueueForeseen(g, s, d, lo)
            /\ \A j \in DOMAIN s : s[j].cmd.type = "Cancel_Train" => j = h + 1
            /\ \A j \in 1 .. m : ~IsCancel(slot[j])
        BY <3>1
      <4>2. ASSUME NEW j \in 1 .. n, ~(j <= m) PROVE ~IsCancel(slot[j])
        <5>1. j - m \in 1 .. (hi - lo) /\ m + (j - m) = j /\ lo + (j - m) \in DOMAIN s /\ lo + (j - m) # h + 1
          BY <1>1, <2>4, <3>1, <4>2
        <5>2. slot[j] = Event(s[lo + (j - m)].cmd, "Resource")
          BY <5>1 DEF Holds
        <5>3. s[lo + (j - m)].cmd.type # "Cancel_Train"
          BY <4>1, <5>1
        <5> QED  BY <5>2, <5>3 DEF IsCancel, Event
      <4>3. \A j \in 1 .. n : ~IsCancel(slot[j])
        BY <1>1, <4>1, <4>2
      <4> HIDE DEF h, at
      <4> QED  BY <2>1, <3>2, <4>1, <4>3
    <3> HIDE DEF at, h
    <3>4. Foreseen(g, s, x(n), h)
      BY <2>1, <3>2
    <3>5. /\ Foreseen(g, s, x(n + 1), h + 1)
          /\ s[h + 1].cmd.type # "Cancel_Train" /\ QueueForeseen(g, s, x(n), h)
               => QueueForeseen(g, s, x(n + 1), h + 1)
      BY <2>2, <3>1, <3>3, <3>4, ResourceForeseen
    <3>6. (\A j \in 1 .. n + 1 : ~IsCancel(slot[j]))
            => s[h + 1].cmd.type # "Cancel_Train" /\ \A j \in 1 .. n : ~IsCancel(slot[j])
      <4>1. n \in Nat /\ n + 1 \in 1 .. n + 1
        OBVIOUS
      <4>2. ~IsCancel(slot[n + 1]) => s[h + 1].cmd.type # "Cancel_Train"
        BY <3>1 DEF IsCancel, Event
      <4> QED  BY <4>1, <4>2
    <3>7. P(n + 1)
      BY <2>1, <3>2, <3>5, <3>6
    <3> QED  BY <3>7
  <2> QED  BY <2>3, <2>4
<1>5. \A n \in 0 .. Len(slot) : n \in T
  <2> HIDE DEF T
  <2> QED  BY <1>1, <1>3, <1>4, UpTo
<1>6. P(Len(slot))
  BY <1>1, <1>5
<1>7. at(Len(slot)) = hi
  BY <1>1
<1> HIDE DEF at
<1> QED  BY <1>1, <1>2, <1>6, <1>7

\* A unit is to be taken from the queue.
CancelOrder(e) == IsCancel(e) /\ e.type = "Order"

\* Nothing in the first k slots cancels.
Quiet(buffer, k) == \A j \in 1 .. k : \A n \in DOMAIN buffer[j] : ~IsCancel(buffer[j][n])

\* An event that cancels is the order of a cancellation, or that of a command
\* that is due with its slot.
LEMMA CancelsOfSlot ==
  ASSUME NEW s \in Seq(Sent), NEW slot \in Seq(Events), NEW k, SlotHolds(s, slot, k),
         NEW n \in DOMAIN slot, IsCancel(slot[n]), ~CancelOrder(slot[n])
  PROVE  \E i \in DOMAIN s : s[i].in <= k /\ ~(s[i].in <= k - 1) /\ s[i].cmd.type = "Cancel_Train"
<1>1. PICK lo \in 0 .. Len(s), hi \in 0 .. Len(s), m \in 0 .. Len(slot) :
        Reaches(s, k - 1, lo) /\ Reaches(s, k, hi) /\ Holds(s, slot, lo, hi, m)
  BY DEF SlotHolds
<1>2. /\ Len(s) \in Nat /\ DOMAIN s = 1 .. Len(s) /\ Len(slot) \in Nat /\ lo \in Nat /\ hi \in Nat
      /\ m \in Nat /\ n \in Nat /\ n >= 1 /\ n <= m + hi - lo /\ hi <= Len(s)
  BY <1>1, SentIs DEF Holds
<1>3. ~(n <= m)
  BY <1>1, <1>2 DEF Holds, IsOrder, CancelOrder
<1>4. n - m \in 1 .. (hi - lo) /\ m + (n - m) = n
  BY <1>2, <1>3
<1>5. slot[n] = Event(s[lo + (n - m)].cmd, "Resource")
  BY <1>1, <1>4 DEF Holds
<1>6. lo + (n - m) \in DOMAIN s /\ lo + (n - m) <= hi /\ ~(lo + (n - m) <= lo)
  BY <1>2, <1>4
<1> QED  BY <1>1, <1>5, <1>6 DEF Reaches, IsCancel, Event

\* Predict goes on slot by slot.
LEMMA PredictStep ==
  ASSUME NEW buffer \in Seq(Seq(Events)), NEW d
  PROVE  /\ Predict(d, buffer, 0) = d
         /\ \A k \in 0 .. Len(buffer) - 1 :
              Predict(d, buffer, k + 1) = Effects(Predict(d, buffer, k), buffer[k + 1], FALSE)
<1>1. Predict(d, buffer, 0) = d
  <2>1. DOMAIN SubSeq(buffer, 1, 0) = 1 .. 0
    BY Prefix
  <2>2. PICK f : Folds("slot", f, d, SubSeq(buffer, 1, 0), 0) /\ Predict(d, buffer, 0) = f[1 .. 0]
    BY <2>1, SlotFolds
  <2> QED  BY <2>2, FoldsNone
<1>2. ASSUME NEW h \in 0 .. Len(buffer) - 1
      PROVE  Predict(d, buffer, h + 1) = Effects(Predict(d, buffer, h), buffer[h + 1], FALSE)
  <2>1. /\ h \in Nat /\ h + 1 \in Nat
        /\ DOMAIN SubSeq(buffer, 1, h) = 1 .. h /\ DOMAIN SubSeq(buffer, 1, h + 1) = 1 .. h + 1
    <3>1. h \in 0 .. Len(buffer) /\ h + 1 \in 0 .. Len(buffer)
      OBVIOUS
    <3> QED  BY <3>1, Prefix
  <2>2. PICK f : Folds("slot", f, d, SubSeq(buffer, 1, h), h) /\ Predict(d, buffer, h) = f[1 .. h]
    BY <2>1, SlotFolds
  <2>3. PICK f2 : /\ Folds("slot", f2, d, SubSeq(buffer, 1, h + 1), h + 1)
                  /\ Predict(d, buffer, h + 1) = f2[1 .. h + 1]
    BY <2>1, SlotFolds
  <2>4. f2[1 .. h + 1] = Folded("slot", f[1 .. h], buffer[h + 1])
    BY <2>2, <2>3, FoldsNext
  <2> QED  BY <2>1, <2>2, <2>3, <2>4 DEF Folded
<1> QED  BY <1>1, <1>2

\* Slot by slot, what is shown is foreseen.
LEMMA PredictForeseen ==
  ASSUME LatencyAssumption, NEW g, NEW s, Prospects(g, s),
         NEW buffer, BufferHolds(s, buffer), OneCancel(s, buffer),
         NEW d, Foreseen(g, s, d, 0),
         (\A n \in DOMAIN buffer[1] : ~CancelOrder(buffer[1][n])) => QueueForeseen(g, s, d, 0),
         NEW last \in 1 .. Latency, NEW h, Reaches(s, last, h)
  PROVE  /\ Foreseen(g, s, Predict(d, buffer, last), h)
         /\ Quiet(buffer, last) => QueueForeseen(g, s, Predict(d, buffer, last), h)
<1> DEFINE x(k) == Predict(d, buffer, k)
           First == \A n \in DOMAIN buffer[1] : ~CancelOrder(buffer[1][n])
           P(k) == \A j : Reaches(s, k, j) =>
                     /\ Foreseen(g, s, x(k), j)
                     /\ Quiet(buffer, k) /\ First => QueueForeseen(g, s, x(k), j)
           T == {k \in 0 .. Latency : P(k)}
<1>1. /\ s \in Seq(Sent) /\ Len(s) \in Nat /\ DOMAIN s = 1 .. Len(s)
      /\ \A i \in DOMAIN s : s[i].in \in 1 .. Latency
      /\ Latency \in Nat
      /\ buffer \in Seq(Seq(Events)) /\ Len(buffer) = Latency + 1 /\ DOMAIN buffer = 1 .. Latency + 1
      /\ \A k \in 1 .. Latency + 1 : buffer[k] \in Seq(Events) /\ SlotHolds(s, buffer[k], k)
  <2>1. s \in Seq(Sent) /\ Latency \in Nat
    BY DEF Prospects, LatencyAssumption
  <2>2. /\ buffer \in Seq(Seq(Events)) /\ Len(buffer) = Latency + 1
        /\ \A k \in 1 .. Latency + 1 : SlotHolds(s, buffer[k], k)
    BY DEF BufferHolds
  <2>3. /\ Len(s) \in Nat /\ DOMAIN s = 1 .. Len(s)
        /\ \A i \in DOMAIN s : s[i].in \in 1 .. Latency
    BY <2>1, SentIs
  <2>4. DOMAIN buffer = 1 .. Latency + 1 /\ \A k \in 1 .. Latency + 1 : buffer[k] \in Seq(Events)
    BY <2>1, <2>2
  <2> QED  BY <2>1, <2>2, <2>3, <2>4
<1>2. x(0) = d /\ \A k \in 0 .. Latency : x(k + 1) = Effects(x(k), buffer[k + 1], FALSE)
  <2>1. /\ x(0) = d
        /\ \A k \in 0 .. Len(buffer) - 1 : x(k + 1) = Effects(x(k), buffer[k + 1], FALSE)
    <3>1. buffer \in Seq(Seq(Events))
      BY <1>1
    <3>2. /\ Predict(d, buffer, 0) = d
          /\ \A k \in 0 .. Len(buffer) - 1 :
               Predict(d, buffer, k + 1) = Effects(Predict(d, buffer, k), buffer[k + 1], FALSE)
      BY <3>1, PredictStep
    <3> QED  BY <3>2
  <2>2. Len(buffer) - 1 = Latency
    BY <1>1
  <2> HIDE DEF x
  <2> QED  BY <2>1, <2>2
<1> HIDE DEF x
<1>3. 0 \in T
  <2>1. ASSUME NEW j, Reaches(s, 0, j) PROVE j = 0
    <3>1. j \in 0 .. Len(s)
      BY <2>1 DEF Reaches
    <3>2. SUFFICES ASSUME j # 0 PROVE FALSE
      OBVIOUS
    <3>3. j \in DOMAIN s
      BY <1>1, <3>1, <3>2
    <3>4. s[j].in <= 0
      BY <2>1, <3>1, <3>3 DEF Reaches
    <3> QED  BY <1>1, <3>3, <3>4
  <2>2. First => QueueForeseen(g, s, x(0), 0)
    BY <1>2
  <2> QED  BY <1>1, <1>2, <2>1, <2>2
<1>4. ASSUME NEW k \in 0 .. Latency - 1, k \in T PROVE k + 1 \in T
  <2>1. k \in 0 .. Latency /\ k + 1 \in 1 .. Latency + 1 /\ k + 1 \in 0 .. Latency /\ (k + 1) - 1 = k
    BY <1>1
  <2> DEFINE slot == buffer[k + 1]
  <2>2. PICK lo \in 0 .. Len(s), hi \in 0 .. Len(s), m \in 0 .. Len(slot) :
          Reaches(s, k, lo) /\ Reaches(s, k + 1, hi) /\ Holds(s, slot, lo, hi, m)
    BY <1>1, <2>1 DEF SlotHolds
  <2>3. /\ Foreseen(g, s, x(k), lo)
        /\ Quiet(buffer, k) /\ First => QueueForeseen(g, s, x(k), lo)
    BY <1>4, <2>2
  <2>4. ASSUME NEW i \in lo + 1 .. hi, s[i].cmd.type = "Cancel_Train"
        PROVE  /\ QueueForeseen(g, s, x(k), lo)
               /\ \A j \in DOMAIN s : s[j].cmd.type = "Cancel_Train" => j = i
               /\ \A n \in 1 .. m : ~IsCancel(slot[n])
    <3>1. i \in DOMAIN s /\ s[i].in <= k + 1 /\ ~(s[i].in <= k)
      <4>1. /\ lo \in Nat /\ hi \in Nat /\ hi <= Len(s) /\ i \in Nat /\ i >= 1 /\ i <= hi
            /\ ~(i <= lo)
        BY <1>1
      <4>2. i \in DOMAIN s
        BY <1>1, <4>1
      <4> QED  BY <2>2, <4>1, <4>2 DEF Reaches
    <3>2. /\ s[i].in = k + 1
          /\ \A j \in DOMAIN s : s[j].cmd.type = "Cancel_Train" => j = i
          /\ \A b \in DOMAIN buffer : \A n \in DOMAIN buffer[b] :
               CancelOrder(buffer[b][n]) => b = k + 2
      <4>1. s[i].in = k + 1
        <5>1. s[i].in \in Nat /\ k \in Nat
          BY <1>1, <3>1, SMTT(30)
        <5> QED  BY <3>1, <5>1
      <4> QED  BY <2>4, <3>1, <4>1 DEF OneCancel, CancelOrder
    <3>3. First
      <4>1. k \in Nat /\ 1 # k + 2 /\ 1 \in DOMAIN buffer
        BY <1>1
      <4> QED  BY <3>2, <4>1
    <3>4. ASSUME NEW j \in 1 .. k, NEW n \in DOMAIN buffer[j], IsCancel(buffer[j][n]) PROVE FALSE
      <4>2. j \in 1 .. Latency + 1 /\ j # k + 2 /\ j \in DOMAIN buffer /\ j <= k
        <5>1. k \in Nat /\ k <= Latency
          BY <1>1
        <5> QED  BY <1>1, <5>1
      <4>1. ~CancelOrder(buffer[j][n])
        BY <3>2, <4>2
      <4>3. PICK i2 \in DOMAIN s : s[i2].in <= j /\ s[i2].cmd.type = "Cancel_Train"
        <5>1. buffer[j] \in Seq(Events) /\ SlotHolds(s, buffer[j], j) /\ s \in Seq(Sent)
          BY <1>1, <4>2
        <5>2. \E i2 \in DOMAIN s : s[i2].in <= j /\ ~(s[i2].in <= j - 1) /\ s[i2].cmd.type = "Cancel_Train"
          BY <3>4, <4>1, <5>1, CancelsOfSlot
        <5> QED  BY <5>2
      <4>4. s[i].in <= j /\ s[i].in = k + 1 /\ k \in Nat /\ j \in Nat
        BY <3>2, <4>3
      <4> QED  BY <4>2, <4>4
    <3>5. ASSUME NEW n \in 1 .. m PROVE ~IsCancel(slot[n])
      <4>1. n \in DOMAIN slot /\ k + 1 \in DOMAIN buffer /\ slot \in Seq(Events)
        BY <1>1, <2>1
      <4>2. IsOrder(slot[n])
        BY <2>2 DEF Holds
      <4>3. ~CancelOrder(slot[n])
        BY <3>2, <4>1
      <4> QED  BY <4>2, <4>3 DEF CancelOrder, IsOrder
    <3> QED  BY <2>3, <3>2, <3>3, <3>4, <3>5 DEF Quiet
  <2>5. /\ Foreseen(g, s, x(k + 1), hi)
        /\ (\A n \in DOMAIN slot : ~IsCancel(slot[n])) /\ QueueForeseen(g, s, x(k), lo)
              => QueueForeseen(g, s, x(k + 1), hi)
    <3>1. slot \in Seq(Events) /\ x(k + 1) = Effects(x(k), slot, FALSE)
      BY <1>1, <1>2, <2>1
    <3> HIDE DEF slot
    <3>2. Foreseen(g, s, x(k), lo)
      BY <2>3
    <3> QED  BY <2>2, <2>4, <3>1, <3>2, SlotForeseen
  <2>6. Quiet(buffer, k + 1) => Quiet(buffer, k) /\ \A n \in DOMAIN slot : ~IsCancel(slot[n])
    BY <2>1 DEF Quiet
  <2>7. ASSUME NEW j, Reaches(s, k + 1, j) PROVE j = hi
    BY <1>1, <2>2, <2>7, ReachesOnce
  <2>8. P(k + 1)
    BY <2>3, <2>5, <2>6, <2>7
  <2> QED  BY <2>1, <2>8
<1>5. \A k \in 0 .. Latency : k \in T
  <2> HIDE DEF T
  <2> QED  BY <1>1, <1>3, <1>4, UpTo
<1>6. P(last) /\ last \in 1 .. Latency
  BY <1>5
<1>7. Quiet(buffer, last) => First
  <2>1. 1 \in 1 .. last
    BY <1>1
  <2> QED  BY <2>1 DEF Quiet, CancelOrder
<1> QED  BY <1>6, <1>7 DEF x

-----------------------------------------------------------------------------
(* From one frame to the next.                                             *)

\* Two views of the match on the way to the same outcome; of an addon ordered
\* last, t is past its beginning and r is not.
Alike(t, r, placed) ==
  \/ t.full /\ r.full
  \/ /\ ~t.full /\ ~r.full /\ ~t.short /\ ~r.short
     /\ t.queue = r.queue /\ t.tech = r.tech
     /\ IF placed
        THEN t.addon = "begun" /\ r.addon = "placed" /\ t.minerals = r.minerals - AddonPrice
        ELSE t.addon = r.addon /\ t.minerals = r.minerals

\* What is not there to pay with in the one is not in the other.
LEMMA PaidAlike ==
  ASSUME LatencyAssumption, NEW r \in Game, ~BeginAddon(r).short
  PROVE  /\ ~r.short
         /\ r.addon = "placed" => r.minerals >= AddonPrice
  BY Moment

\* A step of both keeps them alike.
LEMMA AlikeStep ==
  ASSUME LatencyAssumption, NEW t \in Game, NEW r \in Game, NEW placed \in BOOLEAN,
         Alike(t, r, placed), NEW c \in SoundCommands,
         placed => c.type \notin {"Build_Addon", "Cancel_Addon"},
         BeginAddon(Carry(r, c)).short => BeginAddon(Carry(r, c)).full
  PROVE  Alike(Carry(t, c), Carry(r, c), placed)
<1> DEFINE x == Carry(t, c)
           y == Carry(r, c)
<1>1. /\ x \in Game /\ y \in Game
      /\ t.full => x.full
      /\ r.full => y.full
  BY CarryKeeps
<1>2. BeginAddon(y).full = y.full /\ (y.short => BeginAddon(y).short)
  BY <1>1, BeginAddonFacts
<1>3. ~y.full => /\ ~y.short
                 /\ y.addon = "placed" => y.minerals >= AddonPrice
  BY <1>1, <1>2, PaidAlike
<1>4. /\ AddonPrice \in Nat /\ TechPrice \in Nat /\ t.minerals \in Int /\ r.minerals \in Int
      /\ x.minerals \in Int /\ y.minerals \in Int
      /\ t.tech \in BOOLEAN /\ r.tech \in BOOLEAN /\ x.tech \in BOOLEAN /\ y.tech \in BOOLEAN
      /\ t.full \in BOOLEAN /\ r.full \in BOOLEAN /\ x.full \in BOOLEAN /\ y.full \in BOOLEAN
  BY <1>1 DEF Game, LatencyAssumption
<1>5. CASE t.full /\ r.full
  BY <1>1, <1>5 DEF Alike
<1> DEFINE Both == /\ ~t.full /\ ~r.full /\ ~t.short /\ ~r.short
                   /\ t.queue = r.queue /\ t.tech = r.tech
                   /\ IF placed
                      THEN t.addon = "begun" /\ r.addon = "placed" /\ t.minerals = r.minerals - AddonPrice
                      ELSE t.addon = r.addon /\ t.minerals = r.minerals
           Now == \/ x.full /\ y.full
                  \/ /\ ~x.full /\ ~y.full /\ ~x.short /\ ~y.short
                     /\ x.queue = y.queue /\ x.tech = y.tech
                     /\ IF placed
                        THEN x.addon = "begun" /\ y.addon = "placed" /\ x.minerals = y.minerals - AddonPrice
                        ELSE x.addon = y.addon /\ x.minerals = y.minerals
<1>6. ASSUME Both PROVE Now
  <2> HIDE DEF x, y
  <2>1. ASSUME c.type = "Train" PROVE Now
    <3>1. /\ x.addon = t.addon /\ x.tech = t.tech /\ Price[c.what] \in Nat
          /\ \/ Len(t.queue) = QueueMax /\ x.full
             \/ /\ Len(t.queue) # QueueMax /\ t.minerals >= Price[c.what] /\ x.full = t.full
                /\ x.short = t.short /\ x.minerals = t.minerals - Price[c.what]
                /\ x.queue = Append(t.queue, c.what)
             \/ Len(t.queue) # QueueMax /\ t.minerals < Price[c.what] /\ x.full = t.full
      BY <2>1, CarryTrain DEF x
    <3>2. /\ y.addon = r.addon /\ y.tech = r.tech
          /\ \/ Len(r.queue) = QueueMax /\ y.full
             \/ /\ Len(r.queue) # QueueMax /\ r.minerals >= Price[c.what] /\ y.full = r.full
                /\ y.short = r.short /\ y.minerals = r.minerals - Price[c.what]
                /\ y.queue = Append(r.queue, c.what)
             \/ Len(r.queue) # QueueMax /\ r.minerals < Price[c.what] /\ y.short /\ y.full = r.full
      BY <2>1, CarryTrain DEF y
    <3>3. CASE Len(r.queue) = QueueMax
      BY <1>6, <3>1, <3>2, <3>3
    <3>4. CASE Len(r.queue) # QueueMax
      <4>1. r.minerals >= Price[c.what] /\ y.minerals = r.minerals - Price[c.what] /\ ~y.full
            /\ y.queue = Append(r.queue, c.what) /\ ~y.short
        BY <1>3, <1>6, <3>2, <3>4
      <4>2. t.minerals >= Price[c.what]
        BY <1>3, <1>4, <1>6, <3>1, <3>2, <4>1
      <4>3. /\ x.minerals = t.minerals - Price[c.what] /\ ~x.full
            /\ x.queue = Append(t.queue, c.what) /\ ~x.short
        BY <1>4, <1>6, <3>1, <3>4, <4>2
      <4> QED  BY <1>4, <1>6, <3>1, <3>2, <4>1, <4>3
    <3> QED  BY <3>3, <3>4
  <2>2. ASSUME c.type = "Cancel_Train" PROVE Now
    <3>1. PlaceOf(t, c) = PlaceOf(r, c)
      BY <1>6 DEF PlaceOf
    <3> DEFINE i == PlaceOf(r, c)
    <3> HIDE DEF i
    <3>2. /\ x.addon = t.addon /\ x.tech = t.tech /\ x.full = t.full /\ x.short = t.short
          /\ i \in DOMAIN t.queue => /\ x.minerals = t.minerals + Price[t.queue[i]]
                                     /\ Price[t.queue[i]] \in Nat
                                     /\ x.queue = RemoveAt(t.queue, i)
          /\ i \notin DOMAIN t.queue => x = t
      BY <2>2, <3>1, CarryCancelTrain DEF x, i
    <3>3. /\ y.addon = r.addon /\ y.tech = r.tech /\ y.full = r.full /\ y.short = r.short
          /\ i \in DOMAIN r.queue => /\ y.minerals = r.minerals + Price[r.queue[i]]
                                     /\ Price[r.queue[i]] \in Nat
                                     /\ y.queue = RemoveAt(r.queue, i)
          /\ i \notin DOMAIN r.queue => y = r
      BY <2>2, CarryCancelTrain DEF y, i
    <3>4. CASE i \in DOMAIN r.queue
      BY <1>4, <1>6, <3>2, <3>3, <3>4
    <3>5. CASE i \notin DOMAIN r.queue
      BY <1>6, <3>2, <3>3, <3>5
    <3> QED  BY <3>4, <3>5
  <2>3. ASSUME c.type = "Build_Addon" PROVE Now
    <3>1. /\ x.minerals = t.minerals /\ x.queue = t.queue /\ x.tech = t.tech
          /\ x.short = t.short /\ x.full = t.full
          /\ x.addon = IF t.addon = "none" THEN "placed" ELSE t.addon
      BY <2>3, CarryBuildAddon DEF x
    <3>2. /\ y.minerals = r.minerals /\ y.queue = r.queue /\ y.tech = r.tech
          /\ y.short = r.short /\ y.full = r.full
          /\ y.addon = IF r.addon = "none" THEN "placed" ELSE r.addon
      BY <2>3, CarryBuildAddon DEF y
    <3> QED  BY <1>6, <2>3, <3>1, <3>2
  <2>4. ASSUME c.type = "Cancel_Addon" PROVE Now
    <3>1. /\ x.queue = t.queue /\ x.tech = t.tech /\ x.short = t.short /\ x.full = t.full
          /\ x.minerals = t.minerals + (IF t.addon = "begun" THEN Refund(AddonPrice) ELSE 0)
          /\ x.addon = IF t.addon = "begun" THEN "none" ELSE t.addon
      BY <2>4, CarryCancelAddon DEF x
    <3>2. /\ y.queue = r.queue /\ y.tech = r.tech /\ y.short = r.short /\ y.full = r.full
          /\ y.minerals = r.minerals + (IF r.addon = "begun" THEN Refund(AddonPrice) ELSE 0)
          /\ y.addon = IF r.addon = "begun" THEN "none" ELSE r.addon
      BY <2>4, CarryCancelAddon DEF y
    <3> QED  BY <1>6, <2>4, <3>1, <3>2
  <2>5. ASSUME c.type = "Research" PROVE Now
    <3>1. /\ x.queue = t.queue /\ x.addon = t.addon /\ x.full = t.full
          /\ t.tech => x = t
          /\ ~t.tech /\ t.minerals >= TechPrice =>
               x.minerals = t.minerals - TechPrice /\ x.tech /\ x.short = t.short
      BY <2>5, CarryResearch DEF x
    <3>2. /\ y.queue = r.queue /\ y.addon = r.addon /\ y.full = r.full
          /\ r.tech => y = r
          /\ ~r.tech /\ r.minerals >= TechPrice =>
               y.minerals = r.minerals - TechPrice /\ y.tech /\ y.short = r.short
          /\ ~r.tech /\ r.minerals < TechPrice => y.short
      BY <2>5, CarryResearch DEF y
    <3>3. CASE r.tech
      BY <1>6, <3>1, <3>2, <3>3
    <3>4. CASE ~r.tech
      <4>1. ~y.full /\ ~y.short /\ r.minerals >= TechPrice
        BY <1>3, <1>4, <1>6, <3>2, <3>4
      <4>2. y.minerals = r.minerals - TechPrice /\ y.tech
        BY <3>2, <3>4, <4>1
      <4>3. t.minerals >= TechPrice
        BY <1>3, <1>4, <1>6, <3>1, <3>2, <4>1, <4>2
      <4>4. x.minerals = t.minerals - TechPrice /\ x.tech /\ ~x.short /\ ~x.full
        BY <1>6, <3>1, <3>4, <4>3
      <4> QED  BY <1>4, <1>6, <3>1, <3>2, <4>1, <4>2, <4>4
    <3> QED  BY <3>3, <3>4
  <2>6. ASSUME c.type = "Cancel_Research" PROVE Now
    <3>1. /\ x.queue = t.queue /\ x.addon = t.addon /\ x.short = t.short /\ x.full = t.full
          /\ x.minerals = t.minerals + (IF t.tech THEN TechPrice ELSE 0) /\ ~x.tech
      BY <2>6, CarryCancelResearch DEF x
    <3>2. /\ y.queue = r.queue /\ y.addon = r.addon /\ y.short = r.short /\ y.full = r.full
          /\ y.minerals = r.minerals + (IF r.tech THEN TechPrice ELSE 0) /\ ~y.tech
      BY <2>6, CarryCancelResearch DEF y
    <3> QED  BY <1>4, <1>6, <3>1, <3>2
  <2> QED  BY <2>1, <2>2, <2>3, <2>4, <2>5, <2>6, CommandKinds
<1>7. Now => Alike(x, y, placed)
  BY DEF Alike
<1> QED  BY <1>5, <1>6, <1>7 DEF Alike

\* The match a frame later, when u commands were due, and what is still on its
\* way then.
Following(g, s, u) == [Trace(g, s, u) EXCEPT !.seen = g.queue]
Remaining(s, u) == [i \in 1 .. Len(s) - u |-> [s[u + i] EXCEPT !.in = @ - 1]]

\* An addon ordered with a command that has been carried out is in its place.
LEMMA StillPlaced ==
  ASSUME LatencyAssumption, NEW g \in Game, NEW s \in Seq(Sent), OneAddon(g, s)
  PROVE  \A h \in 0 .. Len(s) :
           GivenUpTo(s, h, "Build_Addon") => Trace(g, s, h).addon = "placed"
<1> DEFINE P(h) == GivenUpTo(s, h, "Build_Addon") => Trace(g, s, h).addon = "placed"
           T == {h \in 0 .. Len(s) : P(h)}
<1>0. Len(s) \in Nat /\ DOMAIN s = 1 .. Len(s)
  BY SentIs
<1>1. 0 \in T
  BY <1>0 DEF GivenUpTo
<1>2. ASSUME NEW h \in 0 .. Len(s) - 1, h \in T PROVE h + 1 \in T
  <2> DEFINE t == Trace(g, s, h)
             u == Trace(g, s, h + 1)
             c == s[h + 1].cmd
  <2>1. c \in SoundCommands /\ t \in Game /\ h + 1 \in 0 .. Len(s) /\ h \in 0 .. Len(s) /\ h \in Nat
    BY <1>0, TraceGame, SentIs
  <2>2. u = Carry(t, c)
    BY TraceStep
  <2>3. ASSUME GivenUpTo(s, h + 1, "Build_Addon") PROVE u.addon = "placed"
    <3>1. PICK i \in 1 .. h + 1 : s[i].cmd.type = "Build_Addon"
      BY <2>3 DEF GivenUpTo
    <3>2. /\ i \in DOMAIN s /\ h + 1 \in DOMAIN s /\ g.addon = "none"
          /\ \A j \in DOMAIN s : s[j].cmd.type = "Build_Addon" => j = i
          /\ \A j \in DOMAIN s : s[j].cmd.type = "Cancel_Addon" => j < i
      <4>1. i \in DOMAIN s /\ h + 1 \in DOMAIN s
        BY <1>0, <2>1
      <4> QED  BY <3>1, <4>1 DEF OneAddon
    <3>3. CASE i = h + 1
      <4>1. c.type = "Build_Addon"
        BY <3>1, <3>3
      <4>2. ~GivenUpTo(s, h, "Build_Addon")
        <5>1. ASSUME NEW j \in 1 .. h, s[j].cmd.type = "Build_Addon" PROVE FALSE
          <6>1. j \in DOMAIN s /\ j # i
            BY <1>0, <2>1, <3>3
          <6> QED  BY <3>2, <5>1, <6>1
        <5> QED  BY <5>1 DEF GivenUpTo
      <4>3. t.addon = "none"
        BY <2>1, <3>2, <4>2, TraceFacts
      <4> HIDE DEF t, u, c
      <4> QED  BY <2>1, <2>2, <4>1, <4>3, CarryBuildAddon
    <3>4. CASE i # h + 1
      <4>1. t.addon = "placed"
        <5>1. i \in 1 .. h
          BY <2>1, <3>4
        <5> QED  BY <1>2, <3>1, <5>1 DEF GivenUpTo
      <4>2. c.type \notin {"Build_Addon", "Cancel_Addon"}
        <5>1. ~(h + 1 < i)
          BY <2>1
        <5> QED  BY <3>2, <3>4, <5>1
      <4> HIDE DEF t, u, c
      <4>3. CASE c.type = "Train"
        BY <2>1, <2>2, <4>1, <4>3, CarryTrain
      <4>4. CASE c.type = "Cancel_Train"
        BY <2>1, <2>2, <4>1, <4>4, CarryCancelTrain
      <4>5. CASE c.type = "Research"
        BY <2>1, <2>2, <4>1, <4>5, CarryResearch
      <4>6. CASE c.type = "Cancel_Research"
        BY <2>1, <2>2, <4>1, <4>6, CarryCancelResearch
      <4> QED  BY <2>1, <4>2, <4>3, <4>4, <4>5, <4>6, CommandKinds
    <3> QED  BY <3>3, <3>4
  <2> QED  BY <2>1, <2>3
<1>3. \A h \in 0 .. Len(s) : h \in T
  <2> HIDE DEF T
  <2> QED  BY <1>0, <1>1, <1>2, UpTo
<1> QED  BY <1>3

\* What remains is due a frame earlier.
LEMMA RemainingIs ==
  ASSUME NEW s \in Seq(Sent), NEW u, Reaches(s, 1, u), Latency \in Nat
  PROVE  /\ u \in 0 .. Len(s) /\ Remaining(s, u) \in Seq(Sent)
         /\ Len(Remaining(s, u)) = Len(s) - u /\ DOMAIN Remaining(s, u) = 1 .. Len(s) - u
         /\ \A i \in 1 .. Len(s) - u :
              /\ u + i \in DOMAIN s /\ s[u + i].in \in 2 .. Latency
              /\ Remaining(s, u)[i].cmd = s[u + i].cmd
              /\ Remaining(s, u)[i].in = s[u + i].in - 1
<1>1. Len(s) \in Nat /\ DOMAIN s = 1 .. Len(s) /\ u \in 0 .. Len(s)
  BY SentIs DEF Reaches
<1>2. ASSUME NEW i \in 1 .. Len(s) - u
      PROVE  /\ u + i \in DOMAIN s /\ s[u + i] \in Sent /\ s[u + i].in \in 2 .. Latency
             /\ [s[u + i] EXCEPT !.in = @ - 1] \in Sent
             /\ [s[u + i] EXCEPT !.in = @ - 1].cmd = s[u + i].cmd
             /\ [s[u + i] EXCEPT !.in = @ - 1].in = s[u + i].in - 1
  <2>1. u + i \in DOMAIN s /\ ~(u + i <= u)
    BY <1>1
  <2>2. s[u + i] \in Sent /\ s[u + i].in \in 1 .. Latency
    BY <2>1, SentIs
  <2>3. ~(s[u + i].in <= 1)
    BY <2>1 DEF Reaches
  <2>4. s[u + i].in \in 2 .. Latency /\ s[u + i].in - 1 \in 1 .. Latency
    BY <2>2, <2>3
  <2> QED  BY <2>1, <2>2, <2>4 DEF Sent
<1> DEFINE r == Remaining(s, u)
<1>3. Len(s) - u \in Nat
  BY <1>1
<1>4. r = [i \in 1 .. Len(s) - u |-> [s[u + i] EXCEPT !.in = @ - 1]]
  BY DEF Remaining
<1> HIDE DEF r
<1>5. r \in Seq(Sent) /\ Len(r) = Len(s) - u /\ DOMAIN r = 1 .. Len(s) - u
  <2>1. r \in [1 .. Len(s) - u -> Sent]
    BY <1>2, <1>4
  <2> QED  BY <1>3, <2>1, IsASeq DEF r
<1> QED  BY <1>1, <1>2, <1>4, <1>5 DEF r

\* The match a frame later.
LEMMA FollowingIs ==
  ASSUME LatencyAssumption, NEW g \in Game, NEW s \in Seq(Sent), NEW u \in 0 .. Len(s)
  PROVE  LET n == Following(g, s, u)  r == Trace(g, s, u) IN
         /\ n \in Game /\ r \in Game /\ n.seen = g.queue /\ n.minerals = r.minerals
         /\ n.queue = r.queue /\ n.addon = r.addon /\ n.tech = r.tech
         /\ n.short = r.short /\ n.full = r.full
<1>1. Trace(g, s, u) \in Game
  BY TraceGame
<1> QED  BY <1>1 DEF Following, Game

\* The outcome of the commands that remain is the one they had.
LEMMA NextAlike ==
  ASSUME LatencyAssumption, NEW g, NEW s, Prospects(g, s), NEW u, Reaches(s, 1, u)
  PROVE  LET n == Following(g, s, u)  r == Remaining(s, u) IN
         \A i \in 0 .. Len(r) :
           Alike(Trace(n, r, i), Trace(g, s, u + i), n.addon = "placed")
<1> DEFINE n == Following(g, s, u)
           r == Remaining(s, u)
           placed == n.addon = "placed"
           T == {i \in 0 .. Len(r) : Alike(Trace(n, r, i), Trace(g, s, u + i), placed)}
<1>1. /\ g \in Game /\ s \in Seq(Sent) /\ Len(s) \in Nat /\ DOMAIN s = 1 .. Len(s)
      /\ u \in 0 .. Len(s) /\ Latency \in Nat
  BY SentIs DEF Prospects, Reaches, LatencyAssumption
<1>2. /\ r \in Seq(Sent) /\ Len(r) = Len(s) - u /\ Len(r) \in Nat
      /\ \A i \in 1 .. Len(r) : u + i \in DOMAIN s /\ r[i].cmd = s[u + i].cmd
  <2>1. /\ r \in Seq(Sent) /\ Len(r) = Len(s) - u
        /\ \A i \in 1 .. Len(s) - u : u + i \in DOMAIN s /\ r[i].cmd = s[u + i].cmd
    <3>1. s \in Seq(Sent) /\ Latency \in Nat
      BY <1>1
    <3>2. r \in Seq(Sent) /\ Len(r) = Len(s) - u
      BY <3>1, RemainingIs
    <3>3. \A i \in 1 .. Len(s) - u : u + i \in DOMAIN s /\ r[i].cmd = s[u + i].cmd
      BY <3>1, RemainingIs
    <3> QED  BY <3>2, <3>3
  <2> HIDE DEF r
  <2> QED  BY <1>1, <2>1
<1>3. /\ n \in Game /\ Trace(g, s, u) \in Game
      /\ n.minerals = Trace(g, s, u).minerals
      /\ n.queue = Trace(g, s, u).queue /\ n.addon = Trace(g, s, u).addon
      /\ n.tech = Trace(g, s, u).tech
      /\ n.short = Trace(g, s, u).short /\ n.full = Trace(g, s, u).full
  BY <1>1, FollowingIs
<1> HIDE DEF n, r
<1>4. 0 \in T
  <2> DEFINE x == Trace(g, s, u)
             b == BeginAddon(n)
  <2>1. Trace(n, r, 0) = b
    BY <1>2, TraceStep
  <2>2. u + 0 = u
    BY <1>1
  <2>3. After(g, s, u).full = x.full /\ (~x.full => ~After(g, s, u).short)
    BY <1>1, TraceGame DEF Prospects, AllPaid
  <2>4. ~x.full => /\ ~x.short
                   /\ x.addon = "placed" => x.minerals >= AddonPrice
    BY <1>3, <2>3, PaidAlike DEF After
  <2>5. /\ b \in Game /\ b.queue = n.queue /\ b.tech = n.tech /\ b.full = n.full
        /\ n.addon # "placed" => b = n
        /\ n.addon = "placed" =>
             \/ /\ n.minerals >= AddonPrice /\ b.minerals = n.minerals - AddonPrice
                /\ b.addon = "begun" /\ b.short = n.short
             \/ n.minerals < AddonPrice /\ b.short
    BY <1>3, BeginAddonFacts
  <2> HIDE DEF x, b
  <2>6. n.minerals \in Int /\ AddonPrice \in Nat /\ n.full \in BOOLEAN
    BY <1>3 DEF Game, LatencyAssumption
  <2>7. Alike(b, x, placed)
    <3>1. CASE x.full
      BY <1>3, <2>5, <3>1 DEF Alike, x
    <3>2. CASE ~x.full
      <4>1. /\ n.minerals = x.minerals /\ n.queue = x.queue /\ n.addon = x.addon
            /\ n.tech = x.tech /\ n.short = x.short /\ n.full = x.full
        BY <1>3 DEF x
      <4>2. CASE placed
        <5>1. n.minerals >= AddonPrice /\ ~(n.minerals < AddonPrice)
          BY <2>4, <2>6, <3>2, <4>1, <4>2
        <5> QED  BY <2>4, <2>5, <3>2, <4>1, <4>2, <5>1 DEF Alike
      <4>3. CASE ~placed
        BY <2>4, <2>5, <3>2, <4>1, <4>3 DEF Alike
      <4> QED  BY <4>2, <4>3
    <3> QED  BY <3>1, <3>2
  <2>8. Alike(Trace(n, r, 0), Trace(g, s, u + 0), placed)
    BY <2>1, <2>2, <2>7 DEF x
  <2> QED  BY <1>2, <2>8
<1>5. ASSUME NEW i \in 0 .. Len(r) - 1, i \in T PROVE i + 1 \in T
  <2> DEFINE x == Trace(n, r, i)
             y == Trace(g, s, u + i)
             c == s[u + i + 1].cmd
  <2>1. /\ i \in 0 .. Len(r) /\ i + 1 \in 1 .. Len(r) /\ i + 1 \in 0 .. Len(r)
        /\ u + i \in 0 .. Len(s) - 1 /\ u + i \in 0 .. Len(s) /\ u + i + 1 \in 0 .. Len(s)
        /\ u + (i + 1) = u + i + 1 /\ (u + i) + 1 = u + i + 1 /\ u + i + 1 \in DOMAIN s
    <3>1. u \in Nat /\ i \in Nat /\ i + 1 <= Len(r) /\ Len(r) = Len(s) - u
      BY <1>1, <1>2
    <3>2. u + i \in Nat /\ u + i + 1 <= Len(s)
      BY <1>1, <3>1
    <3> QED  BY <1>1, <3>1, <3>2
  <2>2. x \in Game /\ y \in Game /\ c \in SoundCommands
    BY <1>1, <1>2, <1>3, <2>1, TraceGame, SentIs
  <2>3. Trace(n, r, i + 1) = Carry(x, c)
    <3>1. Trace(n, r, i + 1) = Carry(x, r[i + 1].cmd)
      BY <1>2, TraceStep
    <3>2. r[i + 1].cmd = c
      BY <1>2, <2>1
    <3> QED  BY <3>1, <3>2
  <2>4. Trace(g, s, u + i + 1) = Carry(y, c)
    <3>1. Trace(g, s, (u + i) + 1) = Carry(y, s[(u + i) + 1].cmd)
      BY <1>1, <2>1, TraceStep
    <3> QED  BY <2>1, <3>1
  <2>5. BeginAddon(Carry(y, c)).short => BeginAddon(Carry(y, c)).full
    <3>1. After(g, s, u + i + 1).short => After(g, s, u + i + 1).full
      BY <2>1 DEF Prospects, AllPaid
    <3> QED  BY <2>4, <3>1 DEF After
  <2>6. placed => c.type \notin {"Build_Addon", "Cancel_Addon"}
    <3> SUFFICES ASSUME placed PROVE c.type \notin {"Build_Addon", "Cancel_Addon"}
      OBVIOUS
    <3>1. GivenUpTo(s, u, "Build_Addon")
      BY <1>1, <1>3, TraceFacts
    <3>2. PICK j \in 1 .. u : s[j].cmd.type = "Build_Addon"
      BY <3>1 DEF GivenUpTo
    <3>3. j \in DOMAIN s /\ u + i + 1 # j /\ ~(u + i + 1 < j)
      <4>1. u \in Nat /\ i \in Nat /\ j \in Nat /\ j <= u
        BY <1>1, <1>2
      <4> QED  BY <1>1, <4>1
    <3> QED  BY <2>1, <3>2, <3>3 DEF Prospects, OneAddon
  <2>7. Alike(x, y, placed)
    BY <1>5
  <2> HIDE DEF x, y, c, placed
  <2>8. Alike(Carry(x, c), Carry(y, c), placed)
    <3>1. placed \in BOOLEAN
      BY DEF placed
    <3> QED  BY <2>2, <2>5, <2>6, <2>7, <3>1, AlikeStep
  <2> QED  BY <2>1, <2>3, <2>4, <2>8
<1>6. \A i \in 0 .. Len(r) : i \in T
  <2> HIDE DEF T
  <2> QED  BY <1>2, <1>4, <1>5, UpTo
<1> QED  BY <1>6 DEF n, r

\* The same, of what is looked at.
LEMMA NextAfter ==
  ASSUME LatencyAssumption, NEW t \in Game, NEW y \in Game, NEW placed \in BOOLEAN,
         Alike(t, y, placed), BeginAddon(y).short => BeginAddon(y).full
  PROVE  /\ BeginAddon(t).full = BeginAddon(y).full
         /\ BeginAddon(t).short => BeginAddon(t).full
         /\ ~BeginAddon(t).full =>
              /\ t.queue = y.queue /\ t.tech = y.tech /\ ~BeginAddon(t).short
              /\ BeginAddon(t).minerals = BeginAddon(y).minerals
<1>1. /\ BeginAddon(t).full = t.full /\ BeginAddon(y).full = y.full
      /\ t.addon # "placed" => BeginAddon(t) = t
      /\ t.addon = "placed" =>
           \/ /\ t.minerals >= AddonPrice /\ BeginAddon(t).minerals = t.minerals - AddonPrice
              /\ BeginAddon(t).short = t.short
           \/ t.minerals < AddonPrice
      /\ y.addon # "placed" => BeginAddon(y) = y
      /\ y.addon = "placed" =>
           \/ y.minerals >= AddonPrice /\ BeginAddon(y).minerals = y.minerals - AddonPrice
           \/ y.minerals < AddonPrice /\ BeginAddon(y).short
  BY BeginAddonFacts
<1>2. /\ t.minerals \in Int /\ y.minerals \in Int /\ AddonPrice \in Nat
      /\ t.full \in BOOLEAN /\ y.full \in BOOLEAN
  BY DEF Game, LatencyAssumption
<1>3. CASE t.full /\ y.full
  BY <1>1, <1>2, <1>3
<1>4. CASE ~(t.full /\ y.full)
  <2>1. /\ ~t.full /\ ~y.full /\ ~t.short /\ ~y.short /\ t.queue = y.queue /\ t.tech = y.tech
        /\ IF placed
           THEN t.addon = "begun" /\ y.addon = "placed" /\ t.minerals = y.minerals - AddonPrice
           ELSE t.addon = y.addon /\ t.minerals = y.minerals
    BY <1>4 DEF Alike
  <2>2. ~BeginAddon(y).short
    BY <1>1, <2>1
  <2> QED  BY <1>1, <1>2, <2>1, <2>2
<1> QED  BY <1>3, <1>4

\* A frame later the same lies ahead.
LEMMA NextProspects ==
  ASSUME LatencyAssumption, NEW g, NEW s, Prospects(g, s), NEW u, Reaches(s, 1, u)
  PROVE  Prospects(Following(g, s, u), Remaining(s, u))
<1> DEFINE n == Following(g, s, u)
           r == Remaining(s, u)
           placed == n.addon = "placed"
<1>1. /\ g \in Game /\ s \in Seq(Sent) /\ Len(s) \in Nat /\ DOMAIN s = 1 .. Len(s)
      /\ u \in 0 .. Len(s) /\ Latency \in Nat
  BY SentIs DEF Prospects, Reaches, LatencyAssumption
<1>2. /\ r \in Seq(Sent) /\ Len(r) = Len(s) - u /\ DOMAIN r = 1 .. Len(s) - u
      /\ \A i \in 1 .. Len(s) - u : u + i \in DOMAIN s /\ r[i].cmd = s[u + i].cmd
  <2>1. s \in Seq(Sent) /\ Latency \in Nat
    BY <1>1
  <2>2. r \in Seq(Sent) /\ Len(r) = Len(s) - u /\ DOMAIN r = 1 .. Len(s) - u
    BY <2>1, RemainingIs
  <2>3. \A i \in 1 .. Len(s) - u : u + i \in DOMAIN s /\ r[i].cmd = s[u + i].cmd
    BY <2>1, RemainingIs
  <2> QED  BY <2>2, <2>3
<1>3. /\ n \in Game /\ n.addon = Trace(g, s, u).addon /\ n.tech = Trace(g, s, u).tech
  BY <1>1, FollowingIs
<1>4. \A i \in 0 .. Len(r) : Alike(Trace(n, r, i), Trace(g, s, u + i), placed)
  BY NextAlike
<1> HIDE DEF n, r
<1>5. \A i \in DOMAIN r : u + i \in DOMAIN s /\ r[i].cmd = s[u + i].cmd /\ i \in Nat /\ i >= 1
  BY <1>2
<1>6. \A i \in 0 .. Len(r) : u + i \in 0 .. Len(s) /\ u \in Nat /\ i \in Nat
  BY <1>1, <1>2
<1>7. OneAddon(n, r)
  <2>1. ASSUME NEW i \in DOMAIN r, r[i].cmd.type = "Build_Addon"
        PROVE  /\ n.addon = "none"
               /\ \A j \in DOMAIN r : r[j].cmd.type = "Build_Addon" => j = i
               /\ \A j \in DOMAIN r : r[j].cmd.type = "Cancel_Addon" => j < i
    <3>1. /\ g.addon = "none"
          /\ \A j \in DOMAIN s : s[j].cmd.type = "Build_Addon" => j = u + i
          /\ \A j \in DOMAIN s : s[j].cmd.type = "Cancel_Addon" => j < u + i
      BY <1>5, <2>1 DEF Prospects, OneAddon
    <3>2. ~GivenUpTo(s, u, "Build_Addon")
      <4>1. ASSUME NEW j \in 1 .. u, s[j].cmd.type = "Build_Addon" PROVE FALSE
        <5>1. j \in DOMAIN s /\ j # u + i
          BY <1>1, <1>5
        <5> QED  BY <3>1, <4>1, <5>1
      <4> QED  BY <4>1 DEF GivenUpTo
    <3>3. n.addon = "none"
      BY <1>1, <1>3, <3>1, <3>2, TraceFacts
    <3>4. ASSUME NEW j \in DOMAIN r
          PROVE  /\ r[j].cmd.type = "Build_Addon" => j = i
                 /\ r[j].cmd.type = "Cancel_Addon" => j < i
      <4>1. /\ s[u + j].cmd.type = "Build_Addon" => u + j = u + i
            /\ s[u + j].cmd.type = "Cancel_Addon" => u + j < u + i
        BY <1>5, <3>1
      <4>2. u \in Nat /\ i \in Nat /\ j \in Nat /\ r[j].cmd = s[u + j].cmd
        BY <1>1, <1>5
      <4>3. (u + j = u + i => j = i) /\ (u + j < u + i => j < i)
        BY <4>2
      <4> QED  BY <4>1, <4>2, <4>3
    <3> QED  BY <3>3, <3>4
  <2>2. ASSUME n.addon = "placed", NEW i \in DOMAIN r PROVE r[i].cmd.type # "Cancel_Addon"
    <3>1. GivenUpTo(s, u, "Build_Addon")
      BY <1>1, <1>3, <2>2, TraceFacts
    <3>2. PICK j \in 1 .. u : s[j].cmd.type = "Build_Addon"
      BY <3>1 DEF GivenUpTo
    <3>3. j \in DOMAIN s /\ ~(u + i < j)
      BY <1>1, <1>5
    <3> QED  BY <1>5, <3>2, <3>3 DEF Prospects, OneAddon
  <2> QED  BY <2>1, <2>2 DEF OneAddon
<1>8. OneResearch(n, r)
  <2>1. ASSUME NEW i \in DOMAIN r, r[i].cmd.type = "Research"
        PROVE  ~n.tech /\ \A j \in DOMAIN r : r[j].cmd.type = "Research" => j = i
    <3>1. ~g.tech /\ \A j \in DOMAIN s : s[j].cmd.type = "Research" => j = u + i
      BY <1>5, <2>1 DEF Prospects, OneResearch
    <3>2. ~GivenUpTo(s, u, "Research")
      <4>1. ASSUME NEW j \in 1 .. u, s[j].cmd.type = "Research" PROVE FALSE
        <5>1. j \in DOMAIN s /\ j # u + i
          BY <1>1, <1>5
        <5> QED  BY <3>1, <4>1, <5>1
      <4> QED  BY <4>1 DEF GivenUpTo
    <3>3. ~n.tech
      BY <1>1, <1>3, <3>1, <3>2, TraceFacts
    <3>4. ASSUME NEW j \in DOMAIN r, r[j].cmd.type = "Research" PROVE j = i
      <4>1. u + j = u + i
        BY <1>5, <3>1, <3>4
      <4> QED  BY <1>1, <1>5, <4>1
    <3> QED  BY <3>3, <3>4
  <2> QED  BY <2>1 DEF OneResearch
<1>9. ASSUME NEW i \in 0 .. Len(r)
      PROVE  /\ After(n, r, i).full = After(g, s, u + i).full
             /\ After(n, r, i).short => After(n, r, i).full
             /\ ~After(n, r, i).full => Trace(n, r, i).queue = Trace(g, s, u + i).queue
  <2> DEFINE x == Trace(n, r, i)
             y == Trace(g, s, u + i)
  <2>1. x \in Game /\ y \in Game
    BY <1>1, <1>2, <1>3, <1>6, TraceGame
  <2>2. BeginAddon(y).short => BeginAddon(y).full
    BY <1>6 DEF Prospects, AllPaid, After
  <2>3. Alike(x, y, placed) /\ placed \in BOOLEAN
    BY <1>4
  <2> HIDE DEF x, y, placed
  <2>4. /\ BeginAddon(x).full = BeginAddon(y).full
        /\ BeginAddon(x).short => BeginAddon(x).full
        /\ ~BeginAddon(x).full => x.queue = y.queue
    BY <2>1, <2>2, <2>3, NextAfter
  <2> QED  BY <2>4 DEF x, y, After
<1>10. AllPaid(n, r)
  BY <1>9 DEF AllPaid
<1>11. CancelsFind(n, r)
  <2>1. ASSUME NEW h \in DOMAIN r, r[h].cmd.type = "Cancel_Train", ~After(n, r, h).full
        PROVE  PlaceOf(Trace(n, r, h - 1), r[h].cmd) \in DOMAIN Trace(n, r, h - 1).queue
    <3>1. h \in 0 .. Len(r) /\ h - 1 \in 0 .. Len(r) /\ h - 1 \in 0 .. Len(r) - 1 /\ (h - 1) + 1 = h
      BY <1>1, <1>2
    <3>2. u + h \in DOMAIN s /\ r[h].cmd = s[u + h].cmd /\ (u + h) - 1 = u + (h - 1)
      BY <1>1, <1>5
    <3>3. ~After(g, s, u + h).full
      BY <1>9, <2>1, <3>1
    <3>4. PlaceOf(Trace(g, s, u + (h - 1)), s[u + h].cmd) \in DOMAIN Trace(g, s, u + (h - 1)).queue
      <4>1. PlaceOf(Trace(g, s, (u + h) - 1), s[u + h].cmd) \in DOMAIN Trace(g, s, (u + h) - 1).queue
        BY <2>1, <3>2, <3>3 DEF Prospects, CancelsFind
      <4> QED  BY <3>2, <4>1
    <3>5. ~After(n, r, h - 1).full
      <4>1. h - 1 # Len(r)
        BY <1>1, <1>2, <3>1
      <4>2. After(n, r, h - 1).full => After(n, r, (h - 1) + 1).full
        BY <1>2, <1>3, <3>1, <4>1, TraceGame
      <4> QED  BY <2>1, <3>1, <4>2
    <3>6. Trace(n, r, h - 1).queue = Trace(g, s, u + (h - 1)).queue
      BY <1>9, <3>1, <3>5
    <3> QED  BY <3>2, <3>4, <3>6 DEF PlaceOf
  <2> QED  BY <2>1 DEF CancelsFind
<1>12. Prospects(n, r)
  BY <1>2, <1>3, <1>7, <1>8, <1>10, <1>11 DEF Prospects
<1> QED  BY <1>12 DEF n, r

\* What a reserve does to the queue.
LEMMA ReserveQueue ==
  ASSUME NEW x, DOMAIN x = DataFields, NEW c \in SoundCommands
  PROVE  LET f == ExecuteTemp(x, Event(c, "Resource"), TRUE) IN
         IF c.type = "Train" THEN f.queue = Append(x.queue, c.what) /\ f.training
         ELSE f.queue = x.queue /\ f.training = x.training
<1> DEFINE e == Event(c, "Resource")
           f == ExecuteTemp(x, e, TRUE)
<1>1. e.cmd = c /\ e.type = "Resource"
  BY DEF Event
<1> HIDE DEF e
<1>2. ASSUME c.type = "Train" PROVE f.queue = Append(x.queue, c.what) /\ f.training
  <2>1. e.cmd \in SoundCommands /\ (e.type = "Resource" \/ IsOrder(e)) /\ e.cmd.type = "Train"
    BY <1>1, <1>2
  <2> HIDE DEF f
  <2>2. f = ExecuteTemp(x, e, TRUE)
    BY DEF f
  <2>3. f.queue = Append(x.queue, e.cmd.what)
    BY <1>1, <2>1, <2>2, ExecuteNow
  <2>4. f.training
    BY <1>1, <2>1, <2>2, ExecuteNow, ZenonT(60)
  <2> QED  BY <1>1, <2>3, <2>4
<1>3. ASSUME c.type # "Train" PROVE f.queue = x.queue /\ f.training = x.training
  BY <1>1, <1>3, ExecuteNow
<1> QED  BY <1>2, <1>3 DEF e

\* One reserve: of a command that is due.
LEMMA ReserveResource ==
  ASSUME LatencyAssumption, NEW g, NEW s, Prospects(g, s), NEW h \in 0 .. Len(s) - 1,
         NEW x, DOMAIN x = DataFields, s[h + 1].cmd.type # "Cancel_Train",
         ~Trace(g, s, h).full =>
           x.queue = Trace(g, s, h).queue /\ (x.training => x.queue # <<>>),
         ~Trace(g, s, h + 1).full
  PROVE  LET f == ExecuteTemp(x, Event(s[h + 1].cmd, "Resource"), TRUE) IN
         f.queue = Trace(g, s, h + 1).queue /\ (f.training => f.queue # <<>>)
<1> DEFINE c == s[h + 1].cmd
           f == ExecuteTemp(x, Event(c, "Resource"), TRUE)
           t == Trace(g, s, h)
           u == Trace(g, s, h + 1)
<1>1. /\ g \in Game /\ s \in Seq(Sent) /\ h \in 0 .. Len(s) /\ h + 1 \in 0 .. Len(s)
      /\ h + 1 \in DOMAIN s /\ c \in SoundCommands /\ h # Len(s)
  BY SentIs DEF Prospects
<1>2. /\ t \in Game /\ u \in Game /\ u = Carry(t, c) /\ (t.full => u.full)
      /\ After(g, s, h + 1) \in Game /\ After(g, s, h + 1).full = u.full
  <2>1. /\ t \in Game /\ u \in Game
        /\ After(g, s, h + 1) \in Game /\ After(g, s, h + 1).full = u.full
    BY <1>1, TraceGame
  <2>2. u = Carry(t, c)
    BY <1>1, TraceStep
  <2> QED  BY <1>1, <2>1, <2>2, CarryKeeps
<1>3. ~u.short
  <2>1. ~After(g, s, h + 1).short
    BY <1>1, <1>2 DEF Prospects, AllPaid
  <2> QED  BY <1>2, <2>1, BeginAddonFacts DEF After
<1>4. ~u.full /\ ~t.full /\ x.queue = t.queue /\ (x.training => x.queue # <<>>)
  BY <1>2
<1>5. /\ IF c.type = "Train"
         THEN f.queue = Append(x.queue, c.what) /\ f.training
         ELSE f.queue = x.queue /\ f.training = x.training
  <2>1. c \in SoundCommands
    BY <1>1
  <2> HIDE DEF c, t, u
  <2> QED  BY <2>1, ReserveQueue
<1> DEFINE Shows == f.queue = u.queue /\ (f.training => f.queue # <<>>)
<1> HIDE DEF t, u, c, f
<1>6. ASSUME c.type = "Train" PROVE Shows
  <2>1. u.queue = Append(t.queue, c.what) /\ c.what \in TrainKinds
    BY <1>1, <1>2, <1>3, <1>4, <1>6, CarryTrain
  <2>2. t.queue \in Seq(TrainKinds)
    BY <1>2 DEF Game
  <2>3. Append(t.queue, c.what) # <<>>
    BY <2>1, <2>2, AppendProperties
  <2> QED  BY <1>4, <1>5, <1>6, <2>1, <2>3
<1>7. ASSUME c.type # "Train" PROVE Shows
  <2>1. u.queue = t.queue
    <3>1. CASE c.type = "Build_Addon"
      BY <1>2, <3>1, CarryBuildAddon
    <3>2. CASE c.type = "Cancel_Addon"
      BY <1>2, <3>2, CarryCancelAddon
    <3>3. CASE c.type = "Research"
      BY <1>2, <3>3, CarryResearch
    <3>4. CASE c.type = "Cancel_Research"
      BY <1>2, <3>4, CarryCancelResearch
    <3>5. c.type # "Cancel_Train"
      BY DEF c
    <3> QED  BY <1>1, <1>7, <3>1, <3>2, <3>3, <3>4, <3>5, CommandKinds
  <2> QED  BY <1>4, <1>5, <1>7, <2>1
<1> QED  BY <1>6, <1>7 DEF u, c, f

\* The events that were due with the frame are reserved.
LEMMA ReserveForeseen ==
  ASSUME LatencyAssumption, NEW g, NEW s, Prospects(g, s),
         NEW slot \in Seq(Events), NEW u \in 0 .. Len(s), NEW m \in 0 .. Len(slot),
         Holds(s, slot, 0, u, m),
         NEW d, DOMAIN d = DataFields, d.queue = g.queue, d.training => d.queue # <<>>
  PROVE  LET x == Effects(d, slot, TRUE) IN
         /\ DOMAIN x = DataFields
         /\ d.placing => x.placing
         /\ x.addon = d.addon /\ x.tech = d.tech /\ x.isResearching = d.isResearching
         /\ x.minerals = IF GivenUpTo(s, u, "Build_Addon") THEN d.minerals - AddonPrice ELSE d.minerals
         /\ (\A i \in 1 .. u : s[i].cmd.type # "Cancel_Train") /\ ~Trace(g, s, u).full =>
              x.queue = Trace(g, s, u).queue /\ (x.training => x.queue # <<>>)
<1> DEFINE x(n) == Effects(d, SubSeq(slot, 1, n), TRUE)
           at(n) == IF n <= m THEN 0 ELSE n - m
           P(n) == /\ DOMAIN x(n) = DataFields
                   /\ d.placing => x(n).placing
                   /\ x(n).addon = d.addon /\ x(n).tech = d.tech
                   /\ x(n).isResearching = d.isResearching
                   /\ x(n).minerals = IF GivenUpTo(s, at(n), "Build_Addon")
                                      THEN d.minerals - AddonPrice ELSE d.minerals
                   /\ (\A i \in 1 .. at(n) : s[i].cmd.type # "Cancel_Train") /\ ~Trace(g, s, at(n)).full =>
                        /\ x(n).queue = Trace(g, s, at(n)).queue
                        /\ x(n).training => x(n).queue # <<>>
           T == {n \in 0 .. Len(slot) : P(n)}
<1>1. /\ g \in Game /\ s \in Seq(Sent) /\ Len(s) \in Nat /\ DOMAIN s = 1 .. Len(s) /\ Len(slot) \in Nat
      /\ Len(slot) = m + u - 0 /\ m \in Nat /\ DOMAIN slot = 1 .. Len(slot) /\ u \in Nat /\ u <= Len(s)
  BY SentIs DEF Prospects, Holds
<1>2. /\ x(0) = d /\ x(Len(slot)) = Effects(d, slot, TRUE)
      /\ \A n \in 0 .. Len(slot) - 1 : x(n + 1) = ExecuteTemp(x(n), slot[n + 1], TRUE)
  <2>1. /\ Effects(d, SubSeq(slot, 1, 0), TRUE) = d
        /\ Effects(d, SubSeq(slot, 1, Len(slot)), TRUE) = Effects(d, slot, TRUE)
    <3>1. slot \in Seq(Events) /\ TRUE \in BOOLEAN
      OBVIOUS
    <3>2. Effects(d, SubSeq(slot, 1, 0), TRUE) = d
      BY <3>1, ApplyStep, ZenonT(30)
    <3>3. SubSeq(slot, 1, Len(slot)) = slot
      BY <3>1
    <3> QED  BY <3>2, <3>3
  <2>2. \A n \in 0 .. Len(slot) - 1 :
          Effects(d, SubSeq(slot, 1, n + 1), TRUE)
            = ExecuteTemp(Effects(d, SubSeq(slot, 1, n), TRUE), slot[n + 1], TRUE)
    BY ApplyStep, ZenonT(30)
  <2> QED  BY <2>1, <2>2
<1> HIDE DEF x
<1>3. 0 \in T
  <2>1. at(0) = 0 /\ ~GivenUpTo(s, 0, "Build_Addon")
    BY <1>1 DEF GivenUpTo
  <2>2. Trace(g, s, 0).queue = g.queue
    <3>1. Trace(g, s, 0) = BeginAddon(g)
      BY <1>1, TraceStep
    <3> QED  BY <1>1, <3>1, BeginAddonFacts
  <2> HIDE DEF at
  <2> QED  BY <1>1, <1>2, <2>1, <2>2
<1>4. ASSUME NEW n \in 0 .. Len(slot) - 1, n \in T PROVE n + 1 \in T
  <2> DEFINE e == slot[n + 1]
             f == x(n + 1)
  <2>1. P(n)
    BY <1>4
  <2>2. f = ExecuteTemp(x(n), e, TRUE)
    BY <1>2
  <2>3. e \in Events /\ e.cmd \in SoundCommands /\ n + 1 \in 0 .. Len(slot) /\ n \in Nat
    <3>1. n + 1 \in DOMAIN slot /\ n + 1 \in 0 .. Len(slot)
      BY <1>1
    <3>2. e \in Events
      BY <3>1
    <3> QED  BY <3>1, <3>2 DEF Events
  <2> HIDE DEF e, f
  <2>4. ASSUME e.type = "Resource" \/ IsOrder(e)
        PROVE  /\ DOMAIN f = DataFields /\ (d.placing => f.placing)
               /\ f.addon = d.addon /\ f.tech = d.tech /\ f.isResearching = d.isResearching
               /\ f.minerals = IF e.type = "Resource" /\ e.cmd.type = "Build_Addon"
                               THEN x(n).minerals - AddonPrice ELSE x(n).minerals
               /\ IF e.type = "Resource" /\ e.cmd.type = "Train"
                  THEN f.queue = Append(x(n).queue, e.cmd.what) /\ f.training
                  ELSE f.queue = x(n).queue /\ f.training = x(n).training
    BY <2>1, <2>2, <2>3, <2>4, ExecuteNow
  <2>5. CASE n + 1 <= m
    <3>1. IsOrder(e) /\ e.type # "Resource"
      BY <1>1, <2>5 DEF Holds, IsOrder, e
    <3>2. at(n) = 0 /\ at(n + 1) = 0
      BY <1>1, <2>5
    <3> HIDE DEF at
    <3>3. P(n + 1)
      BY <2>1, <2>4, <3>1, <3>2 DEF f
    <3> QED  BY <2>3, <3>3
  <2>6. CASE ~(n + 1 <= m)
    <3> DEFINE h == n - m
               c == s[h + 1].cmd
    <3>1. /\ h \in 0 .. Len(s) - 1 /\ h + 1 \in 1 .. u /\ h \in Nat /\ h + 1 \in DOMAIN s
          /\ e = Event(c, "Resource")
      <4>1. n \in Nat /\ n >= m /\ n < m + u
        BY <1>1, <2>6
      <4>2. h \in Nat /\ h + 1 \in 1 .. u /\ h \in 0 .. Len(s) - 1 /\ h + 1 \in DOMAIN s
        BY <1>1, <4>1
      <4>3. h + 1 \in 1 .. (u - 0) /\ m + (h + 1) = n + 1 /\ 0 + (h + 1) = h + 1
        BY <1>1, <4>1, <4>2
      <4>4. slot[m + (h + 1)] = Event(s[0 + (h + 1)].cmd, "Resource")
        BY <4>3 DEF Holds
      <4> QED  BY <4>2, <4>3, <4>4 DEF e
    <3>2. at(n) = h /\ at(n + 1) = h + 1
      BY <1>1, <2>3, <2>6
    <3>3. e.type = "Resource" /\ e.cmd = c
      BY <3>1 DEF Event
    <3> HIDE DEF at, h, c
    <3>4. /\ GivenUpTo(s, h + 1, "Build_Addon") <=> GivenUpTo(s, h, "Build_Addon") \/ c.type = "Build_Addon"
          /\ c.type = "Build_Addon" => ~GivenUpTo(s, h, "Build_Addon")
      <4>1. GivenUpTo(s, h + 1, "Build_Addon") <=> GivenUpTo(s, h, "Build_Addon") \/ c.type = "Build_Addon"
        BY <3>1 DEF GivenUpTo, c
      <4>2. ASSUME c.type = "Build_Addon", NEW j \in 1 .. h, s[j].cmd.type = "Build_Addon" PROVE FALSE
        <5>1. j \in DOMAIN s /\ j # h + 1
          BY <1>1, <3>1
        <5> QED  BY <3>1, <4>2, <5>1 DEF Prospects, OneAddon, c
      <4> QED  BY <4>1, <4>2 DEF GivenUpTo
    <3>5. f.minerals = IF GivenUpTo(s, h + 1, "Build_Addon") THEN d.minerals - AddonPrice ELSE d.minerals
      BY <2>1, <2>4, <3>2, <3>3, <3>4
    <3>6. ASSUME \A i \in 1 .. h + 1 : s[i].cmd.type # "Cancel_Train", ~Trace(g, s, h + 1).full
          PROVE  f.queue = Trace(g, s, h + 1).queue /\ (f.training => f.queue # <<>>)
      <4>1. \A i \in 1 .. h : s[i].cmd.type # "Cancel_Train"
        BY <3>1, <3>6
      <4>2. s[h + 1].cmd.type # "Cancel_Train"
        BY <3>1, <3>6
      <4>3. ~Trace(g, s, h).full =>
              x(n).queue = Trace(g, s, h).queue /\ (x(n).training => x(n).queue # <<>>)
        BY <2>1, <3>2, <4>1
      <4>4. DOMAIN x(n) = DataFields
        BY <2>1
      <4> DEFINE y == x(n)
      <4> HIDE DEF y
      <4>5. DOMAIN y = DataFields /\ (~Trace(g, s, h).full =>
              y.queue = Trace(g, s, h).queue /\ (y.training => y.queue # <<>>))
        BY <4>3, <4>4 DEF y
      <4>6. f = ExecuteTemp(y, Event(s[h + 1].cmd, "Resource"), TRUE)
        BY <2>2, <3>1 DEF y, c
      <4> QED  BY <3>1, <3>6, <4>2, <4>5, <4>6, ReserveResource
    <3>7. P(n + 1)
      BY <2>4, <3>2, <3>3, <3>5, <3>6 DEF f
    <3> QED  BY <2>3, <3>7
  <2> QED  BY <2>5, <2>6
<1>5. \A n \in 0 .. Len(slot) : n \in T
  <2> HIDE DEF T
  <2> QED  BY <1>1, <1>3, <1>4, UpTo
<1>6. P(Len(slot))
  BY <1>1, <1>5
<1>7. at(Len(slot)) = u
  BY <1>1
<1> HIDE DEF at
<1> QED  BY <1>2, <1>6, <1>7

\* The buffer a frame later.
LEMMA ShiftedBuffer ==
  ASSUME NEW S, NEW b \in Seq(S), Len(b) = Latency + 1, Latency \in Nat, NEW e \in S
  PROVE  LET n == Append(Tail(b), e) IN
         /\ n \in Seq(S) /\ Len(n) = Latency + 1 /\ DOMAIN n = 1 .. Latency + 1
         /\ \A k \in 1 .. Latency : n[k] = b[k + 1]
         /\ n[Latency + 1] = e
<1>1. b # <<>>
  OBVIOUS
<1>2. Tail(b) \in Seq(S) /\ Len(Tail(b)) = Latency /\ \A k \in 1 .. Latency : Tail(b)[k] = b[k + 1]
  BY <1>1, HeadTailProperties
<1> DEFINE t == Tail(b)
<1> HIDE DEF t
<1>3. t \in Seq(S) /\ Len(t) = Latency /\ \A k \in 1 .. Latency : t[k] = b[k + 1]
  BY <1>2 DEF t
<1>4. /\ Append(t, e) \in Seq(S) /\ Len(Append(t, e)) = Latency + 1
      /\ DOMAIN Append(t, e) = 1 .. Latency + 1
      /\ Append(t, e)[Latency + 1] = e
      /\ \A k \in 1 .. Latency : Append(t, e)[k] = t[k]
  BY <1>3
<1> QED  BY <1>3, <1>4 DEF t

\* What is due within k frames is due within k - 1 a frame later.
LEMMA ReachesShifted ==
  ASSUME NEW s \in Seq(Sent), NEW u, Reaches(s, 1, u), Latency \in Nat,
         NEW k \in Nat \ {0}, NEW h, Reaches(s, k, h)
  PROVE  /\ h - u \in 0 .. Len(Remaining(s, u)) /\ u + (h - u) = h
         /\ Reaches(Remaining(s, u), k - 1, h - u)
<1> DEFINE r == Remaining(s, u)
<1>1. /\ Len(s) \in Nat /\ DOMAIN s = 1 .. Len(s) /\ u \in 0 .. Len(s) /\ h \in 0 .. Len(s)
      /\ \A i \in DOMAIN s : s[i].in \in Nat
  BY SentIs DEF Reaches
<1>2. Len(r) = Len(s) - u /\ DOMAIN r = 1 .. Len(s) - u
  BY RemainingIs
<1>3. \A i \in 1 .. Len(s) - u : u + i \in DOMAIN s /\ r[i].in = s[u + i].in - 1
  BY RemainingIs
<1> HIDE DEF r
<1>4. ~(h < u)
  <2> SUFFICES ASSUME h < u PROVE FALSE
    OBVIOUS
  <2>1. u \in DOMAIN s /\ ~(u <= h)
    BY <1>1
  <2>2. s[u].in <= 1
    BY <1>1, <2>1 DEF Reaches
  <2>3. s[u].in <= k
    BY <1>1, <2>1, <2>2
  <2> QED  BY <2>1, <2>3 DEF Reaches
<1>5. h - u \in 0 .. Len(r) /\ u + (h - u) = h
  BY <1>1, <1>2, <1>4
<1>6. ASSUME NEW i \in DOMAIN r PROVE r[i].in <= k - 1 <=> i <= h - u
  <2>1. u + i \in DOMAIN s /\ r[i].in = s[u + i].in - 1 /\ i \in Nat
    BY <1>2, <1>3
  <2>2. s[u + i].in <= k <=> u + i <= h
    BY <2>1 DEF Reaches
  <2>3. s[u + i].in \in Nat
    BY <1>1, <2>1
  <2> QED  BY <1>1, <2>1, <2>2, <2>3
<1> QED  BY <1>5, <1>6 DEF Reaches, r

\* The buffer that moves by a slot goes with it.
LEMMA NextBufferHolds ==
  ASSUME Latency \in Nat \ {0}, NEW s \in Seq(Sent), NEW buffer, BufferHolds(s, buffer),
         NEW u, Reaches(s, 1, u)
  PROVE  BufferHolds(Remaining(s, u), Append(Tail(buffer), <<>>))
<1> DEFINE r == Remaining(s, u)
           n == Append(Tail(buffer), <<>>)
<1>1. buffer \in Seq(Seq(Events)) /\ Len(buffer) = Latency + 1 /\ Latency \in Nat /\ <<>> \in Seq(Events)
  BY DEF BufferHolds
<1> DEFINE S == Seq(Events)
<1>2. /\ n \in Seq(S) /\ Len(n) = Latency + 1
      /\ \A k \in 1 .. Latency : n[k] = buffer[k + 1]
      /\ n[Latency + 1] = <<>>
  <2>1. buffer \in Seq(S) /\ <<>> \in S
    BY <1>1
  <2> HIDE DEF S
  <2> QED  BY <1>1, <2>1, ShiftedBuffer
<1>3. /\ r \in Seq(Sent) /\ Len(r) \in Nat /\ DOMAIN r = 1 .. Len(r)
      /\ \A i \in DOMAIN r : r[i].in \in 1 .. Latency
  <2>1. r \in Seq(Sent)
    BY <1>1, RemainingIs
  <2> HIDE DEF r
  <2> QED  BY <2>1, SentIs
<1>4. Len(s) \in Nat /\ DOMAIN s = 1 .. Len(s) /\ u \in 0 .. Len(s)
  BY SentIs DEF Reaches
<1> HIDE DEF n, r
<1>5. ASSUME NEW k \in 1 .. Latency PROVE SlotHolds(r, n[k], k)
  <2> DEFINE slot == buffer[k + 1]
  <2>1. k + 1 \in 1 .. Latency + 1 /\ (k + 1) - 1 = k /\ k \in Nat \ {0} /\ k + 1 \in Nat \ {0}
    BY <1>1
  <2>2. PICK lo \in 0 .. Len(s), hi \in 0 .. Len(s), m \in 0 .. Len(slot) :
          Reaches(s, k, lo) /\ Reaches(s, k + 1, hi) /\ Holds(s, slot, lo, hi, m)
    <3>1. SlotHolds(s, slot, k + 1)
      BY <2>1 DEF BufferHolds
    <3> HIDE DEF slot
    <3> QED  BY <2>1, <3>1 DEF SlotHolds
  <2> HIDE DEF slot
  <2>3. lo - u \in 0 .. Len(r) /\ u + (lo - u) = lo /\ Reaches(r, k - 1, lo - u)
    BY <1>1, <2>1, <2>2, ReachesShifted DEF r
  <2>4. hi - u \in 0 .. Len(r) /\ u + (hi - u) = hi /\ Reaches(r, (k + 1) - 1, hi - u)
    BY <1>1, <2>1, <2>2, ReachesShifted DEF r
  <2>5. (hi - u) - (lo - u) = hi - lo /\ m + (hi - u) - (lo - u) = m + hi - lo
    <3>1. hi \in Nat /\ lo \in Nat /\ u \in Nat
      BY <1>4, <2>2
    <3>2. m \in Int \/ m \notin Int
      OBVIOUS
    <3>3. m \in Nat
      BY <2>2 DEF Holds
    <3> QED  BY <3>1, <3>3
  <2>6. Holds(r, slot, lo - u, hi - u, m)
    <3>1. Len(slot) = m + (hi - u) - (lo - u)
      BY <2>2, <2>5 DEF Holds
    <3>2. ASSUME NEW i \in 1 .. ((hi - u) - (lo - u))
          PROVE  slot[m + i] = Event(r[(lo - u) + i].cmd, "Resource")
      <4>1. i \in 1 .. (hi - lo) /\ slot[m + i] = Event(s[lo + i].cmd, "Resource")
        BY <2>2, <2>5 DEF Holds
      <4>2. (lo - u) + i \in 1 .. Len(s) - u /\ u + ((lo - u) + i) = lo + i
        <5>1. lo \in Nat /\ hi \in Nat /\ u \in Nat /\ i \in Nat /\ hi <= Len(s) /\ i >= 1 /\ i <= hi - lo
              /\ lo - u >= 0
          BY <1>4, <2>2, <2>3, <4>1
        <5> QED  BY <1>4, <5>1
      <4>3. \A j \in 1 .. Len(s) - u : r[j].cmd = s[u + j].cmd
        BY <1>1, RemainingIs DEF r
      <4>4. r[(lo - u) + i].cmd = s[lo + i].cmd
        BY <4>2, <4>3
      <4> QED  BY <4>1, <4>4
    <3>3. \A j \in 1 .. m : IsOrder(slot[j])
      BY <2>2 DEF Holds
    <3> QED  BY <3>1, <3>2, <3>3 DEF Holds
  <2>7. n[k] = slot
    BY <1>2 DEF slot
  <2> QED  BY <2>1, <2>2, <2>3, <2>4, <2>6, <2>7 DEF SlotHolds
<1>6. SlotHolds(r, n[Latency + 1], Latency + 1)
  <2> DEFINE L == Len(r)
  <2>1. (Latency + 1) - 1 = Latency /\ L \in 0 .. L /\ Len(<<>>) = 0 /\ 0 \in 0 .. Len(<<>>)
    BY <1>1, <1>3
  <2>2. Reaches(r, Latency, L) /\ Reaches(r, Latency + 1, L)
    <3>1. \A i \in DOMAIN r : r[i].in <= Latency /\ r[i].in <= Latency + 1 /\ i <= L
      BY <1>1, <1>3
    <3> QED  BY <2>1, <3>1 DEF Reaches
  <2>3. Holds(r, <<>>, L, L, 0)
    BY <1>3 DEF Holds
  <2> QED  BY <1>2, <2>1, <2>2, <2>3 DEF SlotHolds
<1>7. \A k \in 1 .. Latency + 1 : SlotHolds(r, n[k], k)
  <2>1. \A k \in 1 .. Latency + 1 : k \in 1 .. Latency \/ k = Latency + 1
    BY <1>1
  <2> QED  BY <1>5, <1>6, <2>1
<1> QED  BY <1>2, <1>7 DEF BufferHolds, n, r

\* The slots move by one.
LEMMA NextBuffer ==
  ASSUME Latency \in Nat \ {0}, NEW s, NEW buffer, BufferHolds(s, buffer)
  PROVE  LET n == Append(Tail(buffer), <<>>) IN
         /\ n \in Seq(Seq(Events)) /\ DOMAIN n = 1 .. Latency + 1
         /\ \A k \in 1 .. Latency : n[k] = buffer[k + 1]
         /\ n[Latency + 1] = <<>>
<1> DEFINE S == Seq(Events)
<1>1. buffer \in Seq(S) /\ Len(buffer) = Latency + 1 /\ <<>> \in S /\ Latency \in Nat
  BY DEF BufferHolds
<1> HIDE DEF S
<1>2. LET n == Append(Tail(buffer), <<>>) IN
         /\ n \in Seq(S) /\ DOMAIN n = 1 .. Latency + 1
         /\ \A k \in 1 .. Latency : n[k] = buffer[k + 1]
         /\ n[Latency + 1] = <<>>
  BY <1>1, ShiftedBuffer
<1> QED  BY <1>2 DEF S

\* There still is one cancellation at most.
LEMMA NextOneCancel ==
  ASSUME Latency \in Nat \ {0}, NEW s \in Seq(Sent), NEW buffer, BufferHolds(s, buffer),
         OneCancel(s, buffer), NEW u, Reaches(s, 1, u)
  PROVE  OneCancel(Remaining(s, u), Append(Tail(buffer), <<>>))
<1> DEFINE r == Remaining(s, u)
           n == Append(Tail(buffer), <<>>)
<1>1. /\ DOMAIN n = 1 .. Latency + 1 /\ Latency \in Nat
      /\ \A k \in 1 .. Latency : n[k] = buffer[k + 1]
      /\ n[Latency + 1] = <<>>
  BY NextBuffer
<1>2. /\ DOMAIN r = 1 .. Len(s) - u /\ u \in Nat /\ Len(s) \in Nat
  BY RemainingIs, SentIs DEF Reaches
<1>3. \A i \in 1 .. Len(s) - u : /\ u + i \in DOMAIN s /\ s[u + i].in \in 2 .. Latency
                                 /\ r[i].cmd = s[u + i].cmd /\ r[i].in = s[u + i].in - 1
  BY RemainingIs
<1>4. DOMAIN buffer = 1 .. Latency + 1
  BY <1>1 DEF BufferHolds
<1> HIDE DEF n, r
<1>5. ASSUME NEW i \in DOMAIN r, r[i].cmd.type = "Cancel_Train"
      PROVE  /\ \A j \in DOMAIN r : r[j].cmd.type = "Cancel_Train" => j = i
             /\ \A k \in DOMAIN n : \A e \in DOMAIN n[k] :
                  IsCancel(n[k][e]) /\ n[k][e].type = "Order" => k = r[i].in + 1
             /\ \E e \in DOMAIN n[r[i].in + 1] :
                  IsCancel(n[r[i].in + 1][e]) /\ n[r[i].in + 1][e].type = "Order"
  <2> DEFINE v == u + i
             in == s[v].in
  <2>1. v \in DOMAIN s /\ s[v].cmd.type = "Cancel_Train" /\ r[i].in = in - 1 /\ in \in 2 .. Latency
    BY <1>2, <1>3, <1>5
  <2>2. /\ \A j \in DOMAIN s : s[j].cmd.type = "Cancel_Train" => j = v
        /\ \A k \in DOMAIN buffer : \A e \in DOMAIN buffer[k] :
             IsCancel(buffer[k][e]) /\ buffer[k][e].type = "Order" => k = in + 1
        /\ \E e \in DOMAIN buffer[in + 1] :
             IsCancel(buffer[in + 1][e]) /\ buffer[in + 1][e].type = "Order"
    BY <2>1 DEF OneCancel
  <2>3. ASSUME NEW j \in DOMAIN r, r[j].cmd.type = "Cancel_Train" PROVE j = i
    <3>1. u + j = u + i
      BY <1>2, <1>3, <2>2, <2>3
    <3> QED  BY <1>2, <3>1
  <2> HIDE DEF in
  <2>4. r[i].in + 1 = in /\ in \in 1 .. Latency /\ n[in] = buffer[in + 1]
    BY <1>1, <2>1
  <2>5. ASSUME NEW k \in DOMAIN n, NEW e \in DOMAIN n[k],
               IsCancel(n[k][e]), n[k][e].type = "Order"
        PROVE  k = in
    <3>1. k \in 1 .. Latency
      <4>1. k # Latency + 1
        BY <1>1
      <4> QED  BY <1>1, <4>1
    <3>2. n[k] = buffer[k + 1] /\ k + 1 \in DOMAIN buffer
      BY <1>1, <1>4, <3>1
    <3>3. k + 1 = in + 1
      BY <2>2, <2>5, <3>2
    <3> QED  BY <2>4, <3>1, <3>3
  <2> QED  BY <2>2, <2>3, <2>4, <2>5
<1>6. OneCancel(r, n)
  BY <1>5 DEF OneCancel
<1> QED  BY <1>6 DEF n, r

\* What is shown when the next frame begins.
LEMMA NextSeen ==
  ASSUME LatencyAssumption, NEW g, NEW s, Prospects(g, s), NEW buffer, BufferHolds(s, buffer),
         OneCancel(s, buffer), NEW u, Reaches(s, 1, u)
  PROVE  LET n == Following(g, s, u)
             r == Remaining(s, u)
             d == Effects(Read(n), buffer[1], TRUE)
         IN  /\ Foreseen(n, r, d, 0)
             /\ (\A e \in DOMAIN buffer[2] : ~CancelOrder(buffer[2][e])) => QueueForeseen(n, r, d, 0)
<1> DEFINE n == Following(g, s, u)
           r == Remaining(s, u)
           d == Effects(Read(n), buffer[1], TRUE)
           x == Read(n)
           y == Trace(g, s, u)
<1>1. /\ g \in Game /\ s \in Seq(Sent) /\ Len(s) \in Nat /\ DOMAIN s = 1 .. Len(s)
      /\ u \in 0 .. Len(s) /\ u \in Nat /\ Latency \in Nat \ {0} /\ Latency \in Nat
      /\ \A i \in DOMAIN s : s[i].in \in 1 .. Latency
  <2>1. Latency \in Nat \ {0} /\ Latency \in Nat
    BY DEF LatencyAssumption
  <2> QED  BY <2>1, SentIs DEF Prospects, Reaches
<1>2. /\ n \in Game /\ y \in Game /\ n.seen = g.queue /\ n.minerals = y.minerals
      /\ n.queue = y.queue /\ n.addon = y.addon /\ n.tech = y.tech /\ n.full = y.full
  BY <1>1, FollowingIs
<1>3. /\ DOMAIN x = DataFields /\ x.minerals = n.minerals /\ x.queue = g.queue
      /\ x.training => x.queue # <<>>
      /\ n.addon # "none" => x.placing
      /\ x.addon <=> n.addon = "begun"
      /\ x.tech = n.tech /\ x.isResearching = n.tech
  <2>1. x.queue = n.seen /\ x.training = (n.seen # <<>>) /\ x.placing = (n.addon # "none")
        /\ x.addon = (n.addon = "begun") /\ x.minerals = n.minerals
        /\ x.tech = n.tech /\ x.isResearching = n.tech
    BY DEF Read
  <2>2. DOMAIN x = DataFields
    BY ReadData
  <2> HIDE DEF x, n
  <2> QED  BY <1>2, <2>1, <2>2
<1>4. Prospects(n, r) /\ r \in Seq(Sent) /\ Len(r) \in Nat /\ 0 \in 0 .. Len(r)
  <2>1. Prospects(n, r)
    BY NextProspects
  <2> HIDE DEF n, r
  <2> QED  BY <2>1, SentIs DEF Prospects
<1>5. PICK m \in 0 .. Len(buffer[1]) : Holds(s, buffer[1], 0, u, m)
  <2>1. buffer[1] \in Seq(Events) /\ SlotHolds(s, buffer[1], 1) /\ 1 - 1 = 0
    BY <1>1 DEF BufferHolds
  <2>2. PICK lo \in 0 .. Len(s), hi \in 0 .. Len(s), m \in 0 .. Len(buffer[1]) :
          Reaches(s, 0, lo) /\ Reaches(s, 1, hi) /\ Holds(s, buffer[1], lo, hi, m)
    BY <2>1 DEF SlotHolds
  <2>3. lo = 0
    <3> SUFFICES ASSUME lo # 0 PROVE FALSE
      OBVIOUS
    <3>1. lo \in DOMAIN s
      BY <1>1
    <3>2. s[lo].in <= 0
      BY <2>2, <3>1 DEF Reaches
    <3> QED  BY <1>1, <3>1, <3>2
  <2>4. hi = u
    BY <1>1, <2>2, ReachesOnce
  <2> QED  BY <2>2, <2>3, <2>4
<1>6. /\ DOMAIN d = DataFields
      /\ x.placing => d.placing
      /\ d.addon = x.addon /\ d.tech = x.tech /\ d.isResearching = x.isResearching
      /\ d.minerals = IF GivenUpTo(s, u, "Build_Addon") THEN x.minerals - AddonPrice ELSE x.minerals
      /\ (\A i \in 1 .. u : s[i].cmd.type # "Cancel_Train") /\ ~y.full =>
           d.queue = y.queue /\ (d.training => d.queue # <<>>)
  <2>1. buffer[1] \in Seq(Events) /\ d = Effects(x, buffer[1], TRUE)
    BY <1>1 DEF BufferHolds
  <2>2. LET z == Effects(x, buffer[1], TRUE) IN
        /\ DOMAIN z = DataFields
        /\ x.placing => z.placing
        /\ z.addon = x.addon /\ z.tech = x.tech /\ z.isResearching = x.isResearching
        /\ z.minerals = IF GivenUpTo(s, u, "Build_Addon") THEN x.minerals - AddonPrice ELSE x.minerals
        /\ (\A i \in 1 .. u : s[i].cmd.type # "Cancel_Train") /\ ~Trace(g, s, u).full =>
             z.queue = Trace(g, s, u).queue /\ (z.training => z.queue # <<>>)
    <3> DEFINE slot == buffer[1]
    <3>1. /\ slot \in Seq(Events) /\ u \in 0 .. Len(s) /\ m \in 0 .. Len(slot)
          /\ Holds(s, slot, 0, u, m)
      BY <1>1, <1>5, <2>1
    <3>2. DOMAIN x = DataFields /\ x.queue = g.queue /\ (x.training => x.queue # <<>>)
      BY <1>3
    <3> HIDE DEF x, n, slot
    <3>3. LET z == Effects(x, slot, TRUE) IN
          /\ DOMAIN z = DataFields
          /\ x.placing => z.placing
          /\ z.addon = x.addon /\ z.tech = x.tech /\ z.isResearching = x.isResearching
          /\ z.minerals = IF GivenUpTo(s, u, "Build_Addon") THEN x.minerals - AddonPrice ELSE x.minerals
          /\ (\A i \in 1 .. u : s[i].cmd.type # "Cancel_Train") /\ ~Trace(g, s, u).full =>
               z.queue = Trace(g, s, u).queue /\ (z.training => z.queue # <<>>)
      BY <3>1, <3>2, ReserveForeseen
    <3> QED  BY <3>3 DEF slot
  <2> QED  BY <2>2
<1> DEFINE b == BeginAddon(n)
<1>7. Trace(n, r, 0) = b
  BY <1>4, TraceStep
<1> HIDE DEF n, r, x, d, y
<1>8. After(n, r, 0) \in Game /\ After(n, r, 0).full = b.full /\ b \in Game
  BY <1>2, <1>4, <1>7, TraceGame
<1>9. /\ b.queue = n.queue /\ b.tech = n.tech /\ b.full = n.full /\ b.addon # "placed"
      /\ n.addon # "placed" => b = n
  BY <1>2, BeginAddonFacts
<1>10. After(n, r, 0) = b
  <2>1. BeginAddon(b) = b
    <3> HIDE DEF b
    <3> QED  BY <1>8, <1>9, BeginAddonFacts
  <2> QED  BY <1>7, <2>1 DEF After
<1>11. ~b.full => d.minerals = b.minerals
  <2> SUFFICES ASSUME ~b.full PROVE d.minerals = b.minerals
    OBVIOUS
  <2>1. ~b.short
    BY <1>4, <1>10 DEF Prospects, AllPaid
  <2>2. b.minerals = IF n.addon = "placed" THEN n.minerals - AddonPrice ELSE n.minerals
    BY <1>2, <2>1, Moment
  <2>3. n.addon = "placed" <=> GivenUpTo(s, u, "Build_Addon")
    BY <1>1, <1>2, StillPlaced, TraceFacts DEF Prospects, y
  <2> QED  BY <1>3, <1>6, <2>2, <2>3
<1>12. Foreseen(n, r, d, 0)
  <2>1. ~GivenUpTo(r, 0, "Build_Addon") /\ ~GivenUpTo(r, 0, "Research")
    BY DEF GivenUpTo
  <2>2. n.addon # "none" => d.placing
    BY <1>3, <1>6
  <2>3. n.tech => d.isResearching
    BY <1>3, <1>6
  <2>4. d.tech = b.tech
    BY <1>3, <1>6, <1>9
  <2>5. n.addon # "placed" => (d.addon <=> b.addon = "begun")
    BY <1>3, <1>6, <1>9
  <2> HIDE DEF b
  <2> QED  BY <1>6, <1>7, <1>10, <1>11, <2>1, <2>2, <2>3, <2>4, <2>5 DEF Foreseen
<1>13. (\A e \in DOMAIN buffer[2] : ~CancelOrder(buffer[2][e])) => QueueForeseen(n, r, d, 0)
  <2> SUFFICES ASSUME \A e \in DOMAIN buffer[2] : ~CancelOrder(buffer[2][e])
               PROVE  QueueForeseen(n, r, d, 0)
    OBVIOUS
  <2>1. ASSUME NEW i \in 1 .. u, s[i].cmd.type = "Cancel_Train" PROVE FALSE
    <3>1. i \in DOMAIN s /\ i <= u
      BY <1>1
    <3>2. s[i].in <= 1
      BY <3>1 DEF Reaches
    <3>3. s[i].in + 1 = 2
      BY <1>1, <3>1, <3>2
    <3>4. \E e \in DOMAIN buffer[s[i].in + 1] : CancelOrder(buffer[s[i].in + 1][e])
      BY <2>1, <3>1 DEF OneCancel, CancelOrder
    <3> QED  BY <3>3, <3>4
  <2>2. ~y.full => d.queue = y.queue /\ (d.training => d.queue # <<>>)
    BY <1>6, <2>1
  <2> QED  BY <1>2, <1>7, <1>9, <1>10, <2>2 DEF QueueForeseen
<1> QED  BY <1>12, <1>13 DEF n, r, d, x

-----------------------------------------------------------------------------
(* The invariant, and a frame.                                             *)

\* No command needs more frames than one given now.
InTime(s, a) == \A i \in DOMAIN s : s[i].in <= Latency - a

\* No unit is to be taken from the queue.
NothingCancelled(buffer) ==
  \A k \in DOMAIN buffer : \A e \in DOMAIN buffer[k] : ~CancelOrder(buffer[k][e])

\* What is true of the parts of a state: the invariant, written for any values.
Settled(a, g, s, buffer, d) ==
  /\ a \in 0 .. Turn - 1
  /\ Prospects(g, s)
  /\ InTime(s, a)
  /\ BufferHolds(s, buffer)
  /\ OneCancel(s, buffer)
  /\ Foreseen(g, s, d, Len(s))
  /\ NothingCancelled(buffer) => QueueForeseen(g, s, d, Len(s))

\* What is shown in the next frame.
LEMMA NextForeseen ==
  ASSUME LatencyAssumption, NEW g, NEW s, Prospects(g, s), NEW buffer, BufferHolds(s, buffer),
         OneCancel(s, buffer), NEW d, Foreseen(g, s, d, 0),
         (\A e \in DOMAIN buffer[1] : ~CancelOrder(buffer[1][e])) => QueueForeseen(g, s, d, 0),
         NEW a \in 0 .. Turn - 1, InTime(s, a)
  PROVE  /\ Foreseen(g, s, Predict(d, buffer, Latency - a), Len(s))
         /\ NothingCancelled(buffer) => QueueForeseen(g, s, Predict(d, buffer, Latency - a), Len(s))
<1>1. Latency - a \in 1 .. Latency /\ Latency \in Nat
  BY DEF LatencyAssumption
<1>2. s \in Seq(Sent) /\ Len(s) \in Nat /\ DOMAIN s = 1 .. Len(s)
  BY SentIs DEF Prospects
<1>3. Reaches(s, Latency - a, Len(s))
  BY <1>2 DEF Reaches, InTime
<1> DEFINE last == Latency - a
<1> HIDE DEF last
<1>4. last \in 1 .. Latency /\ Reaches(s, last, Len(s))
  BY <1>1, <1>3 DEF last
<1>5. /\ Foreseen(g, s, Predict(d, buffer, last), Len(s))
      /\ Quiet(buffer, last) => QueueForeseen(g, s, Predict(d, buffer, last), Len(s))
  BY <1>4, PredictForeseen
<1>6. NothingCancelled(buffer) => Quiet(buffer, last)
  <2> SUFFICES ASSUME NothingCancelled(buffer), NEW j \in 1 .. last, NEW n \in DOMAIN buffer[j],
                      IsCancel(buffer[j][n])
               PROVE  FALSE
    BY DEF Quiet
  <2>1. j \in 1 .. Latency + 1 /\ buffer[j] \in Seq(Events) /\ SlotHolds(s, buffer[j], j)
        /\ DOMAIN buffer = 1 .. Latency + 1
    <3>1. j \in 1 .. Latency + 1
      BY <1>1, <1>4
    <3> QED  BY <3>1 DEF BufferHolds
  <2>2. ~CancelOrder(buffer[j][n])
    BY <2>1 DEF NothingCancelled
  <2>3. PICK i \in DOMAIN s : s[i].cmd.type = "Cancel_Train"
    <3>1. \E i \in DOMAIN s : s[i].in <= j /\ ~(s[i].in <= j - 1) /\ s[i].cmd.type = "Cancel_Train"
      BY <1>2, <2>1, <2>2, CancelsOfSlot
    <3> QED  BY <3>1
  <2>4. s[i].in \in 1 .. Latency /\ s[i].in + 1 \in DOMAIN buffer
    <3>1. s[i].in \in 1 .. Latency
      BY <1>2, SentIs
    <3> QED  BY <1>1, <2>1, <3>1
  <2>5. \E e \in DOMAIN buffer[s[i].in + 1] : CancelOrder(buffer[s[i].in + 1][e])
    BY <2>3 DEF OneCancel, CancelOrder
  <2> QED  BY <2>4, <2>5 DEF NothingCancelled
<1> QED  BY <1>5, <1>6 DEF last

\* The next frame is settled.
LEMMA FrameSettled ==
  ASSUME LatencyAssumption, NEW a, NEW g, NEW s, NEW buffer, NEW d,
         Settled(a, g, s, buffer, d), NEW u, Reaches(s, 1, u),
         NEW b \in 0 .. Turn - 1, b = a + 1 \/ b = 0
  PROVE  Settled(b, Following(g, s, u), Remaining(s, u), Append(Tail(buffer), <<>>),
                 Predict(Effects(Read(Following(g, s, u)), buffer[1], TRUE),
                         Append(Tail(buffer), <<>>), Latency - b))
<1> DEFINE n == Following(g, s, u)
           r == Remaining(s, u)
           c == Append(Tail(buffer), <<>>)
           x == Effects(Read(n), buffer[1], TRUE)
<1>1. /\ a \in 0 .. Turn - 1 /\ Prospects(g, s) /\ InTime(s, a) /\ BufferHolds(s, buffer)
      /\ OneCancel(s, buffer)
  BY DEF Settled
<1>2. s \in Seq(Sent) /\ Latency \in Nat \ {0} /\ Latency \in Nat
  BY <1>1 DEF Prospects, LatencyAssumption
<1>3. Prospects(n, r)
  BY <1>1, NextProspects
<1>4. BufferHolds(r, c)
  BY <1>1, <1>2, NextBufferHolds
<1>5. OneCancel(r, c)
  BY <1>1, <1>2, NextOneCancel
<1>6. InTime(r, b)
  <2>1. ASSUME NEW i \in DOMAIN r PROVE r[i].in <= Latency - b
    <3>1. DOMAIN r = 1 .. Len(s) - u
      BY <1>2, RemainingIs
    <3>2. u + i \in DOMAIN s /\ r[i].in = s[u + i].in - 1 /\ s[u + i].in \in 2 .. Latency
      <4>1. i \in 1 .. Len(s) - u
        BY <2>1, <3>1
      <4> QED  BY <1>2, <4>1, RemainingIs
    <3>3. s[u + i].in <= Latency - a
      BY <1>1, <3>2 DEF InTime
    <3>4. a \in Nat
      BY <1>1
    <3> QED  BY <1>2, <3>2, <3>3, <3>4
  <2> QED  BY <2>1 DEF InTime
<1>7. /\ Foreseen(n, r, x, 0)
      /\ (\A e \in DOMAIN c[1] : ~CancelOrder(c[1][e])) => QueueForeseen(n, r, x, 0)
  <2>1. c[1] = buffer[2]
    <3>1. \A k \in 1 .. Latency : c[k] = buffer[k + 1]
      BY <1>1, <1>2, NextBuffer
    <3>2. 1 \in 1 .. Latency /\ 1 + 1 = 2
      BY <1>2
    <3> QED  BY <3>1, <3>2
  <2>2. /\ Foreseen(n, r, x, 0)
        /\ (\A e \in DOMAIN buffer[2] : ~CancelOrder(buffer[2][e])) => QueueForeseen(n, r, x, 0)
    BY <1>1, NextSeen
  <2> HIDE DEF c, n, r, x
  <2> QED  BY <2>1, <2>2
<1> HIDE DEF n, r, c, x
<1>8. /\ Foreseen(n, r, Predict(x, c, Latency - b), Len(r))
      /\ NothingCancelled(c) => QueueForeseen(n, r, Predict(x, c, Latency - b), Len(r))
  BY <1>3, <1>4, <1>5, <1>6, <1>7, NextForeseen
<1>9. Settled(b, n, r, c, Predict(x, c, Latency - b))
  BY <1>3, <1>4, <1>5, <1>6, <1>8 DEF Settled
<1> QED  BY <1>9 DEF n, r, c, x

-----------------------------------------------------------------------------
(* A command is given.                                                     *)

\* A command is inserted, with its first part in the slot last.
Inserted(buffer, last, c) ==
  [k \in DOMAIN buffer |->
     IF k - last + 1 \in DOMAIN Parts(c) THEN Append(buffer[k], Parts(c)[k - last + 1])
     ELSE buffer[k]]

\* Commands of two parts.
HasOrder(c) == c.type \notin {"Train", "Research"}

\* Events are events.
LEMMA EventIs ==
  ASSUME NEW c \in SoundCommands, NEW type \in {"Resource", "Order"}
  PROVE  Event(c, type) \in Events /\ Event(c, type).cmd = c /\ Event(c, type).type = type
  BY DEF Event, Events

\* The slots after an insertion.
LEMMA InsertedIs ==
  ASSUME Latency \in Nat \ {0}, NEW buffer \in Seq(Seq(Events)), Len(buffer) = Latency + 1,
         NEW last \in 1 .. Latency, NEW c \in SoundCommands
  PROVE  LET n == Inserted(buffer, last, c) IN
         /\ n \in Seq(Seq(Events)) /\ Len(n) = Latency + 1 /\ DOMAIN n = 1 .. Latency + 1
         /\ n[last] = Append(buffer[last], Event(c, "Resource"))
         /\ n[last + 1] = IF HasOrder(c) THEN Append(buffer[last + 1], Event(c, "Order"))
                          ELSE buffer[last + 1]
         /\ \A k \in 1 .. Latency + 1 : k # last /\ k # last + 1 => n[k] = buffer[k]
<1> DEFINE p == Parts(c)
           n == Inserted(buffer, last, c)
           S == Seq(Events)
<1>1. /\ DOMAIN p = IF HasOrder(c) THEN 1 .. 2 ELSE 1 .. 1
      /\ p[1] = Event(c, "Resource") /\ (HasOrder(c) => p[2] = Event(c, "Order"))
  BY DEF Parts, HasOrder
<1>2. \A i \in DOMAIN p : p[i] \in Events
  <2>1. \A i \in DOMAIN p : i = 1 \/ (HasOrder(c) /\ i = 2)
    BY <1>1
  <2>2. Event(c, "Resource") \in Events /\ Event(c, "Order") \in Events
    BY EventIs
  <2> HIDE DEF p
  <2> QED  BY <1>1, <2>1, <2>2
<1> HIDE DEF p
<1>3. /\ DOMAIN buffer = 1 .. Latency + 1 /\ \A k \in 1 .. Latency + 1 : buffer[k] \in Seq(Events)
      /\ last \in Nat /\ last >= 1 /\ last <= Latency
      /\ last \in DOMAIN buffer /\ last + 1 \in DOMAIN buffer
  OBVIOUS
<1>4. n = [k \in 1 .. Latency + 1 |->
             IF k - last + 1 \in DOMAIN p THEN Append(buffer[k], p[k - last + 1]) ELSE buffer[k]]
  BY <1>3 DEF Inserted, p
<1> HIDE DEF n
<1>6. \A k \in 1 .. Latency + 1 : n[k] \in S
  <2>1. ASSUME NEW k \in 1 .. Latency + 1 PROVE n[k] \in Seq(Events)
    <3>1. CASE k - last + 1 \in DOMAIN p
      <4>1. n[k] = Append(buffer[k], p[k - last + 1])
        BY <1>4, <3>1
      <4>2. p[k - last + 1] \in Events /\ buffer[k] \in Seq(Events)
        BY <1>2, <1>3, <3>1
      <4> QED  BY <4>1, <4>2, AppendProperties
    <3>2. CASE k - last + 1 \notin DOMAIN p
      BY <1>3, <1>4, <3>2
    <3> QED  BY <3>1, <3>2
  <2> QED  BY <2>1
<1> HIDE DEF S
<1>7. n \in Seq(S) /\ Len(n) = Latency + 1 /\ DOMAIN n = 1 .. Latency + 1
  <2>1. n \in [1 .. Latency + 1 -> S]
    BY <1>4, <1>6
  <2>2. Latency + 1 \in Nat
    OBVIOUS
  <2> QED  BY <2>1, <2>2, IsASeq
<1>8. n[last] = Append(buffer[last], Event(c, "Resource"))
  <2>1. last - last + 1 = 1 /\ 1 \in DOMAIN p /\ last \in 1 .. Latency + 1
    BY <1>1, <1>3
  <2> QED  BY <1>1, <1>4, <2>1
<1>9. n[last + 1] = IF HasOrder(c) THEN Append(buffer[last + 1], Event(c, "Order"))
                    ELSE buffer[last + 1]
  <2>1. last + 1 - last + 1 = 2 /\ last + 1 \in 1 .. Latency + 1
    BY <1>3
  <2>2. 2 \in DOMAIN p <=> HasOrder(c)
    BY <1>1
  <2> QED  BY <1>1, <1>4, <2>1, <2>2
<1>10. ASSUME NEW k \in 1 .. Latency + 1, k # last, k # last + 1 PROVE n[k] = buffer[k]
  <2>1. k - last + 1 \notin 1 .. 2 /\ k - last + 1 \notin 1 .. 1
    BY <1>3, <1>10
  <2> QED  BY <1>1, <1>4, <2>1
<1> QED  BY <1>7, <1>8, <1>9, <1>10 DEF n, S

\* One command more is on its way.
LEMMA SentMore ==
  ASSUME NEW s \in Seq(Sent), NEW c \in SoundCommands, NEW last \in 1 .. Latency
  PROVE  LET r == Append(s, [cmd |-> c, in |-> last]) IN
         /\ r \in Seq(Sent) /\ Len(r) = Len(s) + 1 /\ DOMAIN r = 1 .. Len(s) + 1 /\ Len(s) \in Nat
         /\ DOMAIN s = 1 .. Len(s)
         /\ \A i \in 1 .. Len(s) : r[i] = s[i]
         /\ r[Len(s) + 1].cmd = c /\ r[Len(s) + 1].in = last
<1> DEFINE x == [cmd |-> c, in |-> last]
<1>1. x \in Sent /\ x.cmd = c /\ x.in = last
  BY DEF Sent
<1> HIDE DEF x
<1>2. LET r == Append(s, x) IN
      /\ r \in Seq(Sent) /\ Len(r) = Len(s) + 1 /\ DOMAIN r = 1 .. Len(s) + 1 /\ Len(s) \in Nat
      /\ DOMAIN s = 1 .. Len(s)
      /\ \A i \in 1 .. Len(s) : r[i] = s[i]
      /\ r[Len(s) + 1] = x
  BY <1>1
<1> QED  BY <1>1, <1>2 DEF x

\* What was on its way is reached as before.
LEMMA ReachesMore ==
  ASSUME NEW s \in Seq(Sent), NEW c \in SoundCommands, NEW last \in 1 .. Latency, Latency \in Nat,
         NEW k \in Nat
  PROVE  LET r == Append(s, [cmd |-> c, in |-> last]) IN
         /\ k < last => \A h : Reaches(s, k, h) => Reaches(r, k, h)
         /\ ~(k < last) /\ (\A i \in DOMAIN s : s[i].in <= k) => Reaches(r, k, Len(s) + 1)
<1> DEFINE r == Append(s, [cmd |-> c, in |-> last])
<1>1. /\ r \in Seq(Sent) /\ Len(r) = Len(s) + 1 /\ DOMAIN r = 1 .. Len(s) + 1 /\ Len(s) \in Nat
      /\ DOMAIN s = 1 .. Len(s)
      /\ \A i \in 1 .. Len(s) : r[i] = s[i]
      /\ r[Len(s) + 1].cmd = c /\ r[Len(s) + 1].in = last
  BY SentMore
<1> HIDE DEF r
<1>2. ASSUME k < last, NEW h, Reaches(s, k, h) PROVE Reaches(r, k, h)
  <2>1. h \in 0 .. Len(s) /\ h \in 0 .. Len(r)
    BY <1>1, <1>2 DEF Reaches
  <2>2. ASSUME NEW i \in DOMAIN r PROVE r[i].in <= k <=> i <= h
    <3>1. CASE i \in 1 .. Len(s)
      BY <1>1, <1>2, <3>1 DEF Reaches
    <3>2. CASE i = Len(s) + 1
      <4>1. ~(last <= k) /\ ~(Len(s) + 1 <= h)
        BY <1>1, <1>2, <2>1
      <4> QED  BY <1>1, <3>2, <4>1
    <3> QED  BY <1>1, <3>1, <3>2
  <2> QED  BY <2>1, <2>2 DEF Reaches
<1>3. ASSUME ~(k < last), \A i \in DOMAIN s : s[i].in <= k PROVE Reaches(r, k, Len(s) + 1)
  <2>1. last <= k
    BY <1>3
  <2>2. \A i \in DOMAIN r : i \in DOMAIN s \/ i = Len(s) + 1
    BY <1>1
  <2>3. \A i \in DOMAIN r : r[i].in <= k /\ i <= Len(s) + 1
    BY <1>1, <1>3, <2>1, <2>2
  <2>4. Len(s) + 1 \in 0 .. Len(r)
    BY <1>1
  <2> QED  BY <2>3, <2>4 DEF Reaches
<1> QED  BY <1>2, <1>3 DEF r

\* The buffer has the new command too.
LEMMA GiveBufferHolds ==
  ASSUME Latency \in Nat \ {0}, NEW s \in Seq(Sent), NEW buffer, BufferHolds(s, buffer),
         NEW last \in 1 .. Latency, \A i \in DOMAIN s : s[i].in <= last, NEW c \in SoundCommands
  PROVE  BufferHolds(Append(s, [cmd |-> c, in |-> last]), Inserted(buffer, last, c))
<1> DEFINE r == Append(s, [cmd |-> c, in |-> last])
           n == Inserted(buffer, last, c)
           L == Len(s)
<1>1. /\ r \in Seq(Sent) /\ Len(r) = L + 1 /\ DOMAIN r = 1 .. L + 1 /\ L \in Nat
      /\ DOMAIN s = 1 .. L
      /\ \A i \in 1 .. L : r[i] = s[i]
      /\ r[L + 1].cmd = c /\ r[L + 1].in = last
  BY SentMore
<1>2. /\ buffer \in Seq(Seq(Events)) /\ Len(buffer) = Latency + 1
      /\ \A k \in 1 .. Latency + 1 : SlotHolds(s, buffer[k], k) /\ buffer[k] \in Seq(Events)
      /\ Latency \in Nat
  BY DEF BufferHolds
<1>3. /\ n \in Seq(Seq(Events)) /\ Len(n) = Latency + 1
      /\ n[last] = Append(buffer[last], Event(c, "Resource"))
      /\ n[last + 1] = IF HasOrder(c) THEN Append(buffer[last + 1], Event(c, "Order"))
                       ELSE buffer[last + 1]
      /\ \A k \in 1 .. Latency + 1 : k # last /\ k # last + 1 => n[k] = buffer[k]
  BY <1>2, InsertedIs
<1>4. \A k \in Nat : /\ k < last => \A h : Reaches(s, k, h) => Reaches(r, k, h)
                     /\ ~(k < last) => Reaches(r, k, L + 1)
  <2>1. ASSUME NEW k \in Nat
        PROVE  /\ k < last => \A h : Reaches(s, k, h) => Reaches(r, k, h)
               /\ ~(k < last) => Reaches(r, k, L + 1)
    <3>1. ~(k < last) => \A i \in DOMAIN s : s[i].in <= k
      <4>1. \A i \in DOMAIN s : s[i].in \in Nat
        BY <1>2, SentIs
      <4> QED  BY <4>1
    <3>2. /\ k < last => \A h : Reaches(s, k, h) => Reaches(r, k, h)
          /\ ~(k < last) /\ (\A i \in DOMAIN s : s[i].in <= k) => Reaches(r, k, Len(s) + 1)
      BY <1>2, ReachesMore
    <3> QED  BY <3>1, <3>2
  <2> QED  BY <2>1
<1>5. \A h : Reaches(s, last, h) => h = L
  <2>1. Reaches(s, last, L)
    BY <1>1 DEF Reaches
  <2> QED  BY <2>1, ReachesOnce
<1> HIDE DEF r, n
<1>6. ASSUME NEW k \in 1 .. Latency + 1 PROVE SlotHolds(r, n[k], k)
  <2> DEFINE slot == buffer[k]
  <2>1. PICK lo \in 0 .. L, hi \in 0 .. L, m \in 0 .. Len(slot) :
          Reaches(s, k - 1, lo) /\ Reaches(s, k, hi) /\ Holds(s, slot, lo, hi, m)
    BY <1>2 DEF SlotHolds
  <2>2. /\ k \in Nat /\ k - 1 \in Nat /\ last \in Nat /\ lo \in Nat /\ hi \in Nat /\ m \in Nat
        /\ Len(slot) \in Nat /\ slot \in Seq(Events) /\ hi <= L
        /\ Len(slot) = m + hi - lo
    <3>1. slot \in Seq(Events)
      BY <1>2
    <3>2. Len(slot) \in Nat
      BY <3>1
    <3>3. Len(slot) = m + hi - lo
      BY <2>1 DEF Holds
    <3> HIDE DEF slot
    <3> QED  BY <1>1, <3>1, <3>2, <3>3
  <2> HIDE DEF slot
  <2>3. CASE k < last
    <3>1. n[k] = slot
      <4>1. k # last /\ k # last + 1
        BY <2>2, <2>3
      <4> QED  BY <1>3, <4>1 DEF slot
    <3>2. Reaches(r, k - 1, lo) /\ Reaches(r, k, hi)
      <4>1. k - 1 < last
        BY <2>2, <2>3
      <4> QED  BY <1>4, <2>1, <2>2, <2>3, <4>1
    <3>3. Holds(r, slot, lo, hi, m)
      <4>1. \A i \in 1 .. (hi - lo) : lo + i \in 1 .. L
        BY <1>1, <2>2, SMTT(30)
      <4>2. \A i \in 1 .. (hi - lo) : slot[m + i] = Event(r[lo + i].cmd, "Resource")
        BY <1>1, <2>1, <4>1 DEF Holds
      <4> QED  BY <2>1, <4>2 DEF Holds
    <3>4. lo \in 0 .. Len(r) /\ hi \in 0 .. Len(r)
      BY <1>1, <2>2
    <3> QED  BY <3>1, <3>2, <3>3, <3>4 DEF SlotHolds
  <2>4. CASE k = last
    <3> DEFINE e == Event(c, "Resource")
               new == Append(slot, e)
    <3>1. n[k] = new
      BY <1>3, <2>4 DEF slot
    <3>2. hi = L
      BY <1>5, <2>1, <2>4
    <3>3. Reaches(r, k - 1, lo) /\ Reaches(r, k, L + 1)
      <4>1. k - 1 < last /\ ~(k < last)
        BY <2>2, <2>4
      <4> QED  BY <1>4, <2>1, <2>2, <4>1
    <3>4. e \in Events
      BY EventIs
    <3>5. e = Event(r[L + 1].cmd, "Resource")
      BY <1>1
    <3> HIDE DEF e
    <3>6. /\ Len(new) = Len(slot) + 1 /\ new[Len(slot) + 1] = e
          /\ \A i \in 1 .. Len(slot) : new[i] = slot[i]
      BY <2>2, <3>4
    <3> HIDE DEF new
    <3>9. /\ Len(slot) + 1 = m + (L + 1) - lo
          /\ \A i \in Nat : lo + i = L + 1 => m + i = Len(slot) + 1
      <4>1. Len(slot) = m + L - lo /\ L \in Nat /\ lo \in Nat /\ m \in Nat
        BY <1>1, <2>2, <3>2
      <4> HIDE DEF L
      <4> DEFINE w == Len(slot)
      <4>2. w = m + L - lo
        BY <4>1
      <4> HIDE DEF w
      <4>3. w + 1 = m + (L + 1) - lo
        BY <4>1, <4>2
      <4>4. \A i \in Nat : lo + i = L + 1 => m + i = w + 1
        BY <4>1, <4>2
      <4> QED  BY <4>3, <4>4 DEF w
    <3>7. Holds(r, new, lo, L + 1, m)
      <4>1. Len(new) = m + (L + 1) - lo
        BY <3>6, <3>9
      <4>2. \A i \in 1 .. m : IsOrder(new[i])
        <5>1. \A i \in 1 .. m : i \in 1 .. Len(slot)
          BY <1>1, <2>1, <2>2
        <5> QED  BY <2>1, <3>6, <5>1 DEF Holds
      <4>3. ASSUME NEW i \in 1 .. ((L + 1) - lo) PROVE new[m + i] = Event(r[lo + i].cmd, "Resource")
        <5>1. CASE lo + i = L + 1
          <6>1. m + i = Len(slot) + 1
            BY <3>9, <5>1
          <6> QED  BY <3>5, <3>6, <5>1, <6>1
        <5>2. CASE lo + i # L + 1
          <6>1. i \in 1 .. (hi - lo) /\ lo + i \in 1 .. L /\ m + i \in 1 .. Len(slot)
            <7>1. /\ Len(slot) = m + L - lo /\ hi = L
                  /\ L \in Nat /\ lo \in Nat /\ m \in Nat /\ lo <= L
              BY <1>1, <2>2, <3>2
            <7> HIDE DEF L
            <7> QED  BY <5>2, <7>1
          <6> QED  BY <1>1, <2>1, <3>6, <6>1 DEF Holds
        <5> QED  BY <5>1, <5>2
      <4> QED  BY <4>1, <4>2, <4>3 DEF Holds
    <3>8. lo \in 0 .. Len(r) /\ L + 1 \in 0 .. Len(r) /\ m \in 0 .. Len(new)
      BY <1>1, <2>1, <2>2, <3>6
    <3> QED  BY <3>1, <3>3, <3>7, <3>8 DEF SlotHolds
  <2>5. CASE k > last
    <3>1. lo = L /\ hi = L
      <4>1. Reaches(s, k - 1, L) /\ Reaches(s, k, L)
        <5>1. \A i \in DOMAIN s : s[i].in \in Nat
          BY <1>2, SentIs, SMTT(30)
        <5>2. \A i \in DOMAIN s : s[i].in <= k - 1 /\ s[i].in <= k /\ i <= L
          BY <1>1, <2>2, <2>5, <5>1
        <5> QED  BY <1>1, <5>2 DEF Reaches
      <4> QED  BY <2>1, <4>1, ReachesOnce
    <3>2. Len(slot) = m /\ \A i \in 1 .. m : IsOrder(slot[i])
      BY <2>1, <2>2, <3>1 DEF Holds
    <3>3. Reaches(r, k - 1, L + 1) /\ Reaches(r, k, L + 1)
      <4>1. ~(k - 1 < last) /\ ~(k < last)
        BY <2>2, <2>5
      <4> QED  BY <1>4, <2>2, <4>1
    <3>4. Len(n[k]) \in Nat /\ \A i \in 1 .. Len(n[k]) : IsOrder(n[k][i])
      <4>1. CASE n[k] = slot
        BY <2>2, <3>2, <4>1
      <4>2. CASE n[k] # slot
        <5>1. n[k] = Append(slot, Event(c, "Order")) /\ HasOrder(c)
          <6>1. k # last
            BY <2>2, <2>5
          <6> QED  BY <1>3, <4>2, <6>1 DEF slot
        <5> DEFINE e == Event(c, "Order")
        <5>2. e \in Events /\ IsOrder(e)
          BY <5>1, EventIs DEF IsOrder, HasOrder
        <5> HIDE DEF e
        <5>3. /\ Len(Append(slot, e)) = m + 1 /\ Append(slot, e)[m + 1] = e
              /\ \A i \in 1 .. m : Append(slot, e)[i] = slot[i]
          BY <2>2, <3>2, <5>2
        <5>4. n[k] = Append(slot, e)
          BY <5>1 DEF e
        <5>5. \A i \in 1 .. m + 1 : i \in 1 .. m \/ i = m + 1
          BY <2>2
        <5> QED  BY <2>2, <3>2, <5>2, <5>3, <5>4, <5>5
      <4> QED  BY <4>1, <4>2
    <3>5. Holds(r, n[k], L + 1, L + 1, Len(n[k]))
      BY <1>1, <3>4 DEF Holds
    <3>6. L + 1 \in 0 .. Len(r) /\ Len(n[k]) \in 0 .. Len(n[k])
      BY <1>1, <3>4
    <3> QED  BY <3>3, <3>5, <3>6 DEF SlotHolds
  <2> QED  BY <2>2, <2>3, <2>4, <2>5
<1> QED  BY <1>3, <1>6 DEF BufferHolds, r, n

\* The buffer holds an order to cancel at k.
CancelledAt(buffer, k) == \E e \in DOMAIN buffer[k] : CancelOrder(buffer[k][e])

\* Where the buffer has an order to cancel after an insertion.
LEMMA CancelledMore ==
  ASSUME Latency \in Nat \ {0}, NEW buffer \in Seq(Seq(Events)), Len(buffer) = Latency + 1,
         NEW last \in 1 .. Latency, NEW c \in SoundCommands, NEW k \in 1 .. Latency + 1
  PROVE  CancelledAt(Inserted(buffer, last, c), k) <=>
           CancelledAt(buffer, k) \/ (c.type = "Cancel_Train" /\ k = last + 1)
<1> DEFINE n == Inserted(buffer, last, c)
           slot == buffer[k]
           x == Event(c, "Resource")
           y == Event(c, "Order")
<1>1. /\ n[last] = Append(buffer[last], x)
      /\ n[last + 1] = IF HasOrder(c) THEN Append(buffer[last + 1], y) ELSE buffer[last + 1]
      /\ k # last /\ k # last + 1 => n[k] = slot
  <2>1. n[last] = Append(buffer[last], x)
    BY InsertedIs
  <2>2. n[last + 1] = IF HasOrder(c) THEN Append(buffer[last + 1], y) ELSE buffer[last + 1]
    BY InsertedIs
  <2>3. \A j \in 1 .. Latency + 1 : j # last /\ j # last + 1 => n[j] = buffer[j]
    BY InsertedIs
  <2> QED  BY <2>1, <2>2, <2>3
<1>2. slot \in Seq(Events) /\ last # last + 1
  OBVIOUS
<1>3. /\ x \in Events /\ ~CancelOrder(x) /\ y \in Events
      /\ CancelOrder(y) <=> c.type = "Cancel_Train"
      /\ c.type = "Cancel_Train" => HasOrder(c)
  BY EventIs DEF CancelOrder, IsCancel, HasOrder
<1>4. ASSUME NEW e \in Events
      PROVE  (\E i \in DOMAIN Append(slot, e) : CancelOrder(Append(slot, e)[i]))
               <=> (\E i \in DOMAIN slot : CancelOrder(slot[i])) \/ CancelOrder(e)
  <2> HIDE DEF slot
  <2>1. /\ DOMAIN slot = 1 .. Len(slot) /\ Len(slot) \in Nat
        /\ DOMAIN Append(slot, e) = 1 .. Len(slot) + 1
        /\ Append(slot, e)[Len(slot) + 1] = e
        /\ \A i \in 1 .. Len(slot) : Append(slot, e)[i] = slot[i]
    BY <1>2
  <2>2. \A i \in 1 .. Len(slot) + 1 : i \in 1 .. Len(slot) \/ i = Len(slot) + 1
    BY <2>1
  <2>3. Len(slot) + 1 \in 1 .. Len(slot) + 1 /\ \A i \in 1 .. Len(slot) : i \in 1 .. Len(slot) + 1
    BY <2>1
  <2> QED  BY <2>1, <2>2, <2>3
<1> HIDE DEF n, x, y
<1>5. CASE k = last
  BY <1>1, <1>2, <1>3, <1>4, <1>5 DEF CancelledAt, n
<1>6. CASE k = last + 1 /\ HasOrder(c)
  BY <1>1, <1>2, <1>3, <1>4, <1>6 DEF CancelledAt, n
<1>7. CASE k = last + 1 /\ ~HasOrder(c)
  BY <1>1, <1>2, <1>3, <1>7 DEF CancelledAt, n
<1>8. CASE k # last /\ k # last + 1
  BY <1>1, <1>8 DEF CancelledAt, n
<1> QED  BY <1>5, <1>6, <1>7, <1>8

\* OneCancel in terms of these places.
LEMMA OneCancelIs ==
  ASSUME NEW s, NEW buffer
  PROVE  OneCancel(s, buffer) <=>
           \A i \in DOMAIN s : s[i].cmd.type = "Cancel_Train" =>
             /\ \A j \in DOMAIN s : s[j].cmd.type = "Cancel_Train" => j = i
             /\ \A k \in DOMAIN buffer : CancelledAt(buffer, k) => k = s[i].in + 1
             /\ CancelledAt(buffer, s[i].in + 1)
<1>1. \A k : CancelledAt(buffer, k) <=>
             \E e \in DOMAIN buffer[k] : IsCancel(buffer[k][e]) /\ buffer[k][e].type = "Order"
  BY DEF CancelledAt, CancelOrder
<1>2. \A k, x : (CancelledAt(buffer, k) => x) <=>
             \A e \in DOMAIN buffer[k] : IsCancel(buffer[k][e]) /\ buffer[k][e].type = "Order" => x
  BY <1>1
<1> QED  BY <1>1, <1>2 DEF OneCancel

\* A cancellation that is given while there is none is the only one.
LEMMA GiveOneCancel ==
  ASSUME Latency \in Nat \ {0}, NEW s \in Seq(Sent), NEW buffer, BufferHolds(s, buffer),
         OneCancel(s, buffer), NEW last \in 1 .. Latency, NEW c \in SoundCommands,
         c.type = "Cancel_Train" => NothingCancelled(buffer)
  PROVE  LET r == Append(s, [cmd |-> c, in |-> last])
             n == Inserted(buffer, last, c)
         IN  /\ OneCancel(r, n)
             /\ NothingCancelled(n) => NothingCancelled(buffer) /\ c.type # "Cancel_Train"
<1> DEFINE r == Append(s, [cmd |-> c, in |-> last])
           n == Inserted(buffer, last, c)
<1>1. /\ DOMAIN r = 1 .. Len(s) + 1 /\ DOMAIN s = 1 .. Len(s) /\ Len(s) \in Nat
      /\ \A i \in 1 .. Len(s) : r[i] = s[i]
      /\ r[Len(s) + 1].cmd = c /\ r[Len(s) + 1].in = last
  BY SentMore
<1>2. buffer \in Seq(Seq(Events)) /\ Len(buffer) = Latency + 1 /\ DOMAIN buffer = 1 .. Latency + 1
  BY DEF BufferHolds
<1>3. DOMAIN n = 1 .. Latency + 1
  BY <1>2, InsertedIs
<1>4. \A k \in 1 .. Latency + 1 :
        CancelledAt(n, k) <=> CancelledAt(buffer, k) \/ (c.type = "Cancel_Train" /\ k = last + 1)
  BY <1>2, CancelledMore
<1> HIDE DEF r, n
<1>5. \A i \in DOMAIN s : s[i].cmd.type = "Cancel_Train" =>
        /\ \A j \in DOMAIN s : s[j].cmd.type = "Cancel_Train" => j = i
        /\ \A k \in DOMAIN buffer : CancelledAt(buffer, k) => k = s[i].in + 1
        /\ CancelledAt(buffer, s[i].in + 1)
        /\ s[i].in + 1 \in 1 .. Latency + 1
  <2>1. \A i \in DOMAIN s : s[i].in + 1 \in 1 .. Latency + 1
    BY SentIs
  <2> QED  BY <2>1, OneCancelIs
<1>6. NothingCancelled(buffer) <=> \A k \in 1 .. Latency + 1 : ~CancelledAt(buffer, k)
  BY <1>2 DEF NothingCancelled, CancelledAt
<1>7. NothingCancelled(n) <=> \A k \in 1 .. Latency + 1 : ~CancelledAt(n, k)
  BY <1>3 DEF NothingCancelled, CancelledAt
<1>8. last + 1 \in 1 .. Latency + 1
  OBVIOUS
<1>9. NothingCancelled(n) => NothingCancelled(buffer) /\ c.type # "Cancel_Train"
  BY <1>4, <1>6, <1>7, <1>8
<1>10. CASE c.type = "Cancel_Train"
  <2>1. \A i \in DOMAIN s : s[i].cmd.type # "Cancel_Train"
    BY <1>5, <1>6, <1>10
  <2>2. ASSUME NEW i \in DOMAIN r, r[i].cmd.type = "Cancel_Train" PROVE i = Len(s) + 1 /\ r[i].in = last
    <3>1. i \notin 1 .. Len(s)
      BY <1>1, <2>1, <2>2
    <3>2. i = Len(s) + 1
      BY <1>1, <3>1
    <3> QED  BY <1>1, <3>2
  <2>3. \A k \in 1 .. Latency + 1 : CancelledAt(n, k) <=> k = last + 1
    BY <1>4, <1>6, <1>10
  <2> QED  BY <1>3, <1>8, <1>9, <2>2, <2>3, OneCancelIs, ZenonT(30) DEF r, n
<1>11. CASE c.type # "Cancel_Train"
  <2>1. \A k \in 1 .. Latency + 1 : CancelledAt(n, k) <=> CancelledAt(buffer, k)
    BY <1>4, <1>11
  <2>2. ASSUME NEW i \in DOMAIN r, r[i].cmd.type = "Cancel_Train" PROVE i \in DOMAIN s /\ r[i] = s[i]
    <3>1. i # Len(s) + 1
      BY <1>1, <1>11, <2>2
    <3>2. i \in 1 .. Len(s)
      BY <1>1, <3>1
    <3> QED  BY <1>1, <3>2
  <2>3. ASSUME NEW i \in DOMAIN r, r[i].cmd.type = "Cancel_Train"
        PROVE  /\ \A j \in DOMAIN r : r[j].cmd.type = "Cancel_Train" => j = i
               /\ \A k \in DOMAIN n : CancelledAt(n, k) => k = r[i].in + 1
               /\ CancelledAt(n, r[i].in + 1)
    <3>1. i \in DOMAIN s /\ r[i] = s[i] /\ s[i].cmd.type = "Cancel_Train"
      BY <2>2, <2>3
    <3>2. \A j \in DOMAIN r : r[j].cmd.type = "Cancel_Train" => j = i
      BY <1>5, <2>2, <3>1
    <3>3. \A k \in DOMAIN n : CancelledAt(n, k) => k = r[i].in + 1
      BY <1>2, <1>3, <1>5, <2>1, <3>1
    <3>4. CancelledAt(n, r[i].in + 1)
      BY <1>5, <2>1, <3>1
    <3> QED  BY <3>2, <3>3, <3>4
  <2>4. OneCancel(r, n)
    BY <2>3, OneCancelIs
  <2> QED  BY <1>9, <2>4 DEF r, n
<1> QED  BY <1>10, <1>11

\* The command may be given.
May(g, d, c) ==
  /\ c.type = "Train" => d.minerals >= Price[c.what]
  /\ c.type = "Cancel_Train" => d.training /\ c.what < Len(d.queue)
  /\ c.type = "Build_Addon" => ~d.placing /\ d.minerals >= AddonPrice
  /\ c.type = "Cancel_Addon" => g.addon = "begun"
  /\ c.type = "Research" => ~d.isResearching /\ d.minerals >= TechPrice

\* A command more on its way changes nothing before it.
LEMMA SamePrefix ==
  ASSUME NEW s \in Seq(Sent), NEW r \in Seq(Sent), Len(r) = Len(s) + 1,
         \A i \in 1 .. Len(s) : r[i] = s[i], NEW g, NEW h \in 0 .. Len(s)
  PROVE  /\ Trace(g, r, h) = Trace(g, s, h) /\ After(g, r, h) = After(g, s, h)
         /\ \A type : GivenUpTo(r, h, type) <=> GivenUpTo(s, h, type)
<1>1. Len(s) \in Nat /\ h <= Len(r) /\ \A i \in 1 .. h : s[i] = r[i]
  OBVIOUS
<1>2. Trace(g, s, h) = Trace(g, r, h)
  BY <1>1, TraceOfPrefix
<1> QED  BY <1>1, <1>2 DEF After, GivenUpTo

\* A command that may be given is paid for.
LEMMA GivePaid ==
  ASSUME LatencyAssumption, NEW t \in Game, NEW c \in SoundCommands, NEW g, NEW d, May(g, d, c),
         ~BeginAddon(t).full, ~BeginAddon(t).short, d.minerals = BeginAddon(t).minerals,
         c.type = "Build_Addon" => t.addon = "none",
         c.type = "Cancel_Addon" => t.addon # "placed",
         BeginAddon(Carry(t, c)).short
  PROVE  BeginAddon(Carry(t, c)).full
<1> DEFINE u == Carry(t, c)
           a == BeginAddon(t)
           b == BeginAddon(u)
<1>1. u \in Game /\ a \in Game /\ b \in Game /\ a.full = t.full /\ b.full = u.full /\ ~t.full /\ ~t.short
  <2>1. u \in Game
    BY CarryKeeps
  <2> QED  BY <2>1, BeginAddonFacts
<1>2. /\ t.addon = "placed" => t.minerals >= AddonPrice
      /\ a.minerals = IF t.addon = "placed" THEN t.minerals - AddonPrice ELSE t.minerals
  BY Moment
<1>3. /\ AddonPrice \in Nat /\ TechPrice \in Nat /\ t.minerals \in Int /\ u.minerals \in Int
      /\ t.tech \in BOOLEAN /\ t.addon \in {"none", "placed", "begun"}
  BY <1>1 DEF Game, LatencyAssumption
<1>4. SUFFICES ASSUME ~u.full PROVE FALSE
  BY <1>1
<1>5. /\ u.addon # "placed" => b = u
      /\ u.addon = "placed" /\ u.minerals >= AddonPrice => b.short = u.short
  <2>1. /\ u.addon # "placed" => b = u
        /\ u.addon = "placed" => b.short = u.short \/ u.minerals < AddonPrice
    BY <1>1, BeginAddonFacts
  <2> HIDE DEF u, b
  <2>2. u.minerals >= AddonPrice => ~(u.minerals < AddonPrice)
    BY <1>3
  <2> QED  BY <2>1, <2>2
<1> HIDE DEF u, a, b
<1>6. SUFFICES u.short = t.short /\ (u.addon = "placed" => u.minerals >= AddonPrice)
  BY <1>1, <1>5 DEF b, u
<1>7. CASE c.type = "Train"
  <2>1. /\ u.addon = t.addon /\ Price[c.what] \in Nat
        /\ \/ /\ t.minerals >= Price[c.what]
              /\ u.short = t.short /\ u.minerals = t.minerals - Price[c.what]
           \/ t.minerals < Price[c.what]
    BY <1>4, <1>7, CarryTrain DEF u
  <2>2. a.minerals >= Price[c.what]
    BY <1>7 DEF May, a
  <2> QED  BY <1>2, <1>3, <2>1, <2>2
<1>8. CASE c.type = "Cancel_Train"
  <2>1. u.addon = t.addon /\ u.short = t.short /\ u.minerals >= t.minerals
    BY <1>8, CarryCancelTrain DEF u
  <2> QED  BY <1>2, <1>3, <2>1
<1>9. CASE c.type = "Build_Addon"
  <2>1. u.short = t.short /\ u.minerals = t.minerals
    BY <1>9, CarryBuildAddon DEF u
  <2>2. a.minerals >= AddonPrice
    BY <1>9 DEF May, a
  <2> QED  BY <1>2, <1>9, <2>1, <2>2
<1>10. CASE c.type = "Cancel_Addon"
  <2>1. u.short = t.short /\ (u.addon = "placed" => t.addon = "placed")
    BY <1>10, CarryCancelAddon DEF u
  <2> QED  BY <1>10, <2>1
<1>11. CASE c.type = "Research"
  <2>1. /\ u.addon = t.addon
        /\ t.tech => u = t
        /\ ~t.tech /\ t.minerals >= TechPrice => u.minerals = t.minerals - TechPrice /\ u.short = t.short
    BY <1>11, CarryResearch DEF u
  <2>2. a.minerals >= TechPrice
    BY <1>11 DEF May, a
  <2>3. CASE t.tech
    BY <1>2, <2>1, <2>3
  <2>4. CASE ~t.tech
    <3>1. t.minerals >= TechPrice
      BY <1>2, <1>3, <2>2
    <3> QED  BY <1>2, <1>3, <2>1, <2>2, <2>4, <3>1
  <2> QED  BY <2>3, <2>4
<1>12. CASE c.type = "Cancel_Research"
  <2>1. /\ u.addon = t.addon /\ u.short = t.short
        /\ u.minerals = t.minerals + (IF t.tech THEN TechPrice ELSE 0)
    BY <1>12, CarryCancelResearch DEF u
  <2> QED  BY <1>2, <1>3, <2>1
<1> QED  BY <1>7, <1>8, <1>9, <1>10, <1>11, <1>12, CommandKinds

\* A command that may be given finds what it needs when it is carried out.
LEMMA GiveProspects ==
  ASSUME LatencyAssumption, NEW g, NEW s, Prospects(g, s), NEW d, Foreseen(g, s, d, Len(s)),
         NEW c \in SoundCommands, NEW last \in 1 .. Latency, May(g, d, c),
         c.type = "Cancel_Train" => QueueForeseen(g, s, d, Len(s))
  PROVE  Prospects(g, Append(s, [cmd |-> c, in |-> last]))
<1> DEFINE r == Append(s, [cmd |-> c, in |-> last])
           L == Len(s)
           t == Trace(g, s, L)
<1>1. g \in Game /\ s \in Seq(Sent)
  BY DEF Prospects
<1>2. /\ r \in Seq(Sent) /\ Len(r) = L + 1 /\ DOMAIN r = 1 .. L + 1 /\ L \in Nat
      /\ DOMAIN s = 1 .. L /\ L \in 0 .. L
      /\ \A i \in 1 .. L : r[i] = s[i]
      /\ r[L + 1].cmd = c /\ r[L + 1].in = last
  BY <1>1, SentMore
<1> HIDE DEF r
<1>3. \A h \in 0 .. L :
        /\ Trace(g, r, h) = Trace(g, s, h) /\ After(g, r, h) = After(g, s, h)
  BY <1>1, <1>2, SamePrefix
<1>4. /\ t \in Game /\ After(g, s, L) = BeginAddon(t) /\ Trace(g, r, L + 1) = Carry(t, c)
      /\ After(g, r, L + 1) = BeginAddon(Carry(t, c))
      /\ After(g, r, L).full => After(g, r, L + 1).full
      /\ After(g, s, L).full = t.full
  <2>1. t \in Game /\ After(g, s, L).full = t.full
    BY <1>1, <1>2, TraceGame
  <2>2. L \in 0 .. Len(r) - 1 /\ L \in 0 .. Len(r) /\ L # Len(r)
    <3>1. L \in Nat /\ Len(r) = L + 1
      BY <1>2
    <3> HIDE DEF L
    <3> QED  BY <3>1
  <2>3. Trace(g, r, L + 1) = Carry(Trace(g, r, L), r[L + 1].cmd)
    BY <1>2, <2>2, TraceStep, ZenonT(30)
  <2>4. Trace(g, r, L + 1) = Carry(t, c)
    BY <1>2, <1>3, <2>3
  <2>5. After(g, r, L).full => After(g, r, L + 1).full
    BY <1>1, <1>2, <2>2, TraceGame, ZenonT(30)
  <2> QED  BY <2>1, <2>4, <2>5 DEF After
<1>5. /\ c.type = "Build_Addon" => g.addon = "none" /\ ~GivenUpTo(s, L, "Build_Addon")
      /\ c.type = "Research" => ~g.tech /\ ~GivenUpTo(s, L, "Research")
      /\ c.type = "Cancel_Addon" => g.addon = "begun" /\ ~GivenUpTo(s, L, "Build_Addon")
  <2>1. g.addon \in {"none", "placed", "begun"}
    BY <1>1 DEF Game
  <2>2. g.addon = "begun" => ~GivenUpTo(s, L, "Build_Addon")
    BY <1>2 DEF Prospects, OneAddon, GivenUpTo
  <2> QED  BY <2>1, <2>2 DEF Foreseen, May
<1>6. \A i \in DOMAIN r : (i \in DOMAIN s /\ r[i] = s[i] /\ i < L + 1) \/ (i = L + 1 /\ r[i].cmd = c)
  BY <1>2
<1>7. OneAddon(g, r)
  <2>1. ASSUME NEW i \in DOMAIN r, r[i].cmd.type = "Build_Addon"
        PROVE  /\ g.addon = "none"
               /\ \A j \in DOMAIN r : r[j].cmd.type = "Build_Addon" => j = i
               /\ \A j \in DOMAIN r : r[j].cmd.type = "Cancel_Addon" => j < i
    <3>1. CASE i \in DOMAIN s /\ r[i] = s[i]
      <4>1. /\ g.addon = "none"
            /\ \A j \in DOMAIN s : s[j].cmd.type = "Build_Addon" => j = i
            /\ \A j \in DOMAIN s : s[j].cmd.type = "Cancel_Addon" => j < i
        BY <2>1, <3>1 DEF Prospects, OneAddon
      <4>2. c.type # "Build_Addon"
        BY <1>2, <1>5, <2>1, <3>1 DEF GivenUpTo
      <4>3. c.type # "Cancel_Addon"
        BY <1>5, <4>1
      <4> QED  BY <1>6, <4>1, <4>2, <4>3
    <3>2. CASE i = L + 1 /\ r[i].cmd = c
      <4>1. g.addon = "none" /\ c.type = "Build_Addon" /\ \A j \in DOMAIN s : s[j].cmd.type # "Build_Addon"
        BY <1>2, <1>5, <2>1, <3>2 DEF GivenUpTo
      <4> QED  BY <1>6, <3>2, <4>1
    <3> QED  BY <1>6, <3>1, <3>2
  <2>2. ASSUME g.addon = "placed", NEW i \in DOMAIN r PROVE r[i].cmd.type # "Cancel_Addon"
    <3>1. c.type # "Cancel_Addon"
      BY <1>5, <2>2
    <3>2. \A j \in DOMAIN s : s[j].cmd.type # "Cancel_Addon"
      BY <2>2 DEF Prospects, OneAddon
    <3> QED  BY <1>6, <3>1, <3>2
  <2> QED  BY <2>1, <2>2 DEF OneAddon
<1>8. OneResearch(g, r)
  <2>1. ASSUME NEW i \in DOMAIN r, r[i].cmd.type = "Research"
        PROVE  ~g.tech /\ \A j \in DOMAIN r : r[j].cmd.type = "Research" => j = i
    <3>1. CASE i \in DOMAIN s /\ r[i] = s[i]
      <4>1. ~g.tech /\ \A j \in DOMAIN s : s[j].cmd.type = "Research" => j = i
        BY <2>1, <3>1 DEF Prospects, OneResearch
      <4>2. c.type # "Research"
        BY <1>2, <1>5, <2>1, <3>1 DEF GivenUpTo
      <4> QED  BY <1>6, <4>1, <4>2
    <3>2. CASE i = L + 1 /\ r[i].cmd = c
      <4>1. ~g.tech /\ c.type = "Research" /\ \A j \in DOMAIN s : s[j].cmd.type # "Research"
        BY <1>2, <1>5, <2>1, <3>2 DEF GivenUpTo
      <4> QED  BY <1>6, <3>2, <4>1
    <3> QED  BY <1>6, <3>1, <3>2
  <2> QED  BY <2>1 DEF OneResearch
<1>9. \A h \in 0 .. L + 1 : h \in 0 .. L \/ h = L + 1
  BY <1>2
<1>10. AllPaid(g, r)
  <2>1. ASSUME After(g, r, L + 1).short, ~After(g, r, L + 1).full PROVE FALSE
    <3>1. ~After(g, s, L).full /\ ~After(g, s, L).short
      BY <1>2, <1>3, <1>4, <2>1 DEF Prospects, AllPaid
    <3>2. d.minerals = BeginAddon(t).minerals
      BY <1>4, <3>1 DEF Foreseen
    <3>3. /\ c.type = "Build_Addon" => t.addon = "none"
          /\ c.type = "Cancel_Addon" => t.addon # "placed"
      BY <1>1, <1>2, <1>5, TraceFacts
    <3> HIDE DEF t
    <3> QED  BY <1>4, <2>1, <3>1, <3>2, <3>3, GivePaid
  <2>2. \A h \in 0 .. L : After(g, r, h).short => After(g, r, h).full
    BY <1>3 DEF Prospects, AllPaid
  <2> QED  BY <1>2, <1>9, <2>1, <2>2 DEF AllPaid
<1>11. CancelsFind(g, r)
  <2>1. ASSUME NEW h \in DOMAIN r, r[h].cmd.type = "Cancel_Train", ~After(g, r, h).full
        PROVE  PlaceOf(Trace(g, r, h - 1), r[h].cmd) \in DOMAIN Trace(g, r, h - 1).queue
    <3>1. CASE h \in DOMAIN s /\ r[h] = s[h]
      <4>1. h \in 0 .. L /\ h - 1 \in 0 .. L
        BY <1>2, <3>1
      <4>2. PlaceOf(Trace(g, s, h - 1), s[h].cmd) \in DOMAIN Trace(g, s, h - 1).queue
        BY <1>3, <2>1, <3>1, <4>1 DEF Prospects, CancelsFind
      <4> QED  BY <1>3, <3>1, <4>1, <4>2
    <3>2. CASE h = L + 1 /\ r[h].cmd = c
      <4>1. h - 1 = L /\ Trace(g, r, h - 1) = t
        <5>1. h - 1 = L
          BY <1>2, <3>2
        <5> QED  BY <1>2, <1>3, <5>1
      <4>2. ~After(g, s, L).full
        BY <1>2, <1>3, <1>4, <2>1, <3>2
      <4>3. c.type = "Cancel_Train" /\ d.queue = t.queue /\ t.queue # <<>> /\ c.what < Len(t.queue)
        <5>1. c.type = "Cancel_Train" /\ d.training /\ c.what < Len(d.queue)
          BY <2>1, <3>2 DEF May
        <5> QED  BY <4>2, <5>1 DEF QueueForeseen
      <4>4. t.queue \in Seq(TrainKinds) /\ c.what \in {-2} \cup (Nat \ {0})
        BY <1>4, <4>3, CommandKinds DEF Game, LatencyAssumption
      <4> DEFINE q == t.queue
      <4>5. q \in Seq(TrainKinds) /\ q # <<>> /\ c.what < Len(q)
        BY <4>3, <4>4
      <4> HIDE DEF q
      <4>6. DOMAIN q = 1 .. Len(q) /\ Len(q) \in Nat /\ Len(q) # 0
        BY <4>5
      <4>7. CASE c.what = -2
        <5>1. Len(q) \in DOMAIN q
          BY <4>6
        <5> QED  BY <3>2, <4>1, <4>7, <5>1 DEF PlaceOf, q
      <4>8. CASE c.what # -2
        <5>1. c.what + 1 \in DOMAIN q
          <6>1. c.what \in Nat
            BY <4>4, <4>8
          <6> QED  BY <4>5, <4>6, <6>1
        <5> QED  BY <3>2, <4>1, <4>8, <5>1 DEF PlaceOf, q
      <4> QED  BY <4>7, <4>8
    <3> QED  BY <1>6, <3>1, <3>2
  <2> QED  BY <2>1 DEF CancelsFind
<1> QED  BY <1>1, <1>2, <1>7, <1>8, <1>10, <1>11 DEF Prospects, r

\* What a command shows when it is given.
LEMMA EffectsOfParts ==
  ASSUME NEW c \in SoundCommands, NEW d
  PROVE  LET x == ExecuteTemp(d, Event(c, "Resource"), FALSE) IN
         Effects(d, Parts(c), FALSE) =
           IF HasOrder(c) THEN ExecuteTemp(x, Event(c, "Order"), FALSE) ELSE x
<1> DEFINE p == Parts(c)
           y(n) == Effects(d, SubSeq(p, 1, n), FALSE)
<1>1. /\ p \in Seq(Events) /\ p[1] = Event(c, "Resource")
      /\ HasOrder(c) => p[2] = Event(c, "Order")
      /\ Len(p) = IF HasOrder(c) THEN 2 ELSE 1
  <2>1. Event(c, "Resource") \in Events /\ Event(c, "Order") \in Events
    BY EventIs
  <2>2. p = IF HasOrder(c) THEN <<Event(c, "Resource"), Event(c, "Order")>> ELSE <<Event(c, "Resource")>>
    BY DEF Parts, HasOrder
  <2> QED  BY <2>1, <2>2
<1> HIDE DEF p
<1>2. y(0) = d
  BY <1>1, ApplyStep, ZenonT(30)
<1>3. y(Len(p)) = Effects(d, p, FALSE)
  <2>1. SubSeq(p, 1, Len(p)) = p
    <3>1. p \in Seq(Events)
      BY <1>1
    <3> QED  BY <3>1
  <2> QED  BY <2>1
<1>4. \A n \in 0 .. Len(p) - 1 : y(n + 1) = ExecuteTemp(y(n), p[n + 1], FALSE)
  BY <1>1, ApplyStep, ZenonT(60)
<1> HIDE DEF y
<1>5. y(1) = ExecuteTemp(d, Event(c, "Resource"), FALSE)
  <2>1. 0 \in 0 .. Len(p) - 1 /\ 0 + 1 = 1
    BY <1>1
  <2> QED  BY <1>1, <1>2, <1>4, <2>1
<1>6. CASE HasOrder(c)
  <2>1. 1 \in 0 .. Len(p) - 1 /\ 1 + 1 = 2 /\ Len(p) = 2
    BY <1>1, <1>6
  <2>2. y(2) = ExecuteTemp(y(1), p[2], FALSE)
    BY <1>4, <2>1
  <2> QED  BY <1>1, <1>3, <1>5, <1>6, <2>1, <2>2 DEF p
<1>7. CASE ~HasOrder(c)
  <2>1. Len(p) = 1
    BY <1>1, <1>7
  <2> QED  BY <1>3, <1>5, <1>7, <2>1 DEF p
<1> QED  BY <1>6, <1>7

\* What is shown then is what will be.
LEMMA GiveForeseen ==
  ASSUME LatencyAssumption, NEW g, NEW s, Prospects(g, s), NEW d, Foreseen(g, s, d, Len(s)),
         NEW c \in SoundCommands, NEW last \in 1 .. Latency, May(g, d, c),
         c.type = "Cancel_Train" => QueueForeseen(g, s, d, Len(s))
  PROVE  LET r == Append(s, [cmd |-> c, in |-> last])
             f == Effects(d, Parts(c), FALSE)
         IN  /\ Foreseen(g, r, f, Len(r))
             /\ c.type # "Cancel_Train" /\ QueueForeseen(g, s, d, Len(s))
                  => QueueForeseen(g, r, f, Len(r))
<1> DEFINE r == Append(s, [cmd |-> c, in |-> last])
           f == Effects(d, Parts(c), FALSE)
           x == ExecuteTemp(d, Event(c, "Resource"), FALSE)
           L == Len(s)
<1>1. s \in Seq(Sent)
  BY DEF Prospects
<1>2. /\ r \in Seq(Sent) /\ Len(r) = L + 1 /\ L \in Nat
      /\ \A i \in 1 .. L : r[i] = s[i]
      /\ r[L + 1].cmd = c
  BY <1>1, SentMore
<1>3. Prospects(g, r)
  BY GiveProspects
<1> HIDE DEF r
<1>a. L \in 0 .. L
  BY <1>2
<1>4. /\ Trace(g, r, L) = Trace(g, s, L) /\ After(g, r, L) = After(g, s, L)
      /\ \A type : GivenUpTo(r, L, type) <=> GivenUpTo(s, L, type)
  <2>1. \A h \in 0 .. L :
          /\ Trace(g, r, h) = Trace(g, s, h) /\ After(g, r, h) = After(g, s, h)
          /\ \A type : GivenUpTo(r, h, type) <=> GivenUpTo(s, h, type)
    BY <1>1, <1>2, SamePrefix
  <2> HIDE DEF L
  <2> QED  BY <1>a, <2>1
<1> HIDE DEF L
<1>5. /\ Foreseen(g, r, d, L)
      /\ QueueForeseen(g, s, d, L) <=> QueueForeseen(g, r, d, L)
  BY <1>4 DEF Foreseen, QueueForeseen, L
<1>6. L \in 0 .. Len(r) - 1 /\ x = ExecuteTemp(d, Event(r[L + 1].cmd, "Resource"), FALSE)
  BY <1>2
<1>7. c.type = "Cancel_Train" => QueueForeseen(g, r, d, L)
  BY <1>5 DEF L
<1> HIDE DEF x, f
<1>8. /\ Foreseen(g, r, x, L + 1)
      /\ c.type # "Cancel_Train" /\ QueueForeseen(g, r, d, L) => QueueForeseen(g, r, x, L + 1)
  BY <1>2, <1>3, <1>5, <1>6, <1>7, ResourceForeseen
<1> DEFINE e == Event(c, "Order")
<1>9. f = IF HasOrder(c) THEN ExecuteTemp(x, e, FALSE) ELSE x
  BY EffectsOfParts DEF f, x
<1>10. CASE ~HasOrder(c)
  BY <1>2, <1>5, <1>8, <1>9, <1>10 DEF f, r, L
<1>11. CASE HasOrder(c)
  <2>1. e \in Events /\ IsOrder(e) /\ e.cmd = c
    BY <1>11, EventIs DEF IsOrder, HasOrder
  <2> HIDE DEF e
  <2>2. /\ Foreseen(g, r, ExecuteTemp(x, e, FALSE), L + 1)
        /\ c.type # "Cancel_Train" /\ QueueForeseen(g, r, x, L + 1)
             => QueueForeseen(g, r, ExecuteTemp(x, e, FALSE), L + 1)
    BY <1>8, <2>1, OrderForeseen
  <2> QED  BY <1>2, <1>5, <1>8, <1>9, <1>11, <2>2 DEF f, r, L
<1> QED  BY <1>10, <1>11

\* The state after a command is settled.
LEMMA GiveSettled ==
  ASSUME LatencyAssumption, NEW a, NEW g, NEW s, NEW buffer, NEW d,
         Settled(a, g, s, buffer, d), NEW c \in SoundCommands, May(g, d, c),
         c.type = "Cancel_Train" => NothingCancelled(buffer)
  PROVE  Settled(a, g, Append(s, [cmd |-> c, in |-> Latency - a]),
                 Inserted(buffer, Latency - a, c), Effects(d, Parts(c), FALSE))
<1> DEFINE last == Latency - a
           r == Append(s, [cmd |-> c, in |-> last])
           n == Inserted(buffer, last, c)
           f == Effects(d, Parts(c), FALSE)
<1>1. /\ a \in 0 .. Turn - 1 /\ Prospects(g, s) /\ InTime(s, a) /\ BufferHolds(s, buffer)
      /\ OneCancel(s, buffer) /\ Foreseen(g, s, d, Len(s))
      /\ NothingCancelled(buffer) => QueueForeseen(g, s, d, Len(s))
  BY DEF Settled
<1>2. last \in 1 .. Latency /\ Latency \in Nat \ {0}
  BY <1>1 DEF LatencyAssumption
<1>3. s \in Seq(Sent) /\ \A i \in DOMAIN s : s[i].in <= last
  BY <1>1 DEF Prospects, InTime
<1>4. InTime(r, a)
  <2>1. /\ DOMAIN r = 1 .. Len(s) + 1 /\ DOMAIN s = 1 .. Len(s) /\ Len(s) \in Nat
        /\ \A i \in 1 .. Len(s) : r[i] = s[i]
        /\ r[Len(s) + 1].in = last
    BY <1>2, <1>3, SentMore
  <2> HIDE DEF r
  <2>2. ASSUME NEW i \in DOMAIN r PROVE r[i].in <= last
    <3>1. CASE i = Len(s) + 1
      <4>1. r[i].in = last
        BY <2>1, <3>1
      <4> QED  BY <1>2, <4>1
    <3>2. CASE i # Len(s) + 1
      <4>1. i \in 1 .. Len(s)
        BY <2>1, <3>2
      <4> QED  BY <1>3, <2>1, <4>1
    <3> QED  BY <3>1, <3>2
  <2> QED  BY <2>2 DEF InTime
<1> HIDE DEF last
<1>5. BufferHolds(r, n)
  BY <1>1, <1>2, <1>3, GiveBufferHolds
<1>6. OneCancel(r, n) /\ (NothingCancelled(n) => NothingCancelled(buffer) /\ c.type # "Cancel_Train")
  BY <1>1, <1>2, <1>3, GiveOneCancel
<1>7. c.type = "Cancel_Train" => QueueForeseen(g, s, d, Len(s))
  BY <1>1
<1>8. Prospects(g, r)
  BY <1>1, <1>2, <1>7, GiveProspects
<1>9. /\ Foreseen(g, r, f, Len(r))
      /\ c.type # "Cancel_Train" /\ QueueForeseen(g, s, d, Len(s)) => QueueForeseen(g, r, f, Len(r))
  BY <1>1, <1>2, <1>7, GiveForeseen
<1> HIDE DEF r, n, f
<1>10. Settled(a, g, r, n, f)
  BY <1>1, <1>4, <1>5, <1>6, <1>8, <1>9 DEF Settled
<1> QED  BY <1>10 DEF r, n, f, last

-----------------------------------------------------------------------------
(* The specification.                                                      *)

\* The invariant.
IsSettled == Settled(age, game, sent, commandBuffer, shown)

\* The match begins settled.
LEMMA InitSettled ==
  ASSUME LatencyAssumption, LatencyInit PROVE IsSettled
<1> DEFINE g == game
<1>1. /\ Latency \in Nat \ {0} /\ Latency \in Nat /\ Turn \in Nat \ {0} /\ AddonPrice \in Nat
      /\ Wealth \subseteq Nat
  BY DEF LatencyAssumption
<1>2. /\ g \in Game /\ g.addon = "none" /\ g.queue = <<>> /\ g.seen = <<>>
      /\ ~g.tech /\ ~g.short /\ ~g.full
  BY <1>1 DEF LatencyInit, Game
<1>3. sent = <<>> /\ age = 0 /\ shown = Read(g) /\ commandBuffer = [k \in 1 .. Latency + 1 |-> <<>>]
  BY DEF LatencyInit
<1> HIDE DEF g
<1>4. sent \in Seq(Sent) /\ DOMAIN sent = {} /\ Len(sent) = 0
  BY <1>3
<1>5. Trace(g, sent, 0) = g /\ After(g, sent, 0) = g
  <2>1. BeginAddon(g) = g
    BY <1>2, BeginAddonFacts
  <2>2. Trace(g, sent, 0) = BeginAddon(g)
    BY <1>4, TraceStep
  <2> QED  BY <2>1, <2>2 DEF After
<1>6. Prospects(g, sent)
  <2>1. AllPaid(g, sent)
    <3>1. \A h \in 0 .. Len(sent) : h = 0
      BY <1>4
    <3> QED  BY <1>2, <1>5, <3>1 DEF AllPaid
  <2> QED  BY <1>2, <1>4, <2>1 DEF Prospects, OneAddon, OneResearch, CancelsFind
<1>7. InTime(sent, age) /\ OneCancel(sent, commandBuffer) /\ age \in 0 .. Turn - 1
  BY <1>1, <1>3, <1>4 DEF InTime, OneCancel
<1>8. BufferHolds(sent, commandBuffer)
  <2>1. commandBuffer \in Seq(Seq(Events)) /\ Len(commandBuffer) = Latency + 1
    <3>1. commandBuffer \in [1 .. Latency + 1 -> Seq(Events)] /\ Latency + 1 \in Nat
      BY <1>1, <1>3
    <3> DEFINE S == Seq(Events)
    <3> HIDE DEF S
    <3>2. commandBuffer \in [1 .. Latency + 1 -> S]
      BY <3>1 DEF S
    <3>3. commandBuffer \in Seq(S) /\ Len(commandBuffer) = Latency + 1
      BY <3>1, <3>2, IsASeq
    <3> QED  BY <3>3 DEF S
  <2>2. ASSUME NEW k \in 1 .. Latency + 1 PROVE SlotHolds(sent, commandBuffer[k], k)
    <3>1. commandBuffer[k] = <<>>
      BY <1>3
    <3>2. Reaches(sent, k - 1, 0) /\ Reaches(sent, k, 0)
      BY <1>4 DEF Reaches
    <3>3. Holds(sent, <<>>, 0, 0, 0)
      BY DEF Holds
    <3>4. 0 \in 0 .. Len(sent) /\ 0 \in 0 .. Len(<<>>)
      BY <1>4
    <3> QED  BY <3>1, <3>2, <3>3, <3>4 DEF SlotHolds
  <2> QED  BY <2>1, <2>2 DEF BufferHolds
<1>9. Foreseen(g, sent, shown, Len(sent)) /\ QueueForeseen(g, sent, shown, Len(sent))
  <2>1. /\ DOMAIN shown = DataFields /\ shown.minerals = g.minerals /\ shown.tech = g.tech
        /\ shown.addon = (g.addon = "begun")
        /\ shown.queue = g.seen /\ shown.training = (g.seen # <<>>)
    BY <1>3 DEF Read, DataFields
  <2>2. \A type : ~GivenUpTo(sent, 0, type)
    BY DEF GivenUpTo
  <2> QED  BY <1>2, <1>4, <1>5, <2>1, <2>2 DEF Foreseen, QueueForeseen
<1> QED  BY <1>6, <1>7, <1>8, <1>9 DEF IsSettled, Settled, g

\* The commands that Brood War carries out are those due.
LEMMA ReadyReaches ==
  ASSUME LatencyAssumption, IsSettled
  PROVE  Reaches(sent, 1, ReadyCount)
<1>1. sent \in Seq(Sent) /\ BufferHolds(sent, commandBuffer) /\ Latency \in Nat
  BY DEF IsSettled, Settled, Prospects, LatencyAssumption
<1>2. PICK u \in 0 .. Len(sent) : Reaches(sent, 1, u)
  <2>1. 1 \in 1 .. Latency + 1
    BY <1>1
  <2>2. SlotHolds(sent, commandBuffer[1], 1)
    BY <1>1, <2>1 DEF BufferHolds
  <2> QED  BY <2>2 DEF SlotHolds
<1>3. \A i \in DOMAIN sent : sent[i].in <= 1 <=> sent[i].in = 1
  <2>1. \A i \in DOMAIN sent : sent[i].in \in 1 .. Latency
    BY <1>1, SentIs
  <2> QED  BY <1>1, <2>1
<1>4. \A i \in DOMAIN sent : sent[i].in = 1 <=> i <= u
  BY <1>2, <1>3 DEF Reaches
<1>5. ReadyCount \in 0 .. Len(sent) /\ \A i \in DOMAIN sent : sent[i].in = 1 <=> i <= ReadyCount
  BY <1>4 DEF ReadyCount
<1> QED  BY <1>3, <1>5 DEF Reaches

\* A frame keeps the invariant, by FrameSettled.
LEMMA FrameKeepsSettled ==
  ASSUME LatencyAssumption, IsSettled, LatencyFrame PROVE IsSettled'
<1> DEFINE u == ReadyCount
<1>1. Reaches(sent, 1, u)
  BY ReadyReaches
<1>2. sent \in Seq(Sent) /\ Len(sent) \in Nat /\ u \in 0 .. Len(sent)
  BY <1>1, SentIs DEF IsSettled, Settled, Prospects, Reaches
<1>3. game' = Following(game, sent, u)
  BY DEF LatencyFrame, NextGame, Due, Following, Trace
<1>4. sent' = Remaining(sent, u)
  <2> HIDE DEF u
  <2> DEFINE l == SubSeq(sent, u + 1, Len(sent))
  <2>1. DOMAIN l = 1 .. Len(sent) - u /\ \A i \in 1 .. Len(sent) - u : l[i] = sent[u + i]
    <3>1. l = [i \in 1 .. Len(sent) - u |-> sent[u + i]]
      <4>1. Len(sent) - (u + 1) + 1 = Len(sent) - u /\ \A i \in 1 .. Len(sent) - u : i + (u + 1) - 1 = u + i
        BY <1>2
      <4> QED  BY <1>2, <4>1
    <3> QED  BY <3>1
  <2>2. sent' = [i \in DOMAIN l |-> [l[i] EXCEPT !.in = @ - 1]]
    BY DEF LatencyFrame, Later, u
  <2> HIDE DEF l
  <2>3. sent' = [i \in 1 .. Len(sent) - u |-> [sent[u + i] EXCEPT !.in = @ - 1]]
    BY <2>1, <2>2
  <2> QED  BY <2>3 DEF Remaining
<1> HIDE DEF u
<1> DEFINE b == (age + 1) % Turn
<1>5. b \in 0 .. Turn - 1 /\ (b = age + 1 \/ b = 0)
  <2>1. age \in 0 .. Turn - 1 /\ Turn \in Nat \ {0}
    BY DEF IsSettled, Settled, LatencyAssumption
  <2>2. CASE age + 1 = Turn
    BY <2>1, <2>2
  <2>3. CASE age + 1 # Turn
    BY <2>1, <2>3
  <2> QED  BY <2>2, <2>3
<1>6. age' = b /\ commandBuffer' = Append(Tail(commandBuffer), <<>>)
  BY DEF LatencyFrame
<1>7. shown' = Predict(Effects(Read(Following(game, sent, u)), commandBuffer[1], TRUE),
                       Append(Tail(commandBuffer), <<>>), Latency - b)
  <2>1. Head(commandBuffer) = commandBuffer[1]
    <3>1. commandBuffer \in Seq(Seq(Events)) /\ Len(commandBuffer) = Latency + 1
      BY DEF IsSettled, Settled, BufferHolds
    <3> QED  BY <3>1
  <2>2. NextGame = Following(game, sent, u)
    BY <1>3 DEF LatencyFrame
  <2>3. shown' = Predict(Reserve(Read(NextGame), Head(commandBuffer)),
                         commandBuffer', Latency - age')
    BY DEF LatencyFrame
  <2> QED  BY <1>6, <2>1, <2>2, <2>3 DEF Reserve
<1> HIDE DEF b
<1>8. Settled(b, Following(game, sent, u), Remaining(sent, u), Append(Tail(commandBuffer), <<>>),
              Predict(Effects(Read(Following(game, sent, u)), commandBuffer[1], TRUE),
                      Append(Tail(commandBuffer), <<>>), Latency - b))
  BY <1>1, <1>2, <1>5, FrameSettled DEF IsSettled
<1>9. Settled(age', game', sent', commandBuffer', shown')
  BY <1>3, <1>4, <1>6, <1>7, <1>8
<1> QED  BY <1>9 DEF IsSettled

\* No slot of the buffer has the end of a cancellation in it.
LEMMA NoCancelAtFirst ==
  ASSUME Cancels = {} PROVE NothingCancelled(commandBuffer)
<1>1. ASSUME NEW k \in DOMAIN commandBuffer, NEW e \in DOMAIN commandBuffer[k],
             CancelOrder(commandBuffer[k][e])
      PROVE  FALSE
  <2>1. commandBuffer[k][e] \in ToSet(commandBuffer[k])
    BY DEF ToSet
  <2>2. k \in Cancels
    BY <1>1, <2>1 DEF Cancels, CancelOrder, IsCancel
  <2> QED  BY <2>2
<1> QED  BY <1>1 DEF NothingCancelled

\* A command keeps the invariant, by GiveSettled.
LEMMA GiveKeepsSettled ==
  ASSUME LatencyAssumption, IsSettled, NEW c \in CostlyCommands, Give(c), Foreseeable(c)
  PROVE  IsSettled'
<1>1. CanIssue(c) /\ c \in SoundCommands /\ (c.type = "Cancel_Train" => Cancels = {})
  BY DEF Give, Foreseeable, SoundCommands
<1>2. May(game, shown, c)
  BY <1>1 DEF May, CanIssue
<1>3. c.type = "Cancel_Train" => NothingCancelled(commandBuffer)
  BY <1>1, NoCancelAtFirst
<1>4. Insert(c) = Inserted(commandBuffer, Latency - age, c)
  BY DEF Insert, Inserted, RemainingLatencyFrames
<1>5. Settled(age, game, Append(sent, [cmd |-> c, in |-> Latency - age]),
              Inserted(commandBuffer, Latency - age, c), Effects(shown, Parts(c), FALSE))
  BY <1>1, <1>2, <1>3, GiveSettled DEF IsSettled
<1>6. /\ age' = age /\ game' = game
      /\ sent' = Append(sent, [cmd |-> c, in |-> Latency - age])
      /\ commandBuffer' = Inserted(commandBuffer, Latency - age, c)
      /\ shown' = Effects(shown, Parts(c), FALSE)
  BY <1>4 DEF Give, RemainingLatencyFrames
<1>7. Settled(age', game', sent', commandBuffer', shown')
  BY <1>5, <1>6
<1> QED  BY <1>7 DEF IsSettled

\* What is on its way is paid for, and what is shown is foreseen, in every state.
THEOREM AlwaysSettled ==
  ASSUME LatencyAssumption
  PROVE  LatencySpec /\ [][CancelsAreForeseeable]_latencyVars => []IsSettled
<1>1. LatencyInit => IsSettled
  BY InitSettled
<1>2. ASSUME IsSettled, [LatencyNext]_latencyVars, [CancelsAreForeseeable]_latencyVars
      PROVE  IsSettled'
  <2>1. CASE LatencyFrame
    BY <1>2, <2>1, FrameKeepsSettled
  <2>2. CASE CancelsAreForeseeable /\ \E c \in CostlyCommands : Give(c)
    <3>1. PICK c \in CostlyCommands : Give(c)
      BY <2>2
    <3>2. Foreseeable(c)
      BY <2>2, <3>1 DEF CancelsAreForeseeable
    <3> QED  BY <1>2, <3>1, <3>2, GiveKeepsSettled
  <2>3. CASE UNCHANGED latencyVars
    <3>1. /\ age' = age /\ game' = game /\ sent' = sent /\ commandBuffer' = commandBuffer
          /\ shown' = shown
      BY <2>3 DEF latencyVars
    <3>2. Settled(age', game', sent', commandBuffer', shown')
      BY <1>2, <3>1 DEF IsSettled
    <3> QED  BY <3>2 DEF IsSettled
  <2> QED  BY <1>2, <2>1, <2>2, <2>3 DEF LatencyNext
<1> QED  BY <1>1, <1>2, PTL DEF LatencySpec

\* Minerals that are short now would be short when nothing more is carried out.
LEMMA SettledIsPaid ==
  ASSUME LatencyAssumption, IsSettled PROVE CommandsArePaid
<1>1. game \in Game /\ sent \in Seq(Sent) /\ AllPaid(game, sent)
  BY DEF IsSettled, Settled, Prospects
<1>2. After(game, sent, 0) = BeginAddon(BeginAddon(game)) /\ 0 \in 0 .. Len(sent)
  <2>1. Trace(game, sent, 0) = BeginAddon(game)
    BY <1>1, TraceStep
  <2> QED  BY <1>1, <2>1, SentIs DEF After
<1>3. BeginAddon(game) \in Game
  BY <1>1, BeginAddonFacts
<1>4. game.short => BeginAddon(BeginAddon(game)).short
  <2>1. game.short => BeginAddon(game).short
    BY <1>1, BeginAddonFacts
  <2>2. BeginAddon(game).short => BeginAddon(BeginAddon(game)).short
    BY <1>3, BeginAddonFacts
  <2> QED  BY <2>1, <2>2
<1>5. BeginAddon(BeginAddon(game)).full = game.full
  <2>1. BeginAddon(game).full = game.full
    BY <1>1, BeginAddonFacts
  <2>2. BeginAddon(BeginAddon(game)).full = BeginAddon(game).full
    BY <1>3, BeginAddonFacts
  <2> QED  BY <2>1, <2>2
<1>6. After(game, sent, 0).short => After(game, sent, 0).full
  BY <1>1, <1>2 DEF AllPaid
<1> QED  BY <1>2, <1>4, <1>5, <1>6 DEF CommandsArePaid

\* The outcome is the match after all commands under way.
LEMMA SettledIsShown ==
  ASSUME LatencyAssumption, IsSettled PROVE OutcomeIsShown
<1>1. sent \in Seq(Sent) /\ Foreseen(game, sent, shown, Len(sent))
  BY DEF IsSettled, Settled, Prospects
<1>2. SubSeq(sent, 1, Len(sent)) = sent
  <2>1. sent \in Seq(Sent)
    BY <1>1
  <2> QED  BY <2>1
<1>3. Outcome = After(game, sent, Len(sent))
  BY <1>2 DEF Outcome, After, Trace
<1> QED  BY <1>1, <1>3 DEF Foreseen, OutcomeIsShown

\* No command is refused for want of minerals that the AI was shown (canMake, "to
\* protect bots from overspending"), unless the queue was full, if the AI cancels
\* neither the first slot nor a unit while the cancellation of another is under way.
THEOREM CommandsWillBePaid ==
  ASSUME LatencyAssumption
  PROVE  LatencySpec /\ [][CancelsAreForeseeable]_latencyVars => []CommandsArePaid
<1>1. IsSettled => CommandsArePaid
  BY SettledIsPaid
<1> QED  BY <1>1, AlwaysSettled, PTL

\* What the same AI is shown is what it will have (CommandTemp::execute).
THEOREM TheOutcomeIsForeseen ==
  ASSUME LatencyAssumption
  PROVE  LatencySpec /\ [][CancelsAreForeseeable]_latencyVars => []OutcomeIsShown
<1>1. IsSettled => OutcomeIsShown
  BY SettledIsShown
<1> QED  BY <1>1, AlwaysSettled, PTL
=============================================================================

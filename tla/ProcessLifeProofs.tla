--------------------------- MODULE ProcessLifeProofs ---------------------------
(***************************************************************************)
(* The counts, the names and the ledgers of process slots, proved for any  *)
(* number of slots, windows, mappings and any limits.  No invariant of     *)
(* ProcessLife is inductive by itself: a slot is handed on clean because   *)
(* its count was exact, the count of a Mapping can be written off with its *)
(* owner because nobody else ever holds it, and the credit of an unmapped  *)
(* row is covered because no Mapping names a row of the image.  LifeInv    *)
(* states the parts together.                                              *)
(***************************************************************************)
EXTENDS ProcessLife, FiniteSetTheorems, FunctionTheorems, SequenceTheorems,
        WellFoundedInduction, TLAPS

Tables == [Slots -> [Objects -> 0..MaxHandles]]
Attached == [Slots -> {None} \cup [by : Slots, once : BOOLEAN]]

\* The entries that name o, and the attachments that watch it.
HeldBy(h, o) == {e \in Slots \X (1..MaxHandles) : e[2] <= h[e[1]][o]}
Watchers(a, o) == {s \in Slots : o = Proc(s) /\ a[s] # None}

Counted(r, h, a) ==
    \A o \in Objects : r[o] = Cardinality(HeldBy(h, o)) + Cardinality(Watchers(a, o))

InSlabs ==
    /\ \A k \in Windows : io[k] # None <=> refs[Io(k)] > 0
    /\ \A m \in Maps : maps[m] # None <=> refs[Mapping(m)] > 0

CleanSlots ==
    /\ \A s \in Slots : st[s] = "Free" => refs[Proc(s)] = 0
    /\ \A s \in Slots : st[s] \in {"Free", "Gone"} =>
         (\A o \in Objects : held[s][o] = 0) /\ rows[s] = <<>> /\ used[s].maps = 0
    /\ \A s \in Slots : att[s] # None => st[att[s].by] = "Running"

MapsLive ==
    /\ \A m \in Maps : maps[m] # None =>
         /\ st[maps[m].owner] = "Running"
         /\ maps[m].row # None => st[maps[m].target] \in {"Created", "Running"}
    /\ \A m \in Maps, p \in Slots : held[p][Mapping(m)] > 0 =>
         maps[m] # None /\ maps[m].owner = p

RowsCounted ==
    /\ \A t \in Slots : st[t] \in {"Created", "Running"} =>
         Len(rows[t]) = ImageRows + used[t].maps
    /\ \A t \in Slots : \A i \in DOMAIN rows[t] : rows[t][i] \in Maps => i > ImageRows

Charged(u, w) ==
    \A p \in Slots : u[p].windows <= Cardinality({k \in Windows : w[k] = p})

LifeInv ==
    /\ TypeOK
    /\ Counted(refs, held, att)
    /\ InSlabs
    /\ CleanSlots
    /\ MapsLive
    /\ RowsAgree
    /\ RowsCounted
    /\ Charged(used, io)

(***************************************************************************)
(* Numbers, sets and tables.                                               *)
(***************************************************************************)
LEMMA Numbers ==
  /\ NSlots \in Nat /\ NSlots > 0 /\ NWindows \in Nat /\ NWindows > 0 /\ NMaps \in Nat
  /\ MaxHandles \in Nat /\ MaxHandles >= 2 /\ QuotaHandles \in Nat /\ QuotaHandles <= MaxHandles
  /\ RowBudget \in Nat /\ ImageRows \in Nat /\ ImageRows <= RowBudget
  /\ Slots \in SUBSET Nat /\ Windows \in SUBSET Nat /\ Maps \in SUBSET Nat
  /\ Root \in Slots /\ 1 \in Windows
  /\ None \notin Slots /\ None \notin Nat
  /\ None \notin [by : Slots, once : BOOLEAN]
  /\ None \notin [owner : Slots, target : Slots, row : {None} \cup 1..RowBudget]
  /\ Unnamed \notin Maps
<1>1. /\ NSlots \in Nat /\ NSlots > 0 /\ NWindows \in Nat /\ NWindows > 0 /\ NMaps \in Nat
      /\ MaxHandles \in Nat /\ MaxHandles >= 2 /\ QuotaHandles \in Nat /\ QuotaHandles <= MaxHandles
      /\ RowBudget \in Nat /\ ImageRows \in Nat /\ QuotaMaps \in Nat
      /\ ImageRows + QuotaMaps <= RowBudget /\ None \notin Nat
  BY LifeAssumption
<1>2. Slots \in SUBSET Nat /\ Windows \in SUBSET Nat /\ Maps \in SUBSET Nat
  BY <1>1 DEF Slots, Windows, Maps
<1>3. Root \in Slots /\ 1 \in Windows /\ Unnamed \notin Maps
  BY <1>1 DEF Slots, Windows, Maps, Root, Unnamed
<1>4. [by : Slots, once : BOOLEAN] \subseteq [by : Nat, once : BOOLEAN]
  BY <1>2
<1>5. [owner : Slots, target : Slots, row : {None} \cup 1..RowBudget]
        \subseteq [owner : Nat, target : Nat, row : {None} \cup Nat]
  <2> DEFINE A == {None} \cup 1..RowBudget
             B == {None} \cup Nat
  <2>1. A \subseteq B
    BY <1>1
  <2> HIDE DEF A, B
  <2>2. [owner : Slots, target : Slots, row : A] \subseteq [owner : Nat, target : Nat, row : B]
    BY <2>1, <1>2
  <2> QED BY <2>2 DEF A, B
<1>6. /\ None \notin [by : Slots, once : BOOLEAN]
      /\ None \notin [owner : Slots, target : Slots, row : {None} \cup 1..RowBudget]
  BY <1>4, <1>5, LifeAssumption
<1>7. ImageRows <= RowBudget
  BY <1>1
<1>8. None \notin Slots
  BY <1>1, <1>2
<1> QED BY <1>1, <1>2, <1>3, <1>6, <1>7, <1>8

LEMMA Names ==
  /\ \A s \in Slots : Proc(s) \in Objects
  /\ \A k \in Windows : Io(k) \in Objects
  /\ \A m \in Maps : Mapping(m) \in Objects
  /\ \A s, t \in Slots : Proc(s) = Proc(t) => s = t
  /\ \A k, n \in Windows : Io(k) = Io(n) => k = n
  /\ \A m, n \in Maps : Mapping(m) = Mapping(n) => m = n
  /\ \A s \in Slots, k \in Windows : Proc(s) # Io(k)
  /\ \A s \in Slots, m \in Maps : Proc(s) # Mapping(m)
  /\ \A k \in Windows, m \in Maps : Io(k) # Mapping(m)
<1>1. /\ \A s \in Slots : Proc(s) \in Objects
      /\ \A k \in Windows : Io(k) \in Objects
      /\ \A m \in Maps : Mapping(m) \in Objects
  BY DEF Objects
<1> QED BY <1>1 DEF Proc, Io, Mapping

LEMMA Kinds ==
  ASSUME NEW o \in Objects
  PROVE  \/ \E s \in Slots : o = Proc(s)
         \/ \E k \in Windows : o = Io(k)
         \/ \E m \in Maps : o = Mapping(m)
BY DEF Objects

LEMMA FiniteSlabs ==
  /\ IsFiniteSet(Slots) /\ IsFiniteSet(Windows) /\ IsFiniteSet(Maps)
  /\ IsFiniteSet(1..MaxHandles)
  /\ Cardinality(Windows) = NWindows
<1>1. 0 \in Int /\ 1 \in Int /\ NSlots - 1 \in Int /\ NWindows \in Int /\ NMaps \in Int
      /\ MaxHandles \in Int /\ NWindows > 0
  BY Numbers
<1>2. IsFiniteSet(Slots)
  BY <1>1, FS_Interval DEF Slots
<1>3. IsFiniteSet(Windows) /\ Cardinality(Windows) = NWindows
  BY <1>1, FS_Interval DEF Windows
<1>4. IsFiniteSet(Maps)
  BY <1>1, FS_Interval DEF Maps
<1>5. IsFiniteSet(1..MaxHandles)
  BY <1>1, FS_Interval
<1> QED BY <1>2, <1>3, <1>4, <1>5

LEMMA FiniteNames == IsFiniteSet(Objects)
<1> DEFINE P == {Proc(s) : s \in Slots}
           I == {Io(k) : k \in Windows}
           M == {Mapping(m) : m \in Maps}
           p == [s \in Slots |-> Proc(s)]
           i == [k \in Windows |-> Io(k)]
           n == [m \in Maps |-> Mapping(m)]
<1>1. p \in Surjection(Slots, P)
  BY DEF Surjection
<1>2. i \in Surjection(Windows, I)
  BY DEF Surjection
<1>3. n \in Surjection(Maps, M)
  BY DEF Surjection
<1>4. IsFiniteSet(P) /\ IsFiniteSet(I) /\ IsFiniteSet(M)
  <2> HIDE DEF P, I, M, p, i, n
  <2> QED BY <1>1, <1>2, <1>3, FiniteSlabs, FS_Surjection
<1>5. IsFiniteSet((P \cup I) \cup M)
  <2> HIDE DEF P, I, M
  <2>1. IsFiniteSet(P \cup I)
    BY <1>4, FS_Union
  <2> QED BY <2>1, <1>4, FS_Union
<1> QED BY <1>5 DEF Objects

LEMMA LowestFreeIn ==
  ASSUME NEW Free \in SUBSET Nat, Free # {}
  PROVE  LowestFree(Free) \in Free
<1> DEFINE Lt == {ss \in Nat \X Nat : ss[1] < ss[2]}
<1>1. IsWellFoundedOn(Lt, Nat)
  BY NatLessThanWellFounded DEF OpToRel
<1>2. PICK n \in Free : \A m \in Free : <<m, n>> \notin Lt
  BY <1>1, WFMin
<1>3. ASSUME NEW m \in Free PROVE n <= m
  <2>1. m \in Nat /\ n \in Nat /\ <<m, n>> \in Nat \X Nat
    OBVIOUS
  <2>2. ~(m < n)
    BY <1>2, <2>1
  <2> QED BY <2>1, <2>2
<1>4. \E x \in Free : \A y \in Free : x <= y
  BY <1>3
<1> QED BY <1>4 DEF LowestFree

(***************************************************************************)
(* Counting.                                                               *)
(***************************************************************************)
LEMMA FiniteHeldBy ==
  ASSUME NEW h, NEW o
  PROVE  IsFiniteSet(HeldBy(h, o)) /\ Cardinality(HeldBy(h, o)) \in Nat
<1>1. IsFiniteSet(Slots \X (1..MaxHandles))
  BY FiniteSlabs, FS_Product
<1>2. HeldBy(h, o) \in SUBSET (Slots \X (1..MaxHandles))
  BY DEF HeldBy
<1>3. IsFiniteSet(HeldBy(h, o))
  BY <1>1, <1>2, FS_Subset
<1> QED BY <1>3, FS_CardinalityType

LEMMA WatcherCount ==
  ASSUME NEW a, NEW s \in Slots
  PROVE  /\ Watchers(a, Proc(s)) = IF a[s] = None THEN {} ELSE {s}
         /\ Cardinality(Watchers(a, Proc(s))) = IF a[s] = None THEN 0 ELSE 1
<1>1. Watchers(a, Proc(s)) = IF a[s] = None THEN {} ELSE {s}
  BY Names DEF Watchers
<1> QED BY <1>1, FS_EmptySet, FS_Singleton

LEMMA Unwatchable ==
  ASSUME NEW a, NEW o, \A s \in Slots : o # Proc(s)
  PROVE  Watchers(a, o) = {} /\ Cardinality(Watchers(a, o)) = 0
<1>1. Watchers(a, o) = {}
  BY DEF Watchers
<1> QED BY <1>1, FS_EmptySet

LEMMA WatchersNat ==
  ASSUME NEW a, NEW o \in Objects
  PROVE  Cardinality(Watchers(a, o)) \in Nat
<1>1. CASE \E s \in Slots : o = Proc(s)
  BY <1>1, WatcherCount
<1>2. CASE \A s \in Slots : o # Proc(s)
  BY <1>2, Unwatchable
<1> QED BY <1>1, <1>2

\* What a handle entry adds to a count.
LEMMA BindCount ==
  ASSUME NEW h \in Tables, NEW p \in Slots, NEW o \in Objects, h[p][o] < MaxHandles
  PROVE  /\ Bind(h, p, o) \in Tables
         /\ \A q \in Slots, x \in Objects :
              Bind(h, p, o)[q][x] = IF q = p /\ x = o THEN h[p][o] + 1 ELSE h[q][x]
         /\ Cardinality(HeldBy(Bind(h, p, o), o)) = Cardinality(HeldBy(h, o)) + 1
         /\ \A x \in Objects : x # o => HeldBy(Bind(h, p, o), x) = HeldBy(h, x)
<1> DEFINE g == Bind(h, p, o)
           e == <<p, h[p][o] + 1>>
<1>1. h[p][o] \in 0..MaxHandles /\ h[p][o] + 1 \in 1..MaxHandles
  BY Numbers DEF Tables
<1>2. g \in Tables
  BY <1>1 DEF Tables, Bind
<1>3. \A q \in Slots, x \in Objects :
        g[q][x] = IF q = p /\ x = o THEN h[p][o] + 1 ELSE h[q][x]
  BY DEF Bind, Tables
<1> HIDE DEF g
<1>4. \A x \in Objects : x # o => HeldBy(g, x) = HeldBy(h, x)
  BY <1>3 DEF HeldBy
<1>5. HeldBy(g, o) = HeldBy(h, o) \cup {e}
  <2>1. ASSUME NEW c \in Slots \X (1..MaxHandles)
        PROVE  c \in HeldBy(g, o) <=> c \in HeldBy(h, o) \cup {e}
    <3>1. c[1] \in Slots /\ c[2] \in 1..MaxHandles /\ c = <<c[1], c[2]>>
      OBVIOUS
    <3>2. h[c[1]][o] \in 0..MaxHandles
      BY <3>1 DEF Tables
    <3>3. CASE c[1] = p
      <4>1. g[c[1]][o] = h[p][o] + 1
        BY <3>1, <3>3, <1>3
      <4>2. c[2] <= h[p][o] + 1 <=> c[2] <= h[p][o] \/ c[2] = h[p][o] + 1
        BY <3>1, <1>1
      <4>3. c = e <=> c[2] = h[p][o] + 1
        BY <3>1, <3>3
      <4> QED BY <4>1, <4>2, <4>3, <3>3 DEF HeldBy
    <3>4. CASE c[1] # p
      BY <3>1, <3>4, <1>3 DEF HeldBy
    <3> QED BY <3>3, <3>4
  <2>2. e \in Slots \X (1..MaxHandles)
    BY <1>1
  <2> QED BY <2>1, <2>2 DEF HeldBy
<1>6. e \notin HeldBy(h, o)
  BY <1>1 DEF HeldBy
<1>7. Cardinality(HeldBy(g, o)) = Cardinality(HeldBy(h, o)) + 1
  BY <1>5, <1>6, FiniteHeldBy, FS_AddElement
<1> QED BY <1>2, <1>3, <1>4, <1>7 DEF g

LEMMA UnbindCount ==
  ASSUME NEW h \in Tables, NEW p \in Slots, NEW o \in Objects, h[p][o] > 0
  PROVE  /\ Unbind(h, p, o) \in Tables
         /\ \A q \in Slots, x \in Objects :
              Unbind(h, p, o)[q][x] = IF q = p /\ x = o THEN h[p][o] - 1 ELSE h[q][x]
         /\ Cardinality(HeldBy(Unbind(h, p, o), o)) = Cardinality(HeldBy(h, o)) - 1
         /\ \A x \in Objects : x # o => HeldBy(Unbind(h, p, o), x) = HeldBy(h, x)
<1> DEFINE g == Unbind(h, p, o)
           e == <<p, h[p][o]>>
<1>1. h[p][o] \in 1..MaxHandles /\ h[p][o] - 1 \in 0..MaxHandles
  BY Numbers DEF Tables
<1>2. g \in Tables
  BY <1>1 DEF Tables, Unbind
<1>3. \A q \in Slots, x \in Objects :
        g[q][x] = IF q = p /\ x = o THEN h[p][o] - 1 ELSE h[q][x]
  BY DEF Unbind, Tables
<1> HIDE DEF g
<1>4. \A x \in Objects : x # o => HeldBy(g, x) = HeldBy(h, x)
  BY <1>3 DEF HeldBy
<1>5. HeldBy(g, o) = HeldBy(h, o) \ {e}
  <2>1. ASSUME NEW c \in Slots \X (1..MaxHandles)
        PROVE  c \in HeldBy(g, o) <=> c \in HeldBy(h, o) \ {e}
    <3>1. c[1] \in Slots /\ c[2] \in 1..MaxHandles /\ c = <<c[1], c[2]>>
      OBVIOUS
    <3>3. CASE c[1] = p
      <4>1. g[c[1]][o] = h[p][o] - 1
        BY <3>1, <3>3, <1>3
      <4>2. c[2] <= h[p][o] - 1 <=> c[2] <= h[p][o] /\ c[2] # h[p][o]
        BY <3>1, <1>1
      <4>3. c = e <=> c[2] = h[p][o]
        BY <3>1, <3>3
      <4> QED BY <4>1, <4>2, <4>3, <3>3 DEF HeldBy
    <3>4. CASE c[1] # p
      BY <3>1, <3>4, <1>3 DEF HeldBy
    <3> QED BY <3>3, <3>4
  <2> QED BY <2>1 DEF HeldBy
<1>6. e \in HeldBy(h, o)
  BY <1>1 DEF HeldBy
<1>7. Cardinality(HeldBy(g, o)) = Cardinality(HeldBy(h, o)) - 1
  <2> HIDE DEF e
  <2> QED BY <1>5, <1>6, FiniteHeldBy, FS_RemoveElement
<1> QED BY <1>2, <1>3, <1>4, <1>7 DEF g

\* What closing a table takes from a count.
LEMMA ClearCount ==
  ASSUME NEW h \in Tables, NEW c \in Slots, NEW o \in Objects, NEW g \in Tables,
         \A x \in Objects : g[c][x] = 0,
         \A q \in Slots, x \in Objects : q # c => g[q][x] = h[q][x]
  PROVE  Cardinality(HeldBy(h, o)) = Cardinality(HeldBy(g, o)) + h[c][o]
<1> DEFINE n == h[c][o]
           Own == {c} \X (1..n)
<1>1. n \in 0..MaxHandles /\ n \in Nat /\ 1 \in Int /\ n \in Int
  BY Numbers DEF Tables
<1> HIDE DEF n
<1>2. IsFiniteSet(1..n) /\ Cardinality(1..n) = n
  BY <1>1, FS_Interval
<1>3. IsFiniteSet({c}) /\ Cardinality({c}) = 1
  BY FS_Singleton
<1>4. IsFiniteSet(Own) /\ Cardinality(Own) = Cardinality({c}) * Cardinality(1..n)
  BY <1>2, <1>3, FS_Product
<1>5. Cardinality(Own) = n
  BY <1>1, <1>2, <1>3, <1>4
<1>6. HeldBy(h, o) \cap Own = Own
  <2>1. ASSUME NEW e \in Own PROVE e \in HeldBy(h, o)
    <3>1. e[1] = c /\ e[2] \in 1..n /\ e = <<e[1], e[2]>>
      OBVIOUS
    <3>2. e[2] \in 1..MaxHandles /\ e[2] <= n
      BY <3>1, <1>1, Numbers
    <3> QED BY <3>1, <3>2 DEF HeldBy, n
  <2> QED BY <2>1
<1>7. HeldBy(g, o) = HeldBy(h, o) \ Own
  <2>1. ASSUME NEW e \in Slots \X (1..MaxHandles)
        PROVE  e \in HeldBy(g, o) <=> e \in HeldBy(h, o) \ Own
    <3>1. e[1] \in Slots /\ e[2] \in 1..MaxHandles /\ e = <<e[1], e[2]>>
      OBVIOUS
    <3>2. CASE e[1] = c
      <4>1. g[e[1]][o] = 0 /\ ~(e[2] <= 0)
        BY <3>1, <3>2
      <4>2. e \in Own <=> e[2] <= n
        BY <3>1, <3>2, <1>1
      <4> QED BY <4>1, <4>2, <3>2 DEF HeldBy, n
    <3>3. CASE e[1] # c
      BY <3>1, <3>3 DEF HeldBy
    <3> QED BY <3>2, <3>3
  <2> QED BY <2>1 DEF HeldBy
<1>8. Cardinality(HeldBy(g, o)) = Cardinality(HeldBy(h, o)) - n
  <2> HIDE DEF Own
  <2> QED BY <1>5, <1>6, <1>7, FiniteHeldBy, FS_Difference
<1> QED BY <1>8, <1>1, FiniteHeldBy DEF n

\* An object nobody counts is named nowhere.
LEMMA Unnamed0 ==
  ASSUME NEW r, NEW h \in Tables, NEW a, Counted(r, h, a), NEW o \in Objects, r[o] = 0
  PROVE  /\ \A p \in Slots : h[p][o] = 0
         /\ \A s \in Slots : o = Proc(s) => a[s] = None
         /\ Cardinality(HeldBy(h, o)) = 0
<1>1. Cardinality(HeldBy(h, o)) = 0 /\ Cardinality(Watchers(a, o)) = 0
  BY FiniteHeldBy, WatchersNat DEF Counted
<1>2. HeldBy(h, o) = {}
  BY <1>1, FiniteHeldBy, FS_EmptySet
<1>3. ASSUME NEW p \in Slots PROVE h[p][o] = 0
  <2>1. h[p][o] \in 0..MaxHandles
    BY DEF Tables
  <2>2. SUFFICES ASSUME h[p][o] >= 1 PROVE FALSE
    BY <2>1
  <2>3. <<p, h[p][o]>> \in HeldBy(h, o)
    BY <2>1, <2>2 DEF HeldBy
  <2> QED BY <2>3, <1>2
<1>4. ASSUME NEW s \in Slots, o = Proc(s) PROVE a[s] = None
  BY <1>1, <1>4, WatcherCount
<1> QED BY <1>1, <1>3, <1>4

LEMMA Referenced ==
  ASSUME NEW r \in [Objects -> Nat], NEW h \in Tables, NEW a, Counted(r, h, a)
  PROVE  /\ \A p \in Slots, o \in Objects : h[p][o] > 0 => r[o] > 0
         /\ \A s \in Slots : a[s] # None => r[Proc(s)] > 0
<1>1. ASSUME NEW p \in Slots, NEW o \in Objects, h[p][o] > 0 PROVE r[o] > 0
  <2>1. r[o] # 0
    BY <1>1, Unnamed0
  <2> QED BY <2>1
<1>2. ASSUME NEW s \in Slots, a[s] # None PROVE r[Proc(s)] > 0
  <2>1. Proc(s) \in Objects
    BY Names
  <2>2. r[Proc(s)] # 0
    BY <1>2, <2>1, Unnamed0
  <2> QED BY <2>1, <2>2
<1> QED BY <1>1, <1>2

\* A table with room has room in each of its counts.
LEMMA RoomForOne ==
  ASSUME held \in Tables, NEW p \in Slots, HandleRoom(p), NEW o \in Objects
  PROVE  held[p][o] < MaxHandles
<1> DEFINE n == held[p][o]
           All == {e \in Objects \X (1..MaxHandles) : e[2] <= held[p][e[1]]}
           Own == {o} \X (1..n)
<1>1. n \in 0..MaxHandles /\ n \in Nat /\ 1 \in Int /\ n \in Int
  BY Numbers DEF Tables
<1> HIDE DEF n
<1>2. IsFiniteSet(1..n) /\ Cardinality(1..n) = n
  BY <1>1, FS_Interval
<1>3. IsFiniteSet({o}) /\ Cardinality({o}) = 1
  BY FS_Singleton
<1>4. IsFiniteSet(Own) /\ Cardinality(Own) = Cardinality({o}) * Cardinality(1..n)
  BY <1>2, <1>3, FS_Product
<1>5. Own \in SUBSET All
  <2>1. ASSUME NEW e \in Own PROVE e \in All
    <3>1. e[1] = o /\ e[2] \in 1..n /\ e = <<e[1], e[2]>>
      OBVIOUS
    <3>2. e[2] \in 1..MaxHandles /\ e[2] <= n
      BY <3>1, <1>1, Numbers
    <3> QED BY <3>1, <3>2 DEF n
  <2> QED BY <2>1
<1>6. IsFiniteSet(All)
  <2>1. IsFiniteSet(Objects \X (1..MaxHandles))
    BY FiniteSlabs, FiniteNames, FS_Product
  <2>2. All \in SUBSET (Objects \X (1..MaxHandles))
    OBVIOUS
  <2> HIDE DEF All
  <2> QED BY <2>1, <2>2, FS_Subset
<1>7. Cardinality(Own) <= Cardinality(All) /\ Cardinality(All) \in Nat
  <2> HIDE DEF All, Own
  <2> QED BY <1>5, <1>6, FS_Subset, FS_CardinalityType
<1>8. Cardinality(All) < MaxHandles
  <2>1. Entries(p) < IF p = Root THEN MaxHandles ELSE QuotaHandles
    BY DEF HandleRoom
  <2>2. Entries(p) = Cardinality(All)
    BY DEF Entries
  <2> HIDE DEF All
  <2> QED BY <2>1, <2>2, <1>7, Numbers
<1> HIDE DEF All, Own
<1> QED BY <1>1, <1>2, <1>3, <1>4, <1>7, <1>8, Numbers DEF n

(***************************************************************************)
(* What the invariant says of the properties, and the initial state.       *)
(***************************************************************************)
Rows == [Slots -> Seq({Unnamed} \cup Maps)]
MapRecord == [owner : Slots, target : Slots, row : {None} \cup 1..RowBudget]

LEMMA LimitFits ==
  ASSUME NEW t \in Slots
  PROVE  MapLimit(t) \in Nat /\ MapLimit(t) + ImageRows <= RowBudget
<1>1. /\ NMaps \in Nat /\ QuotaMaps \in Nat /\ RowBudget \in Nat /\ ImageRows \in Nat
      /\ ImageRows + QuotaMaps <= RowBudget
  BY LifeAssumption
<1> QED BY <1>1 DEF MapLimit

LEMMA LifeImplies == LifeInv => RefsExact /\ NoStaleName /\ LedgersAgree
<1> SUFFICES ASSUME LifeInv PROVE RefsExact /\ NoStaleName /\ LedgersAgree
  OBVIOUS
<1>1. RefsExact
  BY DEF LifeInv, RefsExact, Counted, HeldBy, Watchers, InSlabs
<1>2. NoStaleName
  <2>1. ASSUME NEW s \in Slots, st[s] = "Free"
        PROVE  /\ refs[Proc(s)] = 0 /\ att[s] = None
               /\ rows[s] = <<>> /\ used[s].maps = 0
               /\ \A p \in Slots : held[p][Proc(s)] = 0
    <3>1. refs[Proc(s)] = 0 /\ rows[s] = <<>> /\ used[s].maps = 0
      BY <2>1 DEF LifeInv, CleanSlots
    <3>2. Proc(s) \in Objects /\ held \in Tables /\ Counted(refs, held, att)
      BY Names DEF LifeInv, TypeOK, Tables
    <3>3. att[s] = None /\ \A p \in Slots : held[p][Proc(s)] = 0
      BY <3>1, <3>2, Unnamed0
    <3> QED BY <3>1, <3>3
  <2> QED BY <2>1 DEF LifeInv, CleanSlots, MapsLive, NoStaleName
<1>3. RowLedger
  <2>1. ASSUME NEW t \in Slots, st[t] \in {"Created", "Running"}
        PROVE  /\ Len(rows[t]) = ImageRows + used[t].maps
               /\ used[t].maps < MapLimit(t) => Len(rows[t]) < RowBudget
    <3>1. Len(rows[t]) = ImageRows + used[t].maps
      BY <2>1 DEF LifeInv, RowsCounted
    <3>2. used[t].maps \in Nat
      BY DEF LifeInv, TypeOK
    <3>3. MapLimit(t) \in Nat /\ MapLimit(t) + ImageRows <= RowBudget
      BY LimitFits
    <3>4. ImageRows \in Nat /\ RowBudget \in Nat
      BY Numbers
    <3> QED BY <3>1, <3>2, <3>3, <3>4
  <2> QED BY <2>1 DEF RowLedger
<1>4. NeverOvercharged
  BY DEF LifeInv, NeverOvercharged, Charged
<1> QED BY <1>1, <1>2, <1>3, <1>4 DEF LifeInv, LedgersAgree

LEMMA WindowCount ==
  ASSUME NEW w, NEW p
  PROVE  /\ IsFiniteSet({k \in Windows : w[k] = p})
         /\ Cardinality({k \in Windows : w[k] = p}) \in 0..NWindows
<1> DEFINE S == {k \in Windows : w[k] = p}
<1>1. S \in SUBSET Windows
  OBVIOUS
<1> HIDE DEF S
<1>2. IsFiniteSet(S) /\ Cardinality(S) <= NWindows
  BY <1>1, FiniteSlabs, FS_Subset
<1>3. Cardinality(S) \in Nat /\ NWindows \in Nat
  BY <1>2, FS_CardinalityType, Numbers
<1>4. Cardinality(S) \in 0..NWindows
  BY <1>2, <1>3
<1> QED BY <1>2, <1>4 DEF S

LEMMA ImageSeq ==
  /\ Image \in Seq({Unnamed} \cup Maps) /\ Len(Image) = ImageRows
  /\ DOMAIN Image = 1..ImageRows /\ \A i \in 1..ImageRows : Image[i] \notin Maps
<1>1. ImageRows \in Nat /\ Unnamed \notin Maps
  BY Numbers
<1> QED BY <1>1 DEF Image

LEMMA EmptyRow ==
  /\ <<>> \in Seq({Unnamed} \cup Maps) /\ Len(<<>>) = 0 /\ DOMAIN <<>> = {}
OBVIOUS

LEMMA LifeInit == Init => LifeInv
<1> SUFFICES ASSUME Init PROVE LifeInv
  OBVIOUS
<1> DEFINE First == {Proc(Root), Io(1)}
<1>0. First \subseteq Objects /\ Root \in Slots /\ 1 \in Windows /\ MaxHandles \in Nat
      /\ MaxHandles >= 2 /\ None \notin Slots
  BY Names, Numbers
<1>1. TypeOK
  <2>1. st \in [Slots -> {"Free", "Created", "Running", "Gone"}]
    BY DEF Init
  <2>2. held \in [Slots -> [Objects -> 0..MaxHandles]] /\ refs \in [Objects -> Nat]
    BY <1>0 DEF Init
  <2>3. att \in [Slots -> {None} \cup [by : Slots, once : BOOLEAN]]
    BY DEF Init
  <2>4. rows \in [Slots -> Seq({Unnamed} \cup Maps)]
    BY ImageSeq, EmptyRow DEF Init
  <2>5. maps \in [Maps -> {None} \cup [owner : Slots, target : Slots,
                                       row : {None} \cup 1..RowBudget]]
    BY DEF Init
  <2>6. io \in [Windows -> {None} \cup Slots] /\ lost \subseteq Slots
    BY <1>0 DEF Init
  <2>7. used \in [Slots -> [maps : 0..RowBudget, windows : 0..NWindows]]
    BY Numbers DEF Init
  <2> QED BY <2>1, <2>2, <2>3, <2>4, <2>5, <2>6, <2>7 DEF TypeOK
<1>2. Counted(refs, held, att)
  <2>1. ASSUME NEW o \in Objects
        PROVE  refs[o] = Cardinality(HeldBy(held, o)) + Cardinality(Watchers(att, o))
    <3>1. Watchers(att, o) = {}
      BY DEF Watchers, Init
    <3>2. CASE o \in First
      <4>1. held[Root][o] = 1 /\ refs[o] = 1 /\ \A s \in Slots : s # Root => held[s][o] = 0
        BY <3>2, <1>0 DEF Init
      <4>2. HeldBy(held, o) = {<<Root, 1>>}
        BY <4>1, <1>0 DEF HeldBy
      <4>3. Cardinality(HeldBy(held, o)) = 1 /\ Cardinality(Watchers(att, o)) = 0
        BY <3>1, <4>2, FS_EmptySet, FS_Singleton
      <4> QED BY <4>1, <4>3
    <3>3. CASE o \notin First
      <4>1. refs[o] = 0 /\ \A s \in Slots : held[s][o] = 0
        BY <3>3, <1>0 DEF Init
      <4>2. HeldBy(held, o) = {}
        BY <4>1, <1>0 DEF HeldBy
      <4> QED BY <3>1, <4>1, <4>2, FS_EmptySet
    <3> QED BY <3>2, <3>3
  <2> QED BY <2>1 DEF Counted
<1>3. InSlabs
  <2>1. ASSUME NEW k \in Windows PROVE io[k] # None <=> refs[Io(k)] > 0
    BY <1>0, Names DEF Init
  <2>2. ASSUME NEW m \in Maps PROVE maps[m] # None <=> refs[Mapping(m)] > 0
    BY <1>0, Names DEF Init
  <2> QED BY <2>1, <2>2 DEF InSlabs
<1>4. CleanSlots
  BY <1>0, Names DEF Init, CleanSlots
<1>5. MapsLive
  BY <1>0, Names DEF Init, MapsLive
<1>6. RowsAgree /\ RowsCounted
  <2>1. ASSUME NEW t \in Slots
        PROVE  /\ \A i \in DOMAIN rows[t] : rows[t][i] \notin Maps
               /\ st[t] \in {"Created", "Running"} => Len(rows[t]) = ImageRows + used[t].maps
    BY ImageSeq, EmptyRow, Numbers DEF Init
  <2>2. \A m \in Maps : maps[m] = None
    BY DEF Init
  <2> QED BY <2>1, <2>2 DEF RowsAgree, RowsCounted
<1>7. Charged(used, io)
  <2>1. ASSUME NEW p \in Slots
        PROVE  used[p].windows <= Cardinality({k \in Windows : io[k] = p})
    <3>1. CASE p = Root
      <4>1. {k \in Windows : io[k] = p} = {1}
        BY <3>1, <1>0 DEF Init
      <4>2. used[p].windows = 1
        BY <3>1, <1>0 DEF Init
      <4>3. Cardinality({1}) = 1
        BY FS_Singleton
      <4> QED BY <4>1, <4>2, <4>3
    <3>2. CASE p # Root
      <4>1. used[p].windows = 0
        BY <3>2 DEF Init
      <4>2. Cardinality({k \in Windows : io[k] = p}) \in 0..NWindows
        BY WindowCount
      <4> QED BY <4>1, <4>2, Numbers
    <3> QED BY <3>1, <3>2
  <2> QED BY <2>1 DEF Charged
<1> QED BY <1>1, <1>2, <1>3, <1>4, <1>5, <1>6, <1>7 DEF LifeInv

(***************************************************************************)
(* Dropping a reference.                                                   *)
(***************************************************************************)
LEMMA Typed ==
  ASSUME LifeInv
  PROVE  /\ st \in [Slots -> {"Free", "Created", "Running", "Gone"}]
         /\ held \in Tables
         /\ refs \in [Objects -> Nat]
         /\ att \in Attached
         /\ rows \in Rows
         /\ maps \in [Maps -> {None} \cup MapRecord]
         /\ io \in [Windows -> {None} \cup Slots]
         /\ used \in [Slots -> [maps : 0..RowBudget, windows : 0..NWindows]]
         /\ lost \in SUBSET Slots
         /\ Counted(refs, held, att)
BY DEF LifeInv, TypeOK, Tables, Attached, Rows, MapRecord

LEMMA LeakedRows ==
  ASSUME NEW r \in Rows, NEW S
  PROVE  /\ Leaked(S, r) \in Rows
         /\ \A t \in Slots :
              /\ DOMAIN Leaked(S, r)[t] = DOMAIN r[t]
              /\ Len(Leaked(S, r)[t]) = Len(r[t])
              /\ r[t] = <<>> => Leaked(S, r)[t] = <<>>
              /\ \A i \in DOMAIN r[t] :
                   Leaked(S, r)[t][i] = IF r[t][i] \in S THEN Unnamed ELSE r[t][i]
<1> DEFINE V == {Unnamed} \cup Maps
           f(t) == [i \in DOMAIN r[t] |-> IF r[t][i] \in S THEN Unnamed ELSE r[t][i]]
<1>1. ASSUME NEW t \in Slots
      PROVE  /\ f(t) \in Seq(V) /\ DOMAIN f(t) = DOMAIN r[t] /\ Len(f(t)) = Len(r[t])
             /\ r[t] = <<>> => f(t) = <<>>
  <2>1. r[t] \in Seq(V) /\ Unnamed \in V
    BY DEF Rows
  <2> HIDE DEF V
  <2>2. Len(r[t]) \in Nat /\ DOMAIN r[t] = 1..Len(r[t]) /\ \A i \in 1..Len(r[t]) : r[t][i] \in V
    BY <2>1
  <2>3. f(t) \in [1..Len(r[t]) -> V]
    BY <2>1, <2>2
  <2>4. f(t) \in Seq(V)
    BY <2>2, <2>3, SeqDef
  <2>5. Len(f(t)) = Len(r[t])
    BY <2>2, <2>3, <2>4
  <2>6. r[t] = <<>> => f(t) = <<>>
    BY <2>4, <2>5
  <2> QED BY <2>4, <2>5, <2>6
<1>2. Leaked(S, r) = [t \in Slots |-> f(t)]
  BY DEF Leaked
<1>3. Leaked(S, r) \in Rows
  BY <1>1, <1>2 DEF Rows
<1>4. ASSUME NEW t \in Slots
      PROVE  /\ Leaked(S, r)[t] = f(t)
             /\ \A i \in DOMAIN r[t] : f(t)[i] = IF r[t][i] \in S THEN Unnamed ELSE r[t][i]
  BY <1>2
<1> QED BY <1>1, <1>3, <1>4

\* Handles and attachments only went, slots only went from Gone to Free, and
\* what is counted zero left its slab.
LEMMA DropStep ==
  ASSUME LifeInv,
         held' \in Tables, att' \in Attached, refs' \in [Objects -> Nat],
         lost' \in SUBSET Slots, Counted(refs', held', att'),
         \A p \in Slots, x \in Objects : held[p][x] = 0 => held'[p][x] = 0,
         \A s \in Slots : att'[s] = att[s] \/ att'[s] = None,
         \A x \in Objects : refs'[x] <= refs[x],
         st' \in [Slots -> {"Free", "Created", "Running", "Gone"}],
         \A s \in Slots : st'[s] = st[s]
                            \/ (st[s] = "Gone" /\ st'[s] = "Free" /\ refs'[Proc(s)] = 0),
         rows' \in Rows,
         \A s \in Slots : Len(rows'[s]) = Len(rows[s]) /\ (rows[s] = <<>> => rows'[s] = <<>>),
         \A s \in Slots : used'[s].maps = used[s].maps,
         maps' \in [Maps -> {None} \cup MapRecord],
         \A m \in Maps : maps'[m] = maps[m] \/ (maps'[m] = None /\ refs'[Mapping(m)] = 0),
         used' \in [Slots -> [maps : 0..RowBudget, windows : 0..NWindows]],
         io' \in [Windows -> {None} \cup Slots],
         InSlabs', RowsAgree', Charged(used', io'),
         \A t \in Slots : \A i \in DOMAIN rows'[t] : rows'[t][i] \in Maps => i > ImageRows
  PROVE  LifeInv'
<1>1. TypeOK'
  BY DEF TypeOK, Tables, Attached, Rows, MapRecord
<1>2. CleanSlots'
  <2>1. ASSUME NEW s \in Slots, st'[s] = "Free" PROVE refs'[Proc(s)] = 0
    <3>1. Proc(s) \in Objects
      BY Names
    <3>2. CASE st[s] = "Free"
      <4>1. refs[Proc(s)] = 0
        BY <3>2 DEF LifeInv, CleanSlots
      <4> QED BY <3>1, <4>1
    <3> QED BY <2>1, <3>2
  <2>2. ASSUME NEW s \in Slots, st'[s] \in {"Free", "Gone"}
        PROVE  (\A o \in Objects : held'[s][o] = 0) /\ rows'[s] = <<>> /\ used'[s].maps = 0
    <3>1. st[s] \in {"Free", "Gone"}
      BY <2>2
    <3>2. (\A o \in Objects : held[s][o] = 0) /\ rows[s] = <<>> /\ used[s].maps = 0
      BY <3>1 DEF LifeInv, CleanSlots
    <3> QED BY <3>2
  <2>3. ASSUME NEW s \in Slots, att'[s] # None PROVE st'[att'[s].by] = "Running"
    <3>1. att'[s] = att[s] /\ att[s] # None /\ st[att[s].by] = "Running"
      BY <2>3 DEF LifeInv, CleanSlots
    <3>2. att[s].by \in Slots
      BY <3>1, Typed DEF Attached
    <3> QED BY <3>1, <3>2
  <2> QED BY <2>1, <2>2, <2>3 DEF CleanSlots
<1>3. MapsLive'
  <2>1. ASSUME NEW m \in Maps, maps'[m] # None
        PROVE  /\ st'[maps'[m].owner] = "Running"
               /\ maps'[m].row # None => st'[maps'[m].target] \in {"Created", "Running"}
    <3>1. maps'[m] = maps[m]
      BY <2>1
    <3>2. maps[m] \in MapRecord
      BY <2>1, <3>1
    <3>3. maps[m].owner \in Slots /\ maps[m].target \in Slots
      BY <3>2 DEF MapRecord
    <3>4. /\ st[maps[m].owner] = "Running"
          /\ maps[m].row # None => st[maps[m].target] \in {"Created", "Running"}
      BY <2>1, <3>1 DEF LifeInv, MapsLive
    <3>5. st'[maps[m].owner] = "Running"
      BY <3>3, <3>4
    <3>6. maps[m].row # None => st'[maps[m].target] \in {"Created", "Running"}
      BY <3>3, <3>4
    <3> QED BY <3>1, <3>5, <3>6
  <2>2. ASSUME NEW m \in Maps, NEW p \in Slots, held'[p][Mapping(m)] > 0
        PROVE  maps'[m] # None /\ maps'[m].owner = p
    <3>1. Mapping(m) \in Objects
      BY Names
    <3>2. refs'[Mapping(m)] > 0
      BY <2>2, <3>1, Referenced
    <3>3. maps'[m] = maps[m]
      BY <3>2
    <3>4. held[p][Mapping(m)] \in Nat /\ held[p][Mapping(m)] # 0
      BY <3>1, <2>2, Typed DEF Tables
    <3> QED BY <3>3, <3>4 DEF LifeInv, MapsLive
  <2> QED BY <2>1, <2>2 DEF MapsLive
<1>4. RowsCounted'
  <2>1. ASSUME NEW t \in Slots, st'[t] \in {"Created", "Running"}
        PROVE  Len(rows'[t]) = ImageRows + used'[t].maps
    BY <2>1 DEF LifeInv, RowsCounted
  <2> QED BY <2>1 DEF RowsCounted
<1> QED BY <1>1, <1>2, <1>3, <1>4 DEF LifeInv

LEMMA LessNat ==
  ASSUME NEW n \in Nat, NEW d \in Nat
  PROVE  Less(n, d) \in Nat /\ Less(n, d) <= n /\ (d <= n => Less(n, d) = n - d)
         /\ \A c \in Nat : n <= c /\ d <= c => Less(n, d) <= c - d
BY DEF Less

\* The credit for a window that leaves the slab.
LEMMA CreditOne ==
  ASSUME LifeInv, NEW k \in Windows, io[k] # None,
         io' = [io EXCEPT ![k] = None],
         used' = [used EXCEPT ![io[k]].windows = Less(@, 1)]
  PROVE  /\ io' \in [Windows -> {None} \cup Slots]
         /\ used' \in [Slots -> [maps : 0..RowBudget, windows : 0..NWindows]]
         /\ \A s \in Slots : used'[s].maps = used[s].maps
         /\ Charged(used', io')
<1> DEFINE p == io[k]
           n == used[p].windows
<1>1. io \in [Windows -> {None} \cup Slots] /\ p \in Slots
      /\ used \in [Slots -> [maps : 0..RowBudget, windows : 0..NWindows]]
  BY Typed
<1>2. n \in Nat /\ n <= NWindows /\ NWindows \in Nat
  BY <1>1, Numbers
<1>3. Less(n, 1) \in 0..NWindows
  BY <1>2, LessNat
<1>4. \A s \in Slots : /\ used'[s].maps = used[s].maps
                       /\ used'[s].windows = IF s = p THEN Less(n, 1) ELSE used[s].windows
  BY <1>1
<1>5. used' \in [Slots -> [maps : 0..RowBudget, windows : 0..NWindows]]
  BY <1>1, <1>3
<1>6. io' \in [Windows -> {None} \cup Slots]
  BY <1>1
<1>7. ASSUME NEW s \in Slots
      PROVE  used'[s].windows <= Cardinality({x \in Windows : io'[x] = s})
  <2> DEFINE S == {x \in Windows : io[x] = s}
             T == {x \in Windows : io'[x] = s}
  <2>1. used[s].windows <= Cardinality(S) /\ IsFiniteSet(S) /\ Cardinality(S) \in Nat
    <3>1. Cardinality(S) \in 0..NWindows
      BY WindowCount
    <3>2. Cardinality(S) \in Nat
      BY <3>1, <1>2
    <3> QED BY <3>2, WindowCount DEF LifeInv, Charged
  <2>2. CASE s = p
    <3>1. T = S \ {k} /\ k \in S
      BY <2>2, <1>1, Numbers
    <3> HIDE DEF S, T
    <3>2. Cardinality(T) = Cardinality(S) - 1
      BY <3>1, <2>1, FS_RemoveElement
    <3>3. k \in S => Cardinality(S) # 0
      BY <2>1, FS_EmptySet
    <3>4. n <= Cardinality(S) /\ 1 <= Cardinality(S)
      BY <2>1, <2>2, <3>1, <3>3
    <3>5. Less(n, 1) <= Cardinality(S) - 1
      BY <3>4, <2>1, <1>2, LessNat
    <3> QED BY <3>2, <3>5, <2>2, <1>4 DEF T
  <2>3. CASE s # p
    <3>1. T = S
      BY <2>3, <1>1, Numbers
    <3> QED BY <3>1, <2>1, <2>3, <1>4
  <2> QED BY <2>2, <2>3
<1> QED BY <1>4, <1>5, <1>6, <1>7 DEF Charged

\* One reference fewer, and the object freed with the last one.
LEMMA UnrefKeeps ==
  ASSUME LifeInv, NEW o \in Objects, refs[o] > 0, unref_object(o),
         held' \in Tables, att' \in Attached, lost' \in SUBSET Slots,
         Counted(refs', held', att'),
         \A p \in Slots, x \in Objects : held[p][x] = 0 => held'[p][x] = 0,
         \A s \in Slots : att'[s] = att[s] \/ att'[s] = None
  PROVE  LifeInv'
<1>1. /\ refs' \in [Objects -> Nat] /\ refs'[o] = refs[o] - 1
      /\ \A x \in Objects : x # o => refs'[x] = refs[x]
      /\ \A x \in Objects : refs'[x] <= refs[x]
  <2>1. refs' = [refs EXCEPT ![o] = refs[o] - 1] /\ refs \in [Objects -> Nat]
    BY Typed DEF unref_object
  <2>2. refs[o] - 1 \in Nat
    BY <2>1
  <2> QED BY <2>1, <2>2
<1>2. CASE refs[o] # 1
  <2>1. UNCHANGED <<st, rows, maps, io, used>>
    BY <1>2 DEF unref_object, mapVars, ledgerVars
  <2>2. \A x \in Objects : refs'[x] > 0 <=> refs[x] > 0
    BY <1>1, <1>2, Typed
  <2>3. InSlabs'
    BY <2>1, <2>2, Names DEF LifeInv, InSlabs
  <2>4. RowsAgree' /\ Charged(used', io')
    BY <2>1 DEF LifeInv, RowsAgree, Charged
  <2>5. \A t \in Slots : \A i \in DOMAIN rows'[t] : rows'[t][i] \in Maps => i > ImageRows
    BY <2>1 DEF LifeInv, RowsCounted
  <2> QED BY <1>1, <2>1, <2>3, <2>4, <2>5, Typed, DropStep
<1>3. CASE refs[o] = 1
  <2>0. refs'[o] = 0 /\ free_object(o)
    BY <1>1, <1>3 DEF unref_object
  <2>1. ASSUME NEW s \in Slots, o = Proc(s),
               st' = [st EXCEPT ![s] = IF @ = "Gone" THEN "Free" ELSE @],
               UNCHANGED <<mapVars, ledgerVars>>
        PROVE  LifeInv'
    <3>1. UNCHANGED <<rows, maps, io, used>>
      BY <2>1 DEF mapVars, ledgerVars
    <3>2. \A k \in Windows : refs'[Io(k)] = refs[Io(k)]
      BY <2>1, <1>1, Names
    <3>3. \A m \in Maps : refs'[Mapping(m)] = refs[Mapping(m)]
      BY <2>1, <1>1, Names
    <3>4. InSlabs'
      BY <3>1, <3>2, <3>3 DEF LifeInv, InSlabs
    <3>5. RowsAgree' /\ Charged(used', io')
      BY <3>1 DEF LifeInv, RowsAgree, Charged
    <3>6. \A t \in Slots : \A i \in DOMAIN rows'[t] : rows'[t][i] \in Maps => i > ImageRows
      BY <3>1 DEF LifeInv, RowsCounted
    <3>7. st' \in [Slots -> {"Free", "Created", "Running", "Gone"}]
      BY <2>1, Typed
    <3>8. \A t \in Slots : st'[t] = st[t]
                            \/ (st[t] = "Gone" /\ st'[t] = "Free" /\ refs'[Proc(t)] = 0)
      BY <2>0, <2>1, Typed
    <3> QED BY <1>1, <3>1, <3>4, <3>5, <3>6, <3>7, <3>8, Typed, DropStep
  <2>2. ASSUME NEW k \in Windows, o = Io(k),
               io' = [io EXCEPT ![k] = None],
               used' = [used EXCEPT ![io[k]].windows = Less(@, 1)],
               UNCHANGED <<st, mapVars>>
        PROVE  LifeInv'
    <3>1. UNCHANGED <<st, rows, maps>> /\ io[k] # None
      BY <2>2, <1>3 DEF mapVars, LifeInv, InSlabs
    <3>2. /\ io' \in [Windows -> {None} \cup Slots]
          /\ used' \in [Slots -> [maps : 0..RowBudget, windows : 0..NWindows]]
          /\ \A s \in Slots : used'[s].maps = used[s].maps
          /\ Charged(used', io')
      BY <2>2, <3>1, CreditOne
    <3>3. \A n \in Windows : n # k => refs'[Io(n)] = refs[Io(n)] /\ io'[n] = io[n]
      BY <2>2, <1>1, Names, Typed
    <3>4. refs'[Io(k)] = 0 /\ io'[k] = None
      BY <2>0, <2>2, Typed
    <3>5. \A m \in Maps : refs'[Mapping(m)] = refs[Mapping(m)]
      BY <2>2, <1>1, Names
    <3>6. InSlabs'
      BY <3>1, <3>3, <3>4, <3>5 DEF LifeInv, InSlabs
    <3>7. RowsAgree'
      BY <3>1 DEF LifeInv, RowsAgree
    <3>8. \A t \in Slots : \A i \in DOMAIN rows'[t] : rows'[t][i] \in Maps => i > ImageRows
      BY <3>1 DEF LifeInv, RowsCounted
    <3> QED BY <1>1, <3>1, <3>2, <3>6, <3>7, <3>8, Typed, DropStep
  <2>3. ASSUME NEW m \in Maps, o = Mapping(m),
               maps' = [maps EXCEPT ![m] = None],
               rows' = Leaked({m}, rows),
               UNCHANGED <<st, ledgerVars>>
        PROVE  LifeInv'
    <3>1. UNCHANGED <<st, io, used>>
      BY <2>3 DEF ledgerVars
    <3>2. /\ rows' \in Rows
          /\ \A t \in Slots :
              /\ DOMAIN rows'[t] = DOMAIN rows[t]
              /\ Len(rows'[t]) = Len(rows[t])
              /\ rows[t] = <<>> => rows'[t] = <<>>
              /\ \A i \in DOMAIN rows[t] :
                   rows'[t][i] = IF rows[t][i] \in {m} THEN Unnamed ELSE rows[t][i]
      BY <2>3, Typed, LeakedRows
    <3>3. /\ maps' \in [Maps -> {None} \cup MapRecord] /\ maps'[m] = None
          /\ \A n \in Maps : n # m => maps'[n] = maps[n]
      BY <2>3, Typed
    <3>4. \A n \in Maps : n # m => refs'[Mapping(n)] = refs[Mapping(n)]
      BY <2>3, <1>1, Names
    <3>5. \A k \in Windows : refs'[Io(k)] = refs[Io(k)]
      BY <2>3, <1>1, Names
    <3>6. refs'[Mapping(m)] = 0
      BY <2>0, <2>3
    <3>7. InSlabs'
      BY <3>1, <3>3, <3>4, <3>5, <3>6 DEF LifeInv, InSlabs
    <3>8. RowsAgree'
      <4>1. ASSUME NEW n \in Maps, maps'[n] # None, maps'[n].row # None
            PROVE  /\ maps'[n].row \in DOMAIN rows'[maps'[n].target]
                   /\ rows'[maps'[n].target][maps'[n].row] = n
        <5>1. n # m /\ maps'[n] = maps[n]
          BY <4>1, <3>3
        <5>2. maps[n].target \in Slots
          BY <4>1, <5>1, Typed DEF MapRecord
        <5>3. maps[n].row \in DOMAIN rows[maps[n].target] /\ rows[maps[n].target][maps[n].row] = n
          BY <4>1, <5>1 DEF LifeInv, RowsAgree
        <5> QED BY <5>1, <5>2, <5>3, <3>2
      <4>2. ASSUME NEW t \in Slots, NEW i \in DOMAIN rows'[t], rows'[t][i] \in Maps
            PROVE  maps'[rows'[t][i]] # None /\ maps'[rows'[t][i]].target = t
                     /\ maps'[rows'[t][i]].row = i
        <5>1. i \in DOMAIN rows[t] /\ rows'[t][i] = rows[t][i] /\ rows[t][i] # m
          BY <4>2, <3>2, Numbers
        <5>2. maps[rows[t][i]] # None /\ maps[rows[t][i]].target = t /\ maps[rows[t][i]].row = i
          BY <4>2, <5>1 DEF LifeInv, RowsAgree
        <5> QED BY <4>2, <5>1, <5>2, <3>3
      <4> QED BY <4>1, <4>2 DEF RowsAgree
    <3>9. \A t \in Slots : \A i \in DOMAIN rows'[t] : rows'[t][i] \in Maps => i > ImageRows
      <4>1. ASSUME NEW t \in Slots, NEW i \in DOMAIN rows'[t], rows'[t][i] \in Maps
            PROVE  i > ImageRows
        <5>1. i \in DOMAIN rows[t] /\ rows'[t][i] = rows[t][i]
          BY <4>1, <3>2, Numbers
        <5> QED BY <4>1, <5>1 DEF LifeInv, RowsCounted
      <4> QED BY <4>1
    <3>10. Charged(used', io')
      BY <3>1 DEF LifeInv, Charged
    <3>11. \A n \in Maps : maps'[n] = maps[n] \/ (maps'[n] = None /\ refs'[Mapping(n)] = 0)
      BY <3>3, <3>6
    <3> QED BY <1>1, <3>1, <3>2, <3>3, <3>7, <3>8, <3>9, <3>10, <3>11, Typed, DropStep
  <2> QED BY <2>0, <2>1, <2>2, <2>3 DEF free_object
<1> QED BY <1>2, <1>3

LEMMA DropHandle ==
  ASSUME LifeInv, NEW p \in Slots, NEW o \in Objects, held[p][o] > 0,
         held' = Unbind(held, p, o), refs' = [refs EXCEPT ![o] = @ - 1], att' = att
  PROVE  /\ held' \in Tables
         /\ Counted(refs', held', att')
         /\ \A q \in Slots, x \in Objects : held[q][x] = 0 => held'[q][x] = 0
         /\ refs[o] > 0
<1>1. held \in Tables /\ refs \in [Objects -> Nat] /\ Counted(refs, held, att)
  BY Typed
<1>2. refs[o] > 0
  BY <1>1, Referenced
<1>3. /\ held' \in Tables
      /\ \A q \in Slots, x \in Objects :
           held'[q][x] = IF q = p /\ x = o THEN held[p][o] - 1 ELSE held[q][x]
      /\ Cardinality(HeldBy(held', o)) = Cardinality(HeldBy(held, o)) - 1
      /\ \A x \in Objects : x # o => HeldBy(held', x) = HeldBy(held, x)
  BY <1>1, UnbindCount
<1>4. \A q \in Slots, x \in Objects : held[q][x] = 0 => held'[q][x] = 0
  BY <1>3
<1>5. ASSUME NEW x \in Objects
      PROVE  refs'[x] = Cardinality(HeldBy(held', x)) + Cardinality(Watchers(att', x))
  <2>1. refs[x] = Cardinality(HeldBy(held, x)) + Cardinality(Watchers(att, x))
    BY <1>1 DEF Counted
  <2>2. CASE x = o
    <3>1. refs'[x] = refs[o] - 1
      BY <2>2, <1>1
    <3> QED BY <2>1, <2>2, <3>1, <1>3, FiniteHeldBy, WatchersNat
  <2>3. CASE x # o
    <3>1. refs'[x] = refs[x]
      BY <2>3, <1>1
    <3> QED BY <2>1, <2>3, <3>1, <1>3
  <2> QED BY <2>2, <2>3
<1> QED BY <1>2, <1>3, <1>4, <1>5 DEF Counted

LEMMA ReleaseStep ==
  ASSUME LifeInv, NEW p \in Slots, NEW o \in Objects, Release(p, o)
  PROVE  LifeInv'
<1>1. /\ held[p][o] > 0 /\ held' = Unbind(held, p, o) /\ unref_object(o)
      /\ att' = att /\ lost' = lost
  BY DEF Release
<1>2. refs' = [refs EXCEPT ![o] = @ - 1]
  BY <1>1 DEF unref_object
<1>3. /\ held' \in Tables /\ Counted(refs', held', att') /\ refs[o] > 0
      /\ \A q \in Slots, x \in Objects : held[q][x] = 0 => held'[q][x] = 0
  BY <1>1, <1>2, DropHandle
<1>4. att' \in Attached /\ lost' \in SUBSET Slots /\ \A s \in Slots : att'[s] = att[s]
  BY <1>1, Typed
<1> QED BY <1>1, <1>3, <1>4, UnrefKeeps

LEMMA UnwatchStep ==
  ASSUME LifeInv, NEW p \in Slots, NEW s \in Slots, Unwatch(p, s)
  PROVE  LifeInv'
<1> DEFINE o == Proc(s)
<1>1. /\ att[s] # None /\ att' = [att EXCEPT ![s] = None] /\ unref_object(o)
      /\ held' = held /\ lost' = lost
  BY DEF Unwatch
<1>2. /\ held \in Tables /\ refs \in [Objects -> Nat] /\ Counted(refs, held, att)
      /\ att \in Attached /\ o \in Objects /\ lost \in SUBSET Slots
  BY Typed, Names
<1>3. refs[o] > 0
  BY <1>1, <1>2, Referenced
<1>4. att' \in Attached /\ att'[s] = None /\ \A t \in Slots : t # s => att'[t] = att[t]
  BY <1>1, <1>2 DEF Attached
<1>5. ASSUME NEW x \in Objects
      PROVE  refs'[x] = Cardinality(HeldBy(held', x)) + Cardinality(Watchers(att', x))
  <2>1. refs[x] = Cardinality(HeldBy(held, x)) + Cardinality(Watchers(att, x))
    BY <1>2 DEF Counted
  <2>2. CASE x = o
    <3>1. refs'[x] = refs[x] - 1
      BY <2>2, <1>1, <1>2 DEF unref_object
    <3>2. Cardinality(Watchers(att, x)) = 1 /\ Cardinality(Watchers(att', x)) = 0
      BY <2>2, <1>1, <1>4, WatcherCount
    <3>3. Cardinality(HeldBy(held, x)) \in Nat /\ held' = held
      BY <1>1, FiniteHeldBy
    <3> QED BY <2>1, <3>1, <3>2, <3>3
  <2>3. CASE x # o
    <3>1. refs'[x] = refs[x]
      BY <2>3, <1>1, <1>2 DEF unref_object
    <3>2. Watchers(att', x) = Watchers(att, x)
      BY <2>3, <1>4 DEF Watchers
    <3> QED BY <2>1, <3>1, <3>2, <1>1
  <2> QED BY <2>2, <2>3
<1>6. Counted(refs', held', att')
  BY <1>5 DEF Counted
<1> HIDE DEF o
<1> QED BY <1>1, <1>2, <1>3, <1>4, <1>6, UnrefKeeps

(***************************************************************************)
(* Steps that change only tables, counts and attachments.                  *)
(***************************************************************************)
LEMMA TableStep ==
  ASSUME LifeInv, UNCHANGED <<st, rows, maps, io, used>>,
         held' \in Tables, att' \in Attached, refs' \in [Objects -> Nat],
         lost' \in SUBSET Slots, Counted(refs', held', att'),
         \A x \in Objects : refs'[x] > 0 <=> refs[x] > 0,
         \A s \in Slots : att'[s] # None => st[att'[s].by] = "Running",
         \A p \in Slots, x \in Objects :
            held'[p][x] > 0 => st[p] \in {"Created", "Running"},
         \A p \in Slots, m \in Maps : held'[p][Mapping(m)] > 0 => held[p][Mapping(m)] > 0
  PROVE  LifeInv'
<1>1. TypeOK'
  BY Typed DEF TypeOK, Tables, Attached, Rows, MapRecord
<1>2. InSlabs'
  BY Names DEF LifeInv, InSlabs
<1>3. CleanSlots'
  <2>1. ASSUME NEW s \in Slots, st'[s] = "Free" PROVE refs'[Proc(s)] = 0
    <3>1. Proc(s) \in Objects /\ refs[Proc(s)] = 0
      BY <2>1, Names DEF LifeInv, CleanSlots
    <3>2. refs'[Proc(s)] \in Nat /\ ~(refs'[Proc(s)] > 0)
      BY <3>1
    <3> QED BY <3>2
  <2>2. ASSUME NEW s \in Slots, st'[s] \in {"Free", "Gone"}, NEW o \in Objects
        PROVE  held'[s][o] = 0
    <3>1. ~(held'[s][o] > 0) /\ held'[s][o] \in Nat
      BY <2>2 DEF Tables
    <3> QED BY <3>1
  <2> QED BY <2>1, <2>2 DEF LifeInv, CleanSlots
<1>4. MapsLive'
  BY DEF LifeInv, MapsLive
<1>5. RowsAgree' /\ RowsCounted' /\ Charged(used', io')
  BY DEF LifeInv, RowsAgree, RowsCounted, Charged
<1> QED BY <1>1, <1>2, <1>3, <1>4, <1>5 DEF LifeInv

\* A slot whose table has an entry is alive.
LEMMA HolderLives ==
  ASSUME LifeInv, NEW p \in Slots, NEW o \in Objects, held[p][o] > 0
  PROVE  st[p] \in {"Created", "Running"}
<1>1. held[p][o] # 0 /\ st[p] \in {"Free", "Created", "Running", "Gone"}
  BY Typed DEF Tables
<1> QED BY <1>1 DEF LifeInv, CleanSlots

LEMMA MintStep ==
  ASSUME LifeInv, NEW p \in Slots, NEW o \in Objects, Mint(p, o)
  PROVE  LifeInv'
<1>1. /\ st[p] = "Running" /\ held[p][o] > 0 /\ HandleRoom(p)
      /\ held' = Bind(held, p, o) /\ refs' = [refs EXCEPT ![o] = @ + 1]
      /\ UNCHANGED <<st, rows, maps, io, used>> /\ att' = att /\ lost' = lost
  BY DEF Mint, Acting, mapVars, ledgerVars
<1>2. /\ held \in Tables /\ refs \in [Objects -> Nat] /\ Counted(refs, held, att)
      /\ att \in Attached /\ lost \in SUBSET Slots
  BY Typed
<1>3. held[p][o] < MaxHandles
  BY <1>1, <1>2, RoomForOne
<1>4. /\ held' \in Tables
      /\ \A q \in Slots, x \in Objects :
           held'[q][x] = IF q = p /\ x = o THEN held[p][o] + 1 ELSE held[q][x]
      /\ Cardinality(HeldBy(held', o)) = Cardinality(HeldBy(held, o)) + 1
      /\ \A x \in Objects : x # o => HeldBy(held', x) = HeldBy(held, x)
  BY <1>1, <1>2, <1>3, BindCount
<1>5. refs[o] > 0
  BY <1>1, <1>2, Referenced
<1>6. /\ refs' \in [Objects -> Nat] /\ refs'[o] = refs[o] + 1
      /\ \A x \in Objects : x # o => refs'[x] = refs[x]
  BY <1>1, <1>2
<1>7. Counted(refs', held', att')
  <2>1. ASSUME NEW x \in Objects
        PROVE  refs'[x] = Cardinality(HeldBy(held', x)) + Cardinality(Watchers(att', x))
    <3>1. refs[x] = Cardinality(HeldBy(held, x)) + Cardinality(Watchers(att, x)) /\ att' = att
      BY <1>1, <1>2 DEF Counted
    <3>2. CASE x = o
      BY <3>1, <3>2, <1>4, <1>6, FiniteHeldBy, WatchersNat
    <3>3. CASE x # o
      BY <3>1, <3>3, <1>4, <1>6
    <3> QED BY <3>2, <3>3
  <2> QED BY <2>1 DEF Counted
<1>8. \A x \in Objects : refs'[x] > 0 <=> refs[x] > 0
  BY <1>2, <1>5, <1>6
<1>9. \A s \in Slots : att'[s] # None => st[att'[s].by] = "Running"
  BY <1>1 DEF LifeInv, CleanSlots
<1>10. \A q \in Slots, x \in Objects : held'[q][x] > 0 => st[q] \in {"Created", "Running"}
  BY <1>1, <1>4, HolderLives
<1>11. \A q \in Slots, m \in Maps : held'[q][Mapping(m)] > 0 => held[q][Mapping(m)] > 0
  BY <1>1, <1>4, Names
<1> QED BY <1>1, <1>2, <1>4, <1>6, <1>7, <1>8, <1>9, <1>10, <1>11, TableStep

LEMMA StartStep ==
  ASSUME LifeInv, NEW p \in Slots, NEW s \in Slots, Start(p, s)
  PROVE  LifeInv'
<1>1. /\ st[s] = "Created" /\ st' = [st EXCEPT ![s] = "Running"]
      /\ UNCHANGED <<held, refs, att, rows, maps, io, used, lost>>
  BY DEF Start, tableVars, mapVars, ledgerVars
<1>2. st \in [Slots -> {"Free", "Created", "Running", "Gone"}]
  BY Typed
<1>3. \A t \in Slots : /\ st'[t] \in {"Free", "Gone"} => st[t] = st'[t]
                       /\ st[t] = "Running" => st'[t] = "Running"
                       /\ st[t] \in {"Created", "Running"} <=> st'[t] \in {"Created", "Running"}
  BY <1>1, <1>2
<1>4. TypeOK'
  BY <1>1, <1>2 DEF LifeInv, TypeOK
<1>5. Counted(refs', held', att') /\ InSlabs' /\ RowsAgree' /\ Charged(used', io')
  BY <1>1 DEF LifeInv, Counted, InSlabs, RowsAgree, Charged
<1>6. CleanSlots'
  <2>1. \A t \in Slots : att[t] # None => att[t].by \in Slots
    BY Typed DEF Attached
  <2> QED BY <2>1, <1>1, <1>3 DEF LifeInv, CleanSlots
<1>7. MapsLive'
  <2>1. \A m \in Maps : maps[m] # None => maps[m].owner \in Slots /\ maps[m].target \in Slots
    BY Typed DEF MapRecord
  <2> QED BY <2>1, <1>1, <1>3 DEF LifeInv, MapsLive
<1>8. RowsCounted'
  BY <1>1, <1>3 DEF LifeInv, RowsCounted
<1> QED BY <1>4, <1>5, <1>6, <1>7, <1>8 DEF LifeInv

LEMMA TransferStep ==
  ASSUME LifeInv, NEW p \in Slots, NEW q \in Slots, NEW o \in Objects, Transfer(p, q, o)
  PROVE  LifeInv'
<1> DEFINE g == Unbind(held, p, o)
<1>1. /\ p # q /\ held[p][o] > 0 /\ o[1] # "mapping" /\ st[q] \in {"Created", "Running"}
      /\ HandleRoom(q) /\ held' = Bind(g, q, o)
      /\ UNCHANGED <<st, refs, att, rows, maps, io, used, lost>>
  BY DEF Transfer, Acting, mapVars, ledgerVars
<1>2. /\ held \in Tables /\ refs \in [Objects -> Nat] /\ Counted(refs, held, att)
      /\ att \in Attached /\ lost \in SUBSET Slots
  BY Typed
<1>3. /\ g \in Tables
      /\ \A r \in Slots, x \in Objects :
           g[r][x] = IF r = p /\ x = o THEN held[p][o] - 1 ELSE held[r][x]
      /\ Cardinality(HeldBy(g, o)) = Cardinality(HeldBy(held, o)) - 1
      /\ \A x \in Objects : x # o => HeldBy(g, x) = HeldBy(held, x)
  BY <1>1, <1>2, UnbindCount
<1>4. g[q][o] = held[q][o] /\ held[q][o] < MaxHandles
  BY <1>1, <1>2, <1>3, RoomForOne
<1> HIDE DEF g
<1>5. /\ held' \in Tables
      /\ \A r \in Slots, x \in Objects :
           held'[r][x] = IF r = q /\ x = o THEN g[q][o] + 1 ELSE g[r][x]
      /\ Cardinality(HeldBy(held', o)) = Cardinality(HeldBy(g, o)) + 1
      /\ \A x \in Objects : x # o => HeldBy(held', x) = HeldBy(g, x)
  BY <1>1, <1>3, <1>4, BindCount
<1>6. Counted(refs', held', att')
  <2>1. ASSUME NEW x \in Objects
        PROVE  Cardinality(HeldBy(held', x)) = Cardinality(HeldBy(held, x))
    <3>1. CASE x = o
      BY <3>1, <1>3, <1>5, FiniteHeldBy
    <3>2. CASE x # o
      BY <3>2, <1>3, <1>5
    <3> QED BY <3>1, <3>2
  <2> QED BY <2>1, <1>1, <1>2 DEF Counted
<1>7. ASSUME NEW r \in Slots, NEW x \in Objects, held'[r][x] > 0
      PROVE  st[r] \in {"Created", "Running"}
  <2>1. CASE r = q
    BY <2>1, <1>1
  <2>2. CASE r # q
    <3>1. held[r][x] > 0
      BY <1>7, <2>2, <1>1, <1>3, <1>5
    <3> QED BY <3>1, HolderLives
  <2> QED BY <2>1, <2>2
<1>8. ASSUME NEW r \in Slots, NEW m \in Maps, held'[r][Mapping(m)] > 0
      PROVE  held[r][Mapping(m)] > 0
  <2>1. Mapping(m) # o /\ Mapping(m) \in Objects
    BY <1>1, Names DEF Mapping
  <2> QED BY <1>8, <2>1, <1>3, <1>5
<1>9. \A s \in Slots : att'[s] # None => st[att'[s].by] = "Running"
  BY <1>1 DEF LifeInv, CleanSlots
<1> QED BY <1>1, <1>2, <1>5, <1>6, <1>7, <1>8, <1>9, TableStep

LEMMA WatchStep ==
  ASSUME LifeInv, NEW p \in Slots, NEW s \in Slots, NEW once \in BOOLEAN,
         NEW consuming \in BOOLEAN, NEW parked \in BOOLEAN,
         Watch(p, s, once, consuming, parked)
  PROVE  LifeInv'
<1> DEFINE o == Proc(s)
<1>1. /\ st[p] = "Running" /\ held[p][o] > 0 /\ att[s] = None /\ lost' = lost
      /\ held' = IF consuming THEN Unbind(held, p, o) ELSE held
  BY DEF Watch, Acting
<1>2. /\ held \in Tables /\ refs \in [Objects -> Nat] /\ Counted(refs, held, att)
      /\ att \in Attached /\ lost \in SUBSET Slots /\ o \in Objects
  BY Typed, Names
<1>3. refs[o] > 0
  BY <1>1, <1>2, Referenced
<1>4. \A t \in Slots : att[t] # None => st[att[t].by] = "Running"
  BY DEF LifeInv, CleanSlots
<1>5. CASE parked /\ consuming
  <2>1. att' = att /\ unref_object(o) /\ held' = Unbind(held, p, o)
    BY <1>1, <1>5 DEF Watch
  <2>2. refs' = [refs EXCEPT ![o] = @ - 1]
    BY <2>1 DEF unref_object
  <2> HIDE DEF o
  <2>3. /\ held' \in Tables /\ Counted(refs', held', att')
        /\ \A q \in Slots, x \in Objects : held[q][x] = 0 => held'[q][x] = 0
    BY <1>1, <1>2, <2>1, <2>2, DropHandle
  <2> QED BY <1>1, <1>2, <1>3, <2>1, <2>3, UnrefKeeps
<1>6. CASE parked /\ ~consuming
  <2>1. UNCHANGED <<att, st, refs, held, lost, rows, maps, io, used>>
    BY <1>1, <1>6 DEF Watch, mapVars, ledgerVars
  <2>2. Counted(refs', held', att')
    BY <2>1, <1>2
  <2>3. \A q \in Slots, x \in Objects : held'[q][x] > 0 => st[q] \in {"Created", "Running"}
    BY <2>1, HolderLives
  <2> QED BY <1>2, <1>4, <2>1, <2>2, <2>3, TableStep
<1>7. CASE ~parked
  <2>1. /\ att' = [att EXCEPT ![s] = [by |-> p, once |-> once]]
        /\ refs' = [refs EXCEPT ![o] = IF consuming THEN @ ELSE @ + 1]
        /\ UNCHANGED <<st, rows, maps, io, used>>
    BY <1>7 DEF Watch, mapVars, ledgerVars
  <2>2. /\ att' \in Attached /\ att'[s] # None /\ att'[s].by = p
        /\ \A t \in Slots : t # s => att'[t] = att[t]
    <3>1. [by |-> p, once |-> once] \in [by : Slots, once : BOOLEAN]
      OBVIOUS
    <3>2. [by |-> p, once |-> once] # None
      BY <3>1, Numbers
    <3> QED BY <2>1, <1>2, <3>1, <3>2 DEF Attached
  <2>3. /\ refs' \in [Objects -> Nat] /\ refs'[o] = IF consuming THEN refs[o] ELSE refs[o] + 1
        /\ \A x \in Objects : x # o => refs'[x] = refs[x]
    BY <2>1, <1>2
  <2>4. /\ held' \in Tables
        /\ \A q \in Slots, x \in Objects : held'[q][x] > 0 => held[q][x] > 0
        /\ Cardinality(HeldBy(held', o)) =
             Cardinality(HeldBy(held, o)) - (IF consuming THEN 1 ELSE 0)
        /\ \A x \in Objects : x # o => HeldBy(held', x) = HeldBy(held, x)
    <3>1. CASE consuming
      <4>1. held' = Unbind(held, p, o) /\ held[p][o] > 0 /\ held \in Tables /\ o \in Objects
        BY <3>1, <1>1, <1>2
      <4> HIDE DEF o
      <4>2. /\ held' \in Tables
            /\ \A q \in Slots, x \in Objects :
                 held'[q][x] = IF q = p /\ x = o THEN held[p][o] - 1 ELSE held[q][x]
            /\ Cardinality(HeldBy(held', o)) = Cardinality(HeldBy(held, o)) - 1
            /\ \A x \in Objects : x # o => HeldBy(held', x) = HeldBy(held, x)
        BY <4>1, UnbindCount
      <4>3. \A q \in Slots, x \in Objects : held'[q][x] > 0 => held[q][x] > 0
        <5>1. held[p][o] \in Nat /\ held[p][o] > 0
          BY <1>1, <1>2 DEF Tables
        <5> QED BY <4>2, <5>1
      <4> QED BY <4>2, <4>3, <3>1
    <3>2. CASE ~consuming
      <4>1. held' = held
        BY <3>2, <1>1
      <4>2. Cardinality(HeldBy(held, o)) \in Nat
        BY FiniteHeldBy
      <4> QED BY <4>1, <4>2, <3>2, <1>2
    <3> QED BY <3>1, <3>2
  <2>5. Counted(refs', held', att')
    <3>1. ASSUME NEW x \in Objects
          PROVE  refs'[x] = Cardinality(HeldBy(held', x)) + Cardinality(Watchers(att', x))
      <4>1. refs[x] = Cardinality(HeldBy(held, x)) + Cardinality(Watchers(att, x))
        BY <1>2 DEF Counted
      <4>2. CASE x = o
        <5>1. Cardinality(Watchers(att, x)) = 0 /\ Cardinality(Watchers(att', x)) = 1
          BY <4>2, <1>1, <2>2, WatcherCount
        <5>2. Cardinality(HeldBy(held, x)) \in Nat
          BY FiniteHeldBy
        <5>3. CASE consuming
          BY <4>1, <4>2, <5>1, <5>2, <5>3, <2>3, <2>4
        <5>4. CASE ~consuming
          BY <4>1, <4>2, <5>1, <5>2, <5>4, <2>3, <2>4
        <5> QED BY <5>3, <5>4
      <4>3. CASE x # o
        <5>1. Watchers(att', x) = Watchers(att, x)
          BY <4>3, <2>2 DEF Watchers
        <5> QED BY <4>1, <4>3, <5>1, <2>3, <2>4
      <4> QED BY <4>2, <4>3
    <3> QED BY <3>1 DEF Counted
  <2>6. \A x \in Objects : refs'[x] > 0 <=> refs[x] > 0
    BY <1>2, <1>3, <2>3
  <2>7. \A t \in Slots : att'[t] # None => st[att'[t].by] = "Running"
    BY <1>1, <1>4, <2>2
  <2>8. \A q \in Slots, x \in Objects : held'[q][x] > 0 => st[q] \in {"Created", "Running"}
    BY <2>4, HolderLives
  <2>9. \A q \in Slots, m \in Maps : held'[q][Mapping(m)] > 0 => held[q][Mapping(m)] > 0
    BY <2>4, Names
  <2> QED BY <1>1, <1>2, <2>1, <2>2, <2>3, <2>4, <2>5, <2>6, <2>7, <2>8, <2>9, TableStep
<1> QED BY <1>5, <1>6, <1>7

(***************************************************************************)
(* A new object and its first handle.                                      *)
(***************************************************************************)
LEMMA FirstHandle ==
  ASSUME LifeInv, NEW p \in Slots, NEW o \in Objects, refs[o] = 0, HandleRoom(p),
         held' = Bind(held, p, o), refs' = [refs EXCEPT ![o] = 1], att' = att
  PROVE  /\ held' \in Tables
         /\ \A q \in Slots, x \in Objects :
              held'[q][x] = IF q = p /\ x = o THEN 1 ELSE held[q][x]
         /\ refs' \in [Objects -> Nat] /\ refs'[o] = 1
         /\ \A x \in Objects : x # o => refs'[x] = refs[x]
         /\ Counted(refs', held', att')
         /\ \A q \in Slots : held[q][o] = 0
<1>1. /\ held \in Tables /\ refs \in [Objects -> Nat] /\ Counted(refs, held, att)
  BY Typed
<1>2. held[p][o] < MaxHandles
  BY <1>1, RoomForOne
<1>3. /\ \A q \in Slots : held[q][o] = 0
      /\ \A s \in Slots : o = Proc(s) => att[s] = None
      /\ Cardinality(HeldBy(held, o)) = 0
  BY <1>1, Unnamed0
<1>4. /\ held' \in Tables
      /\ \A q \in Slots, x \in Objects :
           held'[q][x] = IF q = p /\ x = o THEN held[p][o] + 1 ELSE held[q][x]
      /\ Cardinality(HeldBy(held', o)) = Cardinality(HeldBy(held, o)) + 1
      /\ \A x \in Objects : x # o => HeldBy(held', x) = HeldBy(held, x)
  BY <1>1, <1>2, BindCount
<1>5. /\ refs' \in [Objects -> Nat] /\ refs'[o] = 1
      /\ \A x \in Objects : x # o => refs'[x] = refs[x]
  BY <1>1
<1>6. Counted(refs', held', att')
  <2>1. ASSUME NEW x \in Objects
        PROVE  refs'[x] = Cardinality(HeldBy(held', x)) + Cardinality(Watchers(att', x))
    <3>1. refs[x] = Cardinality(HeldBy(held, x)) + Cardinality(Watchers(att, x)) /\ att' = att
      BY <1>1 DEF Counted
    <3>2. CASE x = o
      <4>1. Cardinality(Watchers(att, x)) = 0
        BY <3>1, <3>2, <1>3, WatchersNat
      <4> QED BY <4>1, <3>1, <3>2, <1>3, <1>4, <1>5
    <3>3. CASE x # o
      BY <3>1, <3>3, <1>4, <1>5
    <3> QED BY <3>2, <3>3
  <2> QED BY <2>1 DEF Counted
<1> QED BY <1>3, <1>4, <1>5, <1>6

LEMMA CreateStep ==
  ASSUME LifeInv, NEW p \in Slots, Create(p)
  PROVE  LifeInv'
<1> DEFINE Free == {x \in Slots : st[x] = "Free"}
           s == LowestFree(Free)
<1>1. /\ st[p] = "Running" /\ Free # {} /\ HandleRoom(p)
      /\ st' = [st EXCEPT ![s] = "Created"]
      /\ held' = Bind(held, p, Proc(s))
      /\ refs' = [refs EXCEPT ![Proc(s)] = 1]
      /\ rows' = [rows EXCEPT ![s] = @ \o Image]
      /\ att' = [att EXCEPT ![s] = None]
      /\ used' = [used EXCEPT ![s] = [maps |-> 0, windows |-> 0]]
      /\ UNCHANGED <<maps, io, lost>>
  BY DEF Create, Acting
<1>2. s \in Slots /\ st[s] = "Free"
  <2>1. Free \in SUBSET Nat
    BY Numbers
  <2>2. LowestFree(Free) \in Free
    <3> HIDE DEF Free
    <3> QED BY <1>1, <2>1, LowestFreeIn
  <2> QED BY <2>2
<1> HIDE DEF s, Free
<1>3. /\ st \in [Slots -> {"Free", "Created", "Running", "Gone"}]
      /\ held \in Tables /\ refs \in [Objects -> Nat] /\ Counted(refs, held, att)
      /\ att \in Attached /\ rows \in Rows /\ Proc(s) \in Objects
      /\ used \in [Slots -> [maps : 0..RowBudget, windows : 0..NWindows]]
  BY <1>2, Typed, Names
<1>4. refs[Proc(s)] = 0 /\ rows[s] = <<>> /\ used[s].maps = 0
  BY <1>2 DEF LifeInv, CleanSlots
<1>5. att' = att
  <2>1. att[s] = None
    <3>0. Proc(s) \in Objects /\ held \in Tables /\ Counted(refs, held, att) /\ refs[Proc(s)] = 0
      BY <1>3, <1>4
    <3>1. \A t \in Slots : Proc(s) = Proc(t) => att[t] = None
      BY <3>0, Unnamed0
    <3> QED BY <3>1, <1>2
  <2> QED BY <2>1, <1>1, <1>3 DEF Attached
<1>6. /\ held' \in Tables
      /\ \A q \in Slots, x \in Objects :
           held'[q][x] = IF q = p /\ x = Proc(s) THEN 1 ELSE held[q][x]
      /\ refs' \in [Objects -> Nat] /\ refs'[Proc(s)] = 1
      /\ \A x \in Objects : x # Proc(s) => refs'[x] = refs[x]
      /\ Counted(refs', held', att')
  BY <1>1, <1>3, <1>4, <1>5, FirstHandle
<1>7. /\ st' \in [Slots -> {"Free", "Created", "Running", "Gone"}] /\ st'[s] = "Created"
      /\ \A t \in Slots : t # s => st'[t] = st[t]
      /\ \A t \in Slots : st[t] = "Running" => st'[t] = "Running" /\ t # s
  BY <1>1, <1>2, <1>3
<1>8. rows' \in Rows /\ rows'[s] = Image /\ \A t \in Slots : t # s => rows'[t] = rows[t]
  <2>1. rows[s] \o Image = Image
    BY <1>4, ImageSeq
  <2> QED BY <2>1, <1>1, <1>2, <1>3, ImageSeq DEF Rows
<1>9. /\ used' \in [Slots -> [maps : 0..RowBudget, windows : 0..NWindows]]
      /\ used'[s].maps = 0 /\ used'[s].windows = 0
      /\ \A t \in Slots : t # s => used'[t] = used[t]
  <2>1. [maps |-> 0, windows |-> 0] \in [maps : 0..RowBudget, windows : 0..NWindows]
    BY Numbers
  <2> QED BY <2>1, <1>1, <1>2, <1>3
<1>10. TypeOK'
  BY <1>1, <1>5, <1>6, <1>7, <1>8, <1>9, Typed DEF TypeOK, Tables, Attached, Rows, MapRecord
<1>11. InSlabs'
  <2>1. \A k \in Windows : refs'[Io(k)] = refs[Io(k)]
    BY <1>2, <1>6, Names
  <2>2. \A m \in Maps : refs'[Mapping(m)] = refs[Mapping(m)]
    BY <1>2, <1>6, Names
  <2> QED BY <2>1, <2>2, <1>1 DEF LifeInv, InSlabs
<1>12. CleanSlots'
  <2>1. ASSUME NEW t \in Slots, st'[t] \in {"Free", "Gone"}
        PROVE  /\ t # s /\ t # p /\ st[t] = st'[t]
               /\ (\A o \in Objects : held'[t][o] = 0) /\ rows'[t] = <<>> /\ used'[t].maps = 0
    <3>1. t # s /\ t # p /\ st[t] = st'[t]
      BY <2>1, <1>1, <1>7
    <3>2. (\A o \in Objects : held[t][o] = 0) /\ rows[t] = <<>> /\ used[t].maps = 0
      BY <2>1, <3>1 DEF LifeInv, CleanSlots
    <3> QED BY <3>1, <3>2, <1>6, <1>8, <1>9
  <2>2. ASSUME NEW t \in Slots, st'[t] = "Free" PROVE refs'[Proc(t)] = 0
    <3>1. t # s /\ st[t] = "Free"
      BY <2>2, <2>1
    <3>2. Proc(t) # Proc(s) /\ Proc(t) \in Objects
      BY <3>1, <1>2, Names
    <3> QED BY <3>1, <3>2, <1>6 DEF LifeInv, CleanSlots
  <2>3. ASSUME NEW t \in Slots, att'[t] # None PROVE st'[att'[t].by] = "Running"
    <3>1. att[t].by \in Slots /\ st[att[t].by] = "Running"
      BY <2>3, <1>3, <1>5 DEF LifeInv, CleanSlots, Attached
    <3> QED BY <3>1, <1>5, <1>7
  <2> QED BY <2>1, <2>2, <2>3 DEF CleanSlots
<1>13. MapsLive'
  <2>1. \A m \in Maps : maps[m] # None => maps[m].owner \in Slots /\ maps[m].target \in Slots
    BY Typed DEF MapRecord
  <2>2. \A m \in Maps, q \in Slots : held'[q][Mapping(m)] = held[q][Mapping(m)]
    BY <1>2, <1>6, Names
  <2>3. \A t \in Slots : st[t] \in {"Created", "Running"} => st'[t] \in {"Created", "Running"}
    BY <1>7
  <2> QED BY <2>1, <2>2, <2>3, <1>1, <1>7 DEF LifeInv, MapsLive
<1>14. RowsAgree'
  <2>1. ASSUME NEW m \in Maps, maps'[m] # None, maps'[m].row # None
        PROVE  /\ maps'[m].row \in DOMAIN rows'[maps'[m].target]
               /\ rows'[maps'[m].target][maps'[m].row] = m
    <3>1. maps'[m] = maps[m] /\ maps[m].target \in Slots
      BY <2>1, <1>1, Typed DEF MapRecord
    <3>2. maps[m].target # s
      BY <2>1, <3>1, <1>2 DEF LifeInv, MapsLive
    <3> QED BY <2>1, <3>1, <3>2, <1>8 DEF LifeInv, RowsAgree
  <2>2. ASSUME NEW t \in Slots, NEW i \in DOMAIN rows'[t], rows'[t][i] \in Maps
        PROVE  maps'[rows'[t][i]] # None /\ maps'[rows'[t][i]].target = t
                 /\ maps'[rows'[t][i]].row = i
    <3>1. t # s
      BY <2>2, <1>8, ImageSeq
    <3> QED BY <2>2, <3>1, <1>1, <1>8 DEF LifeInv, RowsAgree
  <2> QED BY <2>1, <2>2 DEF RowsAgree
<1>15. RowsCounted'
  <2>1. ASSUME NEW t \in Slots, st'[t] \in {"Created", "Running"}
        PROVE  Len(rows'[t]) = ImageRows + used'[t].maps
    <3>1. CASE t = s
      BY <3>1, <1>8, <1>9, ImageSeq, Numbers
    <3>2. CASE t # s
      BY <2>1, <3>2, <1>7, <1>8, <1>9 DEF LifeInv, RowsCounted
    <3> QED BY <3>1, <3>2
  <2>2. ASSUME NEW t \in Slots, NEW i \in DOMAIN rows'[t], rows'[t][i] \in Maps
        PROVE  i > ImageRows
    <3>1. t # s
      BY <2>2, <1>8, ImageSeq
    <3> QED BY <2>2, <3>1, <1>8 DEF LifeInv, RowsCounted
  <2> QED BY <2>1, <2>2 DEF RowsCounted
<1>16. Charged(used', io')
  <2>1. ASSUME NEW t \in Slots
        PROVE  used'[t].windows <= Cardinality({k \in Windows : io'[k] = t})
    <3>1. CASE t = s
      <4>1. Cardinality({k \in Windows : io'[k] = t}) \in 0..NWindows
        BY WindowCount
      <4>2. used'[t].windows = 0 /\ NWindows \in Nat
        BY <3>1, <1>9, Numbers
      <4> QED BY <4>1, <4>2
    <3>2. CASE t # s
      BY <3>2, <1>1, <1>9 DEF LifeInv, Charged
    <3> QED BY <3>1, <3>2
  <2> QED BY <2>1 DEF Charged
<1> QED BY <1>6, <1>10, <1>11, <1>12, <1>13, <1>14, <1>15, <1>16 DEF LifeInv

LEMMA CarveStep ==
  ASSUME LifeInv, NEW p \in Slots, NEW k \in Windows, Carve(p, k)
  PROVE  LifeInv'
<1> DEFINE Free == {x \in Windows : io[x] = None}
           n == LowestFree(Free)
<1>1. /\ st[p] = "Running" /\ Free # {} /\ HandleRoom(p)
      /\ held' = Bind(held, p, Io(n))
      /\ refs' = [refs EXCEPT ![Io(n)] = 1]
      /\ io' = [io EXCEPT ![n] = p]
      /\ used' = [used EXCEPT ![p].windows = @ + 1]
      /\ UNCHANGED <<st, att, rows, maps, lost>>
  BY DEF Carve, Acting, mapVars
<1>2. n \in Windows /\ io[n] = None
  <2>1. Free \in SUBSET Nat
    BY Numbers
  <2>2. LowestFree(Free) \in Free
    <3> HIDE DEF Free
    <3> QED BY <1>1, <2>1, LowestFreeIn
  <2> QED BY <2>2
<1> HIDE DEF n, Free
<1>3. /\ refs \in [Objects -> Nat] /\ Io(n) \in Objects
      /\ io \in [Windows -> {None} \cup Slots]
      /\ used \in [Slots -> [maps : 0..RowBudget, windows : 0..NWindows]]
  BY <1>2, Typed, Names
<1>4. refs[Io(n)] = 0
  <2>1. ~(refs[Io(n)] > 0)
    BY <1>2 DEF LifeInv, InSlabs
  <2> QED BY <2>1, <1>3
<1>5. /\ held' \in Tables
      /\ \A q \in Slots, x \in Objects :
           held'[q][x] = IF q = p /\ x = Io(n) THEN 1 ELSE held[q][x]
      /\ refs' \in [Objects -> Nat] /\ refs'[Io(n)] = 1
      /\ \A x \in Objects : x # Io(n) => refs'[x] = refs[x]
      /\ Counted(refs', held', att')
  BY <1>1, <1>3, <1>4, FirstHandle
<1>6. /\ io' \in [Windows -> {None} \cup Slots] /\ io'[n] = p
      /\ \A x \in Windows : x # n => io'[x] = io[x]
  BY <1>1, <1>2, <1>3
<1>7. \A t \in Slots : /\ used'[t].maps = used[t].maps
                       /\ used'[t].windows = used[t].windows + (IF t = p THEN 1 ELSE 0)
  BY <1>1, <1>3
<1>8. ASSUME NEW t \in Slots
      PROVE  /\ used'[t].windows <= Cardinality({x \in Windows : io'[x] = t})
             /\ used'[t].windows \in 0..NWindows
  <2> DEFINE S == {x \in Windows : io[x] = t}
             T == {x \in Windows : io'[x] = t}
  <2>0. Cardinality(S) \in 0..NWindows /\ Cardinality(T) \in 0..NWindows /\ IsFiniteSet(S)
    BY WindowCount
  <2>1. used[t].windows <= Cardinality(S)
    BY DEF LifeInv, Charged
  <2>2. used[t].windows \in Nat /\ NWindows \in Nat
    BY <1>3, Numbers
  <2>3. CASE t = p
    <3>1. T = S \cup {n} /\ n \notin S
      BY <2>3, <1>2, <1>6, Numbers
    <3> HIDE DEF S, T
    <3>2. Cardinality(T) = Cardinality(S) + 1
      BY <3>1, <2>0, FS_AddElement
    <3>3. used'[t].windows = used[t].windows + 1
      BY <2>3, <1>7
    <3>4. used'[t].windows <= Cardinality(T) /\ used'[t].windows \in 0..NWindows
      BY <3>2, <3>3, <2>0, <2>1, <2>2
    <3> QED BY <3>4 DEF T
  <2>4. CASE t # p
    <3>1. T = S
      BY <2>4, <1>2, <1>6, Numbers
    <3>2. used'[t].windows = used[t].windows
      BY <2>4, <2>2, <1>7
    <3> HIDE DEF S, T
    <3>3. used'[t].windows <= Cardinality(T) /\ used'[t].windows \in 0..NWindows
      BY <3>1, <3>2, <2>0, <2>1, <2>2
    <3> QED BY <3>3 DEF T
  <2> QED BY <2>3, <2>4
<1>9. used' \in [Slots -> [maps : 0..RowBudget, windows : 0..NWindows]]
  <2>1. used[p].windows + 1 \in 0..NWindows
    <3>1. used'[p].windows = used[p].windows + 1
      BY <1>1, <1>3
    <3> QED BY <3>1, <1>8
  <2> QED BY <2>1, <1>1, <1>3
<1>10. TypeOK'
  BY <1>1, <1>5, <1>6, <1>9, Typed DEF TypeOK, Tables, Attached, Rows, MapRecord
<1>11. InSlabs'
  <2>1. \A m \in Maps : refs'[Mapping(m)] = refs[Mapping(m)]
    BY <1>2, <1>5, Names
  <2>2. \A x \in Windows : x # n => refs'[Io(x)] = refs[Io(x)]
    BY <1>2, <1>5, Names
  <2>3. io'[n] # None /\ refs'[Io(n)] > 0
    BY <1>5, <1>6, Numbers
  <2> QED BY <2>1, <2>2, <2>3, <1>1, <1>6 DEF LifeInv, InSlabs
<1>12. CleanSlots'
  <2>1. \A s \in Slots : refs'[Proc(s)] = refs[Proc(s)]
    BY <1>2, <1>5, Names
  <2>2. ASSUME NEW t \in Slots, st'[t] \in {"Free", "Gone"}
        PROVE  (\A o \in Objects : held'[t][o] = 0) /\ rows'[t] = <<>> /\ used'[t].maps = 0
    <3>1. t # p /\ st[t] = st'[t] /\ rows' = rows
      BY <2>2, <1>1
    <3>2. (\A o \in Objects : held[t][o] = 0) /\ rows[t] = <<>> /\ used[t].maps = 0
      BY <2>2, <3>1 DEF LifeInv, CleanSlots
    <3> QED BY <3>1, <3>2, <1>5, <1>7
  <2> QED BY <2>1, <2>2, <1>1 DEF LifeInv, CleanSlots
<1>13. MapsLive'
  <2>1. \A m \in Maps, q \in Slots : held'[q][Mapping(m)] = held[q][Mapping(m)]
    BY <1>2, <1>5, Names
  <2> QED BY <2>1, <1>1 DEF LifeInv, MapsLive
<1>14. RowsAgree' /\ RowsCounted'
  BY <1>1, <1>7 DEF LifeInv, RowsAgree, RowsCounted
<1>15. Charged(used', io')
  BY <1>8 DEF Charged
<1> QED BY <1>5, <1>10, <1>11, <1>12, <1>13, <1>14, <1>15 DEF LifeInv

(***************************************************************************)
(* Rows.                                                                   *)
(***************************************************************************)
LEMMA MapStep ==
  ASSUME LifeInv, NEW p \in Slots, NEW k \in Windows, NEW t \in Slots, Map(p, k, t)
  PROVE  LifeInv'
<1> DEFINE Free == {x \in Maps : maps[x] = None}
           m == LowestFree(Free)
           V == {Unnamed} \cup Maps
           rec == [owner |-> p, target |-> t, row |-> Len(rows[t]) + 1]
<1>1. /\ st[p] = "Running" /\ Free # {} /\ HandleRoom(p)
      /\ st[t] \in {"Created", "Running"} /\ used[t].maps < MapLimit(t)
      /\ held' = Bind(held, p, Mapping(m))
      /\ refs' = [refs EXCEPT ![Mapping(m)] = 1]
      /\ rows' = [rows EXCEPT ![t] = Append(@, m)]
      /\ maps' = [maps EXCEPT ![m] = rec]
      /\ used' = [used EXCEPT ![t].maps = @ + 1]
      /\ UNCHANGED <<st, att, io, lost>>
  BY DEF Map, Acting
<1>2. m \in Maps /\ maps[m] = None
  <2>1. Free \in SUBSET Nat
    BY Numbers
  <2>2. LowestFree(Free) \in Free
    <3> HIDE DEF Free
    <3> QED BY <1>1, <2>1, LowestFreeIn
  <2> QED BY <2>2
<1> HIDE DEF m, Free
<1>3. /\ refs \in [Objects -> Nat] /\ Mapping(m) \in Objects
      /\ maps \in [Maps -> {None} \cup MapRecord] /\ rows \in [Slots -> Seq(V)]
      /\ used \in [Slots -> [maps : 0..RowBudget, windows : 0..NWindows]]
  BY <1>2, Typed, Names DEF Rows
<1>4. refs[Mapping(m)] = 0
  <2>1. ~(refs[Mapping(m)] > 0)
    BY <1>2 DEF LifeInv, InSlabs
  <2> QED BY <2>1, <1>3
<1>5. /\ held' \in Tables
      /\ \A q \in Slots, x \in Objects :
           held'[q][x] = IF q = p /\ x = Mapping(m) THEN 1 ELSE held[q][x]
      /\ refs' \in [Objects -> Nat] /\ refs'[Mapping(m)] = 1
      /\ \A x \in Objects : x # Mapping(m) => refs'[x] = refs[x]
      /\ Counted(refs', held', att')
      /\ \A q \in Slots : held[q][Mapping(m)] = 0
  BY <1>1, <1>3, <1>4, FirstHandle
<1>6. /\ Len(rows[t]) = ImageRows + used[t].maps /\ Len(rows[t]) < RowBudget
      /\ Len(rows[t]) \in Nat /\ used[t].maps + 1 \in 0..RowBudget
      /\ Len(rows[t]) + 1 \in 1..RowBudget /\ Len(rows[t]) + 1 > ImageRows
  <2>1. Len(rows[t]) = ImageRows + used[t].maps
    BY <1>1 DEF LifeInv, RowsCounted
  <2>2. used[t].maps \in Nat
    BY <1>3
  <2>3. MapLimit(t) \in Nat /\ MapLimit(t) + ImageRows <= RowBudget
    BY LimitFits
  <2>4. ImageRows \in Nat /\ RowBudget \in Nat
    BY Numbers
  <2>5. used[t].maps < MapLimit(t)
    BY <1>1
  <2> DEFINE u == used[t].maps
             n == Len(rows[t])
  <2> HIDE DEF u, n
  <2>6. n = ImageRows + u /\ u \in Nat /\ u < MapLimit(t)
    BY <2>1, <2>2, <2>5 DEF u, n
  <2>7. n = ImageRows + u /\ n < RowBudget /\ n \in Nat /\ u + 1 \in 0..RowBudget
        /\ n + 1 \in 1..RowBudget /\ n + 1 > ImageRows
    BY <2>3, <2>4, <2>6
  <2> QED BY <2>7 DEF u, n
<1>7. rec \in MapRecord /\ rec # None
  <2>1. rec \in MapRecord
    BY <1>6 DEF MapRecord
  <2> QED BY <2>1, Numbers DEF MapRecord
<1>8. /\ maps' \in [Maps -> {None} \cup MapRecord] /\ maps'[m] = rec
      /\ \A n \in Maps : n # m => maps'[n] = maps[n]
  <2> HIDE DEF rec
  <2> QED BY <1>1, <1>2, <1>3, <1>7
<1>9. /\ rows' \in Rows /\ Len(rows'[t]) = Len(rows[t]) + 1
      /\ DOMAIN rows'[t] = 1..(Len(rows[t]) + 1) /\ DOMAIN rows[t] = 1..Len(rows[t])
      /\ rows'[t][Len(rows[t]) + 1] = m
      /\ \A i \in 1..Len(rows[t]) : rows'[t][i] = rows[t][i]
      /\ \A s \in Slots : s # t => rows'[s] = rows[s]
  <2>1. rows[t] \in Seq(V) /\ m \in V
    BY <1>2, <1>3
  <2> HIDE DEF V
  <2>2. /\ Append(rows[t], m) \in Seq(V) /\ Len(Append(rows[t], m)) = Len(rows[t]) + 1
        /\ Append(rows[t], m)[Len(rows[t]) + 1] = m
        /\ \A i \in 1..Len(rows[t]) : Append(rows[t], m)[i] = rows[t][i]
        /\ DOMAIN rows[t] = 1..Len(rows[t])
        /\ DOMAIN Append(rows[t], m) = 1..(Len(rows[t]) + 1)
    BY <2>1
  <2>3. rows'[t] = Append(rows[t], m) /\ \A s \in Slots : s # t => rows'[s] = rows[s]
    BY <1>1, <1>3
  <2>4. rows' \in [Slots -> Seq(V)]
    BY <1>1, <1>3, <2>2
  <2> QED BY <2>2, <2>3, <2>4 DEF Rows, V
<1>10. /\ used' \in [Slots -> [maps : 0..RowBudget, windows : 0..NWindows]]
       /\ used'[t].maps = used[t].maps + 1
       /\ \A s \in Slots : s # t => used'[s].maps = used[s].maps
       /\ \A s \in Slots : used'[s].windows = used[s].windows
  BY <1>1, <1>3, <1>6
<1>11. TypeOK'
  BY <1>1, <1>5, <1>8, <1>9, <1>10, Typed DEF TypeOK, Tables, Attached, Rows, MapRecord
<1>12. InSlabs'
  <2>1. \A n \in Maps : n # m => refs'[Mapping(n)] = refs[Mapping(n)]
    BY <1>2, <1>5, Names
  <2>2. \A x \in Windows : refs'[Io(x)] = refs[Io(x)]
    BY <1>2, <1>5, Names
  <2>3. maps'[m] # None /\ refs'[Mapping(m)] > 0
    BY <1>5, <1>7, <1>8
  <2> QED BY <2>1, <2>2, <2>3, <1>1, <1>8 DEF LifeInv, InSlabs
<1>13. CleanSlots'
  <2>1. \A s \in Slots : refs'[Proc(s)] = refs[Proc(s)]
    BY <1>2, <1>5, Names
  <2>2. ASSUME NEW s \in Slots, st'[s] \in {"Free", "Gone"}
        PROVE  (\A o \in Objects : held'[s][o] = 0) /\ rows'[s] = <<>> /\ used'[s].maps = 0
    <3>1. s # p /\ s # t /\ st[s] = st'[s]
      BY <2>2, <1>1
    <3>2. (\A o \in Objects : held[s][o] = 0) /\ rows[s] = <<>> /\ used[s].maps = 0
      BY <2>2, <3>1 DEF LifeInv, CleanSlots
    <3> QED BY <3>1, <3>2, <1>5, <1>9, <1>10
  <2> QED BY <2>1, <2>2, <1>1 DEF LifeInv, CleanSlots
<1>14. MapsLive'
  <2>1. ASSUME NEW n \in Maps, maps'[n] # None
        PROVE  /\ st'[maps'[n].owner] = "Running"
               /\ maps'[n].row # None => st'[maps'[n].target] \in {"Created", "Running"}
    <3>1. CASE n = m
      BY <3>1, <1>1, <1>8
    <3>2. CASE n # m
      BY <2>1, <3>2, <1>1, <1>8 DEF LifeInv, MapsLive
    <3> QED BY <3>1, <3>2
  <2>2. ASSUME NEW n \in Maps, NEW q \in Slots, held'[q][Mapping(n)] > 0
        PROVE  maps'[n] # None /\ maps'[n].owner = q
    <3>1. CASE n = m
      <4>1. q # p => held'[q][Mapping(m)] = 0
        BY <1>3, <1>5
      <4>2. q = p
        BY <2>2, <3>1, <4>1
      <4> QED BY <3>1, <4>2, <1>7, <1>8
    <3>2. CASE n # m
      <4>1. Mapping(n) \in Objects /\ Mapping(n) # Mapping(m)
        BY <3>2, <1>2, Names
      <4>2. held[q][Mapping(n)] > 0
        BY <2>2, <4>1, <1>5
      <4> QED BY <3>2, <4>2, <1>8 DEF LifeInv, MapsLive
    <3> QED BY <3>1, <3>2
  <2> QED BY <2>1, <2>2 DEF MapsLive
<1>15. RowsAgree'
  <2>1. ASSUME NEW n \in Maps, maps'[n] # None, maps'[n].row # None
        PROVE  /\ maps'[n].row \in DOMAIN rows'[maps'[n].target]
               /\ rows'[maps'[n].target][maps'[n].row] = n
    <3>1. CASE n = m
      BY <3>1, <1>6, <1>8, <1>9
    <3>2. CASE n # m
      <4>1. maps'[n] = maps[n] /\ maps[n].target \in Slots
        BY <2>1, <3>2, <1>3, <1>8 DEF MapRecord
      <4>2. maps[n].row \in DOMAIN rows[maps[n].target] /\ rows[maps[n].target][maps[n].row] = n
        BY <2>1, <4>1 DEF LifeInv, RowsAgree
      <4>3. CASE maps[n].target = t
        BY <4>1, <4>2, <4>3, <1>6, <1>9
      <4>4. CASE maps[n].target # t
        BY <4>1, <4>2, <4>4, <1>9
      <4> QED BY <4>3, <4>4
    <3> QED BY <3>1, <3>2
  <2>2. ASSUME NEW s \in Slots, NEW i \in DOMAIN rows'[s], rows'[s][i] \in Maps
        PROVE  maps'[rows'[s][i]] # None /\ maps'[rows'[s][i]].target = s
                 /\ maps'[rows'[s][i]].row = i
    <3>1. CASE s = t /\ i = Len(rows[t]) + 1
      BY <3>1, <1>7, <1>8, <1>9
    <3>2. CASE ~(s = t /\ i = Len(rows[t]) + 1)
      <4>1. i \in DOMAIN rows[s] /\ rows'[s][i] = rows[s][i]
        <5>1. CASE s = t
          <6>1. i \in 1..(Len(rows[t]) + 1) /\ i # Len(rows[t]) + 1
            BY <3>2, <5>1, <1>9
          <6>2. i \in 1..Len(rows[t])
            BY <6>1, <1>6
          <6> QED BY <5>1, <6>2, <1>9
        <5>2. CASE s # t
          BY <5>2, <1>9
        <5> QED BY <5>1, <5>2
      <4>2. maps[rows[s][i]] # None /\ maps[rows[s][i]].target = s /\ maps[rows[s][i]].row = i
        BY <2>2, <4>1 DEF LifeInv, RowsAgree
      <4>3. rows[s][i] # m
        BY <4>2, <1>2
      <4> QED BY <2>2, <4>1, <4>2, <4>3, <1>8
    <3> QED BY <3>1, <3>2
  <2> QED BY <2>1, <2>2 DEF RowsAgree
<1>16. RowsCounted'
  <2>1. ASSUME NEW s \in Slots, st'[s] \in {"Created", "Running"}
        PROVE  Len(rows'[s]) = ImageRows + used'[s].maps
    <3>1. CASE s = t
      <4>1. ImageRows \in Nat /\ used[t].maps \in Nat
        BY <1>3, Numbers
      <4> QED BY <4>1, <3>1, <1>6, <1>9, <1>10
    <3>2. CASE s # t
      BY <2>1, <3>2, <1>1, <1>9, <1>10 DEF LifeInv, RowsCounted
    <3> QED BY <3>1, <3>2
  <2>2. ASSUME NEW s \in Slots, NEW i \in DOMAIN rows'[s], rows'[s][i] \in Maps
        PROVE  i > ImageRows
    <3>1. CASE s = t /\ i = Len(rows[t]) + 1
      BY <3>1, <1>6
    <3>2. CASE ~(s = t /\ i = Len(rows[t]) + 1)
      <4>1. i \in DOMAIN rows[s] /\ rows'[s][i] = rows[s][i]
        <5>1. CASE s = t
          <6>1. i \in 1..(Len(rows[t]) + 1) /\ i # Len(rows[t]) + 1
            BY <3>2, <5>1, <1>9
          <6>2. i \in 1..Len(rows[t])
            BY <6>1, <1>6
          <6> QED BY <5>1, <6>2, <1>9
        <5>2. CASE s # t
          BY <5>2, <1>9
        <5> QED BY <5>1, <5>2
      <4> QED BY <2>2, <4>1 DEF LifeInv, RowsCounted
    <3> QED BY <3>1, <3>2
  <2> QED BY <2>1, <2>2 DEF RowsCounted
<1>17. Charged(used', io')
  BY <1>1, <1>10 DEF LifeInv, Charged
<1> QED BY <1>5, <1>11, <1>12, <1>13, <1>14, <1>15, <1>16, <1>17 DEF LifeInv

\* remove_grant: what is left of a record without its row r.
LEMMA RowRemoved ==
  ASSUME NEW V, NEW q \in Seq(V), NEW r \in 1..Len(q)
  PROVE  LET c == SubSeq(q, 1, r - 1) \o SubSeq(q, r + 1, Len(q))
         IN  /\ c \in Seq(V) /\ Len(c) = Len(q) - 1 /\ DOMAIN c = 1..(Len(q) - 1)
             /\ \A j \in 1..(Len(q) - 1) : c[j] = IF j < r THEN q[j] ELSE q[j + 1]
<1> DEFINE a == SubSeq(q, 1, r - 1)
           b == SubSeq(q, r + 1, Len(q))
<1>1. Len(q) \in Nat /\ r \in Nat /\ r >= 1 /\ r <= Len(q) /\ \A i \in 1..Len(q) : q[i] \in V
  OBVIOUS
<1>2. /\ a \in Seq(V) /\ Len(a) = r - 1 /\ \A i \in 1..(r - 1) : a[i] = q[i]
  <2>1. 1 \in Int /\ r - 1 \in Int /\ \A i \in 1..(r - 1) : q[i] \in V
    BY <1>1
  <2>2. /\ a \in Seq(V) /\ Len(a) = IF 1 <= r - 1 THEN (r - 1) - 1 + 1 ELSE 0
        /\ \A i \in 1..((r - 1) - 1 + 1) : a[i] = q[1 + i - 1]
    BY <2>1, SubSeqProperties
  <2>3. ASSUME NEW i \in 1..(r - 1) PROVE i \in 1..((r - 1) - 1 + 1) /\ 1 + i - 1 = i
    BY <1>1
  <2>4. Len(a) = r - 1
    BY <2>2, <1>1
  <2> HIDE DEF a
  <2> QED BY <2>2, <2>3, <2>4
<1>3. /\ b \in Seq(V) /\ Len(b) = Len(q) - r /\ \A i \in 1..(Len(q) - r) : b[i] = q[r + i]
  <2>1. r + 1 \in Int /\ Len(q) \in Int /\ \A i \in (r + 1)..Len(q) : q[i] \in V
    BY <1>1
  <2>2. /\ b \in Seq(V) /\ Len(b) = IF r + 1 <= Len(q) THEN Len(q) - (r + 1) + 1 ELSE 0
        /\ \A i \in 1..(Len(q) - (r + 1) + 1) : b[i] = q[(r + 1) + i - 1]
    BY <2>1, SubSeqProperties
  <2>3. ASSUME NEW i \in 1..(Len(q) - r)
        PROVE  i \in 1..(Len(q) - (r + 1) + 1) /\ (r + 1) + i - 1 = r + i
    BY <1>1
  <2>4. Len(b) = Len(q) - r
    BY <2>2, <1>1
  <2> HIDE DEF b
  <2> QED BY <2>2, <2>3, <2>4
<1> HIDE DEF a, b
<1>4. /\ a \o b \in Seq(V) /\ Len(a \o b) = Len(a) + Len(b)
      /\ \A i \in 1..(Len(a) + Len(b)) :
           (a \o b)[i] = IF i <= Len(a) THEN a[i] ELSE b[i - Len(a)]
  BY <1>2, <1>3, ConcatProperties
<1>5. Len(a) + Len(b) = Len(q) - 1
  BY <1>1, <1>2, <1>3
<1>6. DOMAIN (a \o b) = 1..(Len(q) - 1)
  BY <1>4, <1>5
<1>7. ASSUME NEW j \in 1..(Len(q) - 1)
      PROVE  (a \o b)[j] = IF j < r THEN q[j] ELSE q[j + 1]
  <2>1. j \in 1..(Len(a) + Len(b)) /\ j \in Nat
    BY <1>5
  <2>2. CASE j < r
    <3>1. j <= Len(a) /\ j \in 1..(r - 1)
      BY <2>1, <2>2, <1>1, <1>2
    <3> QED BY <2>1, <2>2, <3>1, <1>2, <1>4
  <2>3. CASE ~(j < r)
    <3>1. ~(j <= Len(a)) /\ j - Len(a) = j - (r - 1) /\ j - (r - 1) \in 1..(Len(q) - r)
          /\ r + (j - (r - 1)) = j + 1
      BY <2>1, <2>3, <1>1, <1>2
    <3> QED BY <2>1, <2>3, <3>1, <1>3, <1>4
  <2> QED BY <2>2, <2>3
<1> QED BY <1>4, <1>5, <1>6, <1>7 DEF a, b

LEMMA UnmapStep ==
  ASSUME LifeInv, NEW p \in Slots, NEW m \in Maps, Unmap(p, m)
  PROVE  LifeInv'
<1> DEFINE t == maps[m].target
           r == maps[m].row
           V == {Unnamed} \cup Maps
           q == rows[t]
           Moves(n) == maps[n] # None /\ maps[n].target = t /\ maps[n].row # None
                         /\ maps[n].row > r
<1>1. /\ held[p][Mapping(m)] > 0 /\ r # None
      /\ rows' = [rows EXCEPT ![t] = SubSeq(q, 1, r - 1) \o SubSeq(q, r + 1, Len(q))]
      /\ maps' = [compact_mapping_rows(t, r) EXCEPT ![m].row = None]
      /\ used' = [used EXCEPT ![t].maps = Less(@, 1)]
      /\ UNCHANGED <<st, held, refs, att, io, lost>>
  <2>1. t \in Slots /\ rows \in Rows
    <3>1. held[p][Mapping(m)] > 0
      BY DEF Unmap
    <3>2. maps[m] # None
      BY <3>1 DEF LifeInv, MapsLive
    <3> QED BY <3>2, Typed DEF MapRecord
  <2> QED BY <2>1 DEF Unmap, tableVars
<1>2. /\ maps[m] # None /\ maps[m] \in MapRecord /\ t \in Slots
      /\ maps \in [Maps -> {None} \cup MapRecord] /\ rows \in [Slots -> Seq(V)]
      /\ used \in [Slots -> [maps : 0..RowBudget, windows : 0..NWindows]]
  <2>1. maps[m] # None
    BY <1>1 DEF LifeInv, MapsLive
  <2> QED BY <2>1, Typed DEF MapRecord, Rows
<1>3. /\ st[t] \in {"Created", "Running"} /\ r \in DOMAIN q /\ q[r] = m /\ r > ImageRows
      /\ Len(q) = ImageRows + used[t].maps
  <2>1. st[t] \in {"Created", "Running"}
    BY <1>1, <1>2 DEF LifeInv, MapsLive
  <2>2. r \in DOMAIN q /\ q[r] = m
    BY <1>1, <1>2 DEF LifeInv, RowsAgree
  <2> QED BY <2>1, <2>2, <1>2 DEF LifeInv, RowsCounted
<1>4. /\ q \in Seq(V) /\ DOMAIN q = 1..Len(q) /\ r \in 1..Len(q) /\ Len(q) \in Nat
      /\ r \in Nat /\ r >= 1 /\ r <= Len(q)
  <2>1. q \in Seq(V)
    BY <1>2
  <2>2. DOMAIN q = 1..Len(q) /\ Len(q) \in Nat
    BY <2>1
  <2>3. r \in 1..Len(q)
    BY <2>2, <1>3
  <2> HIDE DEF q, r, V
  <2> QED BY <2>1, <2>2, <2>3
<1>5. /\ rows' \in Rows /\ DOMAIN rows'[t] = 1..(Len(q) - 1) /\ Len(rows'[t]) = Len(q) - 1
      /\ \A j \in 1..(Len(q) - 1) : rows'[t][j] = IF j < r THEN q[j] ELSE q[j + 1]
      /\ \A s \in Slots : s # t => rows'[s] = rows[s]
  <2> DEFINE c == SubSeq(q, 1, r - 1) \o SubSeq(q, r + 1, Len(q))
  <2>1. /\ c \in Seq(V) /\ Len(c) = Len(q) - 1 /\ DOMAIN c = 1..(Len(q) - 1)
        /\ \A j \in 1..(Len(q) - 1) : c[j] = IF j < r THEN q[j] ELSE q[j + 1]
    <3> HIDE DEF q, r, V
    <3> QED BY <1>4, RowRemoved
  <2>2. rows' = [rows EXCEPT ![t] = c]
    BY <1>1
  <2> HIDE DEF c, V, t
  <2>3. rows' \in [Slots -> Seq(V)] /\ rows'[t] = c /\ \A s \in Slots : s # t => rows'[s] = rows[s]
    BY <1>2, <2>1, <2>2
  <2> QED BY <2>1, <2>3 DEF Rows, V
<1>6. ASSUME NEW n \in Maps, maps[n] # None, maps[n].row # None
      PROVE  /\ maps[n].row \in 1..RowBudget /\ maps[n].target \in Slots
             /\ maps[n].row \in DOMAIN rows[maps[n].target]
             /\ rows[maps[n].target][maps[n].row] = n
             /\ n # m /\ maps[n].target = t => maps[n].row # r
  <2>1. maps[n] \in MapRecord
    BY <1>6, <1>2
  <2>2. maps[n].row \in 1..RowBudget /\ maps[n].target \in Slots
    BY <1>6, <2>1 DEF MapRecord
  <2>3. maps[n].row \in DOMAIN rows[maps[n].target] /\ rows[maps[n].target][maps[n].row] = n
    BY <1>6 DEF LifeInv, RowsAgree
  <2>4. n # m /\ maps[n].target = t => maps[n].row # r
    BY <2>3, <1>3
  <2> QED BY <2>2, <2>3, <2>4
<1>7. ASSUME NEW n \in Maps
      PROVE  maps'[n] = IF n = m THEN [maps[m] EXCEPT !.row = None]
                        ELSE IF Moves(n) THEN [maps[n] EXCEPT !.row = @ - 1] ELSE maps[n]
  <2>1. ~Moves(m)
    <3>1. ~(r > r)
      BY <1>4
    <3> QED BY <3>1
  <2>2. compact_mapping_rows(t, r)[m] = maps[m]
    BY <2>1 DEF compact_mapping_rows
  <2>3. compact_mapping_rows(t, r)[n] = IF Moves(n) THEN [maps[n] EXCEPT !.row = @ - 1] ELSE maps[n]
    BY DEF compact_mapping_rows
  <2>4. DOMAIN compact_mapping_rows(t, r) = Maps
    BY DEF compact_mapping_rows
  <2> HIDE DEF Moves, t, r
  <2> QED BY <1>1, <2>2, <2>3, <2>4
<1>8. ASSUME NEW n \in Maps, maps[n] # None
      PROVE  /\ maps'[n] \in MapRecord
             /\ maps'[n].owner = maps[n].owner /\ maps'[n].target = maps[n].target
             /\ n = m => maps'[n].row = None
             /\ n # m => maps'[n].row = IF Moves(n) THEN maps[n].row - 1 ELSE maps[n].row
             /\ maps'[n].row # None => maps[n].row # None
  <2>1. maps[n] \in MapRecord
    BY <1>8, <1>2
  <2>2. CASE n = m
    <3>1. maps'[n] = [maps[n] EXCEPT !.row = None]
      BY <2>2, <1>7
    <3> HIDE DEF Moves
    <3> QED BY <1>1, <2>1, <2>2, <3>1 DEF MapRecord
  <2>3. CASE n # m /\ Moves(n)
    <3>1. maps'[n] = [maps[n] EXCEPT !.row = @ - 1]
      BY <2>3, <1>7
    <3>2. maps[n].row \in 1..RowBudget /\ maps[n].row > r /\ maps[n].row # None
      BY <2>3, <1>6
    <3>3. maps[n].row - 1 \in 1..RowBudget
      <4>1. RowBudget \in Nat /\ r \in Nat /\ r >= 1
        BY <1>4, Numbers
      <4> DEFINE x == maps[n].row
      <4> HIDE DEF r, x
      <4>2. x \in 1..RowBudget /\ x > r
        BY <3>2 DEF x
      <4>3. x - 1 \in 1..RowBudget
        BY <4>1, <4>2
      <4> QED BY <4>3 DEF x
    <3> QED BY <2>1, <2>3, <3>1, <3>2, <3>3 DEF MapRecord
  <2>4. CASE n # m /\ ~Moves(n)
    <3>1. maps'[n] = maps[n]
      BY <2>4, <1>7
    <3> QED BY <2>1, <2>4, <3>1
  <2> QED BY <2>2, <2>3, <2>4
<1>9. \A n \in Maps : maps'[n] = None <=> maps[n] = None
  <2>1. ASSUME NEW n \in Maps, maps[n] # None PROVE maps'[n] # None
    <3>1. maps'[n] \in MapRecord
      BY <1>8, <2>1
    <3> QED BY <3>1, Numbers DEF MapRecord
  <2>2. ASSUME NEW n \in Maps, maps[n] = None PROVE maps'[n] = None
    BY <2>2, <1>2, <1>7
  <2> QED BY <2>1, <2>2
<1>10. maps' \in [Maps -> {None} \cup MapRecord]
  <2>1. maps' = [n \in Maps |-> maps'[n]]
    BY <1>1 DEF compact_mapping_rows
  <2>2. \A n \in Maps : maps'[n] \in {None} \cup MapRecord
    BY <1>8, <1>9
  <2> QED BY <2>1, <2>2
<1>11. /\ used' \in [Slots -> [maps : 0..RowBudget, windows : 0..NWindows]]
       /\ used'[t].maps = used[t].maps - 1
       /\ \A s \in Slots : s # t => used'[s].maps = used[s].maps
       /\ \A s \in Slots : used'[s].windows = used[s].windows
  <2>1. used[t].maps \in 0..RowBudget
    BY <1>2
  <2>2. used[t].maps >= 1
    <3> DEFINE u == used[t].maps
               n == Len(q)
    <3>1. n = ImageRows + u /\ r > ImageRows /\ r <= n /\ r \in Nat /\ n \in Nat
          /\ u \in Nat /\ ImageRows \in Nat
      BY <2>1, <1>3, <1>4, Numbers
    <3> HIDE DEF u, n, r
    <3>2. u >= 1
      BY <3>1
    <3> QED BY <3>2 DEF u
  <2>3. Less(used[t].maps, 1) = used[t].maps - 1 /\ used[t].maps - 1 \in 0..RowBudget
    BY <2>1, <2>2, Numbers DEF Less
  <2> HIDE DEF t
  <2> QED BY <2>3, <1>1, <1>2
<1>12. TypeOK'
  BY <1>1, <1>5, <1>10, <1>11, Typed DEF TypeOK, Tables, Attached, Rows, MapRecord
<1>13. InSlabs'
  BY <1>1, <1>9 DEF LifeInv, InSlabs
<1>14. CleanSlots'
  <2>1. ASSUME NEW s \in Slots, st'[s] \in {"Free", "Gone"}
        PROVE  (\A o \in Objects : held'[s][o] = 0) /\ rows'[s] = <<>> /\ used'[s].maps = 0
    <3>1. s # t /\ st[s] = st'[s]
      BY <2>1, <1>1, <1>3
    <3>2. (\A o \in Objects : held[s][o] = 0) /\ rows[s] = <<>> /\ used[s].maps = 0
      BY <2>1, <3>1 DEF LifeInv, CleanSlots
    <3> QED BY <3>1, <3>2, <1>1, <1>5, <1>11
  <2> QED BY <2>1, <1>1 DEF LifeInv, CleanSlots
<1>15. MapsLive'
  <2>1. ASSUME NEW n \in Maps, maps'[n] # None
        PROVE  /\ st'[maps'[n].owner] = "Running"
               /\ maps'[n].row # None => st'[maps'[n].target] \in {"Created", "Running"}
    <3>1. maps[n] # None
      BY <2>1, <1>9
    <3> HIDE DEF Moves
    <3> QED BY <3>1, <1>1, <1>8 DEF LifeInv, MapsLive
  <2>2. ASSUME NEW n \in Maps, NEW s \in Slots, held'[s][Mapping(n)] > 0
        PROVE  maps'[n] # None /\ maps'[n].owner = s
    <3>1. maps[n] # None /\ maps[n].owner = s
      BY <2>2, <1>1 DEF LifeInv, MapsLive
    <3> HIDE DEF Moves
    <3> QED BY <3>1, <1>8, <1>9
  <2> QED BY <2>1, <2>2 DEF MapsLive
<1>16. RowsAgree'
  <2>1. ASSUME NEW n \in Maps, maps'[n] # None, maps'[n].row # None
        PROVE  /\ maps'[n].row \in DOMAIN rows'[maps'[n].target]
               /\ rows'[maps'[n].target][maps'[n].row] = n
    <3>1. maps[n] # None /\ maps[n].row # None /\ n # m /\ maps'[n].target = maps[n].target
      BY <2>1, <1>8, <1>9
    <3>2. /\ maps[n].row \in 1..RowBudget /\ maps[n].target \in Slots
          /\ maps[n].row \in DOMAIN rows[maps[n].target]
          /\ rows[maps[n].target][maps[n].row] = n
          /\ maps[n].target = t => maps[n].row # r
      BY <3>1, <1>6
    <3>3. CASE maps[n].target = t /\ maps[n].row > r
      <4> DEFINE j == maps[n].row - 1
      <4>1. maps'[n].row = j
        BY <3>1, <3>3, <1>8
      <4>2. maps[n].row \in 1..Len(q) /\ q[maps[n].row] = n
        BY <3>2, <3>3, <1>4
      <4>3. j \in 1..(Len(q) - 1) /\ ~(j < r) /\ j + 1 = maps[n].row
        BY <4>2, <3>3, <1>4
      <4>4. rows'[t][j] = n
        BY <4>2, <4>3, <1>5
      <4> QED BY <3>1, <3>3, <4>1, <4>3, <4>4, <1>5
    <3>4. CASE maps[n].target = t /\ ~(maps[n].row > r)
      <4> DEFINE j == maps[n].row
      <4>1. maps'[n].row = j
        BY <3>1, <3>4, <1>8
      <4>2. j \in 1..Len(q) /\ q[j] = n /\ j # r
        BY <3>2, <3>4, <1>4
      <4>3. ~(j > r)
        BY <3>4
      <4> HIDE DEF j
      <4>4. j \in 1..(Len(q) - 1) /\ j < r
        BY <4>2, <4>3, <1>4
      <4>5. rows'[t][j] = n
        BY <4>2, <4>4, <1>5
      <4> QED BY <3>1, <3>4, <4>1, <4>4, <4>5, <1>5
    <3>5. CASE maps[n].target # t
      BY <3>1, <3>2, <3>5, <1>5, <1>8
    <3> QED BY <3>3, <3>4, <3>5
  <2>2. ASSUME NEW s \in Slots, NEW j \in DOMAIN rows'[s], rows'[s][j] \in Maps
        PROVE  maps'[rows'[s][j]] # None /\ maps'[rows'[s][j]].target = s
                 /\ maps'[rows'[s][j]].row = j
    <3> DEFINE n == rows'[s][j]
    <3>1. CASE s = t
      <4> DEFINE i == IF j < r THEN j ELSE j + 1
      <4>1. j \in 1..(Len(q) - 1) /\ j \in Nat
        BY <3>1, <1>4, <1>5
      <4>2. i \in 1..Len(q) /\ i # r /\ i \in Nat
        BY <4>1, <1>4
      <4>3. n = q[i]
        BY <3>1, <4>1, <1>5
      <4>4. maps[n] # None /\ maps[n].target = t /\ maps[n].row = i
        BY <2>2, <4>2, <4>3, <1>2, <1>4 DEF LifeInv, RowsAgree
      <4>5. n # m
        BY <4>2, <4>4
      <4>6. maps'[n] # None /\ maps'[n].target = t
        BY <2>2, <4>4, <1>8, <1>9
      <4>7. maps'[n].row = IF Moves(n) THEN maps[n].row - 1 ELSE maps[n].row
        BY <2>2, <4>4, <4>5, <1>8
      <4>8. i # None
        BY <4>2, Numbers
      <4>9. Moves(n) <=> i > r
        BY <4>4, <4>8
      <4> HIDE DEF Moves, n
      <4>10. maps'[n].row = IF i > r THEN i - 1 ELSE i
        BY <4>4, <4>7, <4>9
      <4>11. (IF i > r THEN i - 1 ELSE i) = j
        BY <4>1, <1>4
      <4> QED BY <3>1, <4>6, <4>10, <4>11 DEF n
    <3>2. CASE s # t
      <4>1. rows'[s] = rows[s]
        BY <3>2, <1>5
      <4>2. maps[n] # None /\ maps[n].target = s /\ maps[n].row = j
        BY <2>2, <4>1 DEF LifeInv, RowsAgree
      <4>3. n # m /\ ~Moves(n)
        BY <4>2, <3>2
      <4> HIDE DEF n
      <4>4. maps'[n] # None /\ maps'[n].target = s /\ maps'[n].row = j
        BY <2>2, <4>2, <4>3, <1>8, <1>9 DEF n
      <4> QED BY <4>4 DEF n
    <3> QED BY <3>1, <3>2
  <2> QED BY <2>1, <2>2 DEF RowsAgree
<1>17. RowsCounted'
  <2>1. ASSUME NEW s \in Slots, st'[s] \in {"Created", "Running"}
        PROVE  Len(rows'[s]) = ImageRows + used'[s].maps
    <3>1. CASE s = t
      <4>1. ImageRows \in Nat /\ used[t].maps \in 0..RowBudget
        BY <1>2, Numbers
      <4>2. Len(rows'[t]) = Len(q) - 1 /\ Len(q) = ImageRows + used[t].maps
        BY <1>3, <1>5
      <4>3. used'[t].maps = used[t].maps - 1
        BY <1>11
      <4> DEFINE u == used[t].maps
      <4> HIDE DEF q, t, u
      <4>4. u \in 0..RowBudget /\ Len(q) = ImageRows + u /\ used'[t].maps = u - 1
        BY <4>1, <4>2, <4>3 DEF u
      <4> QED BY <4>1, <4>2, <4>4, <3>1
    <3>2. CASE s # t
      BY <2>1, <3>2, <1>1, <1>5, <1>11 DEF LifeInv, RowsCounted
    <3> QED BY <3>1, <3>2
  <2>2. ASSUME NEW s \in Slots, NEW j \in DOMAIN rows'[s], rows'[s][j] \in Maps
        PROVE  j > ImageRows
    <3>1. CASE s = t
      <4>1. j \in 1..(Len(q) - 1) /\ j \in Nat /\ ImageRows \in Nat
        BY <3>1, <1>4, <1>5, Numbers
      <4>2. CASE j < r
        <5>1. j \in DOMAIN rows[t] /\ rows[t][j] \in Maps
          BY <2>2, <3>1, <4>1, <4>2, <1>4, <1>5
        <5> QED BY <5>1, <1>2 DEF LifeInv, RowsCounted
      <4>3. CASE ~(j < r)
        <5> HIDE DEF r
        <5> QED BY <4>1, <4>3, <1>3, <1>4
      <4> QED BY <4>2, <4>3
    <3>2. CASE s # t
      BY <2>2, <3>2, <1>5 DEF LifeInv, RowsCounted
    <3> QED BY <3>1, <3>2
  <2> QED BY <2>1, <2>2 DEF RowsCounted
<1>18. Charged(used', io') /\ Counted(refs', held', att')
  BY <1>1, <1>11 DEF LifeInv, Charged, Counted
<1> QED BY <1>12, <1>13, <1>14, <1>15, <1>16, <1>17, <1>18 DEF LifeInv

(***************************************************************************)
(* The teardown.  U is what it unhooks: the attachments of c's Waiters,    *)
(* and the one on c itself when its end was told to a one-shot.            *)
(***************************************************************************)
Hooks(U, o) == {s \in U : o = Proc(s)}
Mine(c) == {m \in Maps : maps[m] # None /\ maps[m].owner = c}
Reaped(left) == {k \in Windows : io[k] # None /\ left[Io(k)] = 0}

Left(c, U) ==
    [o \in Objects |->
       IF o[1] = "mapping" /\ maps[o[2]] # None /\ maps[o[2]].owner = c
         THEN 0 ELSE Less(refs[o], held[c][o] + Cardinality(Hooks(U, o)))]

Ended(c, U) ==
    /\ refs' = Left(c, U)
    /\ held' = [held EXCEPT ![c] = [o \in Objects |-> 0]]
    /\ att' = [s \in Slots |-> IF s \in U THEN None ELSE att[s]]
    /\ io' = [k \in Windows |-> IF k \in Reaped(refs') THEN None ELSE io[k]]
    /\ maps' = SweepMaps(c)
    /\ rows' = [Leaked(Mine(c), rows) EXCEPT ![c] = <<>>]
    /\ used' = [s \in Slots |->
                  IF s = c THEN [maps |-> 0, windows |-> 0]
                  ELSE [used[s] EXCEPT !.windows =
                         Less(@, Cardinality({k \in Reaped(refs') : io[k] = s}))]]
    /\ st' = [st EXCEPT ![c] = IF refs'[Proc(c)] = 0 THEN "Free" ELSE "Gone"]

LEMMA HookCount ==
  ASSUME NEW U \in SUBSET Slots, NEW s \in Slots
  PROVE  Cardinality(Hooks(U, Proc(s))) = IF s \in U THEN 1 ELSE 0
<1>1. Hooks(U, Proc(s)) = IF s \in U THEN {s} ELSE {}
  BY Names DEF Hooks
<1> QED BY <1>1, FS_EmptySet, FS_Singleton

LEMMA NoHooks ==
  ASSUME NEW U \in SUBSET Slots, NEW o, \A s \in Slots : o # Proc(s)
  PROVE  Cardinality(Hooks(U, o)) = 0
<1>1. Hooks(U, o) = {}
  BY DEF Hooks
<1> QED BY <1>1, FS_EmptySet

LEMMA EndedIs ==
  ASSUME LifeInv, NEW c \in Slots, end_process(c)
  PROVE  \E U \in SUBSET Slots :
            /\ \A s \in U : att[s] # None
            /\ \A s \in Slots : att[s] # None /\ att[s].by = c => s \in U
            /\ Ended(c, U)
<1>1. EndWith(c, Watching(c))
  BY DEF end_process
<1>2. PICK told \in {FALSE, att[c] # None /\ att[c].once} :
      LET found == Watching(c) \ (IF told THEN {c} ELSE {})
          drops(o) == held[c][o]
                      + Cardinality({s \in found : o = Proc(s)})
                      + (IF told /\ o = Proc(c) THEN 1 ELSE 0)
          left == [o \in Objects |->
                     IF o[1] = "mapping" /\ maps[o[2]] # None /\ maps[o[2]].owner = c
                       THEN 0 ELSE Less(refs[o], drops(o))]
          reaped == {k \in Windows : io[k] # None /\ left[Io(k)] = 0}
          mine == {m \in Maps : maps[m] # None /\ maps[m].owner = c}
      IN  /\ refs' = left
          /\ held' = [held EXCEPT ![c] = [o \in Objects |-> 0]]
          /\ att' = [s \in Slots |-> IF s \in found \/ (told /\ s = c)
                                       THEN None ELSE att[s]]
          /\ io' = [k \in Windows |-> IF k \in reaped THEN None ELSE io[k]]
          /\ maps' = SweepMaps(c)
          /\ rows' = [Leaked(mine, rows) EXCEPT ![c] = <<>>]
          /\ used' = [s \in Slots |->
                        IF s = c THEN [maps |-> 0, windows |-> 0]
                        ELSE [used[s] EXCEPT !.windows =
                               Less(@, Cardinality({k \in reaped : io[k] = s}))]]
          /\ st' = [st EXCEPT ![c] = IF left[Proc(c)] = 0 THEN "Free" ELSE "Gone"]
  BY <1>1, Zenon DEF EndWith
<1> DEFINE T == IF told THEN {c} ELSE {}
           found == Watching(c) \ T
           U == found \cup T
           drops(o) == held[c][o]
                      + Cardinality({s \in found : o = Proc(s)})
                      + (IF told /\ o = Proc(c) THEN 1 ELSE 0)
<1>3. told => att[c] # None
  OBVIOUS
<1>4. U \in SUBSET Slots /\ found \in SUBSET Slots
  BY DEF Watching
<1>5. \A s \in U : att[s] # None
  BY <1>3 DEF Watching
<1>6. \A s \in Slots : att[s] # None /\ att[s].by = c => s \in U
  BY DEF Watching
<1>7. ASSUME NEW o \in Objects
      PROVE  drops(o) = held[c][o] + Cardinality(Hooks(U, o))
  <2>0. held[c][o] \in Nat
    BY Typed DEF Tables
  <2>1. {s \in found : o = Proc(s)} = Hooks(found, o)
    BY DEF Hooks
  <2>2. CASE \E s \in Slots : o = Proc(s)
    <3>1. PICK s \in Slots : o = Proc(s)
      BY <2>2
    <3>2. Cardinality(Hooks(found, o)) = IF s \in found THEN 1 ELSE 0
      BY <1>4, <3>1, HookCount
    <3>3. Cardinality(Hooks(U, o)) = IF s \in U THEN 1 ELSE 0
      BY <1>4, <3>1, HookCount
    <3>4. o = Proc(c) <=> s = c
      BY <3>1, Names
    <3>5. CASE told
      <4>1. s \in U <=> s \in found \/ s = c
        BY <3>5
      <4>2. s = c => s \notin found
        BY <3>5
      <4>3. (IF told /\ o = Proc(c) THEN 1 ELSE 0) = IF s = c THEN 1 ELSE 0
        BY <3>4, <3>5
      <4> HIDE DEF found, U
      <4> QED BY <2>0, <2>1, <3>2, <3>3, <4>1, <4>2, <4>3
    <3>6. CASE ~told
      <4>1. s \in U <=> s \in found
        BY <3>6
      <4>2. (IF told /\ o = Proc(c) THEN 1 ELSE 0) = 0
        BY <3>6
      <4>3. drops(o) = held[c][o] + Cardinality(Hooks(found, o)) + 0
        BY <2>1, <4>2
      <4> DEFINE n == Cardinality(Hooks(found, o))
                 h == held[c][o]
      <4> HIDE DEF found, U, drops, n, h
      <4>4. n \in Nat /\ h \in Nat /\ Cardinality(Hooks(U, o)) = n /\ drops(o) = h + n + 0
        BY <2>0, <3>2, <3>3, <4>1, <4>3 DEF n, h
      <4>5. drops(o) = h + n
        BY <4>4
      <4> QED BY <4>4, <4>5 DEF h
    <3> QED BY <3>5, <3>6
  <2>3. CASE \A s \in Slots : o # Proc(s)
    <3>1. Cardinality(Hooks(found, o)) = 0 /\ Cardinality(Hooks(U, o)) = 0
      BY <1>4, <2>3, NoHooks
    <3>2. (IF told /\ o = Proc(c) THEN 1 ELSE 0) = 0
      BY <2>3
    <3> HIDE DEF found, U
    <3> QED BY <2>0, <2>1, <3>1, <3>2
  <2> QED BY <2>2, <2>3
<1> DEFINE left == [o \in Objects |->
                     IF o[1] = "mapping" /\ maps[o[2]] # None /\ maps[o[2]].owner = c
                       THEN 0 ELSE Less(refs[o], drops(o))]
<1>8. left = Left(c, U)
  <2> HIDE DEF U, drops
  <2> QED BY <1>7 DEF Left
<1>9. refs' = left
  BY <1>2
<1>10. [s \in Slots |-> IF s \in found \/ (told /\ s = c) THEN None ELSE att[s]]
         = [s \in Slots |-> IF s \in U THEN None ELSE att[s]]
  <2>1. ASSUME NEW s \in Slots PROVE (s \in found \/ (told /\ s = c)) <=> s \in U
    OBVIOUS
  <2> HIDE DEF U, found
  <2> QED BY <2>1
<1>11. Ended(c, U)
  <2>1. refs' = Left(c, U)
    BY <1>8, <1>9
  <2>2. held' = [held EXCEPT ![c] = [o \in Objects |-> 0]] /\ maps' = SweepMaps(c)
    BY <1>2
  <2>3. att' = [s \in Slots |-> IF s \in U THEN None ELSE att[s]]
    <3>1. att' = [s \in Slots |-> IF s \in found \/ (told /\ s = c) THEN None ELSE att[s]]
      BY <1>2
    <3> HIDE DEF U, found
    <3> QED BY <3>1, <1>10
  <2>4. io' = [k \in Windows |-> IF k \in Reaped(left) THEN None ELSE io[k]]
    BY <1>2 DEF Reaped
  <2>5. rows' = [Leaked(Mine(c), rows) EXCEPT ![c] = <<>>]
    BY <1>2 DEF Mine
  <2>6. used' = [s \in Slots |->
                  IF s = c THEN [maps |-> 0, windows |-> 0]
                  ELSE [used[s] EXCEPT !.windows =
                         Less(@, Cardinality({k \in Reaped(left) : io[k] = s}))]]
    BY <1>2 DEF Reaped
  <2>7. st' = [st EXCEPT ![c] = IF left[Proc(c)] = 0 THEN "Free" ELSE "Gone"]
    BY <1>2
  <2> HIDE DEF left, U
  <2> QED BY <1>9, <2>1, <2>2, <2>3, <2>4, <2>5, <2>6, <2>7 DEF Ended
<1> HIDE DEF U
<1> QED BY <1>4, <1>5, <1>6, <1>11

LEMMA EndStep ==
  ASSUME LifeInv, NEW c \in Slots, end_process(c), lost' \in SUBSET Slots
  PROVE  LifeInv'
<1>1. PICK U \in SUBSET Slots :
            /\ \A s \in U : att[s] # None
            /\ \A s \in Slots : att[s] # None /\ att[s].by = c => s \in U
            /\ Ended(c, U)
  BY EndedIs
<1>2. /\ st \in [Slots -> {"Free", "Created", "Running", "Gone"}]
      /\ held \in Tables /\ refs \in [Objects -> Nat] /\ Counted(refs, held, att)
      /\ att \in Attached /\ rows \in Rows /\ maps \in [Maps -> {None} \cup MapRecord]
      /\ io \in [Windows -> {None} \cup Slots]
      /\ used \in [Slots -> [maps : 0..RowBudget, windows : 0..NWindows]]
  BY Typed
<1>3. /\ held' \in Tables /\ \A x \in Objects : held'[c][x] = 0
      /\ \A s \in Slots, x \in Objects : s # c => held'[s][x] = held[s][x]
  <2>1. held' = [held EXCEPT ![c] = [o \in Objects |-> 0]]
    BY <1>1 DEF Ended
  <2>2. [o \in Objects |-> 0] \in [Objects -> 0..MaxHandles]
    BY Numbers
  <2> QED BY <1>2, <2>1, <2>2 DEF Tables
<1>4. /\ att' \in Attached /\ \A s \in U : att'[s] = None
      /\ \A s \in Slots : s \notin U => att'[s] = att[s]
  <2>1. att' = [s \in Slots |-> IF s \in U THEN None ELSE att[s]]
    BY <1>1 DEF Ended
  <2> QED BY <1>2, <2>1 DEF Attached
\* The Mappings of c are named in no table but c's.
<1>5. ASSUME NEW m \in Maps, NEW s \in Slots, held[s][Mapping(m)] # 0
      PROVE  maps[m] # None /\ maps[m].owner = s
  <2>1. held[s][Mapping(m)] \in 0..MaxHandles
    BY <1>2, Names DEF Tables
  <2>2. held[s][Mapping(m)] > 0
    BY <2>1, <1>5, Numbers
  <2> QED BY <2>2 DEF LifeInv, MapsLive
<1>6. ASSUME NEW x \in Objects
      PROVE  /\ refs'[x] = Cardinality(HeldBy(held', x)) + Cardinality(Watchers(att', x))
             /\ refs'[x] \in Nat /\ refs'[x] <= refs[x]
             /\ \A m \in Maps : x = Mapping(m) =>
                  refs'[x] = IF maps[m] # None /\ maps[m].owner = c THEN 0 ELSE refs[x]
  <2> DEFINE H == Cardinality(HeldBy(held, x))
             H1 == Cardinality(HeldBy(held', x))
             W == Cardinality(Watchers(att, x))
             W1 == Cardinality(Watchers(att', x))
             D == Cardinality(Hooks(U, x))
             h == held[c][x]
  <2>1. refs[x] = H + W /\ H \in Nat /\ H1 \in Nat /\ W \in Nat /\ W1 \in Nat
    BY <1>2, FiniteHeldBy, WatchersNat DEF Counted
  <2>2. h \in Nat
    BY <1>2 DEF Tables
  <2>3. H = H1 + h
    BY <1>2, <1>3, ClearCount
  <2>4. W = W1 + D /\ D \in Nat
    <3>1. CASE \E s \in Slots : x = Proc(s)
      <4>1. PICK s \in Slots : x = Proc(s)
        BY <3>1
      <4>2. W = (IF att[s] = None THEN 0 ELSE 1) /\ W1 = (IF att'[s] = None THEN 0 ELSE 1)
        BY <4>1, WatcherCount
      <4>3. D = IF s \in U THEN 1 ELSE 0
        BY <4>1, HookCount
      <4>4. CASE s \in U
        <5>1. att[s] # None /\ att'[s] = None
          BY <4>4, <1>1, <1>4
        <5> HIDE DEF W, W1, D
        <5> QED BY <4>2, <4>3, <4>4, <5>1
      <4>5. CASE s \notin U
        <5>1. att'[s] = att[s]
          BY <4>5, <1>4
        <5> HIDE DEF W, W1, D
        <5> QED BY <4>2, <4>3, <4>5, <5>1
      <4> QED BY <4>4, <4>5
    <3>2. CASE \A s \in Slots : x # Proc(s)
      <4>1. W = 0 /\ W1 = 0
        BY <3>2, Unwatchable
      <4>2. D = 0
        BY <3>2, NoHooks
      <4> HIDE DEF W, W1, D
      <4> QED BY <4>1, <4>2
    <3> QED BY <3>1, <3>2
  <2>5. refs'[x] = IF x[1] = "mapping" /\ maps[x[2]] # None /\ maps[x[2]].owner = c
                     THEN 0 ELSE Less(refs[x], h + D)
    BY <1>1 DEF Ended, Left
  <2>6. Less(refs[x], h + D) = H1 + W1 /\ H1 + W1 \in Nat /\ H1 + W1 <= refs[x]
    <3> HIDE DEF H, H1, W, W1, D, h
    <3>1. h + D \in Nat /\ refs[x] = H1 + W1 + (h + D) /\ H1 + W1 \in Nat
      BY <2>1, <2>2, <2>3, <2>4
    <3> DEFINE d == h + D
               n == H1 + W1
    <3>2. d \in Nat /\ n \in Nat /\ refs[x] = n + d
      BY <3>1
    <3> HIDE DEF d, n
    <3>3. Less(refs[x], d) = n /\ n <= refs[x]
      BY <3>2 DEF Less
    <3> QED BY <3>1, <3>3 DEF d, n
  <2>7. CASE \E m \in Maps : x = Mapping(m)
    <3>1. PICK m \in Maps : x = Mapping(m)
      BY <2>7
    <3>2. x[1] = "mapping" /\ x[2] = m
      BY <3>1 DEF Mapping
    <3>3. \A s \in Slots : x # Proc(s)
      BY <3>1, Names
    <3>4. W1 = 0 /\ D = 0
      BY <3>3, Unwatchable, NoHooks
    <3>5. \A n \in Maps : x = Mapping(n) => n = m
      BY <3>1, Names
    <3>6. CASE maps[m] # None /\ maps[m].owner = c
      <4>1. refs'[x] = 0
        BY <2>5, <3>2, <3>6
      <4>2. ASSUME NEW s \in Slots PROVE held'[s][x] = 0
        <5>1. CASE s = c
          BY <5>1, <1>3
        <5>2. CASE s # c
          <6>1. held[s][x] = 0
            BY <5>2, <1>5, <3>1, <3>6
          <6> QED BY <5>2, <6>1, <1>3
        <5> QED BY <5>1, <5>2
      <4>3. HeldBy(held', x) = {}
        BY <4>2, Numbers DEF HeldBy
      <4>4. H1 = 0
        BY <4>3, FS_EmptySet
      <4>5. 0 <= refs[x]
        BY <1>2
      <4> HIDE DEF H1, W1
      <4>6. refs'[x] = H1 + W1 /\ refs'[x] \in Nat /\ refs'[x] <= refs[x]
        BY <4>1, <4>4, <4>5, <3>4
      <4> QED BY <4>1, <4>6, <3>5, <3>6 DEF H1, W1
    <3>7. CASE ~(maps[m] # None /\ maps[m].owner = c)
      <4>1. h = 0
        BY <1>5, <3>1, <3>7
      <4>2. refs'[x] = Less(refs[x], h + D)
        BY <2>5, <3>2, <3>7
      <4> HIDE DEF H, H1, W, W1, D, h
      <4>3. refs'[x] = H1 + W1 /\ refs'[x] \in Nat /\ refs'[x] <= refs[x]
        BY <4>2, <2>6
      <4>4. refs'[x] = refs[x]
        BY <4>1, <4>3, <2>1, <2>3, <2>4, <3>4
      <4> QED BY <4>3, <4>4, <3>5, <3>7 DEF H1, W1
    <3> QED BY <3>6, <3>7
  <2>8. CASE \A m \in Maps : x # Mapping(m)
    <3>1. x[1] # "mapping"
      BY <2>8, Kinds DEF Proc, Io
    <3>2. refs'[x] = Less(refs[x], h + D)
      BY <2>5, <3>1
    <3> QED BY <3>2, <2>6, <2>8
  <2> QED BY <2>7, <2>8
<1>7. refs' \in [Objects -> Nat] /\ Counted(refs', held', att')
  <2>1. refs' = [x \in Objects |-> refs'[x]]
    BY <1>1 DEF Ended, Left
  <2> QED BY <2>1, <1>6 DEF Counted
<1>8. /\ st' \in [Slots -> {"Free", "Created", "Running", "Gone"}]
      /\ st'[c] = IF refs'[Proc(c)] = 0 THEN "Free" ELSE "Gone"
      /\ \A s \in Slots : s # c => st'[s] = st[s]
  <2>1. st' = [st EXCEPT ![c] = IF refs'[Proc(c)] = 0 THEN "Free" ELSE "Gone"]
    BY <1>1 DEF Ended
  <2> QED BY <1>2, <2>1
<1>9. /\ maps' \in [Maps -> {None} \cup MapRecord]
      /\ \A m \in Maps :
           /\ maps'[m] # None <=> maps[m] # None /\ maps[m].owner # c
           /\ maps'[m] # None =>
                /\ maps'[m].owner = maps[m].owner /\ maps'[m].target = maps[m].target
                /\ maps'[m].row = IF maps[m].target = c THEN None ELSE maps[m].row
  <2>1. maps' = SweepMaps(c)
    BY <1>1 DEF Ended
  <2>2. ASSUME NEW m \in Maps
        PROVE  /\ maps'[m] \in {None} \cup MapRecord
               /\ maps'[m] # None <=> maps[m] # None /\ maps[m].owner # c
               /\ maps'[m] # None =>
                    /\ maps'[m].owner = maps[m].owner /\ maps'[m].target = maps[m].target
                    /\ maps'[m].row = IF maps[m].target = c THEN None ELSE maps[m].row
    <3>1. CASE maps[m] = None \/ maps[m].owner = c
      BY <2>1, <3>1 DEF SweepMaps
    <3>2. CASE ~(maps[m] = None \/ maps[m].owner = c) /\ maps[m].target = c
      <4>1. maps'[m] = [maps[m] EXCEPT !.row = None] /\ maps[m] \in MapRecord
        BY <2>1, <3>2, <1>2 DEF SweepMaps
      <4>2. /\ maps'[m] \in MapRecord /\ maps'[m].row = None
            /\ maps'[m].owner = maps[m].owner /\ maps'[m].target = maps[m].target
        BY <4>1 DEF MapRecord
      <4>3. maps'[m] # None
        BY <4>2, Numbers DEF MapRecord
      <4> QED BY <3>2, <4>2, <4>3
    <3>3. CASE ~(maps[m] = None \/ maps[m].owner = c) /\ maps[m].target # c
      <4>1. maps'[m] = maps[m]
        BY <2>1, <3>3 DEF SweepMaps
      <4> QED BY <4>1, <3>3, <1>2
    <3> QED BY <3>1, <3>2, <3>3
  <2>3. maps' = [m \in Maps |-> maps'[m]]
    BY <2>1 DEF SweepMaps
  <2> QED BY <2>2, <2>3
<1>10. /\ rows' \in Rows /\ rows'[c] = <<>>
       /\ \A s \in Slots : s # c =>
            /\ DOMAIN rows'[s] = DOMAIN rows[s] /\ Len(rows'[s]) = Len(rows[s])
            /\ rows[s] = <<>> => rows'[s] = <<>>
            /\ \A i \in DOMAIN rows[s] :
                 rows'[s][i] = IF rows[s][i] \in Mine(c) THEN Unnamed ELSE rows[s][i]
  <2> DEFINE g == Leaked(Mine(c), rows)
  <2>1. rows' = [g EXCEPT ![c] = <<>>]
    BY <1>1 DEF Ended
  <2>2. /\ g \in Rows
        /\ \A s \in Slots :
            /\ DOMAIN g[s] = DOMAIN rows[s] /\ Len(g[s]) = Len(rows[s])
            /\ rows[s] = <<>> => g[s] = <<>>
            /\ \A i \in DOMAIN rows[s] :
                 g[s][i] = IF rows[s][i] \in Mine(c) THEN Unnamed ELSE rows[s][i]
    BY <1>2, LeakedRows
  <2> HIDE DEF g
  <2>3. rows'[c] = <<>> /\ \A s \in Slots : s # c => rows'[s] = g[s]
    BY <2>1, <2>2 DEF Rows
  <2>4. rows' \in Rows
    <3> DEFINE Q == Seq({Unnamed} \cup Maps)
    <3>1. g \in [Slots -> Q] /\ <<>> \in Q
      BY <2>2, EmptyRow DEF Rows
    <3> HIDE DEF Q
    <3>2. rows' \in [Slots -> Q]
      BY <3>1, <2>1
    <3> QED BY <3>2 DEF Q, Rows
  <2> QED BY <2>2, <2>3, <2>4
<1> DEFINE R == Reaped(refs')
<1>11. /\ io' \in [Windows -> {None} \cup Slots]
       /\ \A k \in Windows : io'[k] = IF io[k] # None /\ refs'[Io(k)] = 0 THEN None ELSE io[k]
  <2>1. io' = [k \in Windows |-> IF k \in R THEN None ELSE io[k]]
    BY <1>1 DEF Ended
  <2>2. \A k \in Windows : k \in R <=> io[k] # None /\ refs'[Io(k)] = 0
    BY DEF Reaped
  <2> HIDE DEF R
  <2> QED BY <1>2, <2>1, <2>2
<1>12. ASSUME NEW s \in Slots
       PROVE  /\ used'[s] \in [maps : 0..RowBudget, windows : 0..NWindows]
              /\ s = c => used'[s].maps = 0
              /\ s # c => used'[s].maps = used[s].maps
              /\ used'[s].windows <= Cardinality({k \in Windows : io'[k] = s})
  <2> DEFINE P == {k \in R : io[k] = s}
             S == {k \in Windows : io[k] = s}
             T == {k \in Windows : io'[k] = s}
             d == Cardinality(P)
             n == used[s].windows
  <2>1. Cardinality(S) \in 0..NWindows /\ Cardinality(T) \in 0..NWindows /\ IsFiniteSet(S)
        /\ NWindows \in Nat /\ RowBudget \in Nat
    <3>1. Cardinality(S) \in 0..NWindows /\ IsFiniteSet(S)
      BY WindowCount
    <3>2. Cardinality(T) \in 0..NWindows
      BY WindowCount
    <3>3. NWindows \in Nat /\ RowBudget \in Nat
      BY Numbers
    <3> HIDE DEF S, T
    <3> QED BY <3>1, <3>2, <3>3
  <2>2. used'[s] = IF s = c THEN [maps |-> 0, windows |-> 0]
                   ELSE [used[s] EXCEPT !.windows = Less(@, d)]
    BY <1>1 DEF Ended
  <2>3. CASE s = c
    <3>1. used'[s] = [maps |-> 0, windows |-> 0]
      BY <2>2, <2>3
    <3>2. used'[s].maps = 0 /\ used'[s].windows = 0
      BY <3>1
    <3>3. used'[s] \in [maps : 0..RowBudget, windows : 0..NWindows]
      BY <3>1, <2>1
    <3>4. used'[s].windows <= Cardinality(T)
      <4> HIDE DEF T
      <4> QED BY <3>2, <2>1
    <3> QED BY <2>3, <3>2, <3>3, <3>4
  <2>4. CASE s # c
    <3>1. T = S \ P /\ S \cap P = P
      BY <1>11, Numbers DEF Reaped
    <3>2. P \in SUBSET S
      BY DEF Reaped
    <3>3. n <= Cardinality(S)
      BY DEF LifeInv, Charged
    <3>4. n \in Nat /\ n <= NWindows
      BY <1>2, <2>1
    <3> HIDE DEF S, T, P
    <3>5. IsFiniteSet(P) /\ Cardinality(P) <= Cardinality(S)
      BY <2>1, <3>2, FS_Subset
    <3>6. Cardinality(P) \in Nat /\ Cardinality(T) = Cardinality(S) - Cardinality(P)
      <4>1. Cardinality(P) \in Nat
        BY <3>5, FS_CardinalityType
      <4>2. Cardinality(S \ P) = Cardinality(S) - Cardinality(S \cap P)
        BY <2>1, FS_Difference
      <4> QED BY <3>1, <4>1, <4>2
    <3>7. d \in Nat /\ Cardinality(S) \in Nat
      BY <3>6, <2>1
    <3>8. Less(n, d) \in 0..NWindows /\ Less(n, d) <= Cardinality(T)
      <4> DEFINE a == Cardinality(S)
      <4>1. a \in Nat /\ n <= a /\ d <= a /\ Cardinality(T) = a - d
        BY <3>3, <3>5, <3>6, <3>7
      <4> HIDE DEF a, d, n
      <4>2. Less(n, d) \in Nat /\ Less(n, d) <= n /\ Less(n, d) <= a - d
        BY <3>4, <3>7, <4>1, LessNat
      <4> QED BY <4>1, <4>2, <3>4, <2>1
    <3>9. used'[s] = [used[s] EXCEPT !.windows = Less(n, d)]
      BY <2>2, <2>4
    <3> HIDE DEF d, n
    <3>10. /\ used'[s].maps = used[s].maps /\ used'[s].windows = Less(n, d)
           /\ used'[s] \in [maps : 0..RowBudget, windows : 0..NWindows]
      <4>1. used[s] \in [maps : 0..RowBudget, windows : 0..NWindows] /\ Less(n, d) \in 0..NWindows
        BY <1>2, <3>8
      <4> QED BY <3>9, <4>1
    <3> QED BY <2>4, <3>8, <3>10 DEF T
  <2> QED BY <2>3, <2>4
<1>13. used' \in [Slots -> [maps : 0..RowBudget, windows : 0..NWindows]] /\ Charged(used', io')
  <2>1. used' = [s \in Slots |-> used'[s]]
    BY <1>1 DEF Ended
  <2> QED BY <2>1, <1>12 DEF Charged
<1>14. TypeOK'
  BY <1>3, <1>4, <1>7, <1>8, <1>9, <1>10, <1>11, <1>13
     DEF TypeOK, Tables, Attached, Rows, MapRecord
<1>15. InSlabs'
  <2>1. ASSUME NEW k \in Windows PROVE io'[k] # None <=> refs'[Io(k)] > 0
    <3>1. /\ refs'[Io(k)] \in Nat /\ refs'[Io(k)] <= refs[Io(k)] /\ refs[Io(k)] \in Nat
          /\ io[k] # None <=> refs[Io(k)] > 0
      BY <1>2, <1>6, Names DEF LifeInv, InSlabs
    <3>2. io'[k] = IF io[k] # None /\ refs'[Io(k)] = 0 THEN None ELSE io[k]
      BY <1>11
    <3>3. CASE refs'[Io(k)] = 0
      BY <3>1, <3>2, <3>3
    <3>4. CASE refs'[Io(k)] # 0
      <4>1. refs'[Io(k)] > 0 /\ refs[Io(k)] > 0
        BY <3>1, <3>4
      <4> QED BY <3>1, <3>2, <3>4, <4>1
    <3> QED BY <3>3, <3>4
  <2>2. ASSUME NEW m \in Maps PROVE maps'[m] # None <=> refs'[Mapping(m)] > 0
    <3>1. refs'[Mapping(m)] = IF maps[m] # None /\ maps[m].owner = c THEN 0 ELSE refs[Mapping(m)]
      BY <1>6, Names
    <3>2. maps[m] # None <=> refs[Mapping(m)] > 0
      BY DEF LifeInv, InSlabs
    <3>3. maps'[m] # None <=> maps[m] # None /\ maps[m].owner # c
      BY <1>9
    <3>4. CASE maps[m] # None /\ maps[m].owner = c
      BY <3>1, <3>3, <3>4
    <3>5. CASE ~(maps[m] # None /\ maps[m].owner = c)
      BY <3>1, <3>2, <3>3, <3>5
    <3> QED BY <3>4, <3>5
  <2> QED BY <2>1, <2>2 DEF InSlabs
<1>16. CleanSlots'
  <2>1. ASSUME NEW s \in Slots, st'[s] = "Free" PROVE refs'[Proc(s)] = 0
    <3>1. CASE s = c
      BY <2>1, <3>1, <1>8
    <3>2. CASE s # c
      <4>1. refs[Proc(s)] = 0
        BY <2>1, <3>2, <1>8 DEF LifeInv, CleanSlots
      <4>2. refs'[Proc(s)] \in Nat /\ refs'[Proc(s)] <= refs[Proc(s)]
        BY <1>6, Names
      <4> QED BY <4>1, <4>2
    <3> QED BY <3>1, <3>2
  <2>2. ASSUME NEW s \in Slots, st'[s] \in {"Free", "Gone"}
        PROVE  (\A o \in Objects : held'[s][o] = 0) /\ rows'[s] = <<>> /\ used'[s].maps = 0
    <3>1. CASE s = c
      BY <3>1, <1>3, <1>10, <1>12
    <3>2. CASE s # c
      <4>1. (\A o \in Objects : held[s][o] = 0) /\ rows[s] = <<>> /\ used[s].maps = 0
        BY <2>2, <3>2, <1>8 DEF LifeInv, CleanSlots
      <4> QED BY <3>2, <4>1, <1>3, <1>10, <1>12
    <3> QED BY <3>1, <3>2
  <2>3. ASSUME NEW s \in Slots, att'[s] # None PROVE st'[att'[s].by] = "Running"
    <3>1. s \notin U /\ att'[s] = att[s]
      BY <2>3, <1>4
    <3>2. att[s].by \in Slots /\ att[s].by # c
      BY <2>3, <3>1, <1>1, <1>2 DEF Attached
    <3>3. st[att[s].by] = "Running"
      BY <2>3, <3>1 DEF LifeInv, CleanSlots
    <3> QED BY <3>1, <3>2, <3>3, <1>8
  <2> QED BY <2>1, <2>2, <2>3 DEF CleanSlots
<1>17. MapsLive'
  <2>1. ASSUME NEW m \in Maps, maps'[m] # None
        PROVE  /\ st'[maps'[m].owner] = "Running"
               /\ maps'[m].row # None => st'[maps'[m].target] \in {"Created", "Running"}
    <3>1. /\ maps[m] # None /\ maps[m].owner # c /\ maps'[m].owner = maps[m].owner
          /\ maps'[m].target = maps[m].target
          /\ maps'[m].row = IF maps[m].target = c THEN None ELSE maps[m].row
      BY <2>1, <1>9
    <3>2. maps[m].owner \in Slots /\ maps[m].target \in Slots
      BY <3>1, <1>2 DEF MapRecord
    <3>3. /\ st[maps[m].owner] = "Running"
          /\ maps[m].row # None => st[maps[m].target] \in {"Created", "Running"}
      BY <3>1 DEF LifeInv, MapsLive
    <3> QED BY <3>1, <3>2, <3>3, <1>8
  <2>2. ASSUME NEW m \in Maps, NEW s \in Slots, held'[s][Mapping(m)] > 0
        PROVE  maps'[m] # None /\ maps'[m].owner = s
    <3>1. Mapping(m) \in Objects
      BY Names
    <3>2. s = c => held'[s][Mapping(m)] = 0
      BY <3>1, <1>3
    <3>3. s # c
      BY <2>2, <3>2
    <3>4. held[s][Mapping(m)] > 0
      BY <2>2, <3>1, <3>3, <1>3
    <3>5. maps[m] # None /\ maps[m].owner = s
      BY <3>4 DEF LifeInv, MapsLive
    <3> QED BY <3>3, <3>5, <1>9
  <2> QED BY <2>1, <2>2 DEF MapsLive
<1>18. RowsAgree'
  <2>1. ASSUME NEW m \in Maps, maps'[m] # None, maps'[m].row # None
        PROVE  /\ maps'[m].row \in DOMAIN rows'[maps'[m].target]
               /\ rows'[maps'[m].target][maps'[m].row] = m
    <3>1. /\ maps[m] # None /\ maps[m].owner # c /\ maps'[m].target = maps[m].target
          /\ maps[m].target # c /\ maps'[m].row = maps[m].row
      BY <2>1, <1>9
    <3>2. maps[m].target \in Slots
      BY <3>1, <1>2 DEF MapRecord
    <3>3. maps[m].row \in DOMAIN rows[maps[m].target] /\ rows[maps[m].target][maps[m].row] = m
      BY <2>1, <3>1 DEF LifeInv, RowsAgree
    <3>4. m \notin Mine(c)
      BY <3>1 DEF Mine
    <3> QED BY <3>1, <3>2, <3>3, <3>4, <1>10
  <2>2. ASSUME NEW s \in Slots, NEW i \in DOMAIN rows'[s], rows'[s][i] \in Maps
        PROVE  maps'[rows'[s][i]] # None /\ maps'[rows'[s][i]].target = s
                 /\ maps'[rows'[s][i]].row = i
    <3>1. s # c
      BY <1>10, EmptyRow
    <3>2. i \in DOMAIN rows[s] /\ rows'[s][i] = rows[s][i] /\ rows[s][i] \notin Mine(c)
      BY <2>2, <3>1, <1>10, Numbers
    <3>3. maps[rows[s][i]] # None /\ maps[rows[s][i]].target = s /\ maps[rows[s][i]].row = i
      BY <2>2, <3>2 DEF LifeInv, RowsAgree
    <3>4. maps[rows[s][i]].owner # c
      BY <2>2, <3>2, <3>3 DEF Mine
    <3> QED BY <2>2, <3>1, <3>2, <3>3, <3>4, <1>9
  <2> QED BY <2>1, <2>2 DEF RowsAgree
<1>19. RowsCounted'
  <2>1. ASSUME NEW s \in Slots, st'[s] \in {"Created", "Running"}
        PROVE  Len(rows'[s]) = ImageRows + used'[s].maps
    <3>1. s # c
      BY <2>1, <1>8
    <3>2. Len(rows[s]) = ImageRows + used[s].maps
      BY <2>1, <3>1, <1>8 DEF LifeInv, RowsCounted
    <3> QED BY <3>1, <3>2, <1>10, <1>12
  <2>2. ASSUME NEW s \in Slots, NEW i \in DOMAIN rows'[s], rows'[s][i] \in Maps
        PROVE  i > ImageRows
    <3>1. s # c
      BY <1>10, EmptyRow
    <3>2. i \in DOMAIN rows[s] /\ rows'[s][i] = rows[s][i]
      BY <2>2, <3>1, <1>10, Numbers
    <3> QED BY <2>2, <3>2 DEF LifeInv, RowsCounted
  <2> QED BY <2>1, <2>2 DEF RowsCounted
<1> QED BY <1>7, <1>13, <1>14, <1>15, <1>16, <1>17, <1>18, <1>19 DEF LifeInv

(***************************************************************************)
(* The theorems.                                                           *)
(***************************************************************************)
LEMMA LifeNext == LifeInv /\ [Next]_vars => LifeInv'
<1> SUFFICES ASSUME LifeInv, [Next]_vars PROVE LifeInv'
  OBVIOUS
<1>1. ASSUME NEW p \in Slots, Create(p) PROVE LifeInv'
  BY <1>1, CreateStep
<1>2. ASSUME NEW p \in Slots, NEW o \in Objects, Mint(p, o) PROVE LifeInv'
  BY <1>2, MintStep
<1>3. ASSUME NEW p \in Slots, NEW o \in Objects, Release(p, o) PROVE LifeInv'
  BY <1>3, ReleaseStep
<1>4. ASSUME NEW p \in Slots, NEW s \in Slots, Start(p, s) PROVE LifeInv'
  BY <1>4, StartStep
<1>5. ASSUME NEW p \in Slots, NEW s \in Slots, Unwatch(p, s) PROVE LifeInv'
  BY <1>5, UnwatchStep
<1>6. ASSUME NEW p \in Slots, NEW c \in Slots, End(p, c) PROVE LifeInv'
  <2>1. end_process(c) /\ lost' = (lost \cup {p}) \ {c}
    BY <1>6 DEF End
  <2>2. lost' \in SUBSET Slots
    BY <2>1, Typed
  <2> QED BY <2>1, <2>2, EndStep
<1>7. ASSUME NEW p \in Slots, NEW s \in Slots, NEW once \in BOOLEAN,
             NEW consuming \in BOOLEAN, NEW parked \in BOOLEAN,
             Watch(p, s, once, consuming, parked)
      PROVE  LifeInv'
  BY <1>7, WatchStep
<1>8. ASSUME NEW p \in Slots, NEW q \in Slots, NEW o \in Objects, Transfer(p, q, o)
      PROVE  LifeInv'
  BY <1>8, TransferStep
<1>9. ASSUME NEW p \in Slots, NEW k \in Windows, Carve(p, k) PROVE LifeInv'
  BY <1>9, CarveStep
<1>10. ASSUME NEW p \in Slots, NEW k \in Windows, NEW t \in Slots, Map(p, k, t)
       PROVE  LifeInv'
  BY <1>10, MapStep
<1>11. ASSUME NEW p \in Slots, NEW m \in Maps, Unmap(p, m) PROVE LifeInv'
  BY <1>11, UnmapStep
<1>12. ASSUME Stranded PROVE LifeInv'
  <2>1. end_process(Root) /\ lost' = lost \ {Root} /\ Root \in Slots
    BY <1>12, Numbers DEF Stranded
  <2>2. lost' \in SUBSET Slots
    BY <2>1, Typed
  <2> QED BY <2>1, <2>2, EndStep
<1>13. ASSUME UNCHANGED vars PROVE LifeInv'
  <2>1. UNCHANGED <<st, rows, maps, io, used, held, refs, att, lost>>
    BY <1>13 DEF vars
  <2>2. Counted(refs', held', att') /\ Charged(used', io')
    BY <2>1 DEF LifeInv
  <2> QED BY <2>1, <2>2 DEF LifeInv, TypeOK, InSlabs, CleanSlots, MapsLive, RowsAgree,
                            RowsCounted
<1>14. Halted => UNCHANGED vars
  BY DEF Halted
<1> QED BY <1>1, <1>2, <1>3, <1>4, <1>5, <1>6, <1>7, <1>8, <1>9, <1>10, <1>11, <1>12, <1>13,
           <1>14 DEF Next

LEMMA LifeAlways == Spec => []LifeInv
<1>1. Init => LifeInv
  BY LifeInit
<1>2. LifeInv /\ [Next]_vars => LifeInv'
  BY LifeNext
<1> QED BY <1>1, <1>2, PTL DEF Spec

\* Every count of an object is its handles plus its watcher, and an object is
\* in its slab exactly while it is counted, whatever mint, transfer, watch,
\* release and end_process do (ref_object, unref_object, unref_teardown).
THEOREM RefsStayExact == Spec => []RefsExact
<1>1. LifeInv => RefsExact
  BY LifeImplies
<1> QED BY <1>1, LifeAlways, PTL

\* The next process of a slot finds no handle, watcher, row or charge of the
\* one before it, and no attachment or Mapping outlives the process it
\* belongs to or the domain it points into (end_process, free_object).
THEOREM NamesNeverStale == Spec => []NoStaleName
<1>1. LifeInv => NoStaleName
  BY LifeImplies
<1> QED BY <1>1, LifeAlways, PTL

\* A Mapping names the row it installed, the rows and the windows charged are
\* those there are, and a Map that passed its quota finds a row free
\* (install_row, compact_mapping_rows, quota_charge, quota_credit).
THEOREM LedgersAlwaysAgree == Spec => []LedgersAgree
<1>1. LifeInv => LedgersAgree
  BY LifeImplies
<1> QED BY <1>1, LifeAlways, PTL

=============================================================================

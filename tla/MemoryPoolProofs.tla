-------------------------- MODULE MemoryPoolProofs --------------------------
(* Proofs about MemoryPool, for every number of slots, every set of pools    *)
(* and every number of free-list nodes.                                      *)
EXTENDS MemoryPool, FiniteSetTheorems, FunctionTheorems, WellFoundedInduction, TLAPS

-----------------------------------------------------------------------------
(* Sequences.                                                              *)

\* A nonempty set of naturals has a least member.
LEMMA MinOfNat ==
  ASSUME NEW S \in SUBSET Nat, S # {}
  PROVE  Min(S) \in S /\ \A x \in S : Min(S) <= x
<1> DEFINE Less == {ss \in Nat \X Nat : ss[1] < ss[2]}
<1>1. IsWellFoundedOn(Less, Nat)
  BY NatLessThanWellFounded DEF OpToRel
<1>2. PICK n \in S : \A m \in S : <<m, n>> \notin Less
  BY <1>1, WFMin
<1>3. ASSUME NEW m \in S PROVE n <= m
  <2>1. m \in Nat /\ n \in Nat /\ <<m, n>> \in Nat \X Nat
    OBVIOUS
  <2>2. ~(m < n)
    BY <1>2, <2>1
  <2> QED BY <2>1, <2>2
<1> QED BY <1>3 DEF Min

\* The node the first fit is cut from.
LEMMA FirstFitNode ==
  ASSUME NEW m, m.free \in Seq(Node), NEW len
  PROVE  /\ FirstFit(m, len) \in 0..Len(m.free)
         /\ FirstFit(m, len) # 0 => m.free[FirstFit(m, len)].len >= len
         /\ FirstFit(m, len) = 0 <=> \A i \in 1..Len(m.free) : ~(m.free[i].len >= len)
<1> DEFINE I == {i \in 1..Len(m.free) : m.free[i].len >= len}
<1>1. FirstFit(m, len) = IF I # {} THEN Min(I) ELSE 0
  BY DEF FirstFit, SelectInSeq
<1>2. I # {} => Min(I) \in I
  <2>1. I \in SUBSET Nat
    OBVIOUS
  <2> HIDE DEF I
  <2> QED BY <2>1, MinOfNat
<1> QED BY <1>1, <1>2

\* The nodes of an address-ordered list below and above an address.
LEMMA NodesAround ==
  ASSUME NEW F \in Seq(Node), NEW base \in Nat,
         \A i, j \in 1..Len(F) : i < j => F[i].base < F[j].base
  PROVE  \E at \in 0..Len(F) :
           /\ NextNode(F, base) = IF at = Len(F) THEN 0 ELSE at + 1
           /\ \A i \in 1..Len(F) : F[i].base > base <=> i > at
<1> DEFINE I == {i \in 1..Len(F) : F[i].base > base}
<1>0. \A i \in 1..Len(F) : F[i].base \in Nat
  <2>1. \A i \in 1..Len(F) : F[i] \in Node
    OBVIOUS
  <2> QED BY <2>1 DEF Node
<1>1. NextNode(F, base) = IF I # {} THEN Min(I) ELSE 0
  BY DEF NextNode, SelectInSeq
<1>2. I # {} => Min(I) \in I /\ \A x \in I : Min(I) <= x
  <2>1. I \in SUBSET Nat
    OBVIOUS
  <2> HIDE DEF I
  <2> QED BY <2>1, MinOfNat
<1>3. CASE I = {}
  <2>1. Len(F) \in 0..Len(F)
    OBVIOUS
  <2> QED BY <1>1, <1>3, <1>0, <2>1
<1>4. CASE I # {}
  <2> DEFINE k == Min(I)
  <2>1. k \in 1..Len(F) /\ F[k].base > base /\ \A x \in I : k <= x
    BY <1>2, <1>4
  <2>3. NextNode(F, base) = k
    BY <1>1, <1>4
  <2> HIDE DEF k
  <2>4. ASSUME NEW i \in 1..Len(F) PROVE F[i].base > base <=> i >= k
    <3>1. CASE i < k
      BY <2>1, <3>1
    <3>2. CASE i >= k
      BY <2>1, <3>2, <1>0
    <3> QED BY <3>1, <3>2, <2>1
  <2>5. k - 1 \in 0..Len(F) /\ k - 1 # Len(F)
    BY <2>1
  <2>6. \A i \in 1..Len(F) : F[i].base > base <=> i > k - 1
    <3>1. \A i \in 1..Len(F) : i >= k <=> i > k - 1
      BY <2>1
    <3> QED BY <2>4, <3>1
  <2>7. NextNode(F, base) = IF k - 1 = Len(F) THEN 0 ELSE (k - 1) + 1
    BY <2>1, <2>3, <2>5
  <2>8. PICK at \in 0..Len(F) : at = k - 1
    BY <2>5
  <2> QED BY <2>6, <2>7, <2>8
<1> QED BY <1>3, <1>4

\* A list with a stretch of it replaced by one node.
Spliced(F, a, x, b) == SubSeq(F, 1, a) \o <<x>> \o SubSeq(F, b, Len(F))

LEMMA Splice ==
  ASSUME NEW F \in Seq(Node), NEW x \in Node,
         NEW a \in Nat, NEW b \in Nat, a < b, b <= Len(F) + 1
  PROVE  /\ Spliced(F, a, x, b) \in Seq(Node)
         /\ Len(Spliced(F, a, x, b)) = Len(F) + a + 2 - b
         /\ \A i \in 1..Len(Spliced(F, a, x, b)) :
              Spliced(F, a, x, b)[i] =
                IF i <= a THEN F[i] ELSE IF i = a + 1 THEN x ELSE F[i + b - a - 2]
<1> DEFINE L == SubSeq(F, 1, a)
           R == SubSeq(F, b, Len(F))
<1>1. L \in Seq(Node) /\ Len(L) = a /\ \A i \in 1..a : L[i] = F[i]
  OBVIOUS
<1>2. R \in Seq(Node) /\ Len(R) = Len(F) + 1 - b
        /\ \A i \in 1..Len(F) + 1 - b : R[i] = F[i + b - 1]
  OBVIOUS
<1> HIDE DEF L, R
<1>3. L \o <<x>> \in Seq(Node) /\ Len(L \o <<x>>) = a + 1
        /\ \A i \in 1..a + 1 : (L \o <<x>>)[i] = IF i <= a THEN F[i] ELSE x
  BY <1>1
<1> DEFINE M == L \o <<x>>
<1> HIDE DEF M
<1>4. /\ M \o R \in Seq(Node) /\ Len(M \o R) = Len(F) + a + 2 - b
      /\ \A i \in 1..Len(M \o R) :
           (M \o R)[i] = IF i <= a THEN F[i] ELSE IF i = a + 1 THEN x ELSE F[i + b - a - 2]
  <2>1. M \in Seq(Node) /\ Len(M) = a + 1
          /\ \A i \in 1..a + 1 : M[i] = IF i <= a THEN F[i] ELSE x
    BY <1>3 DEF M
  <2>2. M \o R \in Seq(Node) /\ Len(M \o R) = Len(F) + a + 2 - b
    <3>1. M \in Seq(Node) /\ R \in Seq(Node)
      BY <2>1, <1>2
    <3>2. Len(M \o R) = Len(M) + Len(R) /\ M \o R \in Seq(Node)
      BY <3>1
    <3>3. (a + 1) + (Len(F) + 1 - b) = Len(F) + a + 2 - b
      OBVIOUS
    <3> QED BY <3>2, <3>3, <2>1, <1>2
  <2>3. ASSUME NEW i \in 1..Len(F) + a + 2 - b
        PROVE  (M \o R)[i] = IF i <= a + 1 THEN M[i] ELSE R[i - (a + 1)]
    BY <2>1, <1>2, SMTT(30)
  <2>4. ASSUME NEW i \in a + 2..Len(F) + a + 2 - b
        PROVE  R[i - (a + 1)] = F[i + b - a - 2]
    <3>1. i - (a + 1) \in 1..Len(F) + 1 - b
      OBVIOUS
    <3>2. R[i - (a + 1)] = F[(i - (a + 1)) + b - 1]
      BY <3>1, <1>2
    <3>3. (i - (a + 1)) + b - 1 = i + b - a - 2
      OBVIOUS
    <3> QED BY <3>2, <3>3
  <2>5. ASSUME NEW i \in 1..Len(M \o R)
        PROVE  (M \o R)[i] = IF i <= a THEN F[i]
                             ELSE IF i = a + 1 THEN x ELSE F[i + b - a - 2]
    <3>1. i \in 1..Len(F) + a + 2 - b
      BY <2>2
    <3>2. CASE i <= a + 1
      BY <3>1, <3>2, <2>1, <2>3
    <3>3. CASE i > a + 1
      <4>1. i \in a + 2..Len(F) + a + 2 - b
        BY <3>1, <3>3
      <4>2. (M \o R)[i] = F[i + b - a - 2]
        BY <4>1, <3>1, <3>3, <2>3, <2>4
      <4> QED BY <4>2, <3>3, <3>1
    <3> QED BY <3>2, <3>3, <3>1
  <2> QED BY <2>2, <2>5
<1>5. Spliced(F, a, x, b) = M \o R
  BY DEF M, L, R, Spliced
<1> QED BY <1>4, <1>5

\* A node taken out of a list.
LEMMA Removed ==
  ASSUME NEW F \in Seq(Node), NEW k \in 1..Len(F)
  PROVE  /\ RemoveAt(F, k) \in Seq(Node)
         /\ Len(RemoveAt(F, k)) = Len(F) - 1
         /\ \A i \in 1..Len(F) - 1 :
              RemoveAt(F, k)[i] = IF i < k THEN F[i] ELSE F[i + 1]
<1> DEFINE L == SubSeq(F, 1, k - 1)
           R == SubSeq(F, k + 1, Len(F))
<1>1. L \in Seq(Node) /\ Len(L) = k - 1 /\ \A i \in 1..k - 1 : L[i] = F[i]
  OBVIOUS
<1>2. R \in Seq(Node) /\ Len(R) = Len(F) - k /\ \A i \in 1..Len(F) - k : R[i] = F[i + k]
  OBVIOUS
<1> HIDE DEF L, R
<1>3. L \o R \in Seq(Node) /\ Len(L \o R) = Len(L) + Len(R)
  <2>1. L \in Seq(Node) /\ R \in Seq(Node)
    BY <1>1, <1>2
  <2> QED BY <2>1
<1>4. Len(L \o R) = Len(F) - 1
  BY <1>1, <1>2, <1>3
<1>5. ASSUME NEW i \in 1..Len(F) - 1
      PROVE  (L \o R)[i] = IF i < k THEN F[i] ELSE F[i + 1]
  <2>1. CASE i < k
    BY <2>1, <1>1, <1>2
  <2>2. CASE i >= k
    <3>1. (L \o R)[i] = R[i - (k - 1)]
      BY <2>2, <1>1, <1>2
    <3>2. i - (k - 1) \in 1..Len(F) - k
      BY <2>2
    <3>3. R[i - (k - 1)] = F[(i - (k - 1)) + k]
      BY <3>2, <1>2
    <3>4. (i - (k - 1)) + k = i + 1
      OBVIOUS
    <3>5. (L \o R)[i] = F[i + 1]
      BY <3>1, <3>3, <3>4
    <3>6. ~(i < k)
      BY <2>2
    <3> QED BY <3>5, <3>6
  <2>3. i < k \/ i >= k
    OBVIOUS
  <2> QED BY <2>1, <2>2, <2>3
<1> QED BY <1>3, <1>4, <1>5 DEF RemoveAt, L, R

-----------------------------------------------------------------------------
(* One pool: the cursor and the free list below it.                        *)

MemRec == [live : BOOLEAN, base : Nat, len : Nat, refs : Nat, maps : Nat,
           root : 0..NSlots, free : Seq(Node), out_bytes : Nat, dropped : Nat]

\* The grains a pool record can hand out.
HomeOf(m) == Cells(m) \cup UNION {Cells(m.free[k]) : k \in DOMAIN m.free}

\* The nodes are in address order with a gap between any two.
Gapped(F) == \A i, j \in 1..Len(F) : i < j => Top(F[i]) < F[j].base

\* ... and between the last and the cursor; lo is where the pool begins.
ListOK(m, lo) ==
  /\ \A i \in 1..Len(m.free) : lo <= m.free[i].base /\ Top(m.free[i]) < m.base
  /\ Gapped(m.free)

\* What the pool's operators leave alone.
SameNames(p, m) ==
  p.live = m.live /\ p.refs = m.refs /\ p.maps = m.maps /\ p.root = m.root

LEMMA NodeType ==
  ASSUME NEW F \in Seq(Node), NEW i \in 1..Len(F)
  PROVE  /\ F[i] \in Node
         /\ F[i].base \in Nat /\ F[i].len \in Nat /\ F[i].len > 0
         /\ Top(F[i]) \in Nat /\ Top(F[i]) > F[i].base
         /\ Top(F[i]) = F[i].base + F[i].len
<1>1. F[i] \in Node
  OBVIOUS
<1> QED BY <1>1 DEF Node, Top

LEMMA InCells ==
  ASSUME NEW n, n.base \in Nat, n.len \in Nat
  PROVE  \A c : c \in Cells(n) <=> c \in Int /\ n.base <= c /\ c < n.base + n.len
BY DEF Cells, Top

LEMMA InHome ==
  ASSUME NEW m \in MemRec
  PROVE  \A c : c \in HomeOf(m) <=>
           \/ c \in Int /\ m.base <= c /\ c < m.base + m.len
           \/ \E k \in 1..Len(m.free) :
                c \in Int /\ m.free[k].base <= c /\ c < Top(m.free[k])
<1>0. m.base \in Nat /\ m.len \in Nat /\ m.free \in Seq(Node) /\ DOMAIN m.free = 1..Len(m.free)
  BY DEF MemRec
<1>1. \A c : c \in HomeOf(m) <=>
           c \in Cells(m) \/ \E k \in 1..Len(m.free) : c \in Cells(m.free[k])
  BY <1>0 DEF HomeOf
<1>2. \A c : c \in Cells(m) <=> c \in Int /\ m.base <= c /\ c < m.base + m.len
  BY <1>0, InCells
<1>3. ASSUME NEW k \in 1..Len(m.free)
      PROVE \A c : c \in Cells(m.free[k]) <=>
              c \in Int /\ m.free[k].base <= c /\ c < Top(m.free[k])
  <2>1. m.free[k].base \in Nat /\ m.free[k].len \in Nat /\ Top(m.free[k]) = m.free[k].base + m.free[k].len
    BY <1>0, NodeType
  <2> QED BY <2>1, InCells
<1> QED BY <1>1, <1>2, <1>3

\* What a cut does to a pool record: the range goes and nothing else does.
CutDone(p, m, lo, b, len) ==
  /\ p \in MemRec /\ SameNames(p, m)
  /\ p.out_bytes = m.out_bytes /\ p.dropped = m.dropped
  /\ ListOK(p, lo) /\ lo <= p.base /\ Top(p) = Top(m)
  /\ b \in Nat
  /\ b..(b + len - 1) \subseteq HomeOf(m)
  /\ HomeOf(p) = HomeOf(m) \ (b..(b + len - 1))

LEMMA CutCursor ==
  ASSUME NEW m \in MemRec, NEW lo \in Nat, ListOK(m, lo), lo <= m.base,
         NEW len \in Nat, len > 0, m.len >= len
  PROVE  CutDone(CutFrom(m, 0, len), m, lo, CutBase(m, 0), len)
<1> DEFINE p == CutFrom(m, 0, len)
<1>0. m.base \in Nat /\ m.len \in Nat /\ m.free \in Seq(Node)
  BY DEF MemRec
<1>1. p = [m EXCEPT !.base = @ + len, !.len = @ - len] /\ CutBase(m, 0) = m.base
  BY DEF CutFrom, CutBase
<1>2. p \in MemRec /\ SameNames(p, m) /\ p.out_bytes = m.out_bytes /\ p.dropped = m.dropped
        /\ p.free = m.free /\ p.base = m.base + len /\ p.len = m.len - len
  <2>1. m.base + len \in Nat /\ m.len - len \in Nat
    BY <1>0
  <2> QED BY <1>1, <2>1 DEF MemRec, SameNames
<1> HIDE DEF p
<1>3. \A i \in 1..Len(m.free) : m.free[i].base \in Nat /\ Top(m.free[i]) \in Nat
  BY <1>0, NodeType
<1>4. ListOK(p, lo) /\ lo <= p.base
  BY <1>0, <1>2, <1>3 DEF ListOK
<1>5. Top(p) = Top(m)
  BY <1>0, <1>2 DEF Top
<1>6. \A c : c \in m.base..(m.base + len - 1) <=>
        c \in Int /\ m.base <= c /\ c < m.base + len
  BY <1>0
<1>7. m.base..(m.base + len - 1) \subseteq HomeOf(m)
  BY <1>0, <1>6, InHome
<1>8. HomeOf(p) = HomeOf(m) \ (m.base..(m.base + len - 1))
  <2>1. \A c : c \in HomeOf(p) <=>
           \/ c \in Int /\ m.base + len <= c /\ c < m.base + m.len
           \/ \E k \in 1..Len(m.free) :
                c \in Int /\ m.free[k].base <= c /\ c < Top(m.free[k])
    <3>1. p.base + p.len = m.base + m.len
      BY <1>0, <1>2
    <3> QED BY <1>2, <3>1, InHome
  <2>2. \A c : c \in HomeOf(m) <=>
           \/ c \in Int /\ m.base <= c /\ c < m.base + m.len
           \/ \E k \in 1..Len(m.free) :
                c \in Int /\ m.free[k].base <= c /\ c < Top(m.free[k])
    BY InHome
  <2>3. \A k \in 1..Len(m.free) : Top(m.free[k]) < m.base
    BY DEF ListOK
  <2>4. ASSUME NEW c
        PROVE  c \in HomeOf(p) <=> c \in HomeOf(m) /\ c \notin m.base..(m.base + len - 1)
    <3>1. CASE c \in Int
      BY <3>1, <2>1, <2>2, <2>3, <1>3, <1>6, <1>0, SMTT(30)
    <3>2. CASE c \notin Int
      BY <3>2, <2>1, <2>2
    <3> QED BY <3>1, <3>2
  <2> QED BY <2>4
<1> QED BY <1>0, <1>1, <1>2, <1>4, <1>5, <1>7, <1>8 DEF CutDone, p

LEMMA CutNode ==
  ASSUME NEW m \in MemRec, NEW lo \in Nat, ListOK(m, lo), lo <= m.base,
         NEW len \in Nat, len > 0,
         NEW k \in 1..Len(m.free), m.free[k].len >= len
  PROVE  CutDone(CutFrom(m, k, len), m, lo, CutBase(m, k), len)
<1> DEFINE F == m.free
           b == F[k].base
           rest == [base |-> b + len, len |-> F[k].len - len]
           G == IF F[k].len = len THEN RemoveAt(F, k) ELSE [F EXCEPT ![k] = rest]
           p == CutFrom(m, k, len)
<1>0. m.base \in Nat /\ m.len \in Nat /\ F \in Seq(Node) /\ k # 0
  BY DEF MemRec
<1>1. p = [m EXCEPT !.free = G] /\ CutBase(m, k) = b
  BY <1>0 DEF CutFrom, CutBase
<1>2. \A i \in 1..Len(F) : /\ F[i] \in Node /\ F[i].base \in Nat /\ F[i].len \in Nat
                           /\ F[i].len > 0 /\ Top(F[i]) \in Nat
                           /\ Top(F[i]) = F[i].base + F[i].len
  BY <1>0, NodeType
<1>3. /\ \A i \in 1..Len(F) : lo <= F[i].base /\ Top(F[i]) < m.base
      /\ \A i, j \in 1..Len(F) : i < j => Top(F[i]) < F[j].base
  BY DEF ListOK, Gapped
<1>4. CASE F[k].len = len
  <2>1. G = RemoveAt(F, k)
    BY <1>4
  <2>2. G \in Seq(Node) /\ Len(G) = Len(F) - 1
          /\ \A i \in 1..Len(F) - 1 : G[i] = IF i < k THEN F[i] ELSE F[i + 1]
    <3> HIDE DEF G
    <3>1. F \in Seq(Node) /\ k \in 1..Len(F)
      BY <1>0
    <3> HIDE DEF F
    <3> QED BY <2>1, <3>1, Removed
  <2> HIDE DEF G
  <2>3. p \in MemRec /\ SameNames(p, m) /\ p.out_bytes = m.out_bytes /\ p.dropped = m.dropped
          /\ p.free = G /\ p.base = m.base /\ p.len = m.len
    <3>1. G \in Seq(Node)
      BY <2>2
    <3> QED BY <1>1, <3>1 DEF MemRec, SameNames
  <2> HIDE DEF p
  <2>4. ASSUME NEW i \in 1..Len(G) PROVE lo <= G[i].base /\ Top(G[i]) < m.base
    <3>1. i \in 1..Len(F) - 1
      BY <2>2
    <3>2. \E j \in 1..Len(F) : G[i] = F[j]
      <4>1. CASE i < k
        BY <4>1, <3>1, <2>2, <1>0, SMTT(30)
      <4>2. CASE ~(i < k)
        <5>1. i + 1 \in 1..Len(F)
          BY <3>1, <1>0
        <5> QED BY <4>2, <5>1, <3>1, <2>2
      <4> QED BY <4>1, <4>2
    <3> QED BY <3>2, <1>3
  <2>5. ASSUME NEW i \in 1..Len(G), NEW j \in 1..Len(G), i < j
        PROVE  Top(G[i]) < G[j].base
    <3> DEFINE x == IF i < k THEN i ELSE i + 1
               y == IF j < k THEN j ELSE j + 1
    <3>1. x \in 1..Len(F) /\ y \in 1..Len(F) /\ x < y
      BY <2>2, <2>5, <1>0
    <3>2. G[i] = F[x] /\ G[j] = F[y]
      BY <2>2
    <3> QED BY <3>1, <3>2, <1>3
  <2>6. ListOK(p, lo) /\ lo <= p.base /\ Top(p) = Top(m)
    BY <2>3, <2>4, <2>5 DEF ListOK, Gapped, Top
  <2>7. \A c : c \in b..(b + len - 1) <=> c \in Int /\ F[k].base <= c /\ c < Top(F[k])
    BY <1>2, <1>4, SMTT(30)
  <2>8. \A c : c \in HomeOf(m) <=>
           \/ c \in Int /\ m.base <= c /\ c < m.base + m.len
           \/ \E i \in 1..Len(F) : c \in Int /\ F[i].base <= c /\ c < Top(F[i])
    BY InHome
  <2>9. \A c : c \in HomeOf(p) <=>
           \/ c \in Int /\ m.base <= c /\ c < m.base + m.len
           \/ \E i \in 1..Len(G) : c \in Int /\ G[i].base <= c /\ c < Top(G[i])
    BY InHome, <2>3
  <2>10. \A c : (\E i \in 1..Len(G) : c \in Int /\ G[i].base <= c /\ c < Top(G[i])) <=>
                (\E i \in 1..Len(F) : i # k /\ c \in Int /\ F[i].base <= c /\ c < Top(F[i]))
    <3>1. ASSUME NEW i \in 1..Len(G) PROVE \E j \in 1..Len(F) : j # k /\ G[i] = F[j]
      <4> DEFINE x == IF i < k THEN i ELSE i + 1
      <4>1. x \in 1..Len(F) /\ x # k
        BY <2>2, <1>0
      <4>2. G[i] = F[x]
        BY <2>2
      <4> QED BY <4>1, <4>2
    <3>2. ASSUME NEW j \in 1..Len(F), j # k PROVE \E i \in 1..Len(G) : G[i] = F[j]
      <4> DEFINE x == IF j < k THEN j ELSE j - 1
      <4>1. x \in 1..Len(G)
        BY <2>2, <1>0, <3>2
      <4>2. G[x] = F[j]
        <5>1. CASE j < k
          BY <5>1, <4>1, <2>2
        <5>2. CASE j > k
          <6>1. x = j - 1 /\ ~(x < k) /\ x + 1 = j
            BY <5>2, <1>0
          <6> HIDE DEF x
          <6> QED BY <6>1, <4>1, <2>2
        <5>3. j < k \/ j > k
          BY <3>2, <1>0
        <5> QED BY <5>1, <5>2, <5>3
      <4> QED BY <4>1, <4>2
    <3> QED BY <3>1, <3>2
  <2>11. ASSUME NEW c
         PROVE  c \in HomeOf(p) <=> c \in HomeOf(m) /\ c \notin b..(b + len - 1)
    <3>1. CASE c \in Int
      <4>1. \A i \in 1..Len(F) : i # k => Top(F[i]) < F[k].base \/ Top(F[k]) < F[i].base
        BY <1>3, <1>0
      <4>2. Top(F[k]) < m.base
        BY <1>3
      <4>3. CASE c \in b..(b + len - 1)
        <5>1. F[k].base <= c /\ c < Top(F[k])
          BY <4>3, <2>7
        <5>2. ~(m.base <= c)
          BY <5>1, <4>2, <3>1, <1>2, <1>0
        <5>3. ASSUME NEW i \in 1..Len(F), i # k
              PROVE  ~(F[i].base <= c /\ c < Top(F[i]))
          <6>1. Top(F[i]) < F[k].base \/ Top(F[k]) < F[i].base
            BY <5>3, <4>1
          <6>2. F[i].base \in Nat /\ Top(F[i]) \in Nat /\ F[k].base \in Nat /\ Top(F[k]) \in Nat
            BY <1>2
          <6> QED BY <5>1, <6>1, <6>2, <3>1, SMTT(30)
        <5> QED BY <4>3, <5>2, <5>3, <2>9, <2>10
      <4>4. CASE c \notin b..(b + len - 1)
        <5>1. ~(F[k].base <= c /\ c < Top(F[k]))
          BY <4>4, <3>1, <2>7
        <5> QED BY <4>4, <5>1, <2>8, <2>9, <2>10
      <4> QED BY <4>3, <4>4
    <3>2. CASE c \notin Int
      BY <3>2, <2>8, <2>9
    <3> QED BY <3>1, <3>2
  <2>12. b \in Nat /\ b..(b + len - 1) \subseteq HomeOf(m)
    BY <2>7, <2>8, <1>2
  <2>13. HomeOf(p) = HomeOf(m) \ (b..(b + len - 1))
    BY <2>11
  <2> QED BY <1>1, <2>3, <2>6, <2>12, <2>13 DEF CutDone, p
<1>5. CASE F[k].len # len
  <2>1. G = [F EXCEPT ![k] = rest] /\ rest \in Node /\ rest.base = b + len
          /\ Top(rest) = Top(F[k])
    BY <1>5, <1>2, SMTT(30) DEF Node, Top
  <2> HIDE DEF rest
  <2>2. G \in Seq(Node) /\ Len(G) = Len(F)
          /\ \A i \in 1..Len(F) : G[i] = IF i = k THEN rest ELSE F[i]
    BY <2>1, <1>0, SMTT(30)
  <2> HIDE DEF G
  <2>3. p \in MemRec /\ SameNames(p, m) /\ p.out_bytes = m.out_bytes /\ p.dropped = m.dropped
          /\ p.free = G /\ p.base = m.base /\ p.len = m.len
    BY <1>1, <2>2 DEF MemRec, SameNames
  <2> HIDE DEF p
  <2>4. \A i \in 1..Len(F) : /\ Top(G[i]) = Top(F[i]) /\ G[i].base \in Nat
                             /\ F[i].base <= G[i].base
                             /\ i = k => G[i].base = b + len
                             /\ i # k => G[i] = F[i]
    BY <2>1, <2>2, <1>2, SMTT(30)
  <2>6. ListOK(p, lo) /\ lo <= p.base /\ Top(p) = Top(m)
    <3>1. \A i \in 1..Len(G) : lo <= G[i].base /\ Top(G[i]) < m.base
      BY <2>2, <2>4, <1>2, <1>3, SMTT(30)
    <3>2. \A i, j \in 1..Len(G) : i < j => Top(G[i]) < G[j].base
      BY <2>2, <2>4, <1>2, <1>3, SMTT(30)
    <3> QED BY <2>3, <3>1, <3>2 DEF ListOK, Gapped, Top
  <2>7. \A c : c \in b..(b + len - 1) <=> c \in Int /\ b <= c /\ c < b + len
    BY <1>2, SMTT(30)
  <2>8. \A c : c \in HomeOf(m) <=>
           \/ c \in Int /\ m.base <= c /\ c < m.base + m.len
           \/ \E i \in 1..Len(F) : c \in Int /\ F[i].base <= c /\ c < Top(F[i])
    BY InHome
  <2>9. \A c : c \in HomeOf(p) <=>
           \/ c \in Int /\ m.base <= c /\ c < m.base + m.len
           \/ \E i \in 1..Len(F) : c \in Int /\ G[i].base <= c /\ c < Top(F[i])
    BY InHome, <2>2, <2>3, <2>4
  <2>10. b + len < Top(F[k])
    BY <1>2, <1>5, SMTT(30)
  <2>11. ASSUME NEW c
         PROVE  c \in HomeOf(p) <=> c \in HomeOf(m) /\ c \notin b..(b + len - 1)
    <3>1. CASE c \in Int
      <4>1. \A i \in 1..Len(F) : i # k => Top(F[i]) < F[k].base \/ Top(F[k]) < F[i].base
        BY <1>3, <1>0
      <4>2. Top(F[k]) < m.base
        BY <1>3
      <4>3. CASE c \in b..(b + len - 1)
        <5>1. F[k].base <= c /\ c < F[k].base + len /\ c < Top(F[k])
          BY <4>3, <3>1, <2>7, <2>10, <1>2, SMTT(30)
        <5>2. ~(m.base <= c)
          BY <5>1, <4>2, <3>1, <1>2, <1>0
        <5>3. ASSUME NEW i \in 1..Len(F), i # k
              PROVE  ~(G[i].base <= c /\ c < Top(F[i]))
          <6>1. Top(F[i]) < F[k].base \/ Top(F[k]) < F[i].base
            BY <5>3, <4>1
          <6>2. F[i].base \in Nat /\ Top(F[i]) \in Nat /\ F[k].base \in Nat /\ Top(F[k]) \in Nat
            BY <1>2
          <6>3. G[i] = F[i]
            BY <5>3, <2>4
          <6> QED BY <5>1, <6>1, <6>2, <6>3, <3>1, SMTT(30)
        <5>4. ~(G[k].base <= c)
          BY <5>1, <2>4, <3>1, <1>2
        <5> QED BY <4>3, <5>2, <5>3, <5>4, <2>9
      <4>4. CASE c \notin b..(b + len - 1)
        <5>1. F[k].base <= c /\ c < Top(F[k]) <=> G[k].base <= c /\ c < Top(F[k])
          <6>1. G[k].base = F[k].base + len /\ F[k].base \in Nat /\ Top(F[k]) \in Nat
            BY <2>4, <1>2
          <6>2. ~(F[k].base <= c /\ c < F[k].base + len)
            BY <4>4, <3>1, <2>7
          <6> QED BY <6>1, <6>2, <3>1
        <5>2. \A i \in 1..Len(F) : i # k => G[i] = F[i]
          BY <2>4
        <5> QED BY <4>4, <5>1, <5>2, <2>8, <2>9
      <4> QED BY <4>3, <4>4
    <3>2. CASE c \notin Int
      BY <3>2, <2>8, <2>9
    <3> QED BY <3>1, <3>2
  <2>12. b \in Nat /\ b..(b + len - 1) \subseteq HomeOf(m)
    BY <2>7, <2>8, <2>10, <1>2
  <2>13. HomeOf(p) = HomeOf(m) \ (b..(b + len - 1))
    BY <2>11
  <2> QED BY <1>1, <2>3, <2>6, <2>12, <2>13 DEF CutDone, p
<1> QED BY <1>4, <1>5

\* Splicing keeps the order when the new node fits the gap, and the grains of the
\* result are those of the nodes kept and of the new one.
LEMMA SpliceFits ==
  ASSUME NEW F \in Seq(Node), Gapped(F), NEW x \in Node,
         NEW a \in Nat, NEW b \in Nat, a < b, b <= Len(F) + 1,
         \A i \in 1..Len(F) : i <= a => Top(F[i]) < x.base,
         \A i \in 1..Len(F) : i >= b => Top(x) < F[i].base
  PROVE  LET G == Spliced(F, a, x, b)
         IN  /\ G \in Seq(Node) /\ Gapped(G)
             /\ \A i \in 1..Len(G) :
                  G[i] = x \/ \E j \in 1..Len(F) : (j <= a \/ j >= b) /\ G[i] = F[j]
             /\ \E i \in 1..Len(G) : G[i] = x
             /\ \A j \in 1..Len(F) : j <= a \/ j >= b => \E i \in 1..Len(G) : G[i] = F[j]
<1> DEFINE G == Spliced(F, a, x, b)
           At(i) == i + b - a - 2
<1>1. /\ G \in Seq(Node) /\ Len(G) = Len(F) + a + 2 - b /\ Len(F) \in Nat
      /\ \A i \in 1..Len(G) :
           G[i] = IF i <= a THEN F[i] ELSE IF i = a + 1 THEN x ELSE F[At(i)]
  <2>1. Len(F) \in Nat
    OBVIOUS
  <2>2. /\ G \in Seq(Node)
        /\ Len(G) = Len(F) + a + 2 - b
        /\ \A i \in 1..Len(G) :
             G[i] = IF i <= a THEN F[i] ELSE IF i = a + 1 THEN x ELSE F[i + b - a - 2]
    BY Splice
  <2> QED BY <2>1, <2>2
<1> HIDE DEF G
<1>2. ASSUME NEW i \in 1..Len(G), i > a + 1
      PROVE  At(i) \in 1..Len(F) /\ At(i) >= b /\ G[i] = F[At(i)]
  BY <1>1, <1>2, SMTT(30)
<1>3. ASSUME NEW i \in 1..Len(G), i <= a PROVE i \in 1..Len(F) /\ G[i] = F[i]
  BY <1>1, <1>3
<1>4. a + 1 \in 1..Len(G) /\ G[a + 1] = x
  BY <1>1
<1>5. ASSUME NEW i \in 1..Len(G)
      PROVE  i <= a \/ i = a + 1 \/ i > a + 1
  BY <1>1
<1>6. ASSUME NEW i \in 1..Len(G), NEW j \in 1..Len(G), i < j
      PROVE  Top(G[i]) < G[j].base
  <2>1. CASE i <= a
    <3>0. i \in 1..Len(F) /\ G[i] = F[i]
      BY <2>1, <1>3
    <3>1. CASE j <= a
      BY <3>0, <3>1, <1>3, <1>6 DEF Gapped
    <3>2. CASE j = a + 1
      BY <3>0, <3>2, <2>1, <1>4
    <3>3. CASE j > a + 1
      <4>1. At(j) \in 1..Len(F) /\ At(j) >= b /\ G[j] = F[At(j)]
        BY <3>3, <1>2
      <4>2. i < At(j)
        BY <4>1, <2>1, <3>0, <1>1
      <4> HIDE DEF At
      <4> QED BY <3>0, <4>1, <4>2 DEF Gapped
    <3> QED BY <3>1, <3>2, <3>3, <1>5
  <2>2. CASE i = a + 1
    <3>1. j > a + 1
      BY <2>2, <1>6
    <3>2. At(j) \in 1..Len(F) /\ At(j) >= b /\ G[j] = F[At(j)]
      BY <3>1, <1>2
    <3> HIDE DEF At
    <3> QED BY <3>2, <2>2, <1>4
  <2>3. CASE i > a + 1
    <3>1. j > a + 1
      BY <2>3, <1>6, <1>1
    <3>2. At(i) \in 1..Len(F) /\ At(i) >= b /\ G[i] = F[At(i)]
      BY <2>3, <1>2
    <3>3. At(j) \in 1..Len(F) /\ At(j) >= b /\ G[j] = F[At(j)]
      BY <3>1, <1>2
    <3>4. At(i) < At(j)
      BY <1>6, <1>1
    <3> HIDE DEF At
    <3> QED BY <3>2, <3>3, <3>4 DEF Gapped
  <2> QED BY <2>1, <2>2, <2>3, <1>5
<1>7. ASSUME NEW i \in 1..Len(G)
      PROVE  G[i] = x \/ \E j \in 1..Len(F) : (j <= a \/ j >= b) /\ G[i] = F[j]
  <2> HIDE DEF At
  <2> QED BY <1>2, <1>3, <1>4, <1>5
<1>8. ASSUME NEW j \in 1..Len(F), j <= a \/ j >= b
      PROVE  \E i \in 1..Len(G) : G[i] = F[j]
  <2>1. CASE j <= a
    <3>1. j \in 1..Len(G)
      BY <2>1, <1>1
    <3> QED BY <3>1, <2>1, <1>3
  <2>2. CASE j >= b
    <3> DEFINE i == j + a + 2 - b
    <3>1. i \in 1..Len(G) /\ i > a + 1 /\ At(i) = j
      BY <2>2, <1>1
    <3> HIDE DEF i, At
    <3> QED BY <3>1, <1>2
  <2> QED BY <2>1, <2>2, <1>8
<1>9. Gapped(G)
  BY <1>6 DEF Gapped
<1> QED BY <1>1, <1>4, <1>7, <1>8, <1>9 DEF G

\* What an insert does to a pool record; only the last node may now touch the
\* cursor.
Inserted(p, m, lo, n) ==
  /\ p \in MemRec /\ SameNames(p, m) /\ p.out_bytes = m.out_bytes
  /\ p.base = m.base /\ p.len = m.len
  /\ Gapped(p.free)
  /\ \A i \in 1..Len(p.free) : lo <= p.free[i].base /\ Top(p.free[i]) <= m.base
  /\ \/ p.dropped = m.dropped /\ HomeOf(p) = HomeOf(m) \cup Cells(n)
     \/ p.dropped = m.dropped + n.len /\ HomeOf(p) = HomeOf(m)

LEMMA InsertRange ==
  ASSUME NEW m \in MemRec, NEW lo \in Nat, ListOK(m, lo),
         NEW n, n.base \in Nat, n.len \in Nat, n.len > 0,
         lo <= n.base, Top(n) <= m.base,
         \A i \in 1..Len(m.free) : Top(m.free[i]) <= n.base \/ Top(n) <= m.free[i].base,
         NEW room
  PROVE  Inserted(pool_insert_range(m, n, room), m, lo, n)
<1> DEFINE F == m.free
           p == pool_insert_range(m, n, room)
<1>0. m.base \in Nat /\ m.len \in Nat /\ m.dropped \in Nat /\ F \in Seq(Node) /\ Len(F) \in Nat
  BY DEF MemRec
<1>1. \A i \in 1..Len(F) : /\ F[i] \in Node /\ F[i].base \in Nat /\ F[i].len \in Nat
                           /\ F[i].len > 0 /\ Top(F[i]) \in Nat /\ F[i].base < Top(F[i])
                           /\ Top(F[i]) = F[i].base + F[i].len
  BY <1>0, NodeType
<1>2. /\ \A i \in 1..Len(F) : lo <= F[i].base /\ Top(F[i]) < m.base
      /\ \A i, j \in 1..Len(F) : i < j => Top(F[i]) < F[j].base
      /\ Gapped(F)
  BY DEF ListOK, Gapped
<1>3. Top(n) = n.base + n.len /\ Top(n) \in Nat /\ n.base < Top(n)
  BY DEF Top
<1>4. PICK at \in 0..Len(F) :
           /\ NextNode(F, n.base) = IF at = Len(F) THEN 0 ELSE at + 1
           /\ \A i \in 1..Len(F) : F[i].base > n.base <=> i > at
  <2>1. ASSUME NEW i \in 1..Len(F), NEW j \in 1..Len(F), i < j PROVE F[i].base < F[j].base
    BY <2>1, <1>1, <1>2
  <2> HIDE DEF F
  <2> QED BY <2>1, <1>0, NodesAround
<1> DEFINE next  == IF at = Len(F) THEN 0 ELSE at + 1
           below == at > 0 /\ Top(F[at]) = n.base
           above == next # 0 /\ Top(n) = F[next].base
           left  == IF below THEN F[at].base ELSE n.base
           hi    == IF above THEN Top(F[next]) ELSE Top(n)
           a     == IF below THEN at - 1 ELSE at
           b     == IF above THEN at + 2 ELSE at + 1
           x     == [base |-> left, len |-> hi - left]
<1>5. p = IF below \/ above \/ room
            THEN [m EXCEPT !.free = Spliced(F, a, x, b)]
            ELSE [m EXCEPT !.dropped = @ + n.len]
  <2>1. next = NextNode(F, n.base) /\ (IF next = 0 THEN Len(F) ELSE next - 1) = at
    BY <1>0, <1>4
  <2> HIDE DEF F
  <2> QED BY <2>1 DEF pool_insert_range, Spliced, F
<1>6. \A i \in 1..Len(F) : /\ i <= at => Top(F[i]) <= n.base
                           /\ i > at => Top(n) <= F[i].base
  <2>1. ASSUME NEW i \in 1..Len(F), i <= at PROVE Top(F[i]) <= n.base
    <3>1. F[i].base <= n.base /\ F[i].base \in Nat
      BY <2>1, <1>1, <1>4
    <3>2. ~(Top(n) <= F[i].base)
      BY <3>1, <1>3
    <3> QED BY <3>2
  <2>2. ASSUME NEW i \in 1..Len(F), i > at PROVE Top(n) <= F[i].base
    <3>1. F[i].base > n.base /\ F[i].base \in Nat /\ F[i].base < Top(F[i]) /\ Top(F[i]) \in Nat
      BY <2>2, <1>1, <1>4
    <3>2. ~(Top(F[i]) <= n.base)
      BY <3>1, <1>3
    <3> QED BY <3>2
  <2> QED BY <2>1, <2>2
<1>7. CASE below \/ above \/ room
  <2>1. a \in Nat /\ b \in Nat /\ a < b /\ b <= Len(F) + 1
    <3>1. at \in 0..Len(F) /\ (below => at > 0) /\ (above => at < Len(F))
      BY <1>0
    <3>2. (below => a = at - 1) /\ (~below => a = at) /\ (above => b = at + 2)
            /\ (~above => b = at + 1)
      OBVIOUS
    <3> HIDE DEF a, b, below, above, F
    <3> QED BY <3>1, <3>2, <1>0
  <2>2. /\ below => at \in 1..Len(F) /\ left = F[at].base /\ Top(F[at]) = n.base
        /\ ~below => left = n.base
        /\ above => /\ next \in 1..Len(F) /\ next = at + 1
                    /\ hi = Top(F[next]) /\ Top(n) = F[next].base
        /\ ~above => hi = Top(n)
    BY <1>0
  <2>3. /\ left \in Nat /\ hi \in Nat /\ left <= n.base /\ Top(n) <= hi
        /\ lo <= left /\ hi <= m.base
    <3>1. left \in Nat /\ left <= n.base /\ lo <= left
      <4>1. CASE below
        <5>1. F[at].base \in Nat /\ F[at].base < Top(F[at]) /\ lo <= F[at].base
                /\ Top(F[at]) \in Nat
          BY <4>1, <2>2, <1>1, <1>2
        <5> HIDE DEF left
        <5> QED BY <4>1, <5>1, <2>2
      <4>2. CASE ~below
        <5> HIDE DEF left, below
        <5> QED BY <4>2, <2>2
      <4> QED BY <4>1, <4>2
    <3>2. hi \in Nat /\ Top(n) <= hi /\ hi <= m.base
      <4>1. CASE above
        <5>1. F[next].base \in Nat /\ F[next].base < Top(F[next])
                /\ Top(F[next]) \in Nat /\ Top(F[next]) < m.base
          BY <4>1, <2>2, <1>1, <1>2
        <5> HIDE DEF hi
        <5> QED BY <4>1, <5>1, <2>2, <1>0, SMTT(30)
      <4>2. CASE ~above
        <5> HIDE DEF hi, above
        <5> QED BY <4>2, <2>2, <1>3
      <4> QED BY <4>1, <4>2
    <3> QED BY <3>1, <3>2
  <2>4. x \in Node /\ x.base = left /\ Top(x) = hi
    <3> HIDE DEF left, hi
    <3>0. left < hi
      BY <2>3, <1>3
    <3>1. hi - left \in Nat \ {0} /\ left + (hi - left) = hi
      BY <3>0, <2>3
    <3> QED BY <2>3, <3>1 DEF Node, Top
  <2>5. ASSUME NEW i \in 1..Len(F), i <= a PROVE Top(F[i]) < left
    <3>1. CASE below
      <4>1. i < at /\ at \in 1..Len(F) /\ left = F[at].base
        BY <3>1, <2>5, <2>2
      <4> QED BY <4>1, <1>2
    <3>2. CASE ~below
      <4>1. i <= at /\ at \in 1..Len(F) /\ left = n.base /\ Top(F[at]) # n.base
        BY <3>2, <2>5, <2>2
      <4>2. Top(F[at]) < n.base /\ F[at].base < Top(F[at]) /\ F[at].base \in Nat
              /\ Top(F[at]) \in Nat /\ Top(F[i]) \in Nat
        BY <4>1, <1>1, <1>3, <1>6, SMTT(30)
      <4>3. i < at => Top(F[i]) < F[at].base
        BY <4>1, <1>2
      <4> HIDE DEF left
      <4> QED BY <4>1, <4>2, <4>3
    <3> QED BY <3>1, <3>2
  <2>6. ASSUME NEW i \in 1..Len(F), i >= b PROVE hi < F[i].base
    <3>1. CASE above
      <4>1. i > next /\ next \in 1..Len(F) /\ hi = Top(F[next])
        BY <3>1, <2>6, <2>2
      <4> HIDE DEF next, hi
      <4> QED BY <4>1, <1>2
    <3>2. CASE ~above
      <4>1. at + 1 \in 1..Len(F) /\ next = at + 1 /\ i >= at + 1 /\ hi = Top(n)
              /\ Top(n) # F[at + 1].base
        BY <3>2, <2>6, <1>0, SMTT(30)
      <4>2. Top(n) < F[at + 1].base /\ F[at + 1].base < Top(F[at + 1]) /\ F[at + 1].base \in Nat
              /\ Top(F[at + 1]) \in Nat /\ F[i].base \in Nat
        BY <4>1, <1>1, <1>3, <1>6, SMTT(30)
      <4>3. i > at + 1 => Top(F[at + 1]) < F[i].base
        BY <4>1, <1>2
      <4> HIDE DEF hi
      <4> QED BY <4>1, <4>2, <4>3, <1>3, SMTT(30)
    <3> QED BY <3>1, <3>2
  <2>7. /\ \A j \in 1..Len(F) : j <= a \/ j >= b \/ (below /\ j = at) \/ (above /\ j = next)
        /\ below => at > a /\ at < b
        /\ above => next > a /\ next < b
    BY <2>2, <1>0
  <2> HIDE DEF left, hi, x, a, b, next, below, above
  <2> DEFINE G == Spliced(F, a, x, b)
  <2>8. /\ G \in Seq(Node) /\ Gapped(G)
        /\ \A i \in 1..Len(G) :
             G[i] = x \/ \E j \in 1..Len(F) : (j <= a \/ j >= b) /\ G[i] = F[j]
        /\ \E i \in 1..Len(G) : G[i] = x
        /\ \A j \in 1..Len(F) : j <= a \/ j >= b => \E i \in 1..Len(G) : G[i] = F[j]
    <3>1. F \in Seq(Node) /\ Gapped(F)
      BY <1>0, <1>2
    <3>2. /\ \A i \in 1..Len(F) : i <= a => Top(F[i]) < x.base
          /\ \A i \in 1..Len(F) : i >= b => Top(x) < F[i].base
      BY <2>4, <2>5, <2>6
    <3>3. x \in Node /\ a \in Nat /\ b \in Nat /\ a < b /\ b <= Len(F) + 1
      BY <2>1, <2>4
    <3> HIDE DEF F
    <3> QED BY <3>1, <3>2, <3>3, SpliceFits, SMTT(30)
  <2> HIDE DEF G
  <2>9. p \in MemRec /\ SameNames(p, m) /\ p.out_bytes = m.out_bytes /\ p.dropped = m.dropped
          /\ p.free = G /\ p.base = m.base /\ p.len = m.len
    <3>1. G \in Seq(Node)
      BY <2>8
    <3>2. p = [m EXCEPT !.free = G]
      BY <1>5, <1>7 DEF G
    <3> HIDE DEF p
    <3> QED BY <3>1, <3>2 DEF MemRec, SameNames
  <2> HIDE DEF p
  <2>10. ASSUME NEW i \in 1..Len(G) PROVE lo <= G[i].base /\ Top(G[i]) <= m.base
    <3>1. CASE G[i] = x
      BY <3>1, <2>3, <2>4
    <3>2. CASE \E j \in 1..Len(F) : G[i] = F[j]
      BY <3>2, <1>0, <1>1, <1>2
    <3> QED BY <3>1, <3>2, <2>8
  <2>11. ASSUME NEW c
         PROVE  (\E i \in 1..Len(G) : c \in Int /\ G[i].base <= c /\ c < Top(G[i])) <=>
                  \/ \E j \in 1..Len(F) : c \in Int /\ F[j].base <= c /\ c < Top(F[j])
                  \/ c \in Int /\ n.base <= c /\ c < Top(n)
    <3>1. CASE c \notin Int
      BY <3>1
    <3>2. CASE c \in Int
      <4>1. (\E i \in 1..Len(G) : G[i].base <= c /\ c < Top(G[i])) <=>
              \/ \E j \in 1..Len(F) : (j <= a \/ j >= b) /\ F[j].base <= c /\ c < Top(F[j])
              \/ left <= c /\ c < hi
        BY <2>8, <2>4
      <4>2. left <= c /\ c < hi <=>
              \/ below /\ F[at].base <= c /\ c < Top(F[at])
              \/ n.base <= c /\ c < Top(n)
              \/ above /\ F[next].base <= c /\ c < Top(F[next])
        <5>1. below => F[at].base \in Nat /\ Top(F[at]) \in Nat
          BY <2>2, <1>1
        <5>2. above => F[next].base \in Nat /\ Top(F[next]) \in Nat
          BY <2>2, <1>1
        <5>3. CASE below /\ above
          <6>1. /\ left = F[at].base /\ Top(F[at]) = n.base
                /\ hi = Top(F[next]) /\ F[next].base = Top(n)
                /\ left \in Nat /\ hi \in Nat
            BY <5>3, <2>2, <2>3
          <6>2. left <= n.base /\ Top(n) <= hi /\ n.base < Top(n) /\ Top(n) \in Nat
            BY <2>3, <1>3
          <6>3. left <= c /\ c < hi <=>
                  \/ left <= c /\ c < n.base
                  \/ n.base <= c /\ c < Top(n)
                  \/ Top(n) <= c /\ c < hi
            BY <3>2, <6>1, <6>2, SMTT(30)
          <6> QED BY <5>3, <6>1, <6>3
        <5>4. CASE below /\ ~above
          BY <5>4, <3>2, <5>1, <2>2, <2>3, <1>3, SMTT(30)
        <5>5. CASE ~below /\ above
          BY <5>5, <3>2, <5>2, <2>2, <2>3, <1>3, SMTT(30)
        <5>6. CASE ~below /\ ~above
          BY <5>6, <3>2, <2>2, <2>3, <1>3
        <5> QED BY <5>3, <5>4, <5>5, <5>6
      <4>3. (\E j \in 1..Len(F) : F[j].base <= c /\ c < Top(F[j])) <=>
              \/ \E j \in 1..Len(F) : (j <= a \/ j >= b) /\ F[j].base <= c /\ c < Top(F[j])
              \/ below /\ F[at].base <= c /\ c < Top(F[at])
              \/ above /\ F[next].base <= c /\ c < Top(F[next])
        BY <2>2, <2>7
      <4> QED BY <3>2, <4>1, <4>2, <4>3
    <3> QED BY <3>1, <3>2
  <2>12. HomeOf(p) = HomeOf(m) \cup Cells(n)
    <3>1. \A c : c \in HomeOf(m) <=>
             \/ c \in Int /\ m.base <= c /\ c < m.base + m.len
             \/ \E j \in 1..Len(F) : c \in Int /\ F[j].base <= c /\ c < Top(F[j])
      BY InHome
    <3>2. \A c : c \in HomeOf(p) <=>
             \/ c \in Int /\ m.base <= c /\ c < m.base + m.len
             \/ \E i \in 1..Len(G) : c \in Int /\ G[i].base <= c /\ c < Top(G[i])
      BY InHome, <2>9
    <3>3. \A c : c \in Cells(n) <=> c \in Int /\ n.base <= c /\ c < Top(n)
      BY InCells, <1>3
    <3>4. \A c : c \in HomeOf(p) <=> c \in HomeOf(m) \/ c \in Cells(n)
      BY <3>1, <3>2, <3>3, <2>11
    <3> QED BY <3>4
  <2> QED BY <2>8, <2>9, <2>10, <2>12 DEF Inserted, p
<1>8. CASE ~(below \/ above \/ room)
  <2>1. p = [m EXCEPT !.dropped = @ + n.len]
    BY <1>5, <1>8
  <2> HIDE DEF p
  <2>2. m.dropped + n.len \in Nat
    BY <1>0
  <2>3. p \in MemRec /\ SameNames(p, m) /\ p.out_bytes = m.out_bytes
          /\ p.dropped = m.dropped + n.len /\ p.free = F /\ p.base = m.base /\ p.len = m.len
    BY <2>1, <2>2 DEF MemRec, SameNames
  <2>4. HomeOf(p) = HomeOf(m)
    BY <2>3 DEF HomeOf, Cells, Top
  <2>5. \A i \in 1..Len(F) : lo <= F[i].base /\ Top(F[i]) <= m.base
    BY <1>0, <1>1, <1>2
  <2> QED BY <2>3, <2>4, <2>5, <1>2 DEF Inserted, p
<1> QED BY <1>7, <1>8

\* The fold keeps the grains and restores the gap below the cursor.
LEMMA FoldFrontier ==
  ASSUME NEW q \in MemRec, NEW lo \in Nat, lo <= q.base, Gapped(q.free),
         \A i \in 1..Len(q.free) : lo <= q.free[i].base /\ Top(q.free[i]) <= q.base
  PROVE  LET p == pool_fold_frontier(q)
         IN  /\ p \in MemRec /\ SameNames(p, q)
             /\ p.out_bytes = q.out_bytes /\ p.dropped = q.dropped
             /\ ListOK(p, lo) /\ lo <= p.base /\ Top(p) = Top(q)
             /\ HomeOf(p) = HomeOf(q)
<1> DEFINE F == q.free
           p == pool_fold_frontier(q)
           N == Len(F)
<1>0. q.base \in Nat /\ q.len \in Nat /\ F \in Seq(Node) /\ N \in Nat /\ (F # <<>> <=> N > 0)
  BY DEF MemRec
<1>1. \A i \in 1..N : /\ F[i] \in Node /\ F[i].base \in Nat /\ F[i].len \in Nat
                      /\ F[i].len > 0 /\ Top(F[i]) \in Nat /\ F[i].base < Top(F[i])
                      /\ Top(F[i]) = F[i].base + F[i].len
  BY <1>0, NodeType
<1>2. \A i, j \in 1..N : i < j => Top(F[i]) < F[j].base
  BY DEF Gapped
<1>3. CASE N > 0 /\ Top(F[N]) = q.base
  <2>0. N \in 1..N
    BY <1>3, <1>0
  <2>1. p = [q EXCEPT !.base = F[N].base, !.len = @ + F[N].len, !.free = SubSeq(F, 1, N - 1)]
    BY <1>3, <1>0 DEF pool_fold_frontier, Last, Front
  <2> DEFINE G == SubSeq(F, 1, N - 1)
  <2>2. G \in Seq(Node) /\ Len(G) = N - 1 /\ \A i \in 1..N - 1 : G[i] = F[i]
    BY <1>3, <1>0
  <2> HIDE DEF G, p
  <2>3. F[N].base \in Nat /\ q.len + F[N].len \in Nat /\ lo <= F[N].base
    BY <2>0, <1>0, <1>1, SMTT(30)
  <2>4. p \in MemRec /\ SameNames(p, q) /\ p.out_bytes = q.out_bytes /\ p.dropped = q.dropped
          /\ p.free = G /\ p.base = F[N].base /\ p.len = q.len + F[N].len
    <3>1. p = [q EXCEPT !.base = F[N].base, !.len = @ + F[N].len, !.free = G] /\ G \in Seq(Node)
      BY <2>1, <2>2 DEF G
    <3> QED BY <3>1, <2>3 DEF MemRec, SameNames
  <2>5. Top(p) = Top(q)
    BY <2>0, <2>4, <1>0, <1>1, <1>3 DEF Top
  <2>6. ListOK(p, lo)
    <3>1. \A i \in 1..Len(G) : i \in 1..N /\ i < N /\ G[i] = F[i]
      BY <2>2, <1>0
    <3>2. \A i \in 1..Len(G) : lo <= G[i].base /\ Top(G[i]) < F[N].base
      BY <3>1, <2>0, <1>2
    <3>3. \A i, j \in 1..Len(G) : i < j => Top(G[i]) < G[j].base
      BY <3>1, <1>2
    <3> QED BY <3>2, <3>3, <2>4 DEF ListOK, Gapped
  <2>7. ASSUME NEW c PROVE c \in HomeOf(p) <=> c \in HomeOf(q)
    <3>1. c \in HomeOf(q) <=>
             \/ c \in Int /\ q.base <= c /\ c < q.base + q.len
             \/ \E k \in 1..N : c \in Int /\ F[k].base <= c /\ c < Top(F[k])
      BY InHome
    <3>2. c \in HomeOf(p) <=>
             \/ c \in Int /\ p.base <= c /\ c < p.base + p.len
             \/ \E k \in 1..Len(G) : c \in Int /\ G[k].base <= c /\ c < Top(G[k])
      BY InHome, <2>4
    <3>3. p.base + p.len = q.base + q.len /\ p.base = F[N].base
      BY <2>4, <2>5 DEF Top
    <3>4. CASE c \in Int
      <4>1. F[N].base <= c /\ c < q.base + q.len <=>
              \/ q.base <= c /\ c < q.base + q.len
              \/ F[N].base <= c /\ c < Top(F[N])
        BY <3>4, <2>0, <1>0, <1>1, <1>3
      <4>2. (\E k \in 1..N : F[k].base <= c /\ c < Top(F[k])) <=>
              \/ F[N].base <= c /\ c < Top(F[N])
              \/ \E k \in 1..Len(G) : G[k].base <= c /\ c < Top(G[k])
        <5>1. \A k \in 1..N : k = N \/ k \in 1..Len(G)
          BY <2>2, <1>0
        <5>2. \A k \in 1..Len(G) : k \in 1..N /\ G[k] = F[k]
          BY <2>2, <1>0
        <5> QED BY <5>1, <5>2, <2>0
      <4> QED BY <3>1, <3>2, <3>3, <3>4, <4>1, <4>2
    <3>5. CASE c \notin Int
      BY <3>1, <3>2, <3>5
    <3> QED BY <3>4, <3>5
  <2>8. HomeOf(p) = HomeOf(q)
    BY <2>7
  <2> QED BY <2>3, <2>4, <2>5, <2>6, <2>8 DEF p
<1>4. CASE ~(N > 0 /\ Top(F[N]) = q.base)
  <2>1. p = q
    BY <1>4, <1>0 DEF pool_fold_frontier, Last
  <2>2. \A i \in 1..N : Top(F[i]) < q.base
    <3> SUFFICES ASSUME NEW i \in 1..N PROVE Top(F[i]) < q.base
      OBVIOUS
    <3>1. N \in 1..N /\ Top(F[N]) # q.base
      BY <1>4, <1>0
    <3>2. Top(F[N]) < q.base
      BY <3>1, <1>0, <1>1, SMTT(30)
    <3>3. i < N => Top(F[i]) < F[N].base
      BY <3>1, <1>2
    <3>4. i = N \/ i < N
      BY <1>0
    <3>5. F[N].base \in Nat /\ F[N].base < Top(F[N]) /\ Top(F[N]) \in Nat
            /\ Top(F[i]) \in Nat /\ q.base \in Nat
      BY <3>1, <1>0, <1>1
    <3> QED BY <3>2, <3>3, <3>4, <3>5
  <2>3. ListOK(q, lo)
    BY <2>2 DEF ListOK
  <2> QED BY <2>1, <2>3 DEF SameNames
<1> QED BY <1>3, <1>4

\* What a return does to a pool record.
Returned(p, m, lo, n) ==
  /\ p \in MemRec /\ SameNames(p, m) /\ p.out_bytes = m.out_bytes - n.len
  /\ ListOK(p, lo) /\ lo <= p.base /\ Top(p) = Top(m)
  /\ \/ p.dropped = m.dropped /\ HomeOf(p) = HomeOf(m) \cup Cells(n)
     \/ p.dropped = m.dropped + n.len /\ HomeOf(p) = HomeOf(m)

LEMMA ReturnRange ==
  ASSUME NEW m \in MemRec, NEW lo \in Nat, ListOK(m, lo), lo <= m.base,
         NEW n, n.base \in Nat, n.len \in Nat, n.len > 0, n.len <= m.out_bytes,
         lo <= n.base, Top(n) <= m.base,
         \A i \in 1..Len(m.free) : Top(m.free[i]) <= n.base \/ Top(n) <= m.free[i].base,
         NEW room
  PROVE  Returned(pool_return(m, n, room), m, lo, n)
<1> DEFINE d == [m EXCEPT !.out_bytes = @ - n.len]
           q == pool_insert_range(d, n, room)
           p == pool_fold_frontier(q)
<1>1. d \in MemRec /\ SameNames(d, m) /\ d.out_bytes = m.out_bytes - n.len
        /\ d.free = m.free /\ d.base = m.base /\ d.len = m.len /\ d.dropped = m.dropped
  <2>1. m.out_bytes - n.len \in Nat
    BY DEF MemRec
  <2> QED BY <2>1 DEF MemRec, SameNames
<1> HIDE DEF d
<1>2. ListOK(d, lo) /\ HomeOf(d) = HomeOf(m) /\ Top(d) = Top(m)
  BY <1>1 DEF ListOK, HomeOf, Cells, Top
<1>3. Inserted(q, d, lo, n)
  BY <1>1, <1>2, InsertRange
<1> HIDE DEF q
<1>4. q \in MemRec /\ lo <= q.base /\ Gapped(q.free) /\ q.base = d.base /\ q.len = d.len
        /\ \A i \in 1..Len(q.free) : lo <= q.free[i].base /\ Top(q.free[i]) <= q.base
  BY <1>1, <1>3 DEF Inserted
<1>5. /\ p \in MemRec /\ SameNames(p, q)
      /\ p.out_bytes = q.out_bytes /\ p.dropped = q.dropped
      /\ ListOK(p, lo) /\ lo <= p.base /\ Top(p) = Top(q)
      /\ HomeOf(p) = HomeOf(q)
  BY <1>4, FoldFrontier
<1>6. pool_return(m, n, room) = p
  BY DEF pool_return, p, q, d
<1> HIDE DEF p
<1>7. Top(p) = Top(m)
  BY <1>4, <1>5, <1>2 DEF Top
<1>8. SameNames(p, m)
  BY <1>1, <1>3, <1>5 DEF SameNames, Inserted
<1> QED BY <1>1, <1>2, <1>3, <1>5, <1>6, <1>7, <1>8 DEF Returned, Inserted

-----------------------------------------------------------------------------
(* The inductive invariant.                                                *)

\* The cursor of a root runs to the end of its boot range, with the gapped free
\* list below it.
RootsOK ==
  \A r \in Slots : IsRoot(r) =>
    /\ Boot[r].base <= mem[r].base
    /\ Top(mem[r]) = Top(Boot[r])
    /\ ListOK(mem[r], Boot[r].base)

\* A region lies in the pool it was cut from, which outlives its grains.
Tied ==
  \A s \in Slots : mem[s].live =>
    /\ mem[s].root \in Roots
    /\ Cells(mem[s]) \subseteq Cells(Boot[mem[s].root])
    /\ mem[s].len > 0 => IsRoot(mem[s].root)

\* The grains of the regions, of the pools and of the slabs are apart.
Apart ==
  /\ \A s, q \in Slots : Derived(s) /\ Derived(q) /\ s # q =>
       Cells(mem[s]) \cap Cells(mem[q]) = {}
  /\ \A s, r \in Slots : Derived(s) /\ IsRoot(r) => Cells(mem[s]) \cap AtHome(r) = {}
  /\ \A s \in Slots : Derived(s) => Cells(mem[s]) \cap donated = {}
  /\ \A r \in Slots : IsRoot(r) => AtHome(r) \cap donated = {}

\* TypeOK in two parts.
MemType ==
  /\ mem \in [Slots -> MemRec]
  /\ \A s \in Slots :
       /\ mem[s].live => mem[s].root # 0
       /\ ~mem[s].live => mem[s] = Gone
       /\ Derived(s) => mem[s].free = <<>> /\ mem[s].out_bytes = 0 /\ mem[s].dropped = 0
  /\ donated \subseteq AllCells

CtlType ==
  /\ nodes \in Nat
  /\ release \in 0..NSlots
  /\ scan \in 0..NSlots + 1
  /\ doomed \in [Slots -> Nat]

Geometry == MemType /\ RootsOK /\ Tied /\ Apart /\ Balanced

\* What nothing names is about to be looked at.
Attended ==
  \A s \in Slots : idle(s) => s = release \/ (scan \in Slots /\ s >= scan)

\* The rows of a process that is ending are still counted.
DoomedOK ==
  /\ \A s \in Slots : doomed[s] <= mem[s].maps
  /\ scan = 0 => doomed = NoRows

MemoryIInv == Geometry /\ CtlType /\ Attended /\ DoomedOK

-----------------------------------------------------------------------------
(* Facts about boot ranges, slots and cells.                               *)

LEMMA BootFacts ==
  ASSUME NEW r \in Roots
  PROVE  /\ r \in Slots /\ r # 0
         /\ Boot[r].base \in Nat /\ Boot[r].len \in Nat /\ Top(Boot[r]) \in Nat
         /\ Top(Boot[r]) = Boot[r].base + Boot[r].len
         /\ \A c : c \in Cells(Boot[r]) <=>
              c \in Int /\ Boot[r].base <= c /\ c < Top(Boot[r])
         /\ IsFiniteSet(Cells(Boot[r]))
<1>1. r \in Slots /\ r # 0
  BY BootOK DEF Slots
<1>2. Boot[r].base \in Nat /\ Boot[r].len \in Nat
  BY BootOK
<1>3. \A c : c \in Cells(Boot[r]) <=>
        c \in Int /\ Boot[r].base <= c /\ c < Boot[r].base + Boot[r].len
  BY <1>2, InCells
<1>4. Boot[r].base \in Int /\ Top(Boot[r]) - 1 \in Int
  BY <1>2 DEF Top
<1>5. IsFiniteSet(Boot[r].base .. (Top(Boot[r]) - 1))
  BY <1>4, FS_Interval
<1> QED BY <1>1, <1>2, <1>3, <1>5 DEF Top, Cells

LEMMA BootsApart ==
  ASSUME NEW r \in Roots, NEW q \in Roots, r # q
  PROVE  Cells(Boot[r]) \cap Cells(Boot[q]) = {}
<1>1. \/ Top(Boot[r]) <= Boot[q].base
      \/ Top(Boot[q]) <= Boot[r].base
  BY BootOK, BootFacts
<1>2. /\ Boot[r].base \in Nat /\ Top(Boot[r]) \in Nat /\ Boot[q].base \in Nat /\ Top(Boot[q]) \in Nat
      /\ \A c : c \in Cells(Boot[r]) <=> c \in Int /\ Boot[r].base <= c /\ c < Top(Boot[r])
      /\ \A c : c \in Cells(Boot[q]) <=> c \in Int /\ Boot[q].base <= c /\ c < Top(Boot[q])
  BY BootFacts
<1> QED BY <1>1, <1>2

LEMMA InAllCells ==
  \A c : c \in AllCells <=> \E r \in Roots : c \in Cells(Boot[r])
BY DEF AllCells

LEMMA CellCount ==
  ASSUME NEW n, n.base \in Nat, n.len \in Nat
  PROVE  IsFiniteSet(Cells(n)) /\ Cardinality(Cells(n)) = n.len
<1>1. Cells(n) = n.base..(n.base + n.len - 1)
  BY DEF Cells, Top
<1>2. n.base \in Int /\ n.base + n.len - 1 \in Int
  OBVIOUS
<1>3. /\ IsFiniteSet(n.base..(n.base + n.len - 1))
      /\ Cardinality(n.base..(n.base + n.len - 1)) =
           IF n.base > n.base + n.len - 1 THEN 0 ELSE (n.base + n.len - 1) - n.base + 1
  BY <1>2, FS_Interval
<1>4. (IF n.base > n.base + n.len - 1 THEN 0 ELSE (n.base + n.len - 1) - n.base + 1) = n.len
  OBVIOUS
<1> QED BY <1>1, <1>3, <1>4

\* Ranges with no grain in common are one below the other.
LEMMA RangesApart ==
  ASSUME NEW a, a.base \in Nat, a.len \in Nat, a.len > 0,
         NEW b, b.base \in Nat, b.len \in Nat, b.len > 0,
         Cells(a) \cap Cells(b) = {}
  PROVE  Top(a) <= b.base \/ Top(b) <= a.base
<1>1. /\ \A c : c \in Cells(a) <=> c \in Int /\ a.base <= c /\ c < a.base + a.len
      /\ \A c : c \in Cells(b) <=> c \in Int /\ b.base <= c /\ c < b.base + b.len
  BY InCells
<1>2. a.base \notin Cells(b) \/ a.base \notin Cells(a)
  OBVIOUS
<1>3. b.base \notin Cells(a) \/ b.base \notin Cells(b)
  OBVIOUS
<1>4. a.base \in Cells(a) /\ b.base \in Cells(b)
  BY <1>1
<1>5. ~(b.base <= a.base /\ a.base < b.base + b.len)
  BY <1>1, <1>2, <1>4
<1>6. ~(a.base <= b.base /\ b.base < a.base + a.len)
  BY <1>1, <1>3, <1>4
<1> QED BY <1>5, <1>6 DEF Top

LEMMA AtHomeIs ==
  ASSUME NEW r PROVE AtHome(r) = HomeOf(mem[r])
BY DEF AtHome, NodeCells, HomeOf

LEMMA AtHomeIsNext ==
  ASSUME NEW r PROVE AtHome(r)' = HomeOf(mem'[r])
BY DEF AtHome, NodeCells, HomeOf

LEMMA InLent ==
  ASSUME NEW r
  PROVE  \A c : c \in Lent(r) <=>
           \/ \E s \in Slots : Derived(s) /\ mem[s].root = r /\ c \in Cells(mem[s])
           \/ c \in donated /\ c \in Cells(Boot[r])
<1> DEFINE Of == {s \in Slots : Derived(s) /\ mem[s].root = r}
           U == {Cells(mem[s]) : s \in Of}
<1>1. Lent(r) = (UNION U) \cup (donated \cap Cells(Boot[r]))
  BY DEF Lent
<1>2. \A c : c \in UNION U <=> \E s \in Of : c \in Cells(mem[s])
  BY Zenon
<1>3. \A s : s \in Of <=> s \in Slots /\ Derived(s) /\ mem[s].root = r
  OBVIOUS
<1> HIDE DEF U, Of
<1>4. ASSUME NEW c
      PROVE  c \in Lent(r) <=>
               \/ \E s \in Slots : Derived(s) /\ mem[s].root = r /\ c \in Cells(mem[s])
               \/ c \in donated /\ c \in Cells(Boot[r])
  <2> DEFINE V == UNION U
  <2>1. c \in V <=> \E s \in Slots : Derived(s) /\ mem[s].root = r /\ c \in Cells(mem[s])
    BY <1>2, <1>3, Zenon
  <2>2. Lent(r) = V \cup (donated \cap Cells(Boot[r]))
    BY <1>1
  <2> HIDE DEF V
  <2>3. c \in Lent(r) <=> c \in V \/ (c \in donated /\ c \in Cells(Boot[r]))
    BY <2>2, Zenon
  <2> QED BY <2>1, <2>3, Zenon
<1> QED BY <1>4

LEMMA InLentNext ==
  ASSUME NEW r
  PROVE  \A c : c \in Lent(r)' <=>
           \/ \E s \in Slots : Derived(s)' /\ mem'[s].root = r /\ c \in Cells(mem'[s])
           \/ c \in donated' /\ c \in Cells(Boot[r])
<1> DEFINE Of == {s \in Slots : Derived(s)' /\ mem'[s].root = r}
           U == {Cells(mem'[s]) : s \in Of}
<1>1. Lent(r)' = (UNION U) \cup (donated' \cap Cells(Boot[r]))
  BY DEF Lent
<1>2. \A c : c \in UNION U <=> \E s \in Of : c \in Cells(mem'[s])
  BY Zenon
<1>3. \A s : s \in Of <=> s \in Slots /\ Derived(s)' /\ mem'[s].root = r
  OBVIOUS
<1> HIDE DEF U, Of
<1>4. ASSUME NEW c
      PROVE  c \in Lent(r)' <=>
               \/ \E s \in Slots : Derived(s)' /\ mem'[s].root = r /\ c \in Cells(mem'[s])
               \/ c \in donated' /\ c \in Cells(Boot[r])
  <2> DEFINE V == UNION U
  <2>1. c \in V <=> \E s \in Slots : Derived(s)' /\ mem'[s].root = r /\ c \in Cells(mem'[s])
    BY <1>2, <1>3, Zenon
  <2>2. Lent(r)' = V \cup (donated' \cap Cells(Boot[r]))
    BY <1>1
  <2> HIDE DEF V
  <2>3. c \in Lent(r)' <=> c \in V \/ (c \in donated' /\ c \in Cells(Boot[r]))
    BY <2>2, Zenon
  <2> QED BY <2>1, <2>3, Zenon
<1> QED BY <1>4

\* What a pool can hand out lies in its boot range.
LEMMA HomeInside ==
  ASSUME NEW m \in MemRec, NEW r \in Roots, ListOK(m, Boot[r].base),
         Boot[r].base <= m.base, Top(m) = Top(Boot[r])
  PROVE  HomeOf(m) \subseteq Cells(Boot[r])
<1>1. /\ m.base \in Nat /\ m.len \in Nat /\ m.free \in Seq(Node)
      /\ m.base + m.len = Top(Boot[r]) /\ m.base <= Top(Boot[r])
  BY DEF MemRec, Top
<1>2. \A k \in 1..Len(m.free) : m.free[k].base \in Nat /\ Top(m.free[k]) \in Nat
  BY <1>1, NodeType
<1>3. \A k \in 1..Len(m.free) : Boot[r].base <= m.free[k].base /\ Top(m.free[k]) < m.base
  BY DEF ListOK
<1>4. Boot[r].base \in Nat /\ Top(Boot[r]) \in Nat
      /\ \A c : c \in Cells(Boot[r]) <=> c \in Int /\ Boot[r].base <= c /\ c < Top(Boot[r])
  BY BootFacts
<1>5. ASSUME NEW c \in HomeOf(m) PROVE c \in Cells(Boot[r])
  <2>1. CASE c \in Int /\ m.base <= c /\ c < m.base + m.len
    BY <2>1, <1>1, <1>4
  <2>2. CASE \E k \in 1..Len(m.free) : c \in Int /\ m.free[k].base <= c /\ c < Top(m.free[k])
    <3>1. PICK k \in 1..Len(m.free) : c \in Int /\ m.free[k].base <= c /\ c < Top(m.free[k])
      BY <2>2
    <3>2. /\ m.free[k].base \in Nat /\ Top(m.free[k]) \in Nat
          /\ Boot[r].base <= m.free[k].base /\ Top(m.free[k]) < m.base
      BY <1>2, <1>3
    <3>3. m.base \in Nat /\ m.base <= Top(Boot[r])
      BY <1>1
    <3>4. Boot[r].base <= c /\ c < Top(Boot[r])
      BY <3>1, <3>2, <3>3, <1>4, SMTT(30)
    <3> QED BY <3>1, <3>4, <1>4
  <2> QED BY <2>1, <2>2, InHome
<1> QED BY <1>5

\* What the invariant says of a live pool.
LEMMA RootFacts ==
  ASSUME Geometry, NEW r \in Slots, IsRoot(r)
  PROVE  /\ r \in Roots /\ mem[r] \in MemRec /\ mem[r].root = r
         /\ AtHome(r) = HomeOf(mem[r])
         /\ AtHome(r) \subseteq Cells(Boot[r]) /\ Lent(r) \subseteq Cells(Boot[r])
         /\ AtHome(r) \cap Lent(r) = {}
         /\ IsFiniteSet(AtHome(r)) /\ IsFiniteSet(Lent(r))
         /\ Cardinality(AtHome(r)) \in Nat /\ Cardinality(Lent(r)) \in Nat
         /\ mem[r].out_bytes = Cardinality(Lent(r))
         /\ Boot[r].len = Cardinality(AtHome(r)) + mem[r].out_bytes + mem[r].dropped
<1>1. r \in Roots /\ mem[r] \in MemRec /\ mem[r].root = r
  BY DEF Geometry, Tied, IsRoot, MemType
<1>2. AtHome(r) = HomeOf(mem[r])
  BY AtHomeIs
<1>3. AtHome(r) \subseteq Cells(Boot[r])
  BY <1>1, <1>2, HomeInside DEF Geometry, RootsOK
<1>4. Lent(r) \subseteq Cells(Boot[r])
  <2>1. ASSUME NEW c \in Lent(r) PROVE c \in Cells(Boot[r])
    BY <2>1, InLent DEF Geometry, Tied, Derived
  <2> QED BY <2>1
<1>5. AtHome(r) \cap Lent(r) = {}
  <2>1. ASSUME NEW c \in Lent(r), c \in AtHome(r) PROVE FALSE
    <3>1. CASE \E s \in Slots : Derived(s) /\ c \in Cells(mem[s])
      BY <2>1, <3>1 DEF Geometry, Apart
    <3>2. CASE c \in donated
      BY <2>1, <3>2 DEF Geometry, Apart
    <3> QED BY <3>1, <3>2, InLent
  <2> QED BY <2>1
<1>6. IsFiniteSet(AtHome(r)) /\ IsFiniteSet(Lent(r))
  BY <1>1, <1>3, <1>4, BootFacts, FS_Subset
<1>7. Cardinality(AtHome(r)) \in Nat /\ Cardinality(Lent(r)) \in Nat
  BY <1>6, FS_CardinalityType
<1> QED BY <1>1, <1>2, <1>3, <1>4, <1>5, <1>6, <1>7 DEF Geometry, Balanced

\* The pools of two roots are apart.
LEMMA PoolsApart ==
  ASSUME Geometry, NEW r \in Slots, NEW q \in Slots, IsRoot(r), IsRoot(q), r # q
  PROVE  AtHome(r) \cap AtHome(q) = {}
<1>1. r \in Roots /\ q \in Roots
      /\ AtHome(r) \subseteq Cells(Boot[r]) /\ AtHome(q) \subseteq Cells(Boot[q])
  BY RootFacts
<1>2. Cells(Boot[r]) \cap Cells(Boot[q]) = {}
  BY <1>1, BootsApart
<1> QED BY <1>1, <1>2

\* A step that only changes who names the regions keeps the geometry.
LEMMA SameGeometry ==
  ASSUME Geometry, mem' \in [Slots -> MemRec], donated' = donated,
         \A s \in Slots :
           /\ mem'[s].live = mem[s].live /\ mem'[s].base = mem[s].base
           /\ mem'[s].len = mem[s].len /\ mem'[s].root = mem[s].root
           /\ mem'[s].free = mem[s].free /\ mem'[s].out_bytes = mem[s].out_bytes
           /\ mem'[s].dropped = mem[s].dropped
           /\ ~mem[s].live => mem'[s] = mem[s]
  PROVE  Geometry'
<1>1. \A s \in Slots : /\ Cells(mem'[s]) = Cells(mem[s]) /\ Top(mem'[s]) = Top(mem[s])
                       /\ IsRoot(s)' <=> IsRoot(s)
                       /\ Derived(s)' <=> Derived(s)
  BY DEF Cells, Top, IsRoot, Derived
<1>2. \A r \in Slots : AtHome(r)' = AtHome(r)
  <2> SUFFICES ASSUME NEW r \in Slots PROVE HomeOf(mem'[r]) = HomeOf(mem[r])
    BY AtHomeIs, AtHomeIsNext
  <2> QED BY <1>1 DEF HomeOf
<1>3. \A r \in Slots : Lent(r)' = Lent(r)
  <2> SUFFICES ASSUME NEW r \in Slots PROVE Lent(r)' = Lent(r)
    OBVIOUS
  <2>1. ASSUME NEW c PROVE c \in Lent(r)' <=> c \in Lent(r)
    BY <1>1, InLent, InLentNext
  <2> QED BY <2>1
<1>4. MemType'
  BY <1>1 DEF Geometry, MemType
<1>5. RootsOK'
  BY <1>1 DEF Geometry, RootsOK, ListOK
<1>6. Tied'
  <2> SUFFICES ASSUME NEW s \in Slots, mem[s].live
               PROVE  /\ mem[s].root \in Roots
                      /\ Cells(mem[s]) \subseteq Cells(Boot[mem[s].root])
                      /\ mem[s].len > 0 => IsRoot(mem[s].root)'
    BY <1>1 DEF Tied
  <2>1. mem[s].root \in Slots
    BY BootFacts DEF Geometry, Tied
  <2> QED BY <2>1, <1>1 DEF Geometry, Tied
<1>7. Apart'
  BY <1>1, <1>2 DEF Geometry, Apart
<1>8. Balanced'
  BY <1>1, <1>2, <1>3 DEF Geometry, Balanced
<1> QED BY <1>4, <1>5, <1>6, <1>7, <1>8 DEF Geometry

LEMMA GoneFacts ==
  /\ Gone \in MemRec /\ ~Gone.live /\ Gone.refs = 0 /\ Gone.maps = 0 /\ Gone.len = 0
  /\ Cells(Gone) = {}
<1>1. <<>> \in Seq(Node)
  OBVIOUS
<1>2. NSlots \in Nat
  BY BootOK
<1> QED BY <1>1, <1>2 DEF Gone, MemRec, Cells, Top

\* A slot that is freed: a region with no grains or whose grains become a slab's,
\* or a root that has nothing on loan.
LEMMA FreedGeometry ==
  ASSUME Geometry, NEW s \in Slots, mem[s].live,
         mem' = [mem EXCEPT ![s] = Gone],
         donated' = donated \/ donated' = donated \cup Cells(mem[s]),
         IsRoot(s) => mem[s].out_bytes = 0,
         Derived(s) => mem[s].len = 0 \/ donated' = donated \cup Cells(mem[s])
  PROVE  Geometry'
<1>0. mem[s] \in MemRec /\ mem[s].root \in Roots
      /\ Cells(mem[s]) \subseteq Cells(Boot[mem[s].root])
      /\ mem \in [Slots -> MemRec]
  BY DEF Geometry, MemType, Tied
<1>1. mem' \in [Slots -> MemRec] /\ mem'[s] = Gone
      /\ \A q \in Slots : q # s => mem'[q] = mem[q]
  BY <1>0, GoneFacts DEF Geometry, MemType
<1>2. \A q \in Slots : /\ IsRoot(q)' <=> IsRoot(q) /\ q # s
                       /\ Derived(q)' <=> Derived(q) /\ q # s
  BY <1>1, GoneFacts DEF IsRoot, Derived
<1>3. \A q \in Slots : q # s => AtHome(q)' = AtHome(q)
  BY <1>1, AtHomeIs, AtHomeIsNext
<1>4. donated \subseteq donated' /\ donated' \subseteq donated \cup Cells(mem[s])
  OBVIOUS
<1>5. IsRoot(s) => Lent(s) = {}
  BY RootFacts, FS_EmptySet
<1>6. ASSUME NEW r \in Slots, IsRoot(r)' PROVE Lent(r)' = Lent(r)
  <2>0. IsRoot(r) /\ r # s /\ r \in Roots
    BY <1>2, <1>6, RootFacts
  <2>1. ASSUME NEW c \in Lent(r)' PROVE c \in Lent(r)
    <3>1. CASE \E q \in Slots : Derived(q)' /\ mem'[q].root = r /\ c \in Cells(mem'[q])
      BY <3>1, <1>1, <1>2, InLent
    <3>2. CASE c \in donated' /\ c \in Cells(Boot[r])
      <4>1. CASE c \in donated
        BY <4>1, <3>2, InLent
      <4>2. CASE c \in Cells(mem[s])
        <5>1. mem[s].root = r
          BY <4>2, <3>2, <2>0, <1>0, BootsApart
        <5>2. Derived(s)
          BY <5>1, <2>0 DEF Derived
        <5> QED BY <4>2, <5>1, <5>2, InLent
      <4> QED BY <3>2, <4>1, <4>2, <1>4
    <3> QED BY <3>1, <3>2, InLentNext
  <2>2. ASSUME NEW c \in Lent(r) PROVE c \in Lent(r)'
    <3>1. ASSUME NEW q \in Slots, Derived(q), mem[q].root = r, c \in Cells(mem[q])
          PROVE  c \in Lent(r)'
      <4>1. CASE q # s
        BY <4>1, <3>1, <1>1, <1>2, InLentNext
      <4>2. CASE q = s
        <5>1. mem[s].len # 0
          BY <4>2, <3>1, <1>0, SMTT(30) DEF Cells, Top, MemRec
        <5>2. c \in donated'
          BY <5>1, <4>2, <3>1
        <5>3. c \in Cells(Boot[r])
          BY <3>1, <4>2, <1>0
        <5> QED BY <5>2, <5>3, InLentNext
      <4> QED BY <4>1, <4>2
    <3>2. CASE c \in donated /\ c \in Cells(Boot[r])
      BY <3>2, <1>4, InLentNext
    <3> QED BY <3>1, <3>2, InLent
  <2> QED BY <2>1, <2>2
<1>7. MemType'
  <2>1. donated' \subseteq AllCells
    BY <1>0, <1>4, InAllCells DEF Geometry, MemType
  <2> QED BY <2>1, <1>1, <1>2, GoneFacts DEF Geometry, MemType
<1>8. RootsOK'
  BY <1>1, <1>2 DEF Geometry, RootsOK
<1>9. Tied'
  <2> SUFFICES ASSUME NEW q \in Slots, mem'[q].live
               PROVE  /\ mem'[q].root \in Roots
                      /\ Cells(mem'[q]) \subseteq Cells(Boot[mem'[q].root])
                      /\ mem'[q].len > 0 => /\ mem'[mem'[q].root].live
                                            /\ mem'[mem'[q].root].root = mem'[q].root
    BY DEF Tied, IsRoot
  <2>1. q # s /\ mem'[q] = mem[q] /\ mem[q].live /\ mem[q] \in MemRec
    BY <1>0, <1>1, GoneFacts
  <2>2. mem[q].root \in Roots /\ Cells(mem[q]) \subseteq Cells(Boot[mem[q].root])
          /\ (mem[q].len > 0 => IsRoot(mem[q].root)) /\ mem[q].root \in Slots
    <3>1. mem[q].root \in Roots /\ Cells(mem[q]) \subseteq Cells(Boot[mem[q].root])
            /\ (mem[q].len > 0 => IsRoot(mem[q].root))
      BY <2>1 DEF Geometry, Tied
    <3> QED BY <3>1, BootFacts
  <2>3. ASSUME mem[q].len > 0 PROVE mem[q].root # s
    <3>1. SUFFICES ASSUME mem[q].root = s PROVE FALSE
      OBVIOUS
    <3>2. IsRoot(s) /\ Derived(q)
      BY <2>1, <2>2, <2>3, <3>1 DEF Derived
    <3>3. mem[q].base \in Cells(mem[q])
      BY <2>1, <2>3 DEF Cells, Top, MemRec
    <3> QED BY <3>1, <3>2, <3>3, <1>5, InLent
  <2>4. mem[q].len > 0 => mem'[mem[q].root].live /\ mem'[mem[q].root].root = mem[q].root
    BY <2>2, <2>3, <1>1 DEF IsRoot
  <2> QED BY <2>1, <2>2, <2>4
<1>10. Apart'
  <2>1. ASSUME NEW q \in Slots, Derived(q), q # s PROVE Cells(mem[q]) \cap Cells(mem[s]) = {}
    <3>1. CASE Derived(s)
      BY <3>1, <2>1 DEF Geometry, Apart
    <3>2. CASE IsRoot(s)
      <4>1. Cells(mem[s]) \subseteq AtHome(s)
        BY DEF AtHome
      <4> QED BY <4>1, <3>2, <2>1 DEF Geometry, Apart
    <3> QED BY <3>1, <3>2 DEF Derived, IsRoot
  <2>2. ASSUME NEW r \in Slots, IsRoot(r), r # s PROVE AtHome(r) \cap Cells(mem[s]) = {}
    <3>1. CASE Derived(s)
      BY <3>1, <2>2 DEF Geometry, Apart
    <3>2. CASE IsRoot(s)
      <4>1. Cells(mem[s]) \subseteq AtHome(s)
        BY DEF AtHome
      <4> QED BY <4>1, <3>2, <2>2, PoolsApart
    <3> QED BY <3>1, <3>2 DEF Derived, IsRoot
  <2>3. \A q, u \in Slots : Derived(q)' /\ Derived(u)' /\ q # u =>
          Cells(mem'[q]) \cap Cells(mem'[u]) = {}
    BY <1>1, <1>2 DEF Geometry, Apart
  <2>4. \A q, r \in Slots : Derived(q)' /\ IsRoot(r)' => Cells(mem'[q]) \cap AtHome(r)' = {}
    BY <1>1, <1>2, <1>3 DEF Geometry, Apart
  <2>5. \A q \in Slots : Derived(q)' => Cells(mem'[q]) \cap donated' = {}
    BY <1>1, <1>2, <1>4, <2>1 DEF Geometry, Apart
  <2>6. \A r \in Slots : IsRoot(r)' => AtHome(r)' \cap donated' = {}
    BY <1>1, <1>2, <1>3, <1>4, <2>2 DEF Geometry, Apart
  <2> QED BY <2>3, <2>4, <2>5, <2>6 DEF Apart
<1>11. Balanced'
  BY <1>1, <1>2, <1>3, <1>6 DEF Geometry, Balanced
<1> QED BY <1>7, <1>8, <1>9, <1>10, <1>11 DEF Geometry

\* What a region with grains tells of its pool.
LEMMA LentFacts ==
  ASSUME Geometry, NEW s \in Slots, Derived(s), mem[s].len > 0,
         NEW r, r = mem[s].root
  PROVE  /\ r \in Slots /\ r \in Roots /\ r # s /\ IsRoot(r)
         /\ mem[s] \in MemRec /\ mem[s].base \in Nat /\ mem[s].len \in Nat
         /\ Cells(mem[s]) \subseteq Lent(r) /\ Cells(mem[s]) \subseteq Cells(Boot[r])
         /\ IsFiniteSet(Cells(mem[s])) /\ Cardinality(Cells(mem[s])) = mem[s].len
         /\ mem[s].len <= mem[r].out_bytes
         /\ Boot[r].base <= mem[s].base /\ Top(mem[s]) <= mem[r].base
         /\ \A i \in 1..Len(mem[r].free) :
              Top(mem[r].free[i]) <= mem[s].base \/ Top(mem[s]) <= mem[r].free[i].base
<1>1. r \in Roots /\ r # s /\ IsRoot(r) /\ mem[s] \in MemRec
        /\ Cells(mem[s]) \subseteq Cells(Boot[r])
  BY DEF Geometry, Tied, Derived, MemType
<1>2. r \in Slots
  BY <1>1, BootFacts
<1>3. mem[s].base \in Nat /\ mem[s].len \in Nat
  BY <1>1 DEF MemRec
<1>4. Cells(mem[s]) \subseteq Lent(r)
  BY InLent
<1>5. IsFiniteSet(Cells(mem[s])) /\ Cardinality(Cells(mem[s])) = mem[s].len
  BY <1>3, CellCount
<1>6. mem[s].len <= mem[r].out_bytes
  BY <1>1, <1>2, <1>4, <1>5, RootFacts, FS_Subset
<1>7. \A c : c \in Cells(mem[s]) <=> c \in Int /\ mem[s].base <= c /\ c < Top(mem[s])
  BY <1>3, InCells DEF Top
<1>8. Top(mem[s]) \in Nat /\ Top(mem[s]) > mem[s].base
  BY <1>3 DEF Top
<1>9. Boot[r].base <= mem[s].base /\ Top(mem[s]) <= Top(Boot[r])
  <2>1. mem[s].base \in Cells(mem[s]) /\ Top(mem[s]) - 1 \in Cells(mem[s])
    BY <1>3, <1>7, <1>8
  <2>2. Boot[r].base \in Nat /\ Top(Boot[r]) \in Nat
          /\ \A c : c \in Cells(Boot[r]) <=> c \in Int /\ Boot[r].base <= c /\ c < Top(Boot[r])
    BY <1>1, BootFacts
  <2> QED BY <2>1, <2>2, <1>1, <1>8
<1>10. mem[r] \in MemRec /\ mem[r].base \in Nat /\ mem[r].len \in Nat /\ mem[r].free \in Seq(Node)
         /\ Top(mem[r]) = Top(Boot[r]) /\ DOMAIN mem[r].free = 1..Len(mem[r].free)
  <2>1. mem[r] \in MemRec /\ Top(mem[r]) = Top(Boot[r])
    BY <1>1, <1>2, RootFacts DEF Geometry, RootsOK
  <2> QED BY <2>1 DEF MemRec
<1>11. Cells(mem[s]) \cap AtHome(r) = {}
  BY <1>1, <1>2 DEF Geometry, Apart
<1>12. Top(mem[s]) <= mem[r].base
  <2>1. CASE mem[r].len = 0
    BY <2>1, <1>9, <1>10 DEF Top
  <2>2. CASE mem[r].len > 0
    <3>1. Cells(mem[s]) \cap Cells(mem[r]) = {}
      BY <1>11 DEF AtHome
    <3>2. Top(mem[s]) <= mem[r].base \/ Top(mem[r]) <= mem[s].base
      BY <2>2, <3>1, <1>3, <1>10, RangesApart
    <3>3. Top(mem[r]) \in Nat
      BY <1>10 DEF Top
    <3>4. ~(Top(mem[r]) <= mem[s].base)
      BY <3>3, <1>3, <1>8, <1>9, <1>10
    <3> QED BY <3>2, <3>4
  <2> QED BY <2>1, <2>2, <1>10
<1>13. ASSUME NEW i \in 1..Len(mem[r].free)
       PROVE  Top(mem[r].free[i]) <= mem[s].base \/ Top(mem[s]) <= mem[r].free[i].base
  <2>1. mem[r].free[i].base \in Nat /\ mem[r].free[i].len \in Nat /\ mem[r].free[i].len > 0
    BY <1>10, NodeType
  <2>2. Cells(mem[r].free[i]) \cap Cells(mem[s]) = {}
    BY <1>10, <1>11 DEF AtHome, NodeCells
  <2> QED BY <2>1, <2>2, <1>3, RangesApart
<1> QED BY <1>1, <1>2, <1>3, <1>4, <1>5, <1>6, <1>9, <1>12, <1>13

LEMMA ReturnFacts ==
  ASSUME Geometry, NEW s \in Slots, Derived(s), mem[s].len > 0,
         NEW r, r = mem[s].root, NEW room
  PROVE  Returned(pool_return(mem[r], mem[s], room), mem[r], Boot[r].base, mem[s])
<1>1. /\ r \in Slots /\ r \in Roots /\ IsRoot(r)
      /\ mem[s].base \in Nat /\ mem[s].len \in Nat
      /\ mem[s].len <= mem[r].out_bytes
      /\ Boot[r].base <= mem[s].base /\ Top(mem[s]) <= mem[r].base
      /\ \A i \in 1..Len(mem[r].free) :
           Top(mem[r].free[i]) <= mem[s].base \/ Top(mem[s]) <= mem[r].free[i].base
  BY LentFacts
<1>2. mem[r] \in MemRec /\ Boot[r].base \in Nat
        /\ ListOK(mem[r], Boot[r].base) /\ Boot[r].base <= mem[r].base
  BY <1>1, BootFacts, RootFacts DEF Geometry, RootsOK
<1> DEFINE n == mem[s]
           m == mem[r]
           lo == Boot[r].base
<1>3. /\ m \in MemRec /\ lo \in Nat /\ ListOK(m, lo) /\ lo <= m.base
      /\ n.base \in Nat /\ n.len \in Nat /\ n.len > 0 /\ n.len <= m.out_bytes
      /\ lo <= n.base /\ Top(n) <= m.base
      /\ \A i \in 1..Len(m.free) : Top(m.free[i]) <= n.base \/ Top(n) <= m.free[i].base
  BY <1>1, <1>2
<1>4. Returned(pool_return(m, n, room), m, lo, n)
  <2> HIDE DEF n, m, lo
  <2> QED BY <1>3, ReturnRange
<1> QED BY <1>4

\* Grains that go from one set to another, counted.
LEMMA CountMoved ==
  ASSUME NEW A, NEW C, IsFiniteSet(A), C \subseteq A
  PROVE  Cardinality(A \ C) = Cardinality(A) - Cardinality(C)
<1>1. A \cap C = C
  OBVIOUS
<1> QED BY <1>1, FS_Difference

LEMMA CountJoined ==
  ASSUME NEW A, NEW C, IsFiniteSet(A), IsFiniteSet(C), A \cap C = {}
  PROVE  Cardinality(A \cup C) = Cardinality(A) + Cardinality(C)
<1>1. Cardinality(A) \in Nat /\ Cardinality(C) \in Nat
  BY FS_CardinalityType
<1>2. Cardinality(A \cup C) = Cardinality(A) + Cardinality(C) - Cardinality(A \cap C)
  BY FS_Union
<1>3. Cardinality(A \cap C) = 0
  BY FS_EmptySet
<1> QED BY <1>1, <1>2, <1>3

\* What the return of a region changes.
GoneHome(s, r, p) ==
  LET C == Cells(mem[s])
  IN /\ r \in Slots /\ r \in Roots /\ r # s /\ IsRoot(r)
     /\ C \subseteq Lent(r) /\ C \subseteq Cells(Boot[r])
     /\ IsFiniteSet(C) /\ Cardinality(C) = mem[s].len /\ mem[s].len \in Nat
     /\ p \in MemRec /\ SameNames(p, mem[r]) /\ p.out_bytes = mem[r].out_bytes - mem[s].len
     /\ ListOK(p, Boot[r].base) /\ Boot[r].base <= p.base /\ Top(p) = Top(mem[r])
     /\ \/ p.dropped = mem[r].dropped /\ HomeOf(p) = HomeOf(mem[r]) \cup C
        \/ p.dropped = mem[r].dropped + mem[s].len /\ HomeOf(p) = HomeOf(mem[r])
     /\ mem' \in [Slots -> MemRec] /\ mem'[s] = Gone /\ mem'[r] = p
     /\ \A q \in Slots : q # s /\ q # r => mem'[q] = mem[q]
     /\ \A q \in Slots : /\ IsRoot(q)' <=> IsRoot(q)
                         /\ Derived(q)' <=> Derived(q) /\ q # s
     /\ \A q \in Slots : q # s /\ q # r => AtHome(q)' = AtHome(q)
     /\ AtHome(r)' = HomeOf(p) /\ AtHome(r) = HomeOf(mem[r])
     /\ AtHome(r)' \subseteq AtHome(r) \cup C
     /\ \A q \in Slots : Derived(q)' => q # r /\ q # s /\ mem'[q] = mem[q] /\ Derived(q)

LEMMA ReturnGeometryEffect ==
  ASSUME Geometry, NEW s \in Slots, Derived(s), mem[s].len > 0,
         NEW r, r = mem[s].root, NEW p,
         Returned(p, mem[r], Boot[r].base, mem[s]),
         mem' = [mem EXCEPT ![r] = p, ![s] = Gone], donated' = donated
  PROVE  GoneHome(s, r, p)
<1> DEFINE C == Cells(mem[s])
<1>1. /\ r \in Slots /\ r \in Roots /\ r # s /\ IsRoot(r)
      /\ C \subseteq Lent(r) /\ C \subseteq Cells(Boot[r])
      /\ IsFiniteSet(C) /\ Cardinality(C) = mem[s].len /\ mem[s].len \in Nat
  BY LentFacts
<1>2. /\ p \in MemRec /\ SameNames(p, mem[r]) /\ p.out_bytes = mem[r].out_bytes - mem[s].len
      /\ ListOK(p, Boot[r].base) /\ Boot[r].base <= p.base /\ Top(p) = Top(mem[r])
      /\ \/ p.dropped = mem[r].dropped /\ HomeOf(p) = HomeOf(mem[r]) \cup C
         \/ p.dropped = mem[r].dropped + mem[s].len /\ HomeOf(p) = HomeOf(mem[r])
  BY DEF Returned
<1>3. mem' \in [Slots -> MemRec] /\ mem'[s] = Gone /\ mem'[r] = p
      /\ \A q \in Slots : q # s /\ q # r => mem'[q] = mem[q]
  <2>1. mem \in [Slots -> MemRec]
    BY DEF Geometry, MemType
  <2> QED BY <2>1, <1>1, <1>2, GoneFacts
<1>4. \A q \in Slots : /\ IsRoot(q)' <=> IsRoot(q)
                       /\ Derived(q)' <=> Derived(q) /\ q # s
  BY <1>1, <1>2, <1>3, GoneFacts DEF IsRoot, Derived, SameNames
<1>5. \A q \in Slots : q # s /\ q # r => AtHome(q)' = AtHome(q)
  BY <1>3, AtHomeIs, AtHomeIsNext
<1>6. AtHome(r)' = HomeOf(p) /\ AtHome(r) = HomeOf(mem[r])
  BY <1>3, AtHomeIs, AtHomeIsNext
<1>7. AtHome(r)' \subseteq AtHome(r) \cup C
  BY <1>2, <1>6
<1>8. \A q \in Slots : Derived(q)' => q # r /\ q # s /\ mem'[q] = mem[q] /\ Derived(q)
  BY <1>1, <1>3, <1>4 DEF Derived, IsRoot
<1> QED BY <1>1, <1>2, <1>3, <1>4, <1>5, <1>6, <1>7, <1>8 DEF GoneHome, C

\* A region's grains go back to the pool, or are lost.
LEMMA ReturnGeometry ==
  ASSUME Geometry, NEW s \in Slots, Derived(s), mem[s].len > 0,
         NEW r, r = mem[s].root, NEW p,
         Returned(p, mem[r], Boot[r].base, mem[s]),
         mem' = [mem EXCEPT ![r] = p, ![s] = Gone], donated' = donated
  PROVE  Geometry'
<1> DEFINE C == Cells(mem[s])
<1>0. GoneHome(s, r, p)
  BY ReturnGeometryEffect
<1>1. /\ r \in Slots /\ r \in Roots /\ r # s /\ IsRoot(r)
      /\ C \subseteq Lent(r) /\ C \subseteq Cells(Boot[r])
      /\ IsFiniteSet(C) /\ Cardinality(C) = mem[s].len /\ mem[s].len \in Nat
  BY <1>0 DEF GoneHome
<1>2. /\ p \in MemRec /\ SameNames(p, mem[r]) /\ p.out_bytes = mem[r].out_bytes - mem[s].len
      /\ ListOK(p, Boot[r].base) /\ Boot[r].base <= p.base /\ Top(p) = Top(mem[r])
      /\ \/ p.dropped = mem[r].dropped /\ HomeOf(p) = HomeOf(mem[r]) \cup C
         \/ p.dropped = mem[r].dropped + mem[s].len /\ HomeOf(p) = HomeOf(mem[r])
  BY <1>0 DEF GoneHome
<1>3. mem' \in [Slots -> MemRec] /\ mem'[s] = Gone /\ mem'[r] = p
      /\ \A q \in Slots : q # s /\ q # r => mem'[q] = mem[q]
  BY <1>0 DEF GoneHome
<1>4. \A q \in Slots : /\ IsRoot(q)' <=> IsRoot(q)
                       /\ Derived(q)' <=> Derived(q) /\ q # s
  BY <1>0 DEF GoneHome
<1>5. \A q \in Slots : q # s /\ q # r => AtHome(q)' = AtHome(q)
  BY <1>0 DEF GoneHome
<1>6. AtHome(r)' = HomeOf(p) /\ AtHome(r) = HomeOf(mem[r])
  BY <1>0 DEF GoneHome
<1>7. AtHome(r)' \subseteq AtHome(r) \cup C
  BY <1>0 DEF GoneHome
<1>8. \A q \in Slots : Derived(q)' => q # r /\ q # s /\ mem'[q] = mem[q] /\ Derived(q)
  BY <1>0 DEF GoneHome
<1>9. ASSUME NEW q \in Slots, IsRoot(q), q # r PROVE Lent(q)' = Lent(q)
  <2>1. ASSUME NEW c PROVE c \in Lent(q)' <=> c \in Lent(q)
    <3>1. \A u \in Slots : Derived(u)' /\ mem'[u].root = q <=> Derived(u) /\ mem[u].root = q
      BY <1>3, <1>4, <1>8, <1>9
    <3> QED BY <3>1, <1>8, InLent, InLentNext
  <2> QED BY <2>1
<1>10. Lent(r)' = Lent(r) \ C
  <2>1. ASSUME NEW c \in Lent(r)' PROVE c \in Lent(r) /\ c \notin C
    <3>1. CASE \E u \in Slots : Derived(u)' /\ mem'[u].root = r /\ c \in Cells(mem'[u])
      <4>1. PICK u \in Slots : Derived(u)' /\ mem'[u].root = r /\ c \in Cells(mem'[u])
        BY <3>1
      <4>2. u # s /\ mem'[u] = mem[u] /\ Derived(u)
        BY <4>1, <1>8
      <4>3. c \in Lent(r)
        BY <4>1, <4>2, InLent
      <4>4. c \notin C
        BY <4>1, <4>2 DEF Geometry, Apart
      <4> QED BY <4>3, <4>4
    <3>2. CASE c \in donated /\ c \in Cells(Boot[r])
      BY <3>2, InLent DEF Geometry, Apart
    <3> QED BY <3>1, <3>2, InLentNext
  <2>2. ASSUME NEW c \in Lent(r), c \notin C PROVE c \in Lent(r)'
    <3>1. ASSUME NEW u \in Slots, Derived(u), mem[u].root = r, c \in Cells(mem[u])
          PROVE  c \in Lent(r)'
      <4>1. u # s /\ Derived(u)' /\ mem'[u] = mem[u]
        BY <3>1, <2>2, <1>4, <1>8
      <4> QED BY <4>1, <3>1, InLentNext
    <3>2. CASE c \in donated /\ c \in Cells(Boot[r])
      BY <3>2, InLentNext
    <3> QED BY <3>1, <3>2, InLent
  <2> QED BY <2>1, <2>2
<1>11. MemType'
  <2>1. \A q \in Slots : /\ mem'[q].live => mem'[q].root # 0
                         /\ ~mem'[q].live => mem'[q] = Gone
                         /\ Derived(q)' => /\ mem'[q].free = <<>>
                                           /\ mem'[q].out_bytes = 0
                                           /\ mem'[q].dropped = 0
    <3> SUFFICES ASSUME NEW q \in Slots
                 PROVE  /\ mem'[q].live => mem'[q].root # 0
                        /\ ~mem'[q].live => mem'[q] = Gone
                        /\ Derived(q)' => /\ mem'[q].free = <<>>
                                          /\ mem'[q].out_bytes = 0
                                          /\ mem'[q].dropped = 0
      OBVIOUS
    <3>1. CASE q = s
      BY <3>1, <1>3, <1>4, GoneFacts
    <3>2. CASE q = r
      <4>1. mem[r].live /\ mem[r].root = r /\ r # 0
        BY <1>1 DEF IsRoot, Slots
      <4>2. mem'[q].live /\ mem'[q].root = q /\ q # 0
        BY <4>1, <3>2, <1>2, <1>3 DEF SameNames
      <4>3. ~Derived(q)'
        BY <3>2, <1>8
      <4> QED BY <4>2, <4>3
    <3>3. CASE q # s /\ q # r
      BY <3>3, <1>3, <1>8 DEF Geometry, MemType
    <3> QED BY <3>1, <3>2, <3>3
  <2> QED BY <2>1, <1>3 DEF Geometry, MemType
<1>12. RootsOK'
  <2> SUFFICES ASSUME NEW q \in Slots, IsRoot(q)
               PROVE  /\ Boot[q].base <= mem'[q].base
                      /\ Top(mem'[q]) = Top(Boot[q])
                      /\ ListOK(mem'[q], Boot[q].base)
    BY <1>4 DEF RootsOK
  <2>1. q # s
    BY DEF IsRoot, Derived
  <2>2. CASE q = r
    BY <2>2, <1>1, <1>2, <1>3 DEF Geometry, RootsOK
  <2>3. CASE q # r
    BY <2>1, <2>3, <1>3 DEF Geometry, RootsOK
  <2> QED BY <2>2, <2>3
<1>13. Tied'
  <2> SUFFICES ASSUME NEW q \in Slots, mem'[q].live
               PROVE  /\ mem'[q].root \in Roots
                      /\ Cells(mem'[q]) \subseteq Cells(Boot[mem'[q].root])
                      /\ mem'[q].len > 0 => /\ mem'[mem'[q].root].live
                                            /\ mem'[mem'[q].root].root = mem'[q].root
    BY DEF Tied, IsRoot
  <2>0. q # s
    BY <1>3, GoneFacts
  <2>1. CASE q = r
    <3>1. mem'[q].root = r /\ mem'[q].live
      BY <2>1, <1>1, <1>2, <1>3 DEF SameNames, IsRoot
    <3>2. Cells(p) \subseteq HomeOf(p)
      BY DEF HomeOf
    <3>3. HomeOf(p) \subseteq Cells(Boot[r])
      BY <1>1, <1>6, <1>7, RootFacts
    <3> QED BY <2>1, <3>1, <3>2, <3>3, <1>1, <1>3
  <2>2. CASE q # r
    <3>1. mem'[q] = mem[q]
      BY <2>0, <2>2, <1>3
    <3>2. /\ mem[q].root \in Roots /\ Cells(mem[q]) \subseteq Cells(Boot[mem[q].root])
          /\ mem[q].len > 0 => IsRoot(mem[q].root)
      BY <3>1 DEF Geometry, Tied
    <3>3. mem[q].root \in Slots
      BY <3>2, BootFacts
    <3>4. mem[q].len > 0 => mem'[mem[q].root].live /\ mem'[mem[q].root].root = mem[q].root
      <4> DEFINE t == mem[q].root
      <4>1. t \in Slots /\ (mem[q].len > 0 => IsRoot(t))
        BY <3>2, <3>3
      <4> HIDE DEF t
      <4>2. mem[q].len > 0 => mem'[t].live /\ mem'[t].root = t
        BY <4>1, <1>4 DEF IsRoot
      <4> QED BY <4>2 DEF t
    <3> QED BY <3>1, <3>2, <3>4
  <2> QED BY <2>1, <2>2
<1>14. Apart'
  <2>1. \A q, u \in Slots : Derived(q)' /\ Derived(u)' /\ q # u =>
          Cells(mem'[q]) \cap Cells(mem'[u]) = {}
    BY <1>8 DEF Geometry, Apart
  <2>2. ASSUME NEW q \in Slots, NEW t \in Slots, Derived(q)', IsRoot(t)'
        PROVE  Cells(mem'[q]) \cap AtHome(t)' = {}
    <3>1. q # s /\ mem'[q] = mem[q] /\ Derived(q) /\ IsRoot(t) /\ t # s
      BY <2>2, <1>4, <1>8 DEF Derived, IsRoot
    <3>2. Cells(mem[q]) \cap C = {} /\ Cells(mem[q]) \cap AtHome(t) = {}
      BY <3>1 DEF Geometry, Apart
    <3>3. AtHome(t)' \subseteq AtHome(t) \cup C
      BY <3>1, <1>5, <1>7
    <3> QED BY <3>1, <3>2, <3>3
  <2>3. \A q \in Slots : Derived(q)' => Cells(mem'[q]) \cap donated' = {}
    BY <1>8 DEF Geometry, Apart
  <2>4. ASSUME NEW t \in Slots, IsRoot(t)' PROVE AtHome(t)' \cap donated' = {}
    <3>1. IsRoot(t) /\ t # s
      BY <2>4, <1>4 DEF Derived, IsRoot
    <3>2. C \cap donated = {} /\ AtHome(t) \cap donated = {}
      BY <3>1 DEF Geometry, Apart
    <3>3. AtHome(t)' \subseteq AtHome(t) \cup C
      BY <3>1, <1>5, <1>7
    <3> QED BY <3>2, <3>3
  <2> QED BY <2>1, <2>2, <2>3, <2>4 DEF Apart
<1>15. Balanced'
  <2> SUFFICES ASSUME NEW t \in Slots, IsRoot(t)
               PROVE  /\ Boot[t].len = Cardinality(AtHome(t)') + mem'[t].out_bytes + mem'[t].dropped
                      /\ mem'[t].out_bytes = Cardinality(Lent(t)')
    BY <1>4 DEF Balanced
  <2>0. t # s
    BY DEF IsRoot, Derived
  <2>1. CASE t # r
    BY <2>0, <2>1, <1>3, <1>5, <1>9 DEF Geometry, Balanced
  <2>2. CASE t = r
    <3>1. /\ AtHome(r) \cap Lent(r) = {} /\ IsFiniteSet(AtHome(r)) /\ IsFiniteSet(Lent(r))
          /\ Cardinality(AtHome(r)) \in Nat /\ Cardinality(Lent(r)) \in Nat
          /\ mem[r].out_bytes = Cardinality(Lent(r)) /\ mem[r].dropped \in Nat
          /\ Boot[r].len = Cardinality(AtHome(r)) + mem[r].out_bytes + mem[r].dropped
      BY <1>1, RootFacts DEF MemRec
    <3>2. Cardinality(Lent(r)') = Cardinality(Lent(r)) - mem[s].len
      BY <3>1, <1>1, <1>10, CountMoved
    <3>3. Cardinality(AtHome(r) \cup C) = Cardinality(AtHome(r)) + mem[s].len
      <4>1. AtHome(r) \cap C = {}
        BY <3>1, <1>1
      <4> QED BY <4>1, <3>1, <1>1, CountJoined
    <3> DEFINE H == Cardinality(AtHome(r)')
    <3>4. \/ p.dropped = mem[r].dropped /\ H = Cardinality(AtHome(r)) + mem[s].len
          \/ p.dropped = mem[r].dropped + mem[s].len /\ H = Cardinality(AtHome(r))
      BY <3>3, <1>2, <1>6
    <3> HIDE DEF H
    <3>5. Boot[r].len = H + p.out_bytes + p.dropped
      BY <3>1, <3>4, <1>1, <1>2
    <3> QED BY <2>2, <3>1, <3>2, <3>5, <1>1, <1>2, <1>3 DEF H
  <2> QED BY <2>1, <2>2
<1> QED BY <1>11, <1>12, <1>13, <1>14, <1>15 DEF Geometry

-----------------------------------------------------------------------------
(* Split.                                                                  *)

LEMMA RegionFacts ==
  ASSUME NEW b \in Nat, NEW len \in Nat, NEW r \in Slots
  PROVE  LET n == Region(b, len, r)
         IN /\ n \in MemRec /\ n.live /\ n.base = b /\ n.len = len /\ n.root = r
            /\ n.refs = 1 /\ n.maps = 0
            /\ n.free = <<>> /\ n.out_bytes = 0 /\ n.dropped = 0
            /\ Cells(n) = b..(b + len - 1)
<1>1. <<>> \in Seq(Node)
  OBVIOUS
<1>2. r \in 0..NSlots
  BY BootOK DEF Slots
<1>3. Gone \in MemRec /\ Gone.maps = 0 /\ Gone.free = <<>> /\ Gone.out_bytes = 0 /\ Gone.dropped = 0
  BY GoneFacts DEF Gone
<1>4. LET n == Region(b, len, r)
      IN /\ n \in MemRec /\ n.live /\ n.base = b /\ n.len = len /\ n.root = r
         /\ n.refs = 1 /\ n.maps = 0
         /\ n.free = <<>> /\ n.out_bytes = 0 /\ n.dropped = 0
  BY <1>2, <1>3 DEF Region, MemRec
<1> QED BY <1>4 DEF Cells, Top

\* The new region's slot was Free.
LEMMA NewSlot ==
  ASSUME alloc_memory # 0
  PROVE  alloc_memory \in Slots /\ ~mem[alloc_memory].live
<1>1. FreeSlots # {} /\ alloc_memory = Min(FreeSlots)
  BY DEF alloc_memory
<1>2. FreeSlots \in SUBSET Nat
  BY DEF FreeSlots, Slots
<1>3. Min(FreeSlots) \in FreeSlots
  BY <1>1, <1>2, MinOfNat
<1> QED BY <1>1, <1>3 DEF FreeSlots

\* What a cut from the pool itself changes.
CutFromPool(s, new, b, len) ==
  /\ mem' \in [Slots -> MemRec] /\ s \in Roots /\ new # s /\ s # 0
  /\ mem'[s].live /\ mem'[s].root = s
  /\ mem'[s].out_bytes = mem[s].out_bytes + len /\ mem'[s].dropped = mem[s].dropped
  /\ Boot[s].base <= mem'[s].base /\ Top(mem'[s]) = Top(mem[s])
  /\ ListOK(mem'[s], Boot[s].base) /\ Cells(mem'[s]) \subseteq HomeOf(mem'[s])
  /\ mem'[new].live /\ mem'[new].root = s
  /\ mem'[new].free = <<>> /\ mem'[new].out_bytes = 0 /\ mem'[new].dropped = 0
  /\ Cells(mem'[new]) = b..(b + len - 1) /\ b \in Nat
  /\ IsFiniteSet(b..(b + len - 1)) /\ Cardinality(b..(b + len - 1)) = len
  /\ \A q \in Slots : /\ IsRoot(q)' <=> IsRoot(q)
                      /\ Derived(q)' <=> Derived(q) \/ q = new
  /\ \A q \in Slots : q # s /\ q # new => mem'[q] = mem[q]
  /\ \A q \in Slots : IsRoot(q) /\ q # s => mem'[q] = mem[q] /\ AtHome(q)' = AtHome(q)
  /\ AtHome(s)' = AtHome(s) \ (b..(b + len - 1)) /\ b..(b + len - 1) \subseteq AtHome(s)
  /\ \A q \in Slots : Derived(q) => q # new /\ q # s /\ mem'[q] = mem[q]

LEMMA SplitRootEffect ==
  ASSUME Geometry, NEW s \in Slots, IsRoot(s), NEW new \in Slots, ~mem[new].live,
         NEW len \in Nat, len > 0, NEW p, NEW b,
         CutDone(p, mem[s], Boot[s].base, b, len),
         mem' = [mem EXCEPT ![s] = [p EXCEPT !.out_bytes = @ + len],
                            ![new] = Region(b, len, s)],
         donated' = donated
  PROVE  CutFromPool(s, new, b, len)
<1> DEFINE C == b..(b + len - 1)
           m == [p EXCEPT !.out_bytes = @ + len]
<1>1. s \in Roots /\ new # s /\ mem \in [Slots -> MemRec] /\ mem[s] \in MemRec /\ s # 0
      /\ mem[s].live /\ mem[s].root = s
  BY RootFacts, BootFacts DEF IsRoot, Geometry, MemType
<1>2. /\ p \in MemRec /\ SameNames(p, mem[s]) /\ p.out_bytes = mem[s].out_bytes
      /\ p.dropped = mem[s].dropped /\ ListOK(p, Boot[s].base) /\ Boot[s].base <= p.base
      /\ Top(p) = Top(mem[s]) /\ b \in Nat /\ C \subseteq HomeOf(mem[s])
      /\ HomeOf(p) = HomeOf(mem[s]) \ C
  BY DEF CutDone
<1>3. /\ m \in MemRec /\ m.out_bytes = mem[s].out_bytes + len /\ m.dropped = mem[s].dropped
      /\ m.live /\ m.root = s /\ m.base = p.base /\ m.len = p.len /\ m.free = p.free
  <2>1. p.out_bytes \in Nat /\ p.out_bytes + len \in Nat
    BY <1>2 DEF MemRec
  <2> QED BY <2>1, <1>1, <1>2 DEF MemRec, SameNames
<1>4. HomeOf(m) = HomeOf(mem[s]) \ C /\ Top(m) = Top(mem[s]) /\ ListOK(m, Boot[s].base)
      /\ Cells(m) \subseteq HomeOf(m)
  BY <1>2, <1>3 DEF HomeOf, Cells, Top, ListOK
<1>5. Region(b, len, s) \in MemRec
      /\ mem' \in [Slots -> MemRec] /\ mem'[s] = m /\ mem'[new] = Region(b, len, s)
      /\ \A q \in Slots : q # s /\ q # new => mem'[q] = mem[q]
  <2>1. Region(b, len, s) \in MemRec
    BY <1>2, RegionFacts
  <2> HIDE DEF m
  <2> QED BY <2>1, <1>1, <1>3 DEF m
<1>6. /\ mem'[new].live /\ mem'[new].root = s /\ mem'[new].len = len /\ Cells(mem'[new]) = C
      /\ mem'[new].free = <<>> /\ mem'[new].out_bytes = 0 /\ mem'[new].dropped = 0
      /\ mem'[new].base = b
  BY <1>2, <1>5, RegionFacts
<1>7. IsFiniteSet(C) /\ Cardinality(C) = len
  BY <1>2, <1>6, CellCount
<1> HIDE DEF C, m
<1>8. \A q \in Slots : /\ IsRoot(q)' <=> IsRoot(q)
                       /\ Derived(q)' <=> Derived(q) \/ q = new
  BY <1>1, <1>3, <1>5, <1>6 DEF IsRoot, Derived
<1>9. \A q \in Slots : IsRoot(q) /\ q # s => mem'[q] = mem[q] /\ AtHome(q)' = AtHome(q)
  BY <1>5, AtHomeIs, AtHomeIsNext DEF IsRoot
<1>10. AtHome(s)' = AtHome(s) \ C /\ C \subseteq AtHome(s)
  BY <1>2, <1>4, <1>5, AtHomeIs, AtHomeIsNext
<1>11. \A q \in Slots : Derived(q) => q # new /\ q # s /\ mem'[q] = mem[q]
  BY <1>1, <1>5 DEF Derived
<1> QED BY <1>1, <1>2, <1>3, <1>4, <1>5, <1>6, <1>7, <1>8, <1>9, <1>10, <1>11 DEF C, CutFromPool

\* A region cut from the pool itself.
LEMMA SplitRoot ==
  ASSUME Geometry, NEW s \in Slots, IsRoot(s), NEW new \in Slots, ~mem[new].live,
         NEW len \in Nat, len > 0, NEW p, NEW b,
         CutDone(p, mem[s], Boot[s].base, b, len),
         mem' = [mem EXCEPT ![s] = [p EXCEPT !.out_bytes = @ + len],
                            ![new] = Region(b, len, s)],
         donated' = donated
  PROVE  Geometry'
<1> DEFINE C == b..(b + len - 1)
<1>0. CutFromPool(s, new, b, len)
  BY SplitRootEffect
<1>1. s \in Roots /\ new # s /\ s # 0
  BY <1>0 DEF CutFromPool
<1>2. /\ mem' \in [Slots -> MemRec] /\ mem'[s].live /\ mem'[s].root = s
      /\ mem'[s].out_bytes = mem[s].out_bytes + len /\ mem'[s].dropped = mem[s].dropped
      /\ Boot[s].base <= mem'[s].base /\ Top(mem'[s]) = Top(mem[s])
      /\ ListOK(mem'[s], Boot[s].base) /\ Cells(mem'[s]) \subseteq HomeOf(mem'[s])
      /\ \A q \in Slots : q # s /\ q # new => mem'[q] = mem[q]
  BY <1>0 DEF CutFromPool
<1>6. /\ mem'[new].live /\ mem'[new].root = s /\ Cells(mem'[new]) = C
      /\ mem'[new].free = <<>> /\ mem'[new].out_bytes = 0 /\ mem'[new].dropped = 0
  BY <1>0 DEF CutFromPool
<1>7. IsFiniteSet(C) /\ Cardinality(C) = len
  BY <1>0 DEF CutFromPool
<1>8. \A q \in Slots : /\ IsRoot(q)' <=> IsRoot(q)
                       /\ Derived(q)' <=> Derived(q) \/ q = new
  BY <1>0 DEF CutFromPool
<1>9. \A q \in Slots : IsRoot(q) /\ q # s => mem'[q] = mem[q] /\ AtHome(q)' = AtHome(q)
  BY <1>0 DEF CutFromPool
<1>10. AtHome(s)' = AtHome(s) \ C /\ C \subseteq AtHome(s)
  BY <1>0 DEF CutFromPool
<1>11. \A q \in Slots : Derived(q) => q # new /\ q # s /\ mem'[q] = mem[q]
  BY <1>0 DEF CutFromPool
<1> HIDE DEF C
<1>12. ASSUME NEW q \in Slots, IsRoot(q), q # s PROVE Lent(q)' = Lent(q)
  <2>1. ASSUME NEW c PROVE c \in Lent(q)' <=> c \in Lent(q)
    <3>1. \A u \in Slots : Derived(u)' /\ mem'[u].root = q <=> Derived(u) /\ mem[u].root = q
      BY <1>6, <1>8, <1>11, <1>12
    <3>2. \A u \in Slots : Derived(u) => mem'[u] = mem[u]
      BY <1>11
    <3> QED BY <3>1, <3>2, InLent, InLentNext
  <2> QED BY <2>1
<1>13. Lent(s)' = Lent(s) \cup C
  <2>1. ASSUME NEW c PROVE c \in Lent(s)' <=> c \in Lent(s) \/ c \in C
    <3>1. ASSUME NEW u \in Slots
          PROVE  Derived(u)' /\ mem'[u].root = s /\ c \in Cells(mem'[u]) <=>
                   \/ Derived(u) /\ mem[u].root = s /\ c \in Cells(mem[u])
                   \/ u = new /\ c \in C
      BY <1>6, <1>8, <1>11
    <3> QED BY <3>1, InLent, InLentNext
  <2> QED BY <2>1
<1>14. MemType'
  <2>1. ASSUME NEW q \in Slots
        PROVE  /\ mem'[q].live => mem'[q].root # 0
               /\ ~mem'[q].live => mem'[q] = Gone
               /\ Derived(q)' => /\ mem'[q].free = <<>>
                                 /\ mem'[q].out_bytes = 0
                                 /\ mem'[q].dropped = 0
    <3>1. CASE q = new
      BY <3>1, <1>1, <1>6
    <3>2. CASE q = s
      <4>1. ~Derived(q)'
        BY <3>2, <1>2 DEF Derived
      <4> QED BY <4>1, <3>2, <1>1, <1>2
    <3>3. CASE q # s /\ q # new
      BY <3>3, <1>2, <1>8 DEF Geometry, MemType
    <3> QED BY <3>1, <3>2, <3>3
  <2> QED BY <2>1, <1>2 DEF Geometry, MemType
<1>15. RootsOK'
  <2> SUFFICES ASSUME NEW q \in Slots, IsRoot(q)
               PROVE  /\ Boot[q].base <= mem'[q].base
                      /\ Top(mem'[q]) = Top(Boot[q])
                      /\ ListOK(mem'[q], Boot[q].base)
    BY <1>8 DEF RootsOK
  <2>1. CASE q = s
    BY <2>1, <1>2 DEF Geometry, RootsOK
  <2>2. CASE q # s
    BY <2>2, <1>9 DEF Geometry, RootsOK
  <2> QED BY <2>1, <2>2
<1>16. Tied'
  <2> SUFFICES ASSUME NEW q \in Slots, mem'[q].live
               PROVE  /\ mem'[q].root \in Roots
                      /\ Cells(mem'[q]) \subseteq Cells(Boot[mem'[q].root])
                      /\ mem'[q].len > 0 => /\ mem'[mem'[q].root].live
                                            /\ mem'[mem'[q].root].root = mem'[q].root
    BY DEF Tied, IsRoot
  <2>0. AtHome(s) \subseteq Cells(Boot[s]) /\ mem'[s].live /\ mem'[s].root = s
    BY <1>2, RootFacts
  <2>1. CASE q = s
    BY <2>0, <2>1, <1>1, <1>2, <1>10, AtHomeIsNext
  <2>2. CASE q = new
    BY <2>0, <2>2, <1>1, <1>6, <1>10
  <2>3. CASE q # s /\ q # new
    <3>1. mem'[q] = mem[q]
      BY <2>3, <1>2
    <3>2. /\ mem[q].root \in Roots /\ Cells(mem[q]) \subseteq Cells(Boot[mem[q].root])
          /\ mem[q].len > 0 => IsRoot(mem[q].root)
      BY <3>1 DEF Geometry, Tied
    <3>3. mem[q].root \in Slots
      BY <3>2, BootFacts
    <3>4. mem[q].len > 0 => mem'[mem[q].root].live /\ mem'[mem[q].root].root = mem[q].root
      <4> DEFINE t == mem[q].root
      <4>1. t \in Slots /\ (mem[q].len > 0 => IsRoot(t))
        BY <3>2, <3>3
      <4> HIDE DEF t
      <4>2. mem[q].len > 0 => mem'[t].live /\ mem'[t].root = t
        BY <4>1, <1>8 DEF IsRoot
      <4> QED BY <4>2 DEF t
    <3> QED BY <3>1, <3>2, <3>4
  <2> QED BY <2>1, <2>2, <2>3
<1>17. Apart'
  <2>0. /\ \A q \in Slots : Derived(q) => Cells(mem[q]) \cap C = {}
        /\ C \cap donated = {}
    BY <1>10 DEF Geometry, Apart
  <2>1. ASSUME NEW q \in Slots, NEW u \in Slots, Derived(q)', Derived(u)', q # u
        PROVE  Cells(mem'[q]) \cap Cells(mem'[u]) = {}
    <3>1. CASE q = new
      BY <3>1, <2>0, <2>1, <1>6, <1>8, <1>11
    <3>2. CASE u = new
      BY <3>2, <2>0, <2>1, <1>6, <1>8, <1>11
    <3>3. CASE q # new /\ u # new
      BY <3>3, <2>1, <1>8, <1>11 DEF Geometry, Apart
    <3> QED BY <3>1, <3>2, <3>3
  <2>2. ASSUME NEW q \in Slots, NEW t \in Slots, Derived(q)', IsRoot(t)'
        PROVE  Cells(mem'[q]) \cap AtHome(t)' = {}
    <3>0. IsRoot(t) /\ AtHome(t)' \subseteq AtHome(t) /\ (t = s => AtHome(t)' \cap C = {})
      BY <2>2, <1>8, <1>9, <1>10
    <3>1. CASE q = new
      <4>1. CASE t = s
        BY <3>0, <3>1, <4>1, <1>6
      <4>2. CASE t # s
        <5>1. AtHome(t) \cap AtHome(s) = {}
          BY <3>0, <4>2, PoolsApart
        <5> QED BY <5>1, <3>0, <3>1, <1>6, <1>10
      <4> QED BY <4>1, <4>2
    <3>2. CASE q # new
      <4>1. Derived(q) /\ mem'[q] = mem[q]
        BY <3>2, <2>2, <1>8, <1>11
      <4>2. Cells(mem[q]) \cap AtHome(t) = {}
        BY <4>1, <3>0 DEF Geometry, Apart
      <4> QED BY <4>1, <4>2, <3>0
    <3> QED BY <3>1, <3>2
  <2>3. ASSUME NEW q \in Slots, Derived(q)' PROVE Cells(mem'[q]) \cap donated' = {}
    <3>1. CASE q = new
      BY <3>1, <2>0, <1>6
    <3>2. CASE q # new
      BY <3>2, <2>3, <1>8, <1>11 DEF Geometry, Apart
    <3> QED BY <3>1, <3>2
  <2>4. ASSUME NEW t \in Slots, IsRoot(t)' PROVE AtHome(t)' \cap donated' = {}
    <3>1. IsRoot(t) /\ AtHome(t)' \subseteq AtHome(t)
      BY <2>4, <1>8, <1>9, <1>10
    <3> QED BY <3>1 DEF Geometry, Apart
  <2> QED BY <2>1, <2>2, <2>3, <2>4 DEF Apart
<1>18. Balanced'
  <2> SUFFICES ASSUME NEW t \in Slots, IsRoot(t)
               PROVE  /\ Boot[t].len = Cardinality(AtHome(t)') + mem'[t].out_bytes + mem'[t].dropped
                      /\ mem'[t].out_bytes = Cardinality(Lent(t)')
    BY <1>8 DEF Balanced
  <2>1. CASE t # s
    BY <2>1, <1>9, <1>12 DEF Geometry, Balanced
  <2>2. CASE t = s
    <3>1. /\ AtHome(s) \cap Lent(s) = {} /\ IsFiniteSet(AtHome(s)) /\ IsFiniteSet(Lent(s))
          /\ Cardinality(AtHome(s)) \in Nat /\ Cardinality(Lent(s)) \in Nat
          /\ mem[s].out_bytes = Cardinality(Lent(s)) /\ mem[s].dropped \in Nat
          /\ Boot[s].len = Cardinality(AtHome(s)) + mem[s].out_bytes + mem[s].dropped
      <4>1. mem[s] \in MemRec
        BY RootFacts
      <4> QED BY <4>1, RootFacts DEF MemRec
    <3>2. Cardinality(AtHome(s)') = Cardinality(AtHome(s)) - len
      BY <3>1, <1>7, <1>10, CountMoved
    <3>3. Cardinality(Lent(s)') = Cardinality(Lent(s)) + len
      <4>1. Lent(s) \cap C = {}
        BY <3>1, <1>10
      <4> QED BY <4>1, <3>1, <1>7, <1>13, CountJoined
    <3>4. mem'[s].out_bytes = mem[s].out_bytes + len /\ mem'[s].dropped = mem[s].dropped
      BY <1>2
    <3> DEFINE H == Cardinality(AtHome(s)')
               L == Cardinality(Lent(s)')
    <3>5. H = Cardinality(AtHome(s)) - len /\ L = Cardinality(Lent(s)) + len
      BY <3>2, <3>3
    <3> HIDE DEF H, L
    <3>6. Boot[s].len = H + mem'[s].out_bytes + mem'[s].dropped /\ mem'[s].out_bytes = L
      BY <3>1, <3>4, <3>5
    <3> QED BY <2>2, <3>6 DEF H, L
  <2> QED BY <2>1, <2>2
<1> QED BY <1>14, <1>15, <1>16, <1>17, <1>18 DEF Geometry

\* What a cut from a region changes.
CutFromRegion(s, new, r, len) ==
  LET C == mem[s].base..(mem[s].base + len - 1)
  IN /\ r \in Slots /\ r \in Roots /\ r # s /\ IsRoot(r) /\ r # 0
     /\ mem[s].base \in Nat /\ mem[s].len \in Nat
     /\ Cells(mem[s]) \subseteq Cells(Boot[r]) /\ new # s /\ new # r /\ mem[s].live
     /\ mem' \in [Slots -> MemRec]
     /\ \A q \in Slots : q # s /\ q # new => mem'[q] = mem[q]
     /\ mem'[new].live /\ mem'[new].root = r /\ Cells(mem'[new]) = C
     /\ mem'[new].free = <<>> /\ mem'[new].out_bytes = 0 /\ mem'[new].dropped = 0
     /\ mem'[s].live /\ mem'[s].root = r /\ mem'[s].free = <<>>
     /\ mem'[s].out_bytes = 0 /\ mem'[s].dropped = 0
     /\ Cells(mem'[s]) = Cells(mem[s]) \ C /\ C \subseteq Cells(mem[s])
     /\ \A q \in Slots : /\ IsRoot(q)' <=> IsRoot(q)
                         /\ Derived(q)' <=> Derived(q) \/ q = new
     /\ \A q \in Slots : IsRoot(q) => mem'[q] = mem[q] /\ AtHome(q)' = AtHome(q)
     /\ \A q \in Slots : Derived(q) /\ q # s => q # new /\ mem'[q] = mem[q]

LEMMA SplitDerivedEffect ==
  ASSUME Geometry, NEW s \in Slots, Derived(s), NEW new \in Slots, ~mem[new].live,
         NEW len \in Nat, len > 0, mem[s].len >= len,
         NEW r, r = mem[s].root, NEW p, p \in MemRec, SameNames(p, mem[s]),
         p.base = mem[s].base + len, p.len = mem[s].len - len,
         p.free = mem[s].free, p.out_bytes = mem[s].out_bytes, p.dropped = mem[s].dropped,
         mem' = [mem EXCEPT ![s] = p, ![new] = Region(mem[s].base, len, r)],
         donated' = donated
  PROVE  CutFromRegion(s, new, r, len)
<1> DEFINE b == mem[s].base
           C == b..(b + len - 1)
<1>1. /\ r \in Slots /\ r \in Roots /\ r # s /\ IsRoot(r) /\ r # 0
      /\ mem[s] \in MemRec /\ mem[s].base \in Nat /\ mem[s].len \in Nat
      /\ Cells(mem[s]) \subseteq Cells(Boot[r]) /\ mem \in [Slots -> MemRec]
      /\ new # s /\ new # r /\ mem[s].live
  <2>1. mem \in [Slots -> MemRec] /\ mem[s] \in MemRec
    BY DEF Geometry, MemType
  <2>2. mem[s].len \in Nat /\ mem[s].len > 0
    BY <2>1 DEF MemRec
  <2> QED BY <2>1, <2>2, LentFacts, BootFacts DEF Derived, IsRoot
<1>2. Region(b, len, r) \in MemRec
      /\ mem' \in [Slots -> MemRec] /\ mem'[s] = p /\ mem'[new] = Region(b, len, r)
      /\ \A q \in Slots : q # s /\ q # new => mem'[q] = mem[q]
  <2>1. Region(b, len, r) \in MemRec
    BY <1>1, RegionFacts
  <2> QED BY <2>1, <1>1
<1>3. /\ mem'[new].live /\ mem'[new].root = r /\ mem'[new].len = len /\ Cells(mem'[new]) = C
      /\ mem'[new].free = <<>> /\ mem'[new].out_bytes = 0 /\ mem'[new].dropped = 0
  <2>1. PICK a \in Nat : a = b
    BY <1>1
  <2>2. r \in Slots
    BY <1>1
  <2>3. /\ Region(a, len, r).live /\ Region(a, len, r).root = r
        /\ Region(a, len, r).len = len /\ Cells(Region(a, len, r)) = a..(a + len - 1)
        /\ Region(a, len, r).free = <<>> /\ Region(a, len, r).out_bytes = 0
        /\ Region(a, len, r).dropped = 0
    BY <2>2, RegionFacts
  <2> QED BY <2>1, <2>3, <1>2
<1>4. mem'[s].live /\ mem'[s].root = r /\ mem'[s].free = <<>>
      /\ mem'[s].out_bytes = 0 /\ mem'[s].dropped = 0
  BY <1>2 DEF SameNames, Derived, Geometry, MemType
<1>5. Cells(mem'[s]) = Cells(mem[s]) \ C /\ C \subseteq Cells(mem[s])
  <2>1. \A c : c \in Cells(mem[s]) <=> c \in Int /\ b <= c /\ c < b + mem[s].len
    BY <1>1, InCells
  <2>2. p.base \in Nat /\ p.len \in Nat
    BY DEF MemRec
  <2>3. \A c : c \in Cells(p) <=> c \in Int /\ b + len <= c /\ c < b + mem[s].len
    <3>1. \A c : c \in Cells(p) <=> c \in Int /\ p.base <= c /\ c < p.base + p.len
      BY <2>2, InCells
    <3>2. p.base + p.len = b + mem[s].len
      BY <1>1
    <3> QED BY <3>1, <3>2
  <2>4. \A c : c \in C <=> c \in Int /\ b <= c /\ c < b + len
    BY <1>1
  <2>5. ASSUME NEW c \in Int
        PROVE  /\ c \in Cells(p) <=> c \in Cells(mem[s]) /\ c \notin C
               /\ c \in C => c \in Cells(mem[s])
    BY <2>1, <2>3, <2>4, <1>1
  <2>6. Cells(p) = Cells(mem[s]) \ C
    BY <2>1, <2>3, <2>5
  <2>7. C \subseteq Cells(mem[s])
    BY <2>4, <2>5
  <2> QED BY <2>6, <2>7, <1>2
<1> HIDE DEF C
<1>6. \A q \in Slots : /\ IsRoot(q)' <=> IsRoot(q)
                       /\ Derived(q)' <=> Derived(q) \/ q = new
  <2> SUFFICES ASSUME NEW q \in Slots
               PROVE  /\ IsRoot(q)' <=> IsRoot(q)
                      /\ Derived(q)' <=> Derived(q) \/ q = new
    OBVIOUS
  <2>1. CASE q = s
    BY <2>1, <1>1, <1>4 DEF IsRoot, Derived
  <2>2. CASE q = new
    BY <2>2, <1>1, <1>3 DEF IsRoot, Derived
  <2>3. CASE q # s /\ q # new
    BY <2>3, <1>2 DEF IsRoot, Derived
  <2> QED BY <2>1, <2>2, <2>3
<1>7. \A q \in Slots : IsRoot(q) => mem'[q] = mem[q] /\ AtHome(q)' = AtHome(q)
  BY <1>1, <1>2, AtHomeIs, AtHomeIsNext DEF IsRoot, Derived
<1>8. \A q \in Slots : Derived(q) /\ q # s => q # new /\ mem'[q] = mem[q]
  BY <1>2 DEF Derived
<1> QED BY <1>1, <1>2, <1>3, <1>4, <1>5, <1>6, <1>7, <1>8 DEF CutFromRegion, C

\* A region cut from a region: the pool they share is not asked.
LEMMA SplitDerived ==
  ASSUME Geometry, NEW s \in Slots, Derived(s), NEW new \in Slots, ~mem[new].live,
         NEW len \in Nat, len > 0, mem[s].len >= len,
         NEW r, r = mem[s].root, NEW p, p \in MemRec, SameNames(p, mem[s]),
         p.base = mem[s].base + len, p.len = mem[s].len - len,
         p.free = mem[s].free, p.out_bytes = mem[s].out_bytes, p.dropped = mem[s].dropped,
         mem' = [mem EXCEPT ![s] = p, ![new] = Region(mem[s].base, len, r)],
         donated' = donated
  PROVE  Geometry'
<1> DEFINE b == mem[s].base
           C == b..(b + len - 1)
<1>0. CutFromRegion(s, new, r, len)
  BY SplitDerivedEffect
<1>1. /\ r \in Slots /\ r \in Roots /\ r # s /\ IsRoot(r) /\ r # 0
      /\ mem[s].base \in Nat /\ mem[s].len \in Nat
      /\ Cells(mem[s]) \subseteq Cells(Boot[r]) /\ new # s /\ new # r /\ mem[s].live
  BY <1>0 DEF CutFromRegion
<1>2. /\ mem' \in [Slots -> MemRec]
      /\ \A q \in Slots : q # s /\ q # new => mem'[q] = mem[q]
  BY <1>0 DEF CutFromRegion
<1>3. /\ mem'[new].live /\ mem'[new].root = r /\ Cells(mem'[new]) = C
      /\ mem'[new].free = <<>> /\ mem'[new].out_bytes = 0 /\ mem'[new].dropped = 0
  BY <1>0 DEF CutFromRegion
<1>4. mem'[s].live /\ mem'[s].root = r /\ mem'[s].free = <<>>
      /\ mem'[s].out_bytes = 0 /\ mem'[s].dropped = 0
  BY <1>0 DEF CutFromRegion
<1>5. Cells(mem'[s]) = Cells(mem[s]) \ C /\ C \subseteq Cells(mem[s])
  BY <1>0 DEF CutFromRegion
<1> HIDE DEF C
<1>6. \A q \in Slots : /\ IsRoot(q)' <=> IsRoot(q)
                       /\ Derived(q)' <=> Derived(q) \/ q = new
  BY <1>0 DEF CutFromRegion
<1>7. \A q \in Slots : IsRoot(q) => mem'[q] = mem[q] /\ AtHome(q)' = AtHome(q)
  BY <1>0 DEF CutFromRegion
<1>8. \A q \in Slots : Derived(q) /\ q # s => q # new /\ mem'[q] = mem[q]
  BY <1>0 DEF CutFromRegion
<1>9. ASSUME NEW q \in Slots PROVE Lent(q)' = Lent(q)
  <2>1. ASSUME NEW c PROVE c \in Lent(q)' <=> c \in Lent(q)
    <3>1. ASSUME NEW u \in Slots, Derived(u)', mem'[u].root = q, c \in Cells(mem'[u])
          PROVE  c \in Lent(q)
      <4>1. CASE u = s \/ u = new
        <5>1. c \in Cells(mem[s]) /\ q = r
          BY <4>1, <3>1, <1>3, <1>4, <1>5
        <5> QED BY <5>1, InLent
      <4>2. CASE u # s /\ u # new
        BY <4>2, <3>1, <1>6, <1>8, InLent
      <4> QED BY <4>1, <4>2
    <3>2. ASSUME NEW u \in Slots, Derived(u), mem[u].root = q, c \in Cells(mem[u])
          PROVE  c \in Lent(q)'
      <4>1. CASE u = s /\ c \in C
        <5>1. Derived(new)' /\ mem'[new].root = q /\ c \in Cells(mem'[new])
          BY <4>1, <3>2, <1>3, <1>6
        <5> QED BY <5>1, InLentNext
      <4>2. CASE u = s /\ c \notin C
        <5>1. Derived(s)' /\ mem'[s].root = q /\ c \in Cells(mem'[s])
          BY <4>2, <3>2, <1>4, <1>5, <1>6
        <5> QED BY <5>1, InLentNext
      <4>3. CASE u # s
        BY <4>3, <3>2, <1>6, <1>8, InLentNext
      <4> QED BY <4>1, <4>2, <4>3
    <3> QED BY <3>1, <3>2, InLent, InLentNext, ZenonT(60)
  <2> QED BY <2>1
<1>10. MemType'
  <2>1. ASSUME NEW q \in Slots
        PROVE  /\ mem'[q].live => mem'[q].root # 0
               /\ ~mem'[q].live => mem'[q] = Gone
               /\ Derived(q)' => /\ mem'[q].free = <<>>
                                 /\ mem'[q].out_bytes = 0
                                 /\ mem'[q].dropped = 0
    <3>1. CASE q = new
      BY <3>1, <1>1, <1>3
    <3>2. CASE q = s
      BY <3>2, <1>1, <1>4
    <3>3. CASE q # s /\ q # new
      BY <3>3, <1>2, <1>6 DEF Geometry, MemType
    <3> QED BY <3>1, <3>2, <3>3
  <2> QED BY <2>1, <1>2 DEF Geometry, MemType
<1>11. RootsOK'
  BY <1>6, <1>7 DEF Geometry, RootsOK
<1>12. Tied'
  <2> SUFFICES ASSUME NEW q \in Slots, mem'[q].live
               PROVE  /\ mem'[q].root \in Roots
                      /\ Cells(mem'[q]) \subseteq Cells(Boot[mem'[q].root])
                      /\ mem'[q].len > 0 => /\ mem'[mem'[q].root].live
                                            /\ mem'[mem'[q].root].root = mem'[q].root
    BY DEF Tied, IsRoot
  <2>0. mem'[r].live /\ mem'[r].root = r
    BY <1>1, <1>2 DEF IsRoot
  <2>1. CASE q = s \/ q = new
    <3>1. mem'[q].root = r /\ Cells(mem'[q]) \subseteq Cells(mem[s])
      BY <2>1, <1>3, <1>4, <1>5
    <3> QED BY <3>1, <2>0, <1>1
  <2>3. CASE q # s /\ q # new
    <3>1. mem'[q] = mem[q]
      BY <2>3, <1>2
    <3>2. /\ mem[q].root \in Roots /\ Cells(mem[q]) \subseteq Cells(Boot[mem[q].root])
          /\ mem[q].len > 0 => IsRoot(mem[q].root)
      BY <3>1 DEF Geometry, Tied
    <3>3. mem[q].root \in Slots
      BY <3>2, BootFacts
    <3>4. mem[q].len > 0 => mem'[mem[q].root].live /\ mem'[mem[q].root].root = mem[q].root
      <4> DEFINE t == mem[q].root
      <4>1. t \in Slots /\ (mem[q].len > 0 => IsRoot(t))
        BY <3>2, <3>3
      <4> HIDE DEF t
      <4>2. mem[q].len > 0 => mem'[t].live /\ mem'[t].root = t
        BY <4>1, <1>6 DEF IsRoot
      <4> QED BY <4>2 DEF t
    <3> QED BY <3>1, <3>2, <3>4
  <2> QED BY <2>1, <2>3
<1>13. Apart'
  <2>0. \A q \in Slots : Derived(q)' =>
          \E u \in Slots : Derived(u) /\ Cells(mem'[q]) \subseteq Cells(mem[u])
                           /\ u = IF q = new THEN s ELSE q
    BY <1>3, <1>5, <1>6, <1>8
  <2>1. ASSUME NEW q \in Slots, NEW u \in Slots, Derived(q)', Derived(u)', q # u
        PROVE  Cells(mem'[q]) \cap Cells(mem'[u]) = {}
    <3>1. CASE {q, u} = {s, new}
      BY <3>1, <2>1, <1>1, <1>3, <1>5
    <3>2. CASE {q, u} # {s, new}
      <4>1. PICK x \in Slots : Derived(x) /\ Cells(mem'[q]) \subseteq Cells(mem[x])
                               /\ x = IF q = new THEN s ELSE q
        BY <2>0, <2>1
      <4>2. PICK y \in Slots : Derived(y) /\ Cells(mem'[u]) \subseteq Cells(mem[y])
                               /\ y = IF u = new THEN s ELSE u
        BY <2>0, <2>1
      <4>3. x # y
        BY <4>1, <4>2, <3>2, <2>1
      <4>4. Cells(mem[x]) \cap Cells(mem[y]) = {}
        BY <4>1, <4>2, <4>3 DEF Geometry, Apart
      <4> QED BY <4>1, <4>2, <4>4
    <3> QED BY <3>1, <3>2
  <2>2. ASSUME NEW q \in Slots, NEW t \in Slots, Derived(q)', IsRoot(t)'
        PROVE  Cells(mem'[q]) \cap AtHome(t)' = {}
    <3>1. PICK x \in Slots : Derived(x) /\ Cells(mem'[q]) \subseteq Cells(mem[x])
      BY <2>0, <2>2
    <3>2. IsRoot(t) /\ AtHome(t)' = AtHome(t)
      BY <2>2, <1>6, <1>7
    <3>3. Cells(mem[x]) \cap AtHome(t) = {}
      BY <3>1, <3>2 DEF Geometry, Apart
    <3> QED BY <3>1, <3>2, <3>3
  <2>3. ASSUME NEW q \in Slots, Derived(q)' PROVE Cells(mem'[q]) \cap donated' = {}
    <3>1. PICK x \in Slots : Derived(x) /\ Cells(mem'[q]) \subseteq Cells(mem[x])
      BY <2>0, <2>3
    <3>2. Cells(mem[x]) \cap donated = {}
      BY <3>1 DEF Geometry, Apart
    <3> QED BY <3>1, <3>2
  <2>4. ASSUME NEW t \in Slots, IsRoot(t)' PROVE AtHome(t)' \cap donated' = {}
    BY <2>4, <1>6, <1>7 DEF Geometry, Apart
  <2> QED BY <2>1, <2>2, <2>3, <2>4 DEF Apart
<1>14. Balanced'
  BY <1>6, <1>7, <1>9 DEF Geometry, Balanced
<1> QED BY <1>10, <1>11, <1>12, <1>13, <1>14 DEF Geometry

\* Split is one of the two cuts.
LEMMA SplitEffect ==
  ASSUME Geometry, NEW s \in Slots, NEW len \in Nat, Split(s, len)
  PROVE  /\ Geometry' /\ len > 0 /\ donated' = donated
         /\ \E new \in Slots : ~mem[new].live /\
              \/ IsRoot(s) /\ \E b : CutFromPool(s, new, b, len)
              \/ Derived(s) /\ CutFromRegion(s, new, mem[s].root, len)
<1> DEFINE new == alloc_memory
           k == IF mem[s].root = s THEN FirstFit(mem[s], len) ELSE 0
           p == CutFrom(mem[s], k, len)
           b == CutBase(mem[s], k)
<1>1. /\ mem[s].refs > 0 /\ len > 0 /\ pool_can_serve(s, len) /\ new # 0
      /\ mem' = [mem EXCEPT
                   ![s]   = [p EXCEPT !.out_bytes = IF mem[s].root = s THEN @ + len ELSE @],
                   ![new] = Region(b, len, mem[s].root)]
      /\ donated' = donated
  BY Zenon DEF Split
<1>2. mem \in [Slots -> MemRec] /\ mem[s] \in MemRec /\ mem[s].live
  BY <1>1, GoneFacts DEF Geometry, MemType
<1>3. new \in Slots /\ ~mem[new].live
  BY <1>1, NewSlot
<1>4. new # s
  BY <1>2, <1>3
<1> HIDE DEF new
<1>5. CASE mem[s].root = s
  <2>1. IsRoot(s) /\ k = FirstFit(mem[s], len)
    BY <1>2, <1>5 DEF IsRoot
  <2>2. s \in Roots /\ Boot[s].base \in Nat /\ ListOK(mem[s], Boot[s].base)
        /\ Boot[s].base <= mem[s].base
    BY <2>1, RootFacts, BootFacts DEF Geometry, RootsOK
  <2>3. mem[s].free \in Seq(Node)
    BY <1>2 DEF MemRec
  <2>4. /\ k \in 0..Len(mem[s].free)
        /\ k # 0 => mem[s].free[k].len >= len
    BY <2>1, <2>3, FirstFitNode
  <2>5. k = 0 => mem[s].len >= len
    BY <2>1, <1>1 DEF pool_can_serve
  <2>6. CutDone(p, mem[s], Boot[s].base, b, len)
    <3>1. CASE k = 0
      <4>1. CutDone(CutFrom(mem[s], 0, len), mem[s], Boot[s].base, CutBase(mem[s], 0), len)
        BY <3>1, <2>2, <2>5, <1>1, <1>2, CutCursor
      <4> QED BY <4>1, <3>1
    <3>2. CASE k # 0
      <4> HIDE DEF k
      <4>1. k \in 1..Len(mem[s].free)
        BY <3>2, <2>4
      <4> QED BY <4>1, <3>2, <2>2, <2>4, <1>1, <1>2, CutNode
    <3> QED BY <3>1, <3>2
  <2> HIDE DEF p, b
  <2>7. mem' = [mem EXCEPT ![s] = [p EXCEPT !.out_bytes = @ + len],
                           ![new] = Region(b, len, s)]
    BY <1>1, <1>5
  <2>8. CutFromPool(s, new, b, len)
    BY <2>1, <2>6, <2>7, <1>1, <1>3, SplitRootEffect
  <2>9. Geometry'
    BY <2>1, <2>6, <2>7, <1>1, <1>3, SplitRoot
  <2> QED BY <2>1, <2>8, <2>9, <1>1, <1>3
<1>6. CASE mem[s].root # s
  <2>1. Derived(s) /\ mem[s].len >= len
    BY <1>1, <1>2, <1>6 DEF Derived, pool_can_serve
  <2> DEFINE n == [mem[s] EXCEPT !.base = @ + len, !.len = @ - len]
  <2>2. p = n /\ b = mem[s].base
    BY <1>6 DEF CutFrom, CutBase
  <2>3. /\ n \in MemRec /\ SameNames(n, mem[s]) /\ n.base = mem[s].base + len
        /\ n.len = mem[s].len - len /\ n.free = mem[s].free
        /\ n.out_bytes = mem[s].out_bytes /\ n.dropped = mem[s].dropped
    <3>1. mem[s].base + len \in Nat /\ mem[s].len - len \in Nat
      BY <2>1, <1>2 DEF MemRec
    <3> QED BY <3>1, <1>2 DEF MemRec, SameNames
  <2> HIDE DEF n
  <2>4. [n EXCEPT !.out_bytes = @] = n
    BY <2>3 DEF MemRec
  <2>5. mem' = [mem EXCEPT ![s] = n, ![new] = Region(mem[s].base, len, mem[s].root)]
    BY <1>1, <1>6, <2>2, <2>4
  <2> DEFINE r == mem[s].root
  <2>6. r = mem[s].root /\ mem' = [mem EXCEPT ![s] = n, ![new] = Region(mem[s].base, len, r)]
    BY <2>5
  <2>7. len > 0 /\ donated' = donated
    BY <1>1
  <2> HIDE DEF r, p, b, k
  <2>8. CutFromRegion(s, new, r, len)
    BY <2>1, <2>3, <2>6, <2>7, <1>3, SplitDerivedEffect
  <2>9. Geometry'
    BY <2>1, <2>3, <2>6, <2>7, <1>3, SplitDerived
  <2> QED BY <2>1, <2>6, <2>7, <2>8, <2>9, <1>3
<1> QED BY <1>5, <1>6

-----------------------------------------------------------------------------
(* Every step keeps the invariant.                                         *)

LEMMA SlotFacts ==
  /\ NSlots \in Nat
  /\ \A s : s \in Slots <=> s \in Int /\ 1 <= s /\ s <= NSlots
BY BootOK DEF Slots

LEMMA NothingIdle ==
  ASSUME MemoryIInv, release = 0, scan \notin Slots
  PROVE  \A s \in Slots : ~idle(s)
BY SlotFacts DEF MemoryIInv, Attended

LEMMA RestFacts ==
  ASSUME MemoryIInv, Resting
  PROVE  /\ Geometry /\ CtlType /\ mem \in [Slots -> MemRec]
         /\ release = 0 /\ scan = 0 /\ scan \notin Slots /\ doomed = NoRows
         /\ \A s \in Slots : ~idle(s)
<1>1. release = 0 /\ scan = 0 /\ scan \notin Slots
  BY SlotFacts DEF Resting
<1>2. \A s \in Slots : ~idle(s)
  BY <1>1, NothingIdle
<1> QED BY <1>1, <1>2 DEF MemoryIInv, DoomedOK, Geometry, MemType

LEMMA MemoryInit ==
  ASSUME Init
  PROVE  MemoryIInv
<1>1. \A s \in Slots : /\ s \in Roots => /\ mem[s] = Region(Boot[s].base, Boot[s].len, s)
                                         /\ mem[s] \in MemRec /\ mem[s].live
                                         /\ mem[s].base = Boot[s].base /\ mem[s].len = Boot[s].len
                                         /\ mem[s].root = s /\ mem[s].refs = 1
                                         /\ mem[s].free = <<>> /\ mem[s].out_bytes = 0
                                         /\ mem[s].dropped = 0 /\ s # 0
                       /\ s \notin Roots => mem[s] = Gone
  <2> SUFFICES ASSUME NEW s \in Slots
               PROVE  /\ s \in Roots => /\ mem[s] = Region(Boot[s].base, Boot[s].len, s)
                                        /\ mem[s] \in MemRec /\ mem[s].live
                                        /\ mem[s].base = Boot[s].base /\ mem[s].len = Boot[s].len
                                        /\ mem[s].root = s /\ mem[s].refs = 1
                                        /\ mem[s].free = <<>> /\ mem[s].out_bytes = 0
                                        /\ mem[s].dropped = 0 /\ s # 0
                      /\ s \notin Roots => mem[s] = Gone
    OBVIOUS
  <2>1. CASE s \in Roots
    <3>1. mem[s] = Region(Boot[s].base, Boot[s].len, s)
      BY <2>1 DEF Init
    <3>2. Boot[s].base \in Nat /\ Boot[s].len \in Nat /\ s # 0
      BY <2>1, BootFacts
    <3>3. PICK a \in Nat : a = Boot[s].base
      BY <3>2
    <3>4. PICK n \in Nat : n = Boot[s].len
      BY <3>2
    <3>5. /\ Region(a, n, s) \in MemRec /\ Region(a, n, s).live
          /\ Region(a, n, s).base = a /\ Region(a, n, s).len = n
          /\ Region(a, n, s).root = s /\ Region(a, n, s).refs = 1
          /\ Region(a, n, s).free = <<>> /\ Region(a, n, s).out_bytes = 0
          /\ Region(a, n, s).dropped = 0
      BY RegionFacts
    <3> QED BY <2>1, <3>1, <3>2, <3>3, <3>4, <3>5
  <2>2. CASE s \notin Roots
    BY <2>2 DEF Init
  <2> QED BY <2>1, <2>2
<1>2. \A s \in Slots : ~Derived(s) /\ (IsRoot(s) <=> s \in Roots) /\ ~idle(s)
  BY <1>1, GoneFacts DEF Derived, IsRoot, idle
<1>3. mem \in [Slots -> MemRec]
  <2>1. \A s \in Slots : mem[s] \in MemRec
    BY <1>1, GoneFacts
  <2> QED BY <2>1 DEF Init
<1>4. MemType
  BY <1>1, <1>2, <1>3, GoneFacts DEF MemType, Init
<1>5. RootsOK
  <2> SUFFICES ASSUME NEW r \in Slots, r \in Roots
               PROVE  /\ Boot[r].base <= mem[r].base
                      /\ Top(mem[r]) = Top(Boot[r])
                      /\ ListOK(mem[r], Boot[r].base)
    BY <1>2 DEF RootsOK
  <2>1. mem[r].free = <<>> /\ mem[r].base = Boot[r].base /\ mem[r].len = Boot[r].len
        /\ Boot[r].base \in Nat
    BY <1>1, BootFacts
  <2>2. Len(mem[r].free) = 0
    BY <2>1
  <2> QED BY <2>1, <2>2 DEF ListOK, Gapped, Top
<1>6. Tied
  BY <1>1, <1>2, GoneFacts DEF Tied, Cells, Top
<1>7. Apart
  BY <1>2 DEF Apart, Init
<1>8. Balanced
  <2> SUFFICES ASSUME NEW r \in Slots, r \in Roots
               PROVE  /\ Boot[r].len = Cardinality(AtHome(r)) + mem[r].out_bytes + mem[r].dropped
                      /\ mem[r].out_bytes = Cardinality(Lent(r))
    BY <1>2 DEF Balanced
  <2>1. mem[r].free = <<>> /\ mem[r].base = Boot[r].base /\ mem[r].len = Boot[r].len
        /\ mem[r].out_bytes = 0 /\ mem[r].dropped = 0
        /\ Boot[r].base \in Nat /\ Boot[r].len \in Nat
    BY <1>1, BootFacts
  <2>2. AtHome(r) = Cells(mem[r])
    BY <2>1 DEF AtHome, NodeCells
  <2>3. Cardinality(Cells(mem[r])) = Boot[r].len
    BY <2>1, CellCount
  <2>4. Lent(r) = {}
    <3>1. ASSUME NEW c PROVE c \notin Lent(r)
      BY <1>2, InLent DEF Init
    <3> QED BY <3>1
  <2>5. Cardinality(Lent(r)) = 0
    BY <2>4, FS_EmptySet
  <2> QED BY <2>1, <2>2, <2>3, <2>5
<1>9. CtlType
  BY SlotFacts, BootOK DEF CtlType, Init, NoRows
<1>10. Attended /\ DoomedOK
  <2>1. \A s \in Slots : mem[s].maps \in Nat
    BY <1>3 DEF MemRec
  <2> QED BY <2>1, <1>2 DEF Attended, DoomedOK, Init, NoRows
<1> QED BY <1>4, <1>5, <1>6, <1>7, <1>8, <1>9, <1>10 DEF MemoryIInv, Geometry

\* Outside a teardown no row is doomed, and nothing is idle when a step begins.
LEMMA StepSplit ==
  ASSUME MemoryIInv, NEW s \in Slots, NEW len \in Nat, Split(s, len)
  PROVE  MemoryIInv'
<1>1. Resting /\ UNCHANGED <<nodes, donated, release, scan, doomed>>
  BY DEF Split
<1>2. /\ Geometry /\ CtlType /\ release = 0 /\ scan = 0 /\ doomed = NoRows
      /\ \A q \in Slots : ~idle(q)
  BY <1>1, RestFacts
<1>3. Geometry'
  BY <1>2, SplitEffect
<1>4. CtlType'
  BY <1>1, <1>2 DEF CtlType
<1>5. DoomedOK'
  <2>1. \A q \in Slots : mem'[q].maps \in Nat
    BY <1>3 DEF Geometry, MemType, MemRec
  <2> QED BY <2>1, <1>1, <1>2 DEF DoomedOK, NoRows
<1>6. Attended'
  <2> DEFINE new == alloc_memory
             k == IF mem[s].root = s THEN FirstFit(mem[s], len) ELSE 0
             p == CutFrom(mem[s], k, len)
             b == CutBase(mem[s], k)
  <2>1. /\ mem[s].refs > 0 /\ new # 0
        /\ mem' = [mem EXCEPT
                     ![s]   = [p EXCEPT !.out_bytes = IF mem[s].root = s THEN @ + len ELSE @],
                     ![new] = Region(b, len, mem[s].root)]
    BY Zenon DEF Split
  <2>2. \A x : [p EXCEPT !.out_bytes = x].refs = mem[s].refs
    <3>1. mem[s] \in MemRec
      BY <1>2 DEF Geometry, MemType
    <3> QED BY <3>1 DEF CutFrom, MemRec
  <2>3. new \in Slots
    BY <2>1, NewSlot
  <2>4. Region(b, len, mem[s].root).refs = 1
    BY DEF Region, Gone
  <2>5. mem'[s].refs > 0 \/ s = new
    <3> HIDE DEF p, b, new
    <3> DEFINE x == IF mem[s].root = s THEN p.out_bytes + len ELSE p.out_bytes
               y == [p EXCEPT !.out_bytes = x]
               z == Region(b, len, mem[s].root)
    <3>1. mem' = [mem EXCEPT ![s] = y, ![new] = z]
      BY <2>1
    <3>2. y.refs = mem[s].refs
      BY <2>2, Zenon
    <3> HIDE DEF x, y, z
    <3>3. s # new => mem'[s] = y
      BY <2>3, <3>1, <1>2 DEF Geometry, MemType
    <3> QED BY <2>1, <3>2, <3>3
  <2> HIDE DEF p, b, new
  <2>6. mem'[new].refs > 0
    BY <2>1, <2>3, <2>4, <1>2 DEF Geometry, MemType
  <2>7. \A q \in Slots : q # s /\ q # new => mem'[q] = mem[q]
    BY <2>1, <2>3, <1>2 DEF Geometry, MemType
  <2>8. ASSUME NEW q \in Slots PROVE ~idle(q)'
    <3>1. CASE q = s \/ q = new
      <4>1. mem'[q].refs > 0
        BY <3>1, <2>5, <2>6
      <4> QED BY <4>1 DEF idle
    <3>2. CASE q # s /\ q # new
      BY <3>2, <2>7, <1>2 DEF idle
    <3> QED BY <3>1, <3>2
  <2> QED BY <2>8 DEF Attended
<1> QED BY <1>3, <1>4, <1>5, <1>6 DEF MemoryIInv

\* A handle or a grant row more or fewer of one region.
LEMMA StepName ==
  ASSUME MemoryIInv, NEW s \in Slots, release = 0, scan \notin Slots, mem[s].live,
         NEW refs \in Nat, NEW maps \in Nat,
         \/ mem' = [mem EXCEPT ![s].refs = refs] /\ maps = mem[s].maps
         \/ mem' = [mem EXCEPT ![s].maps = maps] /\ refs = mem[s].refs,
         refs = 0 /\ maps = 0 => release' = s,
         release' \in {0, s}, scan' = scan, nodes' = nodes, donated' = donated,
         doomed' \in [Slots -> Nat], scan = 0 => doomed' = doomed,
         doomed'[s] <= maps, \A q \in Slots : q # s => doomed'[q] = doomed[q]
  PROVE  MemoryIInv'
<1>1. Geometry /\ CtlType /\ mem \in [Slots -> MemRec] /\ mem[s] \in MemRec
      /\ \A q \in Slots : ~idle(q)
  BY NothingIdle DEF MemoryIInv, Geometry, MemType
<1>2. /\ mem' \in [Slots -> MemRec]
      /\ \A q \in Slots : q # s => mem'[q] = mem[q]
      /\ mem'[s].refs = refs /\ mem'[s].maps = maps
      /\ mem'[s].live = mem[s].live /\ mem'[s].base = mem[s].base
      /\ mem'[s].len = mem[s].len /\ mem'[s].root = mem[s].root
      /\ mem'[s].free = mem[s].free /\ mem'[s].out_bytes = mem[s].out_bytes
      /\ mem'[s].dropped = mem[s].dropped
  <2>1. CASE mem' = [mem EXCEPT ![s].refs = refs] /\ maps = mem[s].maps
    BY <2>1, <1>1 DEF MemRec
  <2>2. CASE mem' = [mem EXCEPT ![s].maps = maps] /\ refs = mem[s].refs
    BY <2>2, <1>1 DEF MemRec
  <2> QED BY <2>1, <2>2
<1>3. Geometry'
  BY <1>1, <1>2, SameGeometry
<1>4. CtlType'
  BY <1>1, SlotFacts DEF CtlType
<1>5. Attended'
  <2> SUFFICES ASSUME NEW q \in Slots, idle(q)' PROVE q = release'
    BY DEF Attended
  <2>1. q = s
    BY <1>1, <1>2 DEF idle
  <2> QED BY <2>1, <1>2 DEF idle
<1>6. DoomedOK'
  <2>1. \A q \in Slots : doomed'[q] <= mem'[q].maps
    BY <1>2 DEF MemoryIInv, DoomedOK
  <2> QED BY <2>1 DEF MemoryIInv, DoomedOK
<1> QED BY <1>3, <1>4, <1>5, <1>6 DEF MemoryIInv

LEMMA LiveSlot ==
  ASSUME Geometry, NEW s \in Slots, mem[s].refs > 0 \/ mem[s].maps > 0
  PROVE  mem[s].live
BY GoneFacts DEF Geometry, MemType

LEMMA StepRef ==
  ASSUME MemoryIInv, NEW s \in Slots, ref_object(s)
  PROVE  MemoryIInv'
<1>1. /\ Resting /\ mem[s].refs \in 1..MaxRefs - 1
      /\ mem' = [mem EXCEPT ![s].refs = @ + 1]
      /\ UNCHANGED <<nodes, donated, release, scan, doomed>>
  BY DEF ref_object
<1>2. Geometry /\ release = 0 /\ scan = 0 /\ scan \notin Slots /\ CtlType
      /\ mem \in [Slots -> MemRec] /\ doomed = NoRows
  BY <1>1, RestFacts
<1>3. mem[s].refs \in Nat /\ mem[s].maps \in Nat /\ mem[s].refs > 0
  BY <1>1, <1>2 DEF MemRec
<1>4. mem[s].live
  BY <1>2, <1>3, LiveSlot
<1> DEFINE n == mem[s].refs + 1
           w == mem[s].maps
<1>5. n \in Nat /\ n # 0 /\ w \in Nat /\ w = mem[s].maps /\ mem' = [mem EXCEPT ![s].refs = n]
  BY <1>1, <1>3
<1>6. doomed'[s] <= w /\ doomed' \in [Slots -> Nat] /\ doomed' = doomed
  BY <1>1, <1>2, <1>3 DEF NoRows, CtlType
<1> HIDE DEF n, w
<1> QED BY <1>1, <1>2, <1>4, <1>5, <1>6, StepName

LEMMA StepUnref ==
  ASSUME MemoryIInv, NEW s \in Slots, unref_object(s)
  PROVE  MemoryIInv'
<1>1. /\ Resting /\ mem[s].refs > 0
      /\ mem' = [mem EXCEPT ![s].refs = @ - 1]
      /\ release' = IF mem[s].refs = 1 THEN s ELSE 0
      /\ UNCHANGED <<nodes, donated, scan, doomed>>
  BY DEF unref_object
<1>2. Geometry /\ release = 0 /\ scan = 0 /\ scan \notin Slots /\ CtlType
      /\ mem \in [Slots -> MemRec] /\ doomed = NoRows
  BY <1>1, RestFacts
<1>3. mem[s].refs \in Nat /\ mem[s].maps \in Nat
  BY <1>1, <1>2 DEF MemRec
<1>4. mem[s].live
  BY <1>1, <1>2, LiveSlot
<1> DEFINE n == mem[s].refs - 1
           w == mem[s].maps
<1>5. n \in Nat /\ (n = 0 => release' = s) /\ release' \in {0, s}
      /\ w \in Nat /\ w = mem[s].maps /\ mem' = [mem EXCEPT ![s].refs = n]
  BY <1>1, <1>3
<1>6. doomed'[s] <= w /\ doomed' \in [Slots -> Nat] /\ doomed' = doomed
  BY <1>1, <1>2, <1>3 DEF NoRows, CtlType
<1> HIDE DEF n, w
<1> QED BY <1>1, <1>2, <1>4, <1>5, <1>6, StepName

LEMMA StepMap ==
  ASSUME MemoryIInv, NEW s \in Slots, ref_region_row(s)
  PROVE  MemoryIInv'
<1>1. /\ Resting /\ mem[s].refs > 0
      /\ mem' = [mem EXCEPT ![s].maps = @ + 1]
      /\ UNCHANGED <<nodes, donated, release, scan, doomed>>
  BY DEF ref_region_row
<1>2. Geometry /\ release = 0 /\ scan = 0 /\ scan \notin Slots /\ CtlType
      /\ mem \in [Slots -> MemRec] /\ doomed = NoRows
  BY <1>1, RestFacts
<1>3. mem[s].refs \in Nat /\ mem[s].maps \in Nat
  BY <1>1, <1>2 DEF MemRec
<1>4. mem[s].live
  BY <1>1, <1>2, LiveSlot
<1> DEFINE n == mem[s].refs
           w == mem[s].maps + 1
<1>5. n \in Nat /\ n # 0 /\ w \in Nat /\ n = mem[s].refs /\ mem' = [mem EXCEPT ![s].maps = w]
  BY <1>1, <1>3
<1>6. doomed'[s] <= w /\ doomed' \in [Slots -> Nat] /\ doomed' = doomed
  BY <1>1, <1>2, <1>3 DEF NoRows, CtlType
<1> HIDE DEF n, w
<1> QED BY <1>1, <1>2, <1>4, <1>5, <1>6, StepName

LEMMA StepUnmap ==
  ASSUME MemoryIInv, NEW s \in Slots, Unmap(s)
  PROVE  MemoryIInv'
<1>1. /\ Resting /\ mem[s].maps > 0
      /\ mem' = [mem EXCEPT ![s].maps = @ - 1]
      /\ release' = s
      /\ UNCHANGED <<nodes, donated, scan, doomed>>
  BY DEF Unmap, unref_region_row
<1>2. Geometry /\ release = 0 /\ scan = 0 /\ scan \notin Slots /\ CtlType
      /\ mem \in [Slots -> MemRec] /\ doomed = NoRows
  BY <1>1, RestFacts
<1>3. mem[s].refs \in Nat /\ mem[s].maps \in Nat
  BY <1>1, <1>2 DEF MemRec
<1>4. mem[s].live
  BY <1>1, <1>2, LiveSlot
<1> DEFINE n == mem[s].refs
           w == mem[s].maps - 1
<1>5. n \in Nat /\ w \in Nat /\ n = mem[s].refs /\ mem' = [mem EXCEPT ![s].maps = w]
      /\ release' \in {0, s}
  BY <1>1, <1>3
<1>6. doomed'[s] <= w /\ doomed' \in [Slots -> Nat] /\ doomed' = doomed
  BY <1>1, <1>2, <1>5 DEF NoRows, CtlType
<1> HIDE DEF n, w
<1> QED BY <1>1, <1>2, <1>4, <1>5, <1>6, StepName

LEMMA StepClear ==
  ASSUME MemoryIInv, NEW s \in Slots, clear_domain(s)
  PROVE  MemoryIInv'
<1>1. /\ release = 0 /\ scan = NSlots + 1 /\ doomed[s] > 0 /\ mem[s].maps > 0
      /\ mem' = [mem EXCEPT ![s].maps = @ - 1]
      /\ release' = s
      /\ doomed' = [doomed EXCEPT ![s] = @ - 1]
      /\ UNCHANGED <<nodes, donated, scan>>
  BY DEF clear_domain, unref_region_row
<1>2. Geometry /\ CtlType /\ mem \in [Slots -> MemRec] /\ doomed \in [Slots -> Nat]
      /\ doomed[s] <= mem[s].maps
  BY DEF MemoryIInv, Geometry, MemType, CtlType, DoomedOK
<1>3. mem[s].refs \in Nat /\ mem[s].maps \in Nat /\ doomed[s] \in Nat
  BY <1>1, <1>2 DEF MemRec
<1>4. mem[s].live /\ scan \notin Slots /\ scan # 0
  BY <1>1, <1>2, LiveSlot, SlotFacts
<1> DEFINE n == mem[s].refs
           w == mem[s].maps - 1
<1>5. n \in Nat /\ w \in Nat /\ n = mem[s].refs /\ mem' = [mem EXCEPT ![s].maps = w]
      /\ release' \in {0, s}
  BY <1>1, <1>3
<1>6. doomed'[s] <= w /\ doomed' \in [Slots -> Nat]
      /\ \A q \in Slots : q # s => doomed'[q] = doomed[q]
  BY <1>1, <1>2, <1>3
<1> HIDE DEF n, w
<1> QED BY <1>1, <1>2, <1>4, <1>5, <1>6, StepName

LEMMA StepRelease ==
  ASSUME MemoryIInv, memory_release_if_idle
  PROVE  MemoryIInv'
<1>0. PICK s : s = release
  OBVIOUS
<1>1. PICK r : r = mem[s].root
  OBVIOUS
<1>2. PICK room : room = node_free
  OBVIOUS
<1>3. /\ s # 0 /\ UNCHANGED <<nodes, donated, scan, doomed>>
      /\ IF ~idle(s) THEN mem' = mem /\ release' = 0
         ELSE IF r = s THEN mem' = [mem EXCEPT ![s] = Gone] /\ release' = 0
         ELSE /\ mem' = [mem EXCEPT ![r] = pool_return(@, mem[s], room), ![s] = Gone]
              /\ release' = r
  <2>1. release # 0 /\ UNCHANGED <<nodes, donated, scan, doomed>>
    BY DEF memory_release_if_idle
  <2>2. IF ~idle(release) THEN mem' = mem /\ release' = 0
        ELSE IF mem[release].root = release
        THEN mem' = [mem EXCEPT ![release] = Gone] /\ release' = 0
        ELSE /\ mem' = [mem EXCEPT ![mem[release].root] = pool_return(@, mem[release], node_free),
                                   ![release] = Gone]
             /\ release' = mem[release].root
    BY Zenon DEF memory_release_if_idle
  <2> QED BY <2>1, <2>2, <1>0, <1>1, <1>2
<1>4. Geometry /\ CtlType /\ Attended /\ DoomedOK /\ mem \in [Slots -> MemRec] /\ s \in Slots
      /\ mem[s] \in MemRec /\ r \in 0..NSlots
  <2>1. s \in Slots
    BY <1>0, <1>3, SlotFacts DEF MemoryIInv, CtlType
  <2>2. mem \in [Slots -> MemRec]
    BY DEF MemoryIInv, Geometry, MemType
  <2>3. mem[s] \in MemRec
    BY <2>1, <2>2
  <2> QED BY <2>1, <2>2, <2>3, <1>1 DEF MemoryIInv, MemRec
<1>5. \A q \in Slots : idle(q) /\ q # s => scan \in Slots /\ q >= scan
  BY <1>0, <1>4 DEF Attended
<1>6. CASE ~idle(s)
  <2>1. mem' = mem /\ release' = 0
    BY <1>3, <1>6
  <2>2. Geometry'
    BY <2>1, <1>3, <1>4, SameGeometry
  <2>3. CtlType' /\ DoomedOK'
    BY <2>1, <1>3, <1>4, SlotFacts DEF CtlType, DoomedOK
  <2>4. Attended'
    BY <2>1, <1>3, <1>5, <1>6 DEF Attended, idle
  <2> QED BY <2>2, <2>3, <2>4 DEF MemoryIInv
<1>7. CASE idle(s) /\ r = s
  <2>1. mem' = [mem EXCEPT ![s] = Gone] /\ release' = 0
    BY <1>3, <1>7
  <2>2. mem[s].live /\ IsRoot(s) /\ mem[s].out_bytes = 0 /\ mem[s].maps = 0 /\ ~Derived(s)
    BY <1>1, <1>7 DEF idle, IsRoot, Derived
  <2>3. Geometry'
    BY <2>1, <2>2, <1>3, <1>4, FreedGeometry
  <2>4. mem'[s] = Gone /\ \A q \in Slots : q # s => mem'[q] = mem[q]
    BY <2>1, <1>4
  <2>5. CtlType'
    BY <2>1, <1>3, <1>4, SlotFacts DEF CtlType
  <2>6. DoomedOK'
    <3>1. \A q \in Slots : doomed[q] <= mem'[q].maps
      BY <2>2, <2>4, <1>4, GoneFacts DEF DoomedOK
    <3> QED BY <3>1, <1>3, <1>4 DEF DoomedOK
  <2>7. Attended'
    <3> SUFFICES ASSUME NEW q \in Slots, idle(q)' PROVE scan \in Slots /\ q >= scan
      BY <1>3 DEF Attended
    <3>1. q # s
      BY <2>4, GoneFacts DEF idle
    <3>2. idle(q)
      BY <3>1, <2>4 DEF idle
    <3> QED BY <3>1, <3>2, <1>5
  <2> QED BY <2>3, <2>5, <2>6, <2>7 DEF MemoryIInv
<1>8. CASE idle(s) /\ r # s
  <2>1. mem' = [mem EXCEPT ![r] = pool_return(mem[r], mem[s], room), ![s] = Gone] /\ release' = r
    BY <1>3, <1>8
  <2>2. Derived(s) /\ mem[s].live /\ mem[s].maps = 0 /\ ~IsRoot(s)
    BY <1>1, <1>8 DEF idle, Derived, IsRoot
  <2>3. r \in Slots
    BY <2>2, <1>1, <1>4, BootFacts DEF Geometry, Tied
  <2>4. /\ Geometry' /\ mem'[s] = Gone
        /\ mem'[r].live = mem[r].live /\ mem'[r].maps = mem[r].maps
        /\ \A q \in Slots : q # s /\ q # r => mem'[q] = mem[q]
    <3>1. CASE mem[s].len = 0
      <4>1. pool_return(mem[r], mem[s], room) = mem[r]
        BY <3>1 DEF pool_return
      <4>2. mem' = [mem EXCEPT ![s] = Gone]
        BY <4>1, <2>1, <2>3, <1>4
      <4>3. Geometry'
        BY <4>2, <3>1, <2>2, <1>3, <1>4, FreedGeometry
      <4> QED BY <4>2, <4>3, <1>4, <1>8, <2>3
    <3>2. CASE mem[s].len # 0
      <4>1. mem[s].len > 0
        BY <3>2, <1>4 DEF MemRec
      <4>2. PICK p : p = pool_return(mem[r], mem[s], room)
        OBVIOUS
      <4>3. Returned(p, mem[r], Boot[r].base, mem[s])
        BY <4>1, <4>2, <2>2, <1>1, <1>4, ReturnFacts
      <4>4. mem' = [mem EXCEPT ![r] = p, ![s] = Gone] /\ donated' = donated
        BY <4>2, <2>1, <1>3
      <4>5. Geometry'
        BY <4>1, <4>3, <4>4, <2>2, <1>1, <1>4, ReturnGeometry
      <4>6. p.live = mem[r].live /\ p.maps = mem[r].maps
        BY <4>3 DEF Returned, SameNames
      <4> QED BY <4>4, <4>5, <4>6, <1>4, <1>8, <2>3
    <3> QED BY <3>1, <3>2
  <2>5. CtlType'
    BY <2>1, <1>3, <1>4 DEF CtlType
  <2>6. DoomedOK'
    <3>1. \A q \in Slots : doomed[q] <= mem'[q].maps
      BY <2>2, <2>4, <1>4, GoneFacts DEF DoomedOK
    <3> QED BY <3>1, <1>3, <1>4 DEF DoomedOK
  <2>7. Attended'
    <3> SUFFICES ASSUME NEW q \in Slots, idle(q)', q # r PROVE scan \in Slots /\ q >= scan
      BY <2>1, <1>3 DEF Attended
    <3>1. q # s
      BY <2>4, GoneFacts DEF idle
    <3>2. idle(q)
      BY <3>1, <2>4 DEF idle
    <3> QED BY <3>1, <3>2, <1>5
  <2> QED BY <2>4, <2>5, <2>6, <2>7 DEF MemoryIInv
<1> QED BY <1>6, <1>7, <1>8

LEMMA StepDonate ==
  ASSUME MemoryIInv, NEW s \in Slots, slab_donate(s)
  PROVE  MemoryIInv'
<1>1. /\ Resting /\ mem[s].refs = 1 /\ mem[s].maps = 0
      /\ mem[s].root = s => mem[s].out_bytes = 0
      /\ nodes' \in {nodes} \cup (nodes + 1 .. MaxNodes)
      /\ mem' = [mem EXCEPT ![s] = Gone]
      /\ donated' = donated \cup Cells(mem[s])
      /\ UNCHANGED <<release, scan, doomed>>
  BY DEF slab_donate
<1>2. Geometry /\ release = 0 /\ scan = 0 /\ CtlType
      /\ mem \in [Slots -> MemRec] /\ doomed = NoRows /\ \A q \in Slots : ~idle(q)
  BY <1>1, RestFacts
<1>3. mem[s].live
  BY <1>1, <1>2, LiveSlot
<1>4. Geometry'
  <2>1. IsRoot(s) => mem[s].out_bytes = 0
    BY <1>1 DEF IsRoot
  <2> QED BY <2>1, <1>1, <1>2, <1>3, FreedGeometry
<1>5. CtlType'
  <2>1. nodes' \in Nat
    BY <1>1, <1>2, BootOK DEF CtlType
  <2> QED BY <2>1, <1>1, <1>2 DEF CtlType
<1>6. mem'[s] = Gone /\ \A q \in Slots : q # s => mem'[q] = mem[q]
  BY <1>1, <1>2
<1>7. Attended'
  BY <1>2, <1>6, GoneFacts DEF Attended, idle
<1>8. DoomedOK'
  <2>1. \A q \in Slots : mem'[q].maps \in Nat
    BY <1>4 DEF Geometry, MemType, MemRec
  <2> QED BY <2>1, <1>1, <1>2 DEF DoomedOK, NoRows
<1> QED BY <1>4, <1>5, <1>7, <1>8 DEF MemoryIInv

LEMMA PartOf ==
  ASSUME NEW count \in [Slots -> Nat], NEW bound \in Nat, NEW part \in Part(count, bound)
  PROVE  part \in [Slots -> Nat] /\ \A s \in Slots : part[s] <= count[s]
<1> DEFINE some == {s \in Slots : count[s] # 0}
<1>1. PICK f \in [some -> 0..bound] :
        /\ \A s \in some : f[s] <= count[s]
        /\ part = [s \in Slots |-> IF s \in some THEN f[s] ELSE 0]
  BY DEF Part
<1>2. \A s \in some : f[s] \in Nat
  BY <1>1
<1> QED BY <1>1, <1>2

LEMMA StepEnd ==
  ASSUME MemoryIInv, NEW handles \in Part([s \in Slots |-> mem[s].refs], MaxRefs),
         NEW rows \in Part([s \in Slots |-> mem[s].maps], MaxMaps),
         end_process(handles, rows)
  PROVE  MemoryIInv'
<1>1. /\ Resting
      /\ mem' = [s \in Slots |-> [mem[s] EXCEPT !.refs = @ - handles[s]]]
      /\ scan' = 1 /\ doomed' = rows
      /\ UNCHANGED <<nodes, donated, release>>
  BY DEF end_process
<1>2. Geometry /\ release = 0 /\ scan = 0 /\ CtlType /\ mem \in [Slots -> MemRec]
  BY <1>1, RestFacts
<1>3. /\ handles \in [Slots -> Nat] /\ \A s \in Slots : handles[s] <= mem[s].refs
      /\ rows \in [Slots -> Nat] /\ \A s \in Slots : rows[s] <= mem[s].maps
  <2>1. mem \in [Slots -> MemRec] /\ \A s \in Slots : mem[s].refs \in Nat /\ mem[s].maps \in Nat
    BY <1>2 DEF MemRec
  <2> QED BY <2>1, BootOK, PartOf
<1>4. /\ mem' \in [Slots -> MemRec]
      /\ \A s \in Slots :
           /\ mem'[s].live = mem[s].live /\ mem'[s].base = mem[s].base
           /\ mem'[s].len = mem[s].len /\ mem'[s].root = mem[s].root
           /\ mem'[s].free = mem[s].free /\ mem'[s].out_bytes = mem[s].out_bytes
           /\ mem'[s].dropped = mem[s].dropped /\ mem'[s].maps = mem[s].maps
           /\ ~mem[s].live => mem'[s] = mem[s]
  <2>1. ASSUME NEW s \in Slots
        PROVE  /\ mem'[s] = [mem[s] EXCEPT !.refs = mem[s].refs - handles[s]]
               /\ mem[s].refs - handles[s] \in Nat /\ mem[s] \in MemRec
               /\ ~mem[s].live => mem[s].refs - handles[s] = mem[s].refs
    <3>1. mem[s] \in MemRec /\ mem[s].refs \in Nat /\ handles[s] \in Nat /\ handles[s] <= mem[s].refs
      BY <1>2, <1>3 DEF MemRec
    <3>2. ~mem[s].live => mem[s].refs = 0
      BY <1>2, GoneFacts DEF Geometry, MemType
    <3> QED BY <3>1, <3>2, <1>1
  <2>2. ASSUME NEW s \in Slots
        PROVE  /\ mem'[s] \in MemRec
               /\ mem'[s].live = mem[s].live /\ mem'[s].base = mem[s].base
               /\ mem'[s].len = mem[s].len /\ mem'[s].root = mem[s].root
               /\ mem'[s].free = mem[s].free /\ mem'[s].out_bytes = mem[s].out_bytes
               /\ mem'[s].dropped = mem[s].dropped /\ mem'[s].maps = mem[s].maps
               /\ ~mem[s].live => mem'[s] = mem[s]
    <3>1. PICK n \in Nat : n = mem[s].refs - handles[s]
      BY <2>1
    <3>2. mem'[s] = [mem[s] EXCEPT !.refs = n] /\ mem[s] \in MemRec
      BY <2>1, <3>1
    <3>3. ~mem[s].live => mem'[s] = mem[s]
      <4>1. [mem[s] EXCEPT !.refs = mem[s].refs] = mem[s]
        BY <3>2 DEF MemRec
      <4> QED BY <4>1, <3>1, <3>2, <2>1
    <3>4. /\ mem'[s] \in MemRec
          /\ mem'[s].live = mem[s].live /\ mem'[s].base = mem[s].base
          /\ mem'[s].len = mem[s].len /\ mem'[s].root = mem[s].root
          /\ mem'[s].free = mem[s].free /\ mem'[s].out_bytes = mem[s].out_bytes
          /\ mem'[s].dropped = mem[s].dropped /\ mem'[s].maps = mem[s].maps
      BY <3>2 DEF MemRec
    <3> QED BY <3>3, <3>4
  <2> QED BY <2>2, <1>1
<1>5. Geometry'
  BY <1>1, <1>2, <1>4, SameGeometry
<1>6. CtlType'
  BY <1>1, <1>2, <1>3, SlotFacts DEF CtlType
<1>7. Attended'
  BY <1>1, SlotFacts DEF Attended
<1>8. DoomedOK'
  BY <1>1, <1>3, <1>4 DEF DoomedOK
<1> QED BY <1>5, <1>6, <1>7, <1>8 DEF MemoryIInv

LEMMA StepReap ==
  ASSUME MemoryIInv, reap_unreferenced
  PROVE  MemoryIInv'
<1> DEFINE left == {s \in scan..NSlots : mem[s].live /\ mem[s].refs = 0}
           s == IF left = {} THEN 0 ELSE Min(left)
<1>1. /\ release = 0 /\ scan \in Slots /\ release' = s
      /\ scan' = IF left = {} THEN NSlots + 1 ELSE s + 1
      /\ UNCHANGED <<mem, nodes, donated, doomed>>
  BY Zenon DEF reap_unreferenced
<1>2. Geometry /\ CtlType /\ mem \in [Slots -> MemRec] /\ Attended /\ DoomedOK
  BY DEF MemoryIInv, Geometry, MemType
<1>3. \A q : q \in left <=> q \in Slots /\ q >= scan /\ mem[q].live /\ mem[q].refs = 0
  BY <1>1, SlotFacts
<1>4. left # {} => s \in left /\ \A q \in left : s <= q
  <2>1. left \in SUBSET Nat
    BY <1>3, SlotFacts
  <2> HIDE DEF left
  <2> QED BY <2>1, MinOfNat
<1> HIDE DEF left
<1>5. s \in 0..NSlots /\ scan' \in 1..(NSlots + 1)
  BY <1>1, <1>3, <1>4, SlotFacts
<1>6. Geometry'
  BY <1>1, <1>2, SameGeometry
<1>7. CtlType'
  BY <1>1, <1>2, <1>5, SlotFacts DEF CtlType
<1>8. DoomedOK'
  BY <1>1, <1>2, <1>5, SlotFacts DEF DoomedOK
<1>9. Attended'
  <2> SUFFICES ASSUME NEW q \in Slots, idle(q)'
               PROVE  q = release' \/ (scan' \in Slots /\ q >= scan')
    BY DEF Attended
  <2>1. idle(q)
    BY <1>1 DEF idle
  <2>2. q >= scan /\ q \in left
    BY <2>1, <1>1, <1>2, <1>3, SlotFacts DEF Attended, idle
  <2>3. left # {} /\ s \in Slots /\ s <= q
    BY <2>2, <1>3, <1>4
  <2> QED BY <2>3, <1>1, SlotFacts
<1> QED BY <1>6, <1>7, <1>8, <1>9 DEF MemoryIInv

LEMMA StepEnded ==
  ASSUME MemoryIInv, process_ended
  PROVE  MemoryIInv'
<1>1. /\ release = 0 /\ scan = NSlots + 1 /\ doomed = NoRows /\ scan' = 0
      /\ UNCHANGED <<mem, nodes, donated, release, doomed>>
  BY DEF process_ended
<1>2. Geometry /\ CtlType /\ mem \in [Slots -> MemRec] /\ DoomedOK
  BY DEF MemoryIInv, Geometry, MemType
<1>3. \A s \in Slots : ~idle(s)
  BY <1>1, NothingIdle, SlotFacts
<1>4. Geometry'
  BY <1>1, <1>2, SameGeometry
<1>5. CtlType' /\ DoomedOK'
  BY <1>1, <1>2, SlotFacts DEF CtlType, DoomedOK
<1>6. Attended'
  BY <1>1, <1>3 DEF Attended, idle
<1> QED BY <1>4, <1>5, <1>6 DEF MemoryIInv

LEMMA MemoryStep ==
  ASSUME MemoryIInv, [Next]_vars
  PROVE  MemoryIInv'
<1>1. CASE Next
  <2>1. ASSUME NEW s \in Slots, NEW len \in 1..Grains, Split(s, len) PROVE MemoryIInv'
    <3>1. len \in Nat
      BY <2>1
    <3> QED BY <3>1, <2>1, StepSplit
  <2> QED BY <1>1, <2>1, StepRef, StepUnref, StepMap, StepUnmap, StepDonate, StepClear,
             StepRelease, StepReap, StepEnded, StepEnd DEF Next, Operate, ProcessEnds
<1>2. CASE UNCHANGED vars
  <2>1. mem' = mem /\ nodes' = nodes /\ donated' = donated /\ release' = release
        /\ scan' = scan /\ doomed' = doomed
    BY <1>2 DEF vars
  <2>2. Geometry'
    BY <2>1, SameGeometry DEF MemoryIInv, Geometry, MemType
  <2>3. CtlType' /\ Attended' /\ DoomedOK'
    BY <2>1 DEF MemoryIInv, CtlType, Attended, DoomedOK, idle
  <2> QED BY <2>2, <2>3 DEF MemoryIInv
<1> QED BY <1>1, <1>2

\* The inductive invariant of the pools: the address-ordered gapped free lists, the
\* ties of regions to their pools, the apartness of grains, the books, and who is
\* still to be looked at (pool_cut, pool_return, memory_release_if_idle, end_process).
THEOREM MemoryInvariant == Spec => []MemoryIInv
<1>1. Init => MemoryIInv
  BY MemoryInit
<1>2. MemoryIInv /\ [Next]_vars => MemoryIInv'
  BY MemoryStep
<1> QED BY <1>1, <1>2, PTL DEF Spec

-----------------------------------------------------------------------------
(* What the invariant says.                                                *)

LEMMA InHoldings ==
  ASSUME NEW x \in Holdings
  PROVE  \/ \E s \in Slots : mem[s].live /\ x = <<s, 0, Cells(mem[s])>>
         \/ \E s \in Slots : \E k \in DOMAIN mem[s].free : x = <<s, k, Cells(mem[s].free[k])>>
         \/ x = <<0, 0, donated>>
<1> DEFINE A == {<<s, 0, Cells(mem[s])>> : s \in {q \in Slots : mem[q].live}}
           B == UNION {{<<s, k, Cells(mem[s].free[k])>> : k \in DOMAIN mem[s].free} : s \in Slots}
           D == {<<0, 0, donated>>}
<1>1. x \in A \/ x \in B \/ x \in D
  BY Zenon DEF Holdings
<1>2. x \in A => \E s \in Slots : mem[s].live /\ x = <<s, 0, Cells(mem[s])>>
  OBVIOUS
<1>3. x \in B => \E s \in Slots : \E k \in DOMAIN mem[s].free : x = <<s, k, Cells(mem[s].free[k])>>
  OBVIOUS
<1> QED BY <1>1, <1>2, <1>3, Zenon

\* A node belongs to a pool, and lies in what the pool can hand out.
LEMMA NodeFacts ==
  ASSUME Geometry, NEW s \in Slots, NEW k \in DOMAIN mem[s].free
  PROVE  /\ IsRoot(s) /\ k \in 1..Len(mem[s].free) /\ mem[s].free \in Seq(Node)
         /\ Cells(mem[s].free[k]) \subseteq AtHome(s)
         /\ mem[s].free[k].base \in Nat /\ mem[s].free[k].len \in Nat
         /\ Top(mem[s].free[k]) = mem[s].free[k].base + mem[s].free[k].len
         /\ Top(mem[s].free[k]) < mem[s].base
         /\ \A i \in 1..Len(mem[s].free) :
              i # k => \/ Top(mem[s].free[i]) < mem[s].free[k].base
                       \/ Top(mem[s].free[k]) < mem[s].free[i].base
<1>1. mem[s] \in MemRec /\ mem[s].free \in Seq(Node)
  BY DEF Geometry, MemType, MemRec
<1>2. k \in 1..Len(mem[s].free) /\ mem[s].free # <<>>
  BY <1>1
<1>3. mem[s].live /\ ~Derived(s)
  <2>1. Gone.free = <<>>
    BY DEF Gone
  <2> QED BY <2>1, <1>2 DEF Geometry, MemType
<1>4. IsRoot(s)
  BY <1>3 DEF IsRoot, Derived
<1>5. Cells(mem[s].free[k]) \subseteq AtHome(s)
  BY DEF AtHome, NodeCells
<1>6. ListOK(mem[s], Boot[s].base)
  BY <1>4 DEF Geometry, RootsOK
<1>7. Top(mem[s].free[k]) < mem[s].base
      /\ \A i \in 1..Len(mem[s].free) :
           i # k => \/ Top(mem[s].free[i]) < mem[s].free[k].base
                    \/ Top(mem[s].free[k]) < mem[s].free[i].base
  BY <1>2, <1>6 DEF ListOK, Gapped
<1> QED BY <1>1, <1>2, <1>4, <1>5, <1>7, NodeType

\* The holdings of two slots.
LEMMA TwoSlots ==
  ASSUME Geometry, NEW s \in Slots, NEW q \in Slots, s # q, NEW X, NEW Y,
         \/ Derived(s) /\ X = Cells(mem[s])
         \/ IsRoot(s) /\ X \subseteq AtHome(s),
         \/ Derived(q) /\ Y = Cells(mem[q])
         \/ IsRoot(q) /\ Y \subseteq AtHome(q)
  PROVE  X \cap Y = {} /\ X \cap donated = {}
<1>1. CASE Derived(s) /\ X = Cells(mem[s]) /\ Derived(q) /\ Y = Cells(mem[q])
  BY <1>1 DEF Geometry, Apart
<1>2. CASE Derived(s) /\ X = Cells(mem[s]) /\ IsRoot(q) /\ Y \subseteq AtHome(q)
  BY <1>2 DEF Geometry, Apart
<1>3. CASE IsRoot(s) /\ X \subseteq AtHome(s) /\ Derived(q) /\ Y = Cells(mem[q])
  BY <1>3 DEF Geometry, Apart
<1>4. CASE IsRoot(s) /\ X \subseteq AtHome(s) /\ IsRoot(q) /\ Y \subseteq AtHome(q)
  <2>1. AtHome(s) \cap AtHome(q) = {}
    BY <1>4, PoolsApart
  <2>2. AtHome(s) \cap donated = {}
    BY <1>4 DEF Geometry, Apart
  <2> QED BY <1>4, <2>1, <2>2
<1> QED BY <1>1, <1>2, <1>3, <1>4

\* A live slot's range, or one of its nodes, as TwoSlots wants it.
LEMMA SlotHolds ==
  ASSUME Geometry, NEW s \in Slots, NEW X,
         \/ mem[s].live /\ X = Cells(mem[s])
         \/ \E k \in DOMAIN mem[s].free : X = Cells(mem[s].free[k])
  PROVE  /\ \/ Derived(s) /\ X = Cells(mem[s])
            \/ IsRoot(s) /\ X \subseteq AtHome(s)
         /\ X \cap donated = {}
<1>1. CASE mem[s].live /\ X = Cells(mem[s])
  <2>1. Cells(mem[s]) \subseteq AtHome(s)
    BY DEF AtHome
  <2> QED BY <1>1, <2>1 DEF Derived, IsRoot, Geometry, Apart
<1>2. CASE \E k \in DOMAIN mem[s].free : X = Cells(mem[s].free[k])
  <2>1. IsRoot(s) /\ X \subseteq AtHome(s)
    BY <1>2, NodeFacts
  <2> QED BY <2>1 DEF Geometry, Apart
<1> QED BY <1>1, <1>2

LEMMA OneOwnerHolds ==
  ASSUME Geometry
  PROVE  OneOwner
<1>1. ASSUME NEW a \in Holdings, NEW b \in Holdings, a # b PROVE a[3] \cap b[3] = {}
  <2> DEFINE Rg(x, s) == s \in Slots /\ mem[s].live /\ x = <<s, 0, Cells(mem[s])>>
             Nd(x, s, k) == s \in Slots /\ k \in DOMAIN mem[s].free
                              /\ x = <<s, k, Cells(mem[s].free[k])>>
             Sl(x) == \/ \E s : Rg(x, s)
                      \/ \E s, k : Nd(x, s, k)
  <2>1. \A x \in Holdings : Sl(x) \/ x = <<0, 0, donated>>
    BY InHoldings
  <2>2. ASSUME NEW x, Sl(x) PROVE x[3] \cap donated = {}
    <3>1. CASE \E s : Rg(x, s)
      <4>1. PICK s : Rg(x, s)
        BY <3>1
      <4>2. s \in Slots /\ mem[s].live /\ x[3] = Cells(mem[s])
        BY <4>1
      <4> QED BY <4>2, SlotHolds
    <3>2. CASE \E s, k : Nd(x, s, k)
      <4>1. PICK s, k : Nd(x, s, k)
        BY <3>2
      <4>2. s \in Slots /\ k \in DOMAIN mem[s].free /\ x[3] = Cells(mem[s].free[k])
        BY <4>1
      <4> QED BY <4>2, SlotHolds
    <3> QED BY <2>2, <3>1, <3>2
  <2>3. ASSUME NEW s, NEW q, Rg(a, s), Rg(b, q) PROVE a[3] \cap b[3] = {}
    <3>1. s \in Slots /\ q \in Slots /\ s # q
      BY <2>3, <1>1
    <3>2. mem[s].live /\ mem[q].live /\ a[3] = Cells(mem[s]) /\ b[3] = Cells(mem[q])
      BY <2>3
    <3>3. \/ Derived(s) /\ a[3] = Cells(mem[s])
          \/ IsRoot(s) /\ a[3] \subseteq AtHome(s)
      BY <3>1, <3>2, SlotHolds
    <3>4. \/ Derived(q) /\ b[3] = Cells(mem[q])
          \/ IsRoot(q) /\ b[3] \subseteq AtHome(q)
      BY <3>1, <3>2, SlotHolds
    <3> QED BY <3>1, <3>3, <3>4, TwoSlots
  <2>4. ASSUME NEW x, NEW y, NEW s, NEW q, NEW k, Rg(x, s), Nd(y, q, k)
        PROVE  x[3] \cap y[3] = {}
    <3>1. s \in Slots /\ q \in Slots /\ mem[s].live /\ x[3] = Cells(mem[s])
          /\ k \in DOMAIN mem[q].free /\ y[3] = Cells(mem[q].free[k])
      BY <2>4
    <3>2. CASE s # q
      <4>1. \/ Derived(s) /\ x[3] = Cells(mem[s])
            \/ IsRoot(s) /\ x[3] \subseteq AtHome(s)
        BY <3>1, SlotHolds
      <4>2. \/ Derived(q) /\ y[3] = Cells(mem[q])
            \/ IsRoot(q) /\ y[3] \subseteq AtHome(q)
        BY <3>1, SlotHolds
      <4> QED BY <3>1, <3>2, <4>1, <4>2, TwoSlots
    <3>3. CASE s = q
      <4>1. mem[s].base \in Nat /\ mem[s].len \in Nat
        BY <3>1 DEF Geometry, MemType, MemRec
      <4>2. PICK n : n = mem[s].free[k]
        OBVIOUS
      <4>3. n.base \in Nat /\ n.len \in Nat /\ n.base + n.len < mem[s].base
        BY <3>1, <3>3, <4>2, NodeFacts
      <4>4. /\ \A c : c \in Cells(n) <=> c \in Int /\ n.base <= c /\ c < n.base + n.len
            /\ \A c : c \in Cells(mem[s]) <=>
                 c \in Int /\ mem[s].base <= c /\ c < mem[s].base + mem[s].len
        BY <4>1, <4>3, InCells
      <4>5. Cells(n) \cap Cells(mem[s]) = {}
        BY <4>1, <4>3, <4>4
      <4> QED BY <3>1, <3>3, <4>2, <4>5
    <3> QED BY <3>2, <3>3
  <2>5. ASSUME NEW s, NEW j, NEW q, NEW k, Nd(a, s, j), Nd(b, q, k)
        PROVE  a[3] \cap b[3] = {}
    <3>1. /\ s \in Slots /\ j \in DOMAIN mem[s].free /\ a[3] = Cells(mem[s].free[j])
          /\ q \in Slots /\ k \in DOMAIN mem[q].free /\ b[3] = Cells(mem[q].free[k])
          /\ s # q \/ j # k
      BY <2>5, <1>1
    <3>2. CASE s # q
      <4>1. \/ Derived(s) /\ a[3] = Cells(mem[s])
            \/ IsRoot(s) /\ a[3] \subseteq AtHome(s)
        BY <3>1, SlotHolds
      <4>2. \/ Derived(q) /\ b[3] = Cells(mem[q])
            \/ IsRoot(q) /\ b[3] \subseteq AtHome(q)
        BY <3>1, SlotHolds
      <4> QED BY <3>1, <3>2, <4>1, <4>2, TwoSlots
    <3>3. CASE s = q
      <4>1. PICK n : n = mem[s].free[j]
        OBVIOUS
      <4>2. PICK m : m = mem[s].free[k]
        OBVIOUS
      <4>3. j \in 1..Len(mem[s].free) /\ k \in 1..Len(mem[s].free) /\ j # k
        BY <3>1, <3>3, NodeFacts
      <4>4. /\ n.base \in Nat /\ n.len \in Nat /\ m.base \in Nat /\ m.len \in Nat
            /\ n.base + n.len < m.base \/ m.base + m.len < n.base
        <5>1. n.base \in Nat /\ n.len \in Nat /\ Top(n) = n.base + n.len
          BY <3>1, <4>1, NodeFacts
        <5>2. m.base \in Nat /\ m.len \in Nat /\ Top(m) = m.base + m.len
          BY <3>1, <3>3, <4>2, NodeFacts
        <5>3. Top(n) < m.base \/ Top(m) < n.base
          <6>1. \A i \in 1..Len(mem[s].free) :
                  i # k => Top(mem[s].free[i]) < m.base \/ Top(m) < mem[s].free[i].base
            BY <3>1, <3>3, <4>2, NodeFacts
          <6> QED BY <6>1, <4>1, <4>3
        <5> QED BY <5>1, <5>2, <5>3
      <4>5. /\ \A c : c \in Cells(n) <=> c \in Int /\ n.base <= c /\ c < n.base + n.len
            /\ \A c : c \in Cells(m) <=> c \in Int /\ m.base <= c /\ c < m.base + m.len
        BY <4>4, InCells
      <4>6. Cells(n) \cap Cells(m) = {}
        BY <4>4, <4>5
      <4> QED BY <3>1, <3>3, <4>1, <4>2, <4>6
    <3> QED BY <3>2, <3>3
  <2>6. CASE a = <<0, 0, donated>>
    <3>1. Sl(b) /\ a[3] = donated
      BY <2>1, <2>6, <1>1
    <3> HIDE DEF Sl
    <3> QED BY <3>1, <2>2
  <2>7. CASE b = <<0, 0, donated>>
    <3>1. Sl(a) /\ b[3] = donated
      BY <2>1, <2>7, <1>1
    <3> HIDE DEF Sl
    <3> QED BY <3>1, <2>2
  <2>8. CASE Sl(a) /\ Sl(b)
    <3> HIDE DEF Rg, Nd
    <3>1. ASSUME NEW s, NEW q, NEW k, Rg(a, s), Nd(b, q, k) PROVE a[3] \cap b[3] = {}
      BY <3>1, <2>4
    <3>2. ASSUME NEW s, NEW q, NEW k, Rg(b, s), Nd(a, q, k) PROVE a[3] \cap b[3] = {}
      <4>1. b[3] \cap a[3] = {}
        BY <3>2, <2>4
      <4> QED BY <4>1
    <3> QED BY <2>8, <2>3, <2>5, <3>1, <3>2
  <2> QED BY <2>1, <2>6, <2>7, <2>8
<1>2. \A s \in Slots : mem[s].live => Cells(mem[s]) \subseteq Cells(Boot[mem[s].root])
  BY DEF Geometry, Tied
<1> QED BY <1>1, <1>2 DEF OneOwner

\* A grain has one owner and the books of its pool say so, for any number of slots,
\* any boot ranges that do not overlap, and any supply of nodes (pool_cut,
\* pool_return, memory_release_if_idle, slab_donate).
THEOREM PoolSafe == Spec => []PoolInv
<1>1. MemoryIInv => PoolInv
  <2> SUFFICES ASSUME MemoryIInv PROVE PoolInv
    OBVIOUS
  <2>1. TypeOK
    BY DEF MemoryIInv, Geometry, MemType, CtlType, TypeOK, MemRec
  <2>2. OneOwner /\ Balanced
    BY OneOwnerHolds DEF MemoryIInv, Geometry
  <2> QED BY <2>1, <2>2 DEF PoolInv
<1> QED BY <1>1, MemoryInvariant, PTL

\* A region goes back when its last name goes, not later and not sooner, and the
\* fatal_kernel arms of pool_return and unref_region_row are never reached.
THEOREM ReleaseSafe == Spec => []ReleasedInTime
<1>1. MemoryIInv => ReleasedInTime
  <2> SUFFICES ASSUME MemoryIInv PROVE ReleasedInTime
    OBVIOUS
  <2>1. NoStranded
    BY RestFacts DEF NoStranded
  <2>2. ASSUME NEW s \in Slots, Derived(s), mem[s].len > 0
        PROVE  IsRoot(mem[s].root) /\ mem[s].len <= mem[mem[s].root].out_bytes
    <3>1. PICK r : r = mem[s].root
      OBVIOUS
    <3>2. IsRoot(r) /\ mem[s].len <= mem[r].out_bytes
      BY <2>2, <3>1, LentFacts DEF MemoryIInv
    <3> QED BY <3>1, <3>2
  <2> QED BY <2>1, <2>2 DEF ReleasedInTime, NoFatal, MemoryIInv, DoomedOK
<1> QED BY <1>1, MemoryInvariant, PTL

-----------------------------------------------------------------------------
(* A pool is put together again.                                           *)

\* The grain above a node is not home: gaps are real.
LEMMA GapAbove ==
  ASSUME Geometry, NEW r \in Slots, NEW k \in DOMAIN mem[r].free
  PROVE  Top(mem[r].free[k]) \notin AtHome(r)
<1>1. PICK F : F = mem[r].free
  OBVIOUS
<1>2. /\ mem[r] \in MemRec /\ F \in Seq(Node) /\ k \in 1..Len(F) /\ mem[r].base \in Nat
      /\ Top(F[k]) < mem[r].base
      /\ \A i \in 1..Len(F) : i # k => Top(F[i]) < F[k].base \/ Top(F[k]) < F[i].base
  <2>1. mem[r] \in MemRec /\ mem[r].base \in Nat
    BY DEF Geometry, MemType, MemRec
  <2> QED BY <2>1, <1>1, NodeFacts
<1>3. \A i \in 1..Len(F) : F[i].base \in Nat /\ Top(F[i]) \in Nat /\ F[i].base < Top(F[i])
  BY <1>2, NodeType
<1>4. \A c : c \in AtHome(r) <=>
         \/ c \in Int /\ mem[r].base <= c /\ c < mem[r].base + mem[r].len
         \/ \E i \in 1..Len(F) : c \in Int /\ F[i].base <= c /\ c < Top(F[i])
  BY <1>1, <1>2, InHome, AtHomeIs
<1>5. Top(F[k]) \in Nat /\ F[k].base < Top(F[k])
  BY <1>2, <1>3
<1>6. ~(mem[r].base <= Top(F[k]))
  BY <1>2, <1>5
<1>7. ASSUME NEW i \in 1..Len(F) PROVE ~(F[i].base <= Top(F[k]) /\ Top(F[k]) < Top(F[i]))
  <2>1. CASE i = k
    BY <2>1, <1>5
  <2>2. CASE i # k
    <3>1. Top(F[i]) < F[k].base \/ Top(F[k]) < F[i].base
      BY <2>2, <1>2
    <3>2. F[i].base \in Nat /\ Top(F[i]) \in Nat /\ F[k].base \in Nat
      BY <1>2, <1>3
    <3> QED BY <3>1, <3>2, <1>5
  <2> QED BY <2>1, <2>2
<1> QED BY <1>1, <1>4, <1>6, <1>7

LEMMA WholeAgainHolds ==
  ASSUME Geometry, NEW r \in Slots, IsRoot(r), mem[r].out_bytes = 0, mem[r].dropped = 0
  PROVE  mem[r].free = <<>> /\ mem[r].base = Boot[r].base /\ mem[r].len = Boot[r].len
<1>1. /\ r \in Roots /\ mem[r] \in MemRec /\ AtHome(r) \subseteq Cells(Boot[r])
      /\ AtHome(r) = HomeOf(mem[r])
      /\ Cardinality(AtHome(r)) \in Nat
      /\ Boot[r].len = Cardinality(AtHome(r))
  <2>1. Boot[r].len = Cardinality(AtHome(r)) + mem[r].out_bytes + mem[r].dropped
        /\ Cardinality(AtHome(r)) \in Nat
    BY RootFacts
  <2> QED BY <2>1, RootFacts
<1>2. /\ Boot[r].base \in Nat /\ Boot[r].len \in Nat /\ IsFiniteSet(Cells(Boot[r]))
      /\ Top(Boot[r]) = Boot[r].base + Boot[r].len
      /\ \A c : c \in Cells(Boot[r]) <=> c \in Int /\ Boot[r].base <= c /\ c < Top(Boot[r])
  BY <1>1, BootFacts
<1>3. Cardinality(Cells(Boot[r])) = Boot[r].len
  BY <1>2, CellCount
<1>4. AtHome(r) = Cells(Boot[r])
  BY <1>1, <1>2, <1>3, FS_Subset
<1>5. /\ mem[r].base \in Nat /\ mem[r].len \in Nat /\ mem[r].free \in Seq(Node)
      /\ Boot[r].base <= mem[r].base
      /\ mem[r].base + mem[r].len = Boot[r].base + Boot[r].len
      /\ ListOK(mem[r], Boot[r].base)
  BY <1>1, <1>2 DEF Geometry, RootsOK, MemRec, Top
<1>6. mem[r].free = <<>>
  <2> SUFFICES ASSUME mem[r].free # <<>> PROVE FALSE
    OBVIOUS
  <2>1. 1 \in DOMAIN mem[r].free /\ 1 \in 1..Len(mem[r].free)
    BY <1>5
  <2>2. Top(mem[r].free[1]) \notin AtHome(r)
    BY <2>1, GapAbove
  <2>3. mem[r].free[1].base \in Nat /\ Top(mem[r].free[1]) \in Nat
        /\ mem[r].free[1].base < Top(mem[r].free[1])
    BY <2>1, <1>5, NodeType
  <2>4. Boot[r].base <= mem[r].free[1].base /\ Top(mem[r].free[1]) < mem[r].base
    BY <2>1, <1>5 DEF ListOK
  <2>5. Top(mem[r].free[1]) \in Cells(Boot[r])
    BY <2>3, <2>4, <1>2, <1>5
  <2> QED BY <2>2, <2>5, <1>4
<1>7. mem[r].base = Boot[r].base
  <2>1. AtHome(r) = Cells(mem[r])
    BY <1>6 DEF AtHome, NodeCells
  <2>2. \A c : c \in Cells(mem[r]) <=>
          c \in Int /\ mem[r].base <= c /\ c < mem[r].base + mem[r].len
    BY <1>5, InCells
  <2>3. CASE Boot[r].len = 0
    BY <2>3, <1>2, <1>5
  <2>4. CASE Boot[r].len > 0
    <3>1. Boot[r].base \in Cells(Boot[r])
      BY <2>4, <1>2
    <3> QED BY <3>1, <2>1, <2>2, <1>2, <1>4, <1>5
  <2> QED BY <2>3, <2>4, <1>2
<1> QED BY <1>2, <1>5, <1>6, <1>7

LEMMA ServesRun ==
  ASSUME Geometry, NEW r \in Slots, IsRoot(r), NEW lo \in AtHome(r), NEW hi \in AtHome(r),
         lo..hi \subseteq AtHome(r), hi >= lo
  PROVE  pool_can_serve(r, hi - lo + 1)
<1>1. PICK F : F = mem[r].free
  OBVIOUS
<1>2. /\ mem[r] \in MemRec /\ F \in Seq(Node) /\ mem[r].root = r
      /\ mem[r].base \in Nat /\ mem[r].len \in Nat
      /\ DOMAIN F = 1..Len(F)
      /\ \A i \in 1..Len(F) : Top(F[i]) < mem[r].base
  <2>1. mem[r] \in MemRec
    BY DEF Geometry, MemType
  <2>2. ListOK(mem[r], Boot[r].base)
    BY DEF Geometry, RootsOK
  <2> QED BY <2>1, <2>2, <1>1 DEF IsRoot, MemRec, ListOK
<1>3. \A i \in 1..Len(F) : F[i].base \in Nat /\ F[i].len \in Nat /\ Top(F[i]) \in Nat
                           /\ Top(F[i]) = F[i].base + F[i].len
  BY <1>2, NodeType
<1>4. \A c : c \in AtHome(r) <=>
         \/ c \in Int /\ mem[r].base <= c /\ c < mem[r].base + mem[r].len
         \/ \E i \in 1..Len(F) : c \in Int /\ F[i].base <= c /\ c < Top(F[i])
  BY <1>1, <1>2, InHome, AtHomeIs
<1>5. lo \in Int /\ hi \in Int
  BY <1>4
<1>6. CASE mem[r].base <= lo
  <2>1. \A i \in 1..Len(F) : ~(hi < Top(F[i]))
    BY <1>2, <1>3, <1>5, <1>6
  <2>2. hi < mem[r].base + mem[r].len
    BY <2>1, <1>4
  <2>3. mem[r].len >= hi - lo + 1
    BY <2>2, <1>2, <1>5, <1>6
  <2> QED BY <2>3 DEF pool_can_serve
<1>7. CASE ~(mem[r].base <= lo)
  <2>1. PICK k \in 1..Len(F) : F[k].base <= lo /\ lo < Top(F[k])
    BY <1>4, <1>7
  <2>2. F[k].base \in Nat /\ F[k].len \in Nat /\ Top(F[k]) \in Nat
        /\ Top(F[k]) = F[k].base + F[k].len
    BY <1>3
  <2>3. Top(F[k]) \notin AtHome(r)
    BY <1>1, <1>2, GapAbove
  <2>4. hi < Top(F[k])
    <3>1. SUFFICES ASSUME ~(hi < Top(F[k])) PROVE FALSE
      OBVIOUS
    <3>2. Top(F[k]) \in lo..hi
      BY <3>1, <2>1, <2>2, <1>5
    <3> QED BY <3>2, <2>3
  <2>5. F[k].len >= hi - lo + 1
    BY <2>1, <2>2, <2>4, <1>5
  <2>6. PICK n : n = hi - lo + 1
    OBVIOUS
  <2>7. FirstFit(mem[r], n) # 0
    <3>1. FirstFit(mem[r], n) = 0 <=> \A i \in 1..Len(mem[r].free) : ~(mem[r].free[i].len >= n)
      BY <1>1, <1>2, FirstFitNode
    <3> QED BY <3>1, <2>5, <2>6, <1>1
  <2> QED BY <2>6, <2>7, <1>2 DEF pool_can_serve
<1> QED BY <1>6, <1>7

\* Whatever order its loans come home in, a pool is put together again: with nothing
\* on loan or lost it is as boot made it, and it serves every length it holds in one
\* run (pool_insert_range, pool_fold_frontier).
THEOREM PoolCoalesced == Spec => []Coalesced
<1>1. MemoryIInv => Coalesced
  BY WholeAgainHolds, ServesRun DEF MemoryIInv, Coalesced, WholeAgain, ServesEveryRun
<1> QED BY <1>1, MemoryInvariant, PTL

-----------------------------------------------------------------------------
(* The contract: where each grain is, step by step.                        *)

\* Place says where a grain is: the holdings are apart, so it is in one of them.
PlaceOK ==
  \A c :
    /\ Place(c) \in Slots \cup {InPool, InSlab, Lost}
    /\ Place(c) = InSlab <=> c \in donated
    /\ \A s \in Slots : Place(c) = s <=> Derived(s) /\ c \in Cells(mem[s])
    /\ Place(c) = InPool <=> \E r \in Slots : IsRoot(r) /\ c \in AtHome(r)

LEMMA PlaceNames ==
  /\ InPool = 0 /\ InSlab = -1 /\ Lost = -2
  /\ InPool \notin Slots /\ InSlab \notin Slots /\ Lost \notin Slots
  /\ InPool # InSlab /\ InPool # Lost /\ InSlab # Lost
BY SlotFacts DEF InPool, InSlab, Lost

LEMMA PlaceHolds == Geometry => PlaceOK
<1> SUFFICES ASSUME Geometry, NEW c
             PROVE  /\ Place(c) \in Slots \cup {InPool, InSlab, Lost}
                    /\ Place(c) = InSlab <=> c \in donated
                    /\ \A s \in Slots : Place(c) = s <=> Derived(s) /\ c \in Cells(mem[s])
                    /\ Place(c) = InPool <=> \E r \in Slots : IsRoot(r) /\ c \in AtHome(r)
  BY DEF PlaceOK
<1> DEFINE D == \E s \in Slots : Derived(s) /\ c \in Cells(mem[s])
           H == \E r \in Slots : IsRoot(r) /\ c \in AtHome(r)
           w == CHOOSE s \in Slots : Derived(s) /\ c \in Cells(mem[s])
<1>0. /\ D => c \notin donated /\ ~H
      /\ H => c \notin donated
      /\ \A s, q \in Slots : Derived(s) /\ c \in Cells(mem[s]) /\ Derived(q) /\ c \in Cells(mem[q])
                               => s = q
  BY DEF Geometry, Apart
<1>1. /\ c \in donated => Place(c) = InSlab
      /\ D => Place(c) = w
      /\ H => Place(c) = InPool
      /\ c \notin donated /\ ~D /\ ~H => Place(c) = Lost
  <2>1. Place(c) = CASE c \in donated -> InSlab [] D -> w [] H -> InPool [] OTHER -> Lost
    BY DEF Place
  <2> HIDE DEF D, H, w
  <2> QED BY <2>1, <1>0
<1>2. D => w \in Slots /\ Derived(w) /\ c \in Cells(mem[w])
  OBVIOUS
<1> HIDE DEF w
<1>4. CASE D
  BY <1>0, <1>1, <1>2, <1>4, PlaceNames
<1>5. CASE c \in donated
  BY <1>0, <1>1, <1>5, PlaceNames
<1>6. CASE H
  BY <1>0, <1>1, <1>6, PlaceNames
<1>7. CASE ~D /\ ~H /\ c \notin donated
  BY <1>1, <1>7, PlaceNames
<1> QED BY <1>4, <1>5, <1>6, <1>7

LEMMA PlaceHoldsNext == Geometry' => PlaceOK'
BY PlaceHolds, PTL

\* What a step must show of a grain that stays where it is.
LEMMA StaysPut ==
  ASSUME PlaceOK, PlaceOK', NEW c,
         c \in donated' <=> c \in donated,
         \A s \in Slots : Derived(s)' /\ c \in Cells(mem'[s]) <=> Derived(s) /\ c \in Cells(mem[s]),
         (\E r \in Slots : IsRoot(r)' /\ c \in AtHome(r)') <=>
           (\E r \in Slots : IsRoot(r) /\ c \in AtHome(r))
  PROVE  Place(c)' = Place(c)
<1> DEFINE x == Place(c)
           y == Place(c)'
<1>1. /\ x \in Slots \cup {InPool, InSlab, Lost}
      /\ x = InSlab <=> c \in donated
      /\ \A s \in Slots : x = s <=> Derived(s) /\ c \in Cells(mem[s])
      /\ x = InPool <=> \E r \in Slots : IsRoot(r) /\ c \in AtHome(r)
  BY DEF PlaceOK
<1>2. /\ y \in Slots \cup {InPool, InSlab, Lost}
      /\ y = InSlab <=> c \in donated'
      /\ \A s \in Slots : y = s <=> Derived(s)' /\ c \in Cells(mem'[s])
      /\ y = InPool <=> \E r \in Slots : IsRoot(r)' /\ c \in AtHome(r)'
  BY DEF PlaceOK, InPool, InSlab, Lost
<1> HIDE DEF x, y
<1>3. y = x
  BY <1>1, <1>2
<1> QED BY <1>3 DEF x, y

LEMMA PlaceNext ==
  ASSUME PlaceOK', NEW c
  PROVE  /\ Place(c)' \in Slots \cup {InPool, InSlab, Lost}
         /\ Place(c)' = InSlab <=> c \in donated'
         /\ \A s \in Slots : Place(c)' = s <=> Derived(s)' /\ c \in Cells(mem'[s])
         /\ Place(c)' = InPool <=> \E r \in Slots : IsRoot(r)' /\ c \in AtHome(r)'
BY DEF PlaceOK, InPool, InSlab, Lost

LEMMA Held ==
  ASSUME NEW x
  PROVE  \A c : c \in Contract!Of(x) <=> c \in AllCells /\ Place(c) = x
BY DEF Contract!Of

LEMMA Moved ==
  ASSUME NEW C, NEW x, \A c \in AllCells : Place(c)' = IF c \in C THEN x ELSE Place(c)
  PROVE  Contract!Move(C, x)
BY DEF Contract!Move

\* A step that moves no grain.
LEMMA NoneMoved ==
  ASSUME \A c \in AllCells : Place(c)' = Place(c)
  PROVE  UNCHANGED [c \in AllCells |-> Place(c)]
OBVIOUS

LEMMA ContractSame ==
  ASSUME Geometry, Geometry', donated' = donated,
         \A s \in Slots :
           /\ mem'[s].live = mem[s].live /\ mem'[s].base = mem[s].base
           /\ mem'[s].len = mem[s].len /\ mem'[s].root = mem[s].root
           /\ mem'[s].free = mem[s].free
  PROVE  UNCHANGED [c \in AllCells |-> Place(c)]
<1>1. PlaceOK /\ PlaceOK'
  BY PlaceHolds, PlaceHoldsNext
<1>2. \A s \in Slots : /\ Cells(mem'[s]) = Cells(mem[s])
                       /\ IsRoot(s)' <=> IsRoot(s)
                       /\ Derived(s)' <=> Derived(s)
  BY DEF Cells, Top, IsRoot, Derived
<1>3. \A r \in Slots : AtHome(r)' = AtHome(r)
  <2> SUFFICES ASSUME NEW r \in Slots PROVE HomeOf(mem'[r]) = HomeOf(mem[r])
    BY AtHomeIs, AtHomeIsNext
  <2> QED BY <1>2 DEF HomeOf
<1>4. ASSUME NEW c \in AllCells PROVE Place(c)' = Place(c)
  BY <1>1, <1>2, <1>3, StaysPut
<1> QED BY <1>4, NoneMoved

LEMMA ContractLend ==
  ASSUME PlaceOK, NEW from \in Slots \cup {InPool}, NEW new \in Slots, ~mem[new].live,
         NEW C, NEW a \in C, NEW b \in C, C = a..b, NEW r \in Roots, C \subseteq Cells(Boot[r]),
         \A c \in C : Place(c) = from, Contract!Move(C, new)
  PROVE  Contract!CNext
<1>1. C \subseteq AllCells
  BY InAllCells
<1>2. C \subseteq Contract!Of(from)
  BY <1>1, Held
<1>3. Contract!Of(new) = {}
  <2>1. ASSUME NEW c \in AllCells PROVE Place(c) # new
    BY DEF PlaceOK, Derived
  <2> QED BY <2>1, Held
<1>4. \E p \in {Cells(Boot[q]) : q \in Roots} : C \subseteq p
  OBVIOUS
<1>5. C # {}
  OBVIOUS
<1>6. Contract!Lend(from, C)
  BY <1>2, <1>3, <1>4, <1>5 DEF Contract!Lend
<1>7. \E f \in Slots \cup {InPool} :
        \E x, y \in Contract!Of(f) : Contract!Lend(f, x..y)
  BY <1>2, <1>6
<1> QED BY <1>7, Zenon DEF Contract!CNext

LEMMA ContractSplit ==
  ASSUME Geometry, NEW s \in Slots, NEW len \in Nat, Split(s, len)
  PROVE  Contract!CNext
<1>1. Geometry' /\ len > 0 /\ donated' = donated
  BY SplitEffect
<1>2. PICK new \in Slots : ~mem[new].live /\
         \/ IsRoot(s) /\ \E b : CutFromPool(s, new, b, len)
         \/ Derived(s) /\ CutFromRegion(s, new, mem[s].root, len)
  BY SplitEffect
<1>3. PlaceOK /\ PlaceOK'
  BY <1>1, PlaceHolds, PlaceHoldsNext
<1>4. CASE IsRoot(s) /\ \E b : CutFromPool(s, new, b, len)
  <2>1. PICK a : CutFromPool(s, new, a, len)
    BY <1>4
  <2>2. PICK C : C = a..(a + len - 1)
    OBVIOUS
  <2>3. /\ a \in Nat /\ s \in Roots /\ Cells(mem'[new]) = C /\ C \subseteq AtHome(s)
        /\ AtHome(s)' = AtHome(s) \ C
        /\ \A q \in Slots : /\ IsRoot(q)' <=> IsRoot(q)
                            /\ Derived(q)' <=> Derived(q) \/ q = new
                            /\ IsRoot(q) /\ q # s => AtHome(q)' = AtHome(q)
                            /\ Derived(q) => q # new /\ mem'[q] = mem[q]
    BY <2>1, <2>2 DEF CutFromPool
  <2>4. C \subseteq Cells(Boot[s])
    BY <2>3, <1>4, RootFacts
  <2>5. \A c \in C : Place(c) = InPool
    BY <2>3, <1>3, <1>4 DEF PlaceOK
  <2>6. ASSUME NEW c, c \in C PROVE Place(c)' = new
    BY <2>3, <2>6, <1>3, PlaceNext
  <2>7. ASSUME NEW c, c \notin C PROVE Place(c)' = Place(c)
    <3>1. \A q \in Slots : Derived(q)' /\ c \in Cells(mem'[q]) <=> Derived(q) /\ c \in Cells(mem[q])
      BY <2>3, <2>7
    <3>2. \A q \in Slots : IsRoot(q) => (c \in AtHome(q)' <=> c \in AtHome(q))
      BY <2>3, <2>7
    <3> QED BY <3>1, <3>2, <2>3, <1>1, <1>3, StaysPut
  <2>8. Contract!Move(C, new)
    BY <2>6, <2>7, Moved
  <2>9. PICK b : b = a + len - 1
    OBVIOUS
  <2>10. a \in C /\ b \in C /\ C = a..b
    BY <2>2, <2>3, <2>9, <1>1
  <2>11. PICK f \in Slots \cup {InPool} : f = InPool
    OBVIOUS
  <2>12. s \in Roots /\ PlaceOK /\ ~mem[new].live /\ \A c \in C : Place(c) = f
    BY <2>3, <2>5, <2>11, <1>2, <1>3
  <2> QED BY <2>4, <2>8, <2>10, <2>12, ContractLend
<1>5. CASE Derived(s) /\ CutFromRegion(s, new, mem[s].root, len)
  <2>1. PICK a : a = mem[s].base
    OBVIOUS
  <2>2. PICK C : C = a..(a + len - 1)
    OBVIOUS
  <2>3. PICK r : r = mem[s].root
    OBVIOUS
  <2>4. /\ a \in Nat /\ r \in Roots /\ new # s /\ Cells(mem'[new]) = C /\ C \subseteq Cells(mem[s])
        /\ Cells(mem[s]) \subseteq Cells(Boot[r])
        /\ Cells(mem'[s]) = Cells(mem[s]) \ C
        /\ \A q \in Slots : /\ IsRoot(q)' <=> IsRoot(q)
                            /\ Derived(q)' <=> Derived(q) \/ q = new
                            /\ IsRoot(q) => AtHome(q)' = AtHome(q)
                            /\ Derived(q) /\ q # s => q # new /\ mem'[q] = mem[q]
    BY <2>1, <2>2, <2>3, <1>5 DEF CutFromRegion
  <2>5. \A c \in C : Place(c) = s
    BY <2>4, <1>3, <1>5 DEF PlaceOK
  <2>6. ASSUME NEW c, c \in C PROVE Place(c)' = new
    BY <2>4, <2>6, <1>3, PlaceNext
  <2>7. ASSUME NEW c, c \notin C PROVE Place(c)' = Place(c)
    <3>1. ASSUME NEW q \in Slots
          PROVE  Derived(q)' /\ c \in Cells(mem'[q]) <=> Derived(q) /\ c \in Cells(mem[q])
      <4>1. CASE q = s
        BY <4>1, <2>4, <2>7, <1>5
      <4>2. CASE q = new
        BY <4>2, <2>4, <2>7, <1>2 DEF Derived
      <4>3. CASE q # s /\ q # new
        BY <4>3, <2>4
      <4> QED BY <4>1, <4>2, <4>3
    <3> QED BY <3>1, <2>4, <1>1, <1>3, StaysPut
  <2>8. Contract!Move(C, new)
    BY <2>6, <2>7, Moved
  <2>9. PICK b : b = a + len - 1
    OBVIOUS
  <2>10. a \in C /\ b \in C /\ C = a..b
    BY <2>2, <2>4, <2>9, <1>1
  <2>11. r \in Roots /\ PlaceOK /\ ~mem[new].live /\ C \subseteq Cells(Boot[r])
    BY <2>4, <1>2, <1>3
  <2> QED BY <2>5, <2>8, <2>10, <2>11, ContractLend
<1> QED BY <1>2, <1>4, <1>5

\* What one slot's going changes.
LEMMA FreedEffect ==
  ASSUME Geometry, NEW s \in Slots, mem' = [mem EXCEPT ![s] = Gone]
  PROVE  /\ \A q \in Slots : /\ IsRoot(q)' <=> IsRoot(q) /\ q # s
                             /\ Derived(q)' <=> Derived(q) /\ q # s
                             /\ q # s => mem'[q] = mem[q] /\ AtHome(q)' = AtHome(q)
<1>1. mem'[s] = Gone /\ \A q \in Slots : q # s => mem'[q] = mem[q]
  BY DEF Geometry, MemType
<1>2. \A q \in Slots : /\ IsRoot(q)' <=> IsRoot(q) /\ q # s
                       /\ Derived(q)' <=> Derived(q) /\ q # s
  BY <1>1, GoneFacts DEF IsRoot, Derived
<1>3. \A q \in Slots : q # s => AtHome(q)' = AtHome(q)
  BY <1>1, AtHomeIs, AtHomeIsNext
<1> QED BY <1>1, <1>2, <1>3

\* A holder's grains are those of its region.
LEMMA HeldCells ==
  ASSUME Geometry, PlaceOK, NEW s \in Slots, Derived(s)
  PROVE  /\ Contract!Of(s) = Cells(mem[s])
         /\ \A c \in Cells(mem[s]) : /\ c \in AllCells /\ c \notin donated
                                     /\ \A q \in Slots : IsRoot(q) => c \notin AtHome(q)
                                     /\ \A q \in Slots : Derived(q) /\ q # s => c \notin Cells(mem[q])
<1>1. Cells(mem[s]) \subseteq AllCells
  <2>1. mem[s].root \in Roots /\ Cells(mem[s]) \subseteq Cells(Boot[mem[s].root])
    BY DEF Geometry, Tied, Derived
  <2> QED BY <2>1, InAllCells
<1>2. Contract!Of(s) = Cells(mem[s])
  <2>1. ASSUME NEW c PROVE c \in Contract!Of(s) <=> c \in Cells(mem[s])
    <3>1. Place(c) = s <=> c \in Cells(mem[s])
      BY DEF PlaceOK
    <3> QED BY <3>1, <1>1, Held
  <2> QED BY <2>1
<1>3. \A c \in Cells(mem[s]) : /\ c \notin donated
                               /\ \A q \in Slots : IsRoot(q) => c \notin AtHome(q)
                               /\ \A q \in Slots : Derived(q) /\ q # s => c \notin Cells(mem[q])
  BY DEF Geometry, Apart
<1> QED BY <1>1, <1>2, <1>3

\* A pool with nothing on loan has no grain with a holder or in a slab.
LEMMA PoolIdle ==
  ASSUME Geometry, PlaceOK, NEW r \in Slots, IsRoot(r), mem[r].out_bytes = 0
  PROVE  /\ \A c \in Cells(Boot[r]) : Place(c) \in {InPool, Lost}
         /\ \A c \in Cells(Boot[r]) : Place(c) = InPool <=> c \in AtHome(r)
         /\ Cells(Boot[r]) \in {Cells(Boot[q]) : q \in Roots}
         /\ \A c : c \notin Cells(Boot[r]) => c \notin AtHome(r)
<1>1. r \in Roots /\ AtHome(r) \subseteq Cells(Boot[r]) /\ IsFiniteSet(Lent(r))
      /\ Cardinality(Lent(r)) = 0
  BY RootFacts
<1>2. Lent(r) = {}
  BY <1>1, FS_EmptySet
<1>3. ASSUME NEW q \in Slots, mem[q].live, NEW c \in Cells(Boot[r]), c \in Cells(Boot[mem[q].root])
      PROVE  mem[q].root = r
  <2>1. mem[q].root \in Roots
    BY <1>3 DEF Geometry, Tied
  <2> QED BY <2>1, <1>1, <1>3, BootsApart
<1>4. ASSUME NEW c \in Cells(Boot[r]) PROVE Place(c) \in {InPool, Lost}
  <2>1. c \notin donated
    BY <1>2, InLent
  <2>2. ASSUME NEW q \in Slots, Derived(q), c \in Cells(mem[q]) PROVE FALSE
    <3>1. c \in Cells(Boot[mem[q].root]) /\ mem[q].live
      BY <2>2 DEF Geometry, Tied, Derived
    <3>2. mem[q].root = r
      BY <3>1, <1>3
    <3> QED BY <3>2, <2>2, <1>2, InLent
  <2> QED BY <2>1, <2>2 DEF PlaceOK
<1>5. ASSUME NEW c \in Cells(Boot[r]) PROVE Place(c) = InPool <=> c \in AtHome(r)
  <2>1. ASSUME NEW q \in Slots, IsRoot(q), c \in AtHome(q) PROVE q = r
    <3>1. q \in Roots /\ c \in Cells(Boot[q])
      BY <2>1, RootFacts
    <3> QED BY <3>1, <1>1, BootsApart
  <2> QED BY <2>1 DEF PlaceOK
<1> QED BY <1>1, <1>4, <1>5

\* A region goes home or is lost, or the pool itself goes.
LEMMA ContractRelease ==
  ASSUME MemoryIInv, memory_release_if_idle
  PROVE  Contract!CNext \/ UNCHANGED [c \in AllCells |-> Place(c)]
<1>0. PICK s : s = release
  OBVIOUS
<1>1. PICK r : r = mem[s].root
  OBVIOUS
<1>2. PICK room : room = node_free
  OBVIOUS
<1>3. /\ s # 0 /\ donated' = donated
      /\ IF ~idle(s) THEN mem' = mem
         ELSE IF r = s THEN mem' = [mem EXCEPT ![s] = Gone]
         ELSE mem' = [mem EXCEPT ![r] = pool_return(@, mem[s], room), ![s] = Gone]
  <2>1. release # 0 /\ donated' = donated
    BY DEF memory_release_if_idle
  <2>2. IF ~idle(release) THEN mem' = mem
        ELSE IF mem[release].root = release THEN mem' = [mem EXCEPT ![release] = Gone]
        ELSE mem' = [mem EXCEPT ![mem[release].root] = pool_return(@, mem[release], node_free),
                                ![release] = Gone]
    BY Zenon DEF memory_release_if_idle
  <2> QED BY <2>1, <2>2, <1>0, <1>1, <1>2
<1>4. Geometry /\ Geometry' /\ PlaceOK /\ PlaceOK' /\ mem \in [Slots -> MemRec] /\ s \in Slots
  <2>1. s \in Slots
    BY <1>0, <1>3, SlotFacts DEF MemoryIInv, CtlType
  <2>2. MemoryIInv'
    BY StepRelease
  <2> QED BY <2>1, <2>2, PlaceHolds, PlaceHoldsNext DEF MemoryIInv, Geometry, MemType
<1>5. CASE ~idle(s)
  <2>1. mem' = mem
    BY <1>3, <1>5
  <2> QED BY <2>1, <1>3, <1>4, ContractSame
<1>6. CASE idle(s) /\ r = s
  <2>1. mem' = [mem EXCEPT ![s] = Gone]
    BY <1>3, <1>6
  <2>2. IsRoot(s) /\ mem[s].out_bytes = 0
    BY <1>1, <1>6 DEF idle, IsRoot
  <2>3. \A q \in Slots : /\ IsRoot(q)' <=> IsRoot(q) /\ q # s
                         /\ Derived(q)' <=> Derived(q) /\ q # s
                         /\ q # s => mem'[q] = mem[q] /\ AtHome(q)' = AtHome(q)
    BY <2>1, <1>4, FreedEffect
  <2>4. PICK P : P = Cells(Boot[s])
    OBVIOUS
  <2>5. /\ \A c \in P : Place(c) \in {InPool, Lost}
        /\ \A c \in P : Place(c) = InPool <=> c \in AtHome(s)
        /\ P \in {Cells(Boot[q]) : q \in Roots}
        /\ \A c : c \notin P => c \notin AtHome(s)
    BY <2>2, <2>4, <1>4, PoolIdle
  <2>6. PICK C : C = {c \in P : Place(c) = InPool}
    OBVIOUS
  <2>7. \A c : c \in C <=> c \in AtHome(s)
    BY <2>5, <2>6
  <2>8. P \subseteq AllCells
    BY <2>5 DEF AllCells
  <2>9. ASSUME NEW c, c \in C PROVE Place(c)' = Lost
    <3>1. c \in AtHome(s)
      BY <2>7, <2>9
    <3>2. c \notin donated'
      BY <3>1, <2>2, <1>3, <1>4 DEF Geometry, Apart
    <3>3. \A q \in Slots : ~(Derived(q)' /\ c \in Cells(mem'[q]))
      BY <3>1, <2>2, <2>3, <1>4 DEF Geometry, Apart
    <3>4. ASSUME NEW q \in Slots, IsRoot(q)', c \in AtHome(q)' PROVE FALSE
      <4>1. IsRoot(q) /\ q # s /\ c \in AtHome(q)
        BY <3>4, <2>3
      <4> QED BY <4>1, <3>1, <2>2, <1>4, PoolsApart
    <3> QED BY <3>2, <3>3, <3>4, <1>4, PlaceNext
  <2>10. ASSUME NEW c, c \notin C PROVE Place(c)' = Place(c)
    <3>1. \A q \in Slots : Derived(q)' /\ c \in Cells(mem'[q]) <=> Derived(q) /\ c \in Cells(mem[q])
      BY <2>2, <2>3 DEF IsRoot, Derived
    <3>2. (\E q \in Slots : IsRoot(q)' /\ c \in AtHome(q)') <=>
            (\E q \in Slots : IsRoot(q) /\ c \in AtHome(q))
      BY <2>3, <2>7, <2>10
    <3> QED BY <3>1, <3>2, <1>3, <1>4, StaysPut
  <2>11. Contract!Move(C, Lost)
    BY <2>9, <2>10, Moved
  <2>12. Contract!Close(P)
    <3>1. \A c \in P : [d \in AllCells |-> Place(d)][c] = Place(c)
      BY <2>8
    <3>2. {c \in P : [d \in AllCells |-> Place(d)][c] = InPool} = C
      BY <3>1, <2>6
    <3> QED BY <3>1, <3>2, <2>5, <2>11 DEF Contract!Close
  <2> QED BY <2>5, <2>12 DEF Contract!CNext
<1>7. CASE idle(s) /\ r # s
  <2>1. mem' = [mem EXCEPT ![r] = pool_return(mem[r], mem[s], room), ![s] = Gone]
    BY <1>3, <1>7
  <2>2. Derived(s) /\ mem[s].live
    BY <1>1, <1>7 DEF idle, Derived
  <2>3. r \in Slots /\ mem[s] \in MemRec
    BY <2>2, <1>1, <1>4, BootFacts DEF Geometry, Tied
  <2>4. CASE mem[s].len = 0
    <3>1. pool_return(mem[r], mem[s], room) = mem[r]
      BY <2>4 DEF pool_return
    <3>2. mem' = [mem EXCEPT ![s] = Gone]
      BY <3>1, <2>1, <2>3, <1>4
    <3>3. \A q \in Slots : /\ IsRoot(q)' <=> IsRoot(q) /\ q # s
                           /\ Derived(q)' <=> Derived(q) /\ q # s
                           /\ q # s => mem'[q] = mem[q] /\ AtHome(q)' = AtHome(q)
      BY <3>2, <1>4, FreedEffect
    <3>4. Cells(mem[s]) = {}
      BY <2>3, <2>4 DEF Cells, Top, MemRec
    <3>5. ASSUME NEW c PROVE Place(c)' = Place(c)
      <4>1. \A q \in Slots : Derived(q)' /\ c \in Cells(mem'[q]) <=> Derived(q) /\ c \in Cells(mem[q])
        BY <3>3, <3>4
      <4>2. \A q \in Slots : IsRoot(q)' /\ c \in AtHome(q)' <=> IsRoot(q) /\ c \in AtHome(q)
        BY <3>3, <2>2 DEF IsRoot, Derived
      <4> QED BY <4>1, <4>2, <1>3, <1>4, StaysPut
    <3> QED BY <3>5, NoneMoved
  <2>5. CASE mem[s].len # 0
    <3>1. mem[s].len > 0
      BY <2>3, <2>5 DEF MemRec
    <3>2. PICK p : p = pool_return(mem[r], mem[s], room)
      OBVIOUS
    <3>3. Returned(p, mem[r], Boot[r].base, mem[s])
      BY <3>1, <3>2, <2>2, <1>1, <1>4, ReturnFacts
    <3>4. mem' = [mem EXCEPT ![r] = p, ![s] = Gone]
      BY <3>2, <2>1
    <3>5. GoneHome(s, r, p)
      BY <3>1, <3>3, <3>4, <2>2, <1>1, <1>3, <1>4, ReturnGeometryEffect
    <3>6. PICK C : C = Cells(mem[s])
      OBVIOUS
    <3>7. /\ IsRoot(r)
          /\ AtHome(r)' = AtHome(r) \cup C \/ AtHome(r)' = AtHome(r)
          /\ \A q \in Slots : /\ IsRoot(q)' <=> IsRoot(q)
                              /\ Derived(q)' <=> Derived(q) /\ q # s
                              /\ q # s /\ q # r => AtHome(q)' = AtHome(q)
                              /\ Derived(q)' => mem'[q] = mem[q]
      BY <3>5, <3>6 DEF GoneHome
    <3>8. /\ Contract!Of(s) = C
          /\ \A c \in C : /\ c \notin donated
                          /\ \A q \in Slots : IsRoot(q) => c \notin AtHome(q)
                          /\ \A q \in Slots : Derived(q) /\ q # s => c \notin Cells(mem[q])
      BY <3>6, <2>2, <1>4, HeldCells
    <3>9. ASSUME NEW c, c \notin C PROVE Place(c)' = Place(c)
      <4>1. \A q \in Slots : Derived(q)' /\ c \in Cells(mem'[q]) <=> Derived(q) /\ c \in Cells(mem[q])
        BY <3>6, <3>7, <3>9
      <4>2. \A q \in Slots : IsRoot(q)' /\ c \in AtHome(q)' <=> IsRoot(q) /\ c \in AtHome(q)
        BY <3>7, <3>9, <2>2 DEF IsRoot, Derived
      <4> QED BY <4>1, <4>2, <1>3, <1>4, StaysPut
    <3>10. CASE AtHome(r)' = AtHome(r) \cup C
      <4>1. IsRoot(r)
        BY <3>5 DEF GoneHome
      <4>2. ASSUME NEW c, c \in C PROVE Place(c)' = InPool
        <5>1. IsRoot(r)' /\ c \in AtHome(r)'
          BY <4>1, <4>2, <3>7, <3>10, <2>3
        <5> QED BY <5>1, <2>3, <1>4, PlaceNext
      <4>3. Contract!Move(C, InPool)
        BY <4>2, <3>9, Moved
      <4>4. Contract!Return(s)
        BY <4>3, <3>8 DEF Contract!Return
      <4> QED BY <4>4, <1>4 DEF Contract!CNext
    <3>11. CASE AtHome(r)' = AtHome(r)
      <4>1. ASSUME NEW c, c \in C PROVE Place(c)' = Lost
        <5>1. c \notin donated'
          BY <4>1, <3>8, <1>3
        <5>2. \A q \in Slots : ~(Derived(q)' /\ c \in Cells(mem'[q]))
          BY <4>1, <3>7, <3>8
        <5>3. \A q \in Slots : ~(IsRoot(q)' /\ c \in AtHome(q)')
          BY <4>1, <3>7, <3>8, <3>11, <2>2 DEF IsRoot, Derived
        <5> QED BY <5>1, <5>2, <5>3, <1>4, PlaceNext
      <4>2. Contract!Move(C, Lost)
        BY <4>1, <3>9, Moved
      <4>3. Contract!Return(s)
        BY <4>2, <3>8 DEF Contract!Return
      <4> QED BY <4>3, <1>4 DEF Contract!CNext
    <3> QED BY <3>7, <3>10, <3>11
  <2> QED BY <2>4, <2>5
<1> QED BY <1>5, <1>6, <1>7

\* A region's grains, or those of a pool's cursor, become a slab's.
LEMMA ContractDonate ==
  ASSUME MemoryIInv, NEW s \in Slots, slab_donate(s)
  PROVE  Contract!CNext
<1>1. /\ mem[s].refs = 1 /\ mem[s].len > 0
      /\ mem[s].root = s => mem[s].out_bytes = 0
      /\ mem' = [mem EXCEPT ![s] = Gone]
      /\ donated' = donated \cup Cells(mem[s])
  BY DEF slab_donate
<1>2. Geometry /\ Geometry' /\ PlaceOK /\ PlaceOK' /\ mem[s] \in MemRec /\ mem[s].live
  <2>1. MemoryIInv'
    BY StepDonate
  <2>2. Geometry /\ Geometry'
    BY <2>1 DEF MemoryIInv
  <2>3. mem[s].live /\ mem[s] \in MemRec
    BY <1>1, <2>2, LiveSlot DEF Geometry, MemType
  <2> QED BY <2>2, <2>3, PlaceHolds, PlaceHoldsNext
<1>3. \A q \in Slots : /\ IsRoot(q)' <=> IsRoot(q) /\ q # s
                       /\ Derived(q)' <=> Derived(q) /\ q # s
                       /\ q # s => mem'[q] = mem[q] /\ AtHome(q)' = AtHome(q)
  BY <1>1, <1>2, FreedEffect
<1>4. PICK C : C = Cells(mem[s])
  OBVIOUS
<1>5. ASSUME NEW c, c \in C PROVE Place(c)' = InSlab
  BY <1>1, <1>2, <1>4, <1>5, PlaceNext
<1>6. CASE Derived(s)
  <2>1. Contract!Of(s) = C
    BY <1>2, <1>4, <1>6, HeldCells
  <2>2. ASSUME NEW c, c \notin C PROVE Place(c)' = Place(c)
    <3>1. \A q \in Slots : Derived(q)' /\ c \in Cells(mem'[q]) <=> Derived(q) /\ c \in Cells(mem[q])
      BY <2>2, <1>3, <1>4
    <3>2. \A q \in Slots : IsRoot(q)' /\ c \in AtHome(q)' <=> IsRoot(q) /\ c \in AtHome(q)
      BY <1>3, <1>6 DEF IsRoot, Derived
    <3>3. c \in donated' <=> c \in donated
      BY <2>2, <1>1, <1>4
    <3> QED BY <3>1, <3>2, <3>3, <1>2, StaysPut
  <2>3. Contract!Move(C, InSlab)
    BY <2>2, <1>5, Moved
  <2>4. Contract!Keep(s)
    BY <2>1, <2>3 DEF Contract!Keep
  <2> QED BY <2>4 DEF Contract!CNext
<1>7. CASE IsRoot(s)
  <2>1. mem[s].out_bytes = 0
    BY <1>1, <1>7 DEF IsRoot
  <2>2. PICK P : P = Cells(Boot[s])
    OBVIOUS
  <2>3. /\ \A c \in P : Place(c) \in {InPool, Lost}
        /\ \A c \in P : Place(c) = InPool <=> c \in AtHome(s)
        /\ P \in {Cells(Boot[q]) : q \in Roots}
        /\ \A c : c \notin P => c \notin AtHome(s)
    BY <2>1, <2>2, <1>2, <1>7, PoolIdle
  <2>4. C \subseteq AtHome(s) /\ C \subseteq P
    <3>1. C \subseteq AtHome(s)
      BY <1>4 DEF AtHome
    <3> QED BY <3>1, <2>3
  <2>5. P \subseteq AllCells
    BY <2>3 DEF AllCells
  <2>6. ASSUME NEW c, c \in P, c \notin C PROVE Place(c)' = Lost
    <3>1. c \notin donated /\ \A q \in Slots : ~(Derived(q) /\ c \in Cells(mem[q]))
      <4>1. Place(c) \in {InPool, Lost}
        BY <2>3, <2>6
      <4> QED BY <4>1, <1>2, PlaceNames DEF PlaceOK
    <3>2. c \notin donated'
      BY <3>1, <2>6, <1>1, <1>4
    <3>3. \A q \in Slots : ~(Derived(q)' /\ c \in Cells(mem'[q]))
      BY <3>1, <1>3
    <3>4. ASSUME NEW q \in Slots, IsRoot(q)', c \in AtHome(q)' PROVE FALSE
      <4>1. IsRoot(q) /\ q # s /\ c \in AtHome(q)
        BY <3>4, <1>3
      <4>2. Place(c) = InPool
        BY <4>1, <1>2 DEF PlaceOK
      <4>3. c \in AtHome(s)
        BY <4>2, <2>3, <2>6
      <4> QED BY <4>1, <4>3, <1>2, <1>7, PoolsApart
    <3> QED BY <3>2, <3>3, <3>4, <1>2, PlaceNext
  <2>7. ASSUME NEW c, c \notin P PROVE Place(c)' = Place(c)
    <3>1. c \notin C /\ c \notin AtHome(s)
      BY <2>3, <2>4, <2>7
    <3>2. \A q \in Slots : Derived(q)' /\ c \in Cells(mem'[q]) <=> Derived(q) /\ c \in Cells(mem[q])
      BY <1>3, <1>7 DEF IsRoot, Derived
    <3>3. \A q \in Slots : IsRoot(q)' /\ c \in AtHome(q)' <=> IsRoot(q) /\ c \in AtHome(q)
      BY <3>1, <1>3
    <3>4. c \in donated' <=> c \in donated
      BY <3>1, <1>1, <1>4
    <3> QED BY <3>2, <3>3, <3>4, <1>2, StaysPut
  <2>8. PICK a : a = mem[s].base
    OBVIOUS
  <2>9. PICK b : b = Top(mem[s]) - 1
    OBVIOUS
  <2>10. C = a..b /\ a \in C /\ b \in C
    <3>1. C = a..b
      BY <2>8, <2>9, <1>4 DEF Cells
    <3>2. a \in Int /\ b \in Int /\ a <= b
      BY <2>8, <2>9, <1>1, <1>2 DEF Top, MemRec
    <3> QED BY <3>1, <3>2
  <2>11. Contract!KeepPool(P, C)
    <3>1. \A c \in P : [d \in AllCells |-> Place(d)][c] = Place(c)
      BY <2>5
    <3>2. C \subseteq P \cap Contract!Of(InPool)
      BY <2>3, <2>4, <2>5, Held
    <3>3. ASSUME NEW c \in AllCells
          PROVE  Place(c)' = IF c \in C THEN InSlab ELSE IF c \in P THEN Lost ELSE Place(c)
      BY <2>6, <2>7, <1>5
    <3>4. [c \in AllCells |-> Place(c)]' =
            [c \in AllCells |-> IF c \in C THEN InSlab
                                ELSE IF c \in P THEN Lost ELSE [d \in AllCells |-> Place(d)][c]]
      BY <3>3
    <3> QED BY <3>1, <3>2, <3>4, <2>3 DEF Contract!KeepPool
  <2>12. \E p \in {Cells(Boot[q]) : q \in Roots} : \E x, y \in p : Contract!KeepPool(p, x..y)
    BY <2>3, <2>4, <2>10, <2>11
  <2> QED BY <2>12, Zenon DEF Contract!CNext
<1> QED BY <1>2, <1>6, <1>7 DEF Derived, IsRoot

LEMMA ContractInit ==
  ASSUME Init
  PROVE  Contract!CInit
<1>1. Geometry /\ PlaceOK
  BY MemoryInit, PlaceHolds DEF MemoryIInv
<1>2. ASSUME NEW c \in AllCells PROVE Place(c) = InPool
  <2>1. PICK r \in Roots : c \in Cells(Boot[r])
    BY InAllCells
  <2>2. r \in Slots /\ Boot[r].base \in Nat /\ Boot[r].len \in Nat
    BY <2>1, BootFacts
  <2>3. mem[r] = Region(Boot[r].base, Boot[r].len, r)
    BY <2>2 DEF Init
  <2>4. PICK a \in Nat : a = Boot[r].base
    BY <2>2
  <2>5. PICK n \in Nat : n = Boot[r].len
    BY <2>2
  <2>6. /\ Region(a, n, r).live /\ Region(a, n, r).root = r
        /\ Cells(Region(a, n, r)) = a..(a + n - 1)
    BY <2>2, RegionFacts
  <2>7. IsRoot(r) /\ Cells(mem[r]) = Cells(Boot[r])
    BY <2>3, <2>4, <2>5, <2>6 DEF IsRoot, Cells, Top
  <2>8. c \in AtHome(r)
    BY <2>1, <2>7 DEF AtHome
  <2> QED BY <2>2, <2>7, <2>8, <1>1 DEF PlaceOK
<1> QED BY <1>2 DEF Contract!CInit

LEMMA ContractStep ==
  ASSUME MemoryIInv, [Next]_vars
  PROVE  Contract!CNext \/ UNCHANGED [c \in AllCells |-> Place(c)]
<1>1. MemoryIInv' /\ Geometry /\ Geometry' /\ mem \in [Slots -> MemRec]
  BY MemoryStep DEF MemoryIInv, Geometry, MemType
<1>2. ASSUME NEW s \in Slots, NEW len \in 1..Grains, Split(s, len) PROVE Contract!CNext
  <2>1. len \in Nat
    BY <1>2
  <2> QED BY <2>1, <1>1, <1>2, ContractSplit
<1>3. ASSUME NEW s \in Slots, ref_object(s) \/ unref_object(s)
      PROVE  UNCHANGED [c \in AllCells |-> Place(c)]
  <2>1. PICK n : mem' = [mem EXCEPT ![s].refs = n] /\ donated' = donated
    BY <1>3 DEF ref_object, unref_object
  <2>2. \A q \in Slots :
          /\ mem'[q].live = mem[q].live /\ mem'[q].base = mem[q].base
          /\ mem'[q].len = mem[q].len /\ mem'[q].root = mem[q].root
          /\ mem'[q].free = mem[q].free
    BY <2>1, <1>1 DEF MemRec
  <2> QED BY <2>1, <2>2, <1>1, ContractSame
<1>4. ASSUME NEW s \in Slots, ref_region_row(s) \/ Unmap(s) \/ clear_domain(s)
      PROVE  UNCHANGED [c \in AllCells |-> Place(c)]
  <2>1. PICK n : mem' = [mem EXCEPT ![s].maps = n] /\ donated' = donated
    BY <1>4 DEF ref_region_row, Unmap, clear_domain, unref_region_row
  <2>2. \A q \in Slots :
          /\ mem'[q].live = mem[q].live /\ mem'[q].base = mem[q].base
          /\ mem'[q].len = mem[q].len /\ mem'[q].root = mem[q].root
          /\ mem'[q].free = mem[q].free
    BY <2>1, <1>1 DEF MemRec
  <2> QED BY <2>1, <2>2, <1>1, ContractSame
<1>5. ASSUME NEW handles, NEW rows, end_process(handles, rows)
      PROVE  UNCHANGED [c \in AllCells |-> Place(c)]
  <2>1. mem' = [s \in Slots |-> [mem[s] EXCEPT !.refs = mem[s].refs - handles[s]]]
        /\ donated' = donated
    BY <1>5 DEF end_process
  <2>2. \A q \in Slots :
          /\ mem'[q].live = mem[q].live /\ mem'[q].base = mem[q].base
          /\ mem'[q].len = mem[q].len /\ mem'[q].root = mem[q].root
          /\ mem'[q].free = mem[q].free
    BY <2>1, <1>1 DEF MemRec
  <2> QED BY <2>1, <2>2, <1>1, ContractSame
<1>6. ASSUME reap_unreferenced \/ process_ended \/ UNCHANGED vars
      PROVE  UNCHANGED [c \in AllCells |-> Place(c)]
  <2>1. mem' = mem /\ donated' = donated
    BY <1>6 DEF reap_unreferenced, process_ended, vars
  <2> QED BY <2>1, <1>1, ContractSame
<1>7. ASSUME NEW s \in Slots, slab_donate(s) PROVE Contract!CNext
  BY <1>7, ContractDonate
<1>8. ASSUME memory_release_if_idle
      PROVE  Contract!CNext \/ UNCHANGED [c \in AllCells |-> Place(c)]
  BY <1>8, ContractRelease
<1> QED BY <1>2, <1>3, <1>4, <1>5, <1>6, <1>7, <1>8 DEF Next, Operate, ProcessEnds

\* The pool implements its contract: whatever its free lists and cursors do, a grain
\* moves only from the pool or one holder to a new one, from a holder home (or is
\* lost), or into the kernel (Split, memory_release_if_idle, slab_donate).
THEOREM PoolImplementsContract == Spec => KeepsPoolContract
<1>1. Init => Contract!CInit
  BY ContractInit
<1>2. MemoryIInv /\ [Next]_vars => [Contract!CNext]_([c \in AllCells |-> Place(c)])
  BY ContractStep
<1> QED BY <1>1, <1>2, MemoryInvariant, PTL DEF Spec, KeepsPoolContract, Contract!CSpec
=============================================================================

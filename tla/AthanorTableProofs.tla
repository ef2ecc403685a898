------------------------- MODULE AthanorTableProofs -------------------------
(***************************************************************************)
(* What AthanorTable promises, proved for every table, every number of     *)
(* workers and every bound.                                                *)
(***************************************************************************)
EXTENDS AthanorTable, FiniteSetTheorems, TLAPS

-----------------------------------------------------------------------------
(* Positions.                                                              *)

LEMMA RankGrows ==
  ASSUME NEW S, IsFiniteSet(S), S \subseteq Int
  PROVE  \A x, y \in S : Rank(S, x) = Rank(S, y) => x = y
<1>1. ASSUME NEW x \in S, NEW y \in S, x < y PROVE Rank(S, x) # Rank(S, y)
  <2> DEFINE X == {z \in S : z <= x}
             Y == {z \in S : z <= y}
  <2>1. IsFiniteSet(Y) /\ X \in SUBSET Y
    <3>1. \A z \in S : z <= x => z <= y
      BY <1>1
    <3>2. Y \in SUBSET S /\ X \in SUBSET Y
      BY <3>1
    <3> QED BY <3>2, FS_Subset
  <2>2. y \in Y /\ y \notin X
    <3>1. x \in Int /\ y \in Int
      OBVIOUS
    <3> QED BY <1>1, <3>1
  <2> HIDE DEF X, Y
  <2>3. Cardinality(X) # Cardinality(Y)
    BY <2>1, <2>2, FS_Subset
  <2> QED BY <2>3 DEF Rank, X, Y
<1> SUFFICES ASSUME NEW x \in S, NEW y \in S, Rank(S, x) = Rank(S, y), x # y PROVE FALSE
  OBVIOUS
<1>2. x < y \/ y < x
  OBVIOUS
<1> QED BY <1>1, <1>2

\* Counted from another origin, a set has the same ranks.
LEMMA RankMoves ==
  ASSUME NEW S, IsFiniteSet(S), S \subseteq Int, NEW d \in Int, NEW x \in S
  PROVE  Rank({s - d : s \in S}, x - d) = Rank(S, x)
<1> DEFINE T == {s - d : s \in S}
           X == {y \in S : y <= x}
           Y == {y \in T : y <= x - d}
           f == [y \in X |-> y - d]
<1>1. IsFiniteSet(X)
  <2>1. X \in SUBSET S
    OBVIOUS
  <2> QED BY <2>1, FS_Subset
<1>2. f \in Bijection(X, Y)
  <2>1. \A y \in X : y \in Int /\ y - d \in Y
    OBVIOUS
  <2>2. \A y, z \in X : f[y] = f[z] => y = z
    BY <2>1
  <2>3. \A t \in Y : \E y \in X : f[y] = t
    <3> SUFFICES ASSUME NEW t \in Y PROVE \E y \in X : f[y] = t
      OBVIOUS
    <3>1. PICK s \in S : t = s - d
      OBVIOUS
    <3>2. s \in X
      BY <3>1
    <3> QED BY <3>1, <3>2
  <2>4. f \in [X -> Y]
    BY <2>1
  <2> HIDE DEF f
  <2> QED BY <2>2, <2>3, <2>4 DEF Bijection, Injection, IsInjective, Surjection
<1>3. Cardinality(Y) = Cardinality(X)
  BY <1>1, <1>2, FS_Bijection DEF ExistsBijection
<1> QED BY <1>3 DEF Rank

\* As many are missing as there are positions of them.
LEMMA MissingCount ==
  ASSUME NEW S, IsFiniteSet(S), S \subseteq Int, NEW miss
  PROVE  Cardinality(MissingIn(S, miss)) = Cardinality(S \cap miss)
<1> DEFINE X == S \cap miss
           Y == MissingIn(S, miss)
           f == [x \in X |-> Rank(S, x)]
<1>1. IsFiniteSet(X)
  BY FS_Intersection
<1>2. f \in Bijection(X, Y)
  <2>1. Y = {Rank(S, x) : x \in X}
    BY DEF MissingIn
  <2>2. \A x, y \in X : f[x] = f[y] => x = y
    BY RankGrows
  <2>3. \A t \in Y : \E x \in X : f[x] = t
    BY <2>1
  <2>4. f \in [X -> Y]
    BY <2>1
  <2> HIDE DEF f, Y
  <2> QED BY <2>2, <2>3, <2>4 DEF Bijection, Injection, IsInjective, Surjection
<1> QED BY <1>1, <1>2, FS_Bijection DEF ExistsBijection

\* Whatever a writer leaves out, the positions that survive are those in the
\* batch of the rows that are left.
LEMMA DroppedSurvive ==
  ASSUME NEW S, IsFiniteSet(S), S \subseteq Int, NEW d \in Int, NEW miss
  PROVE  Dropped({s - d : s \in S}, MissingIn(S, miss)) = {s - d : s \in S \ miss}
<1>1. \A s \in S : Rank({t - d : t \in S}, s - d) = Rank(S, s)
  BY RankMoves
<1>2. \A s \in S : Rank(S, s) \in MissingIn(S, miss) <=> s \in miss
  BY RankGrows DEF MissingIn
<1> QED BY <1>1, <1>2 DEF Dropped

LEMMA NatLeast ==
  ASSUME NEW T, T \subseteq Nat, T # {}
  PROVE  \E n \in T : \A m \in T : n <= m
<1>1. IsWellFoundedOn(OpToRel(<, Nat), Nat)
  BY NatLessThanWellFounded
<1>2. PICK n \in T : \A m \in T : <<m, n>> \notin OpToRel(<, Nat)
  BY <1>1, WFMin
<1>3. \A m \in T : ~(m < n)
  BY <1>2 DEF OpToRel
<1> QED BY <1>3

LEMMA NatSetInduction ==
  ASSUME NEW S, 0 \in S, \A n \in Nat : n \in S => n + 1 \in S
  PROVE  Nat \subseteq S
<1> SUFFICES ASSUME Nat \ S # {} PROVE FALSE
  OBVIOUS
<1>1. PICK n \in Nat \ S : \A m \in Nat \ S : n <= m
  BY NatLeast
<1>2. n # 0 /\ n - 1 \in Nat /\ n - 1 \in S
  BY <1>1
<1>3. (n - 1) + 1 \in S /\ (n - 1) + 1 = n
  BY <1>2
<1> QED BY <1>1, <1>3

-----------------------------------------------------------------------------
(* Batches and what the writers leave out of them.                         *)

LEMMA BatchFacts ==
  ASSUME NEW a \in AttemptType, a.after <= LastOf(a.pass)
  PROVE  /\ BatchLen(a) \in Nat /\ a.after \in Nat /\ a.read \in Nat /\ LastOf(a.pass) \in Nat
         /\ a.after + BatchLen(a) <= LastOf(a.pass) /\ a.read + BatchLen(a) <= PageLimit
         /\ BatchLen(a) = 0 => a.after = LastOf(a.pass) \/ a.read = PageLimit
         /\ IsFiniteSet(Batch(a)) /\ Batch(a) \subseteq Nat
         /\ \A r : r \in Batch(a) <=> r \in Nat /\ a.after < r /\ r <= a.after + BatchLen(a)
<1>1. /\ a.after \in Nat /\ a.read \in Nat /\ LastOf(a.pass) \in Nat /\ a.read <= PageLimit
      /\ BatchSize \in Nat \ {0} /\ PageLimit \in Nat
  BY PageAssumption, TableAssumption DEF AttemptType, LastOf
<1>2. /\ BatchLen(a) \in Nat
      /\ a.after + BatchLen(a) <= LastOf(a.pass) /\ a.read + BatchLen(a) <= PageLimit
      /\ BatchLen(a) = 0 => a.after = LastOf(a.pass) \/ a.read = PageLimit
  BY <1>1 DEF BatchLen, Least
<1> HIDE DEF BatchLen
<1>3. IsFiniteSet(Batch(a))
  <2>1. a.after + 1 \in Int /\ a.after + BatchLen(a) \in Int
    BY <1>1, <1>2
  <2> QED BY <2>1, FS_Interval DEF Batch
<1>4. \A r : r \in Batch(a) <=> r \in Nat /\ a.after < r /\ r <= a.after + BatchLen(a)
  BY <1>1, <1>2 DEF Batch
<1> QED BY <1>1, <1>2, <1>3, <1>4

MissingUpTo(n) == UNION {missing[i] : i \in 1..n}

LEMMA MissingFacts ==
  ASSUME TypeOK
  PROVE  /\ MissingUpTo(0) = {} /\ MissingUpTo(Len(missing)) = LeftOut
         /\ \A n \in Nat : MissingUpTo(n + 1) = MissingUpTo(n) \cup missing[n + 1]
         /\ LeftOut \subseteq Rows /\ IsFiniteSet(LeftOut) /\ Len(missing) \in Nat
<1>1. missing \in Seq(SUBSET Rows) /\ Len(missing) \in Nat
  BY KeysAssumption DEF TypeOK
<1>2. MissingUpTo(0) = {}
  BY DEF MissingUpTo
<1>3. ASSUME NEW n \in Nat PROVE MissingUpTo(n + 1) = MissingUpTo(n) \cup missing[n + 1]
  <2>1. \A i : i \in 1..(n + 1) <=> i \in 1..n \/ i = n + 1
    OBVIOUS
  <2> QED BY <2>1 DEF MissingUpTo
<1>4. LeftOut \subseteq Rows
  BY <1>1 DEF LeftOut
<1>5. IsFiniteSet(Rows)
  BY FS_Interval, TableAssumption DEF Rows
<1>6. IsFiniteSet(LeftOut)
  BY <1>4, <1>5, FS_Subset
<1> QED BY <1>1, <1>2, <1>3, <1>4, <1>6 DEF MissingUpTo, LeftOut

\* What the checks leave of a batch after n of them.
Remains(a, n) ==
  [rows |-> Batch(a) \ MissingUpTo(n),
   surviving |-> {r - a.after : r \in Batch(a) \ MissingUpTo(n)},
   discarded |-> a.discarded + Cardinality(Batch(a) \cap MissingUpTo(n))]
First(a) == [rows |-> Batch(a), surviving |-> 1..BatchLen(a), discarded |-> a.discarded]

LEMMA RemainsFirst ==
  ASSUME TypeOK, NEW a \in AttemptType, a.after <= LastOf(a.pass)
  PROVE  Remains(a, 0) = First(a)
<1>1. 1..BatchLen(a) = {r - a.after : r \in Batch(a)}
  <2>1. \A r \in Batch(a) : r - a.after \in 1..BatchLen(a)
    BY BatchFacts
  <2>2. \A i \in 1..BatchLen(a) : i + a.after \in Batch(a) /\ i = (i + a.after) - a.after
    BY BatchFacts
  <2> QED BY <2>1, <2>2
<1>2. Batch(a) \ MissingUpTo(0) = Batch(a) /\ Batch(a) \cap MissingUpTo(0) = {}
  BY MissingFacts
<1>3. a.discarded \in Nat /\ Cardinality({}) = 0
  BY FS_EmptySet DEF AttemptType
<1>4. {r - a.after : r \in Batch(a) \ MissingUpTo(0)} = 1..BatchLen(a)
  BY <1>1, <1>2
<1>5. a.discarded + Cardinality(Batch(a) \cap MissingUpTo(0)) = a.discarded
  BY <1>2, <1>3
<1> QED BY <1>2, <1>4, <1>5 DEF Remains, First

LEMMA RemainsNext ==
  ASSUME TypeOK, NEW a \in AttemptType, a.after <= LastOf(a.pass), NEW n \in Nat
  PROVE  Remains(a, n + 1) = Check(Remains(a, n), missing[n + 1])
<1> DEFINE B == Batch(a)
           S == B \ MissingUpTo(n)
           miss == missing[n + 1]
<1>1. IsFiniteSet(B) /\ IsFiniteSet(S) /\ S \subseteq Int /\ a.after \in Int
  <2>1. IsFiniteSet(B) /\ B \subseteq Nat /\ a.after \in Nat
    BY BatchFacts
  <2>2. IsFiniteSet(S)
    BY <2>1, FS_Difference
  <2> QED BY <2>1, <2>2
<1>2. MissingUpTo(n + 1) = MissingUpTo(n) \cup miss
  BY MissingFacts
<1>3. B \ MissingUpTo(n + 1) = S \ miss
  BY <1>2
<1>4. Dropped({s - a.after : s \in S}, MissingIn(S, miss)) = {s - a.after : s \in S \ miss}
  BY <1>1, DroppedSurvive
<1>5. a.discarded + Cardinality(B \cap MissingUpTo(n + 1))
        = (a.discarded + Cardinality(B \cap MissingUpTo(n))) + Cardinality(MissingIn(S, miss))
  <2> DEFINE X == B \cap MissingUpTo(n)
             Y == S \cap miss
  <2>1. B \cap MissingUpTo(n + 1) = X \cup Y /\ X \cap Y = {}
    BY <1>2
  <2>2. IsFiniteSet(X) /\ IsFiniteSet(Y)
    BY <1>1, FS_Intersection
  <2>3. Cardinality(X \cap Y) = 0
    BY <2>1, FS_EmptySet
  <2>4. Cardinality(X \cup Y) = Cardinality(X) + Cardinality(Y) - Cardinality(X \cap Y)
    BY <2>2, FS_Union
  <2>5. Cardinality(X) \in Nat /\ Cardinality(Y) \in Nat /\ a.discarded \in Nat
    BY <2>2, FS_CardinalityType DEF AttemptType
  <2>6. Cardinality(MissingIn(S, miss)) = Cardinality(Y)
    BY <1>1, MissingCount
  <2> HIDE DEF X, Y
  <2>7. Cardinality(B \cap MissingUpTo(n + 1)) = Cardinality(X) + Cardinality(Y)
    <3>1. Cardinality(X \cup Y) = Cardinality(X) + Cardinality(Y)
      BY <2>3, <2>4, <2>5
    <3> QED BY <2>1, <3>1
  <2> QED BY <2>5, <2>6, <2>7 DEF X
<1>6. /\ Remains(a, n).rows = S /\ Remains(a, n).surviving = {s - a.after : s \in S}
      /\ Remains(a, n).discarded = a.discarded + Cardinality(B \cap MissingUpTo(n))
  BY DEF Remains
<1>7. Remains(a, n + 1) =
        [rows |-> S \ miss, surviving |-> {s - a.after : s \in S \ miss},
         discarded |-> (a.discarded + Cardinality(B \cap MissingUpTo(n)))
                         + Cardinality(MissingIn(S, miss))]
  BY <1>3, <1>5 DEF Remains
<1>8. Check(Remains(a, n), miss) =
        [rows |-> S \ miss, surviving |-> Dropped({s - a.after : s \in S}, MissingIn(S, miss)),
         discarded |-> (a.discarded + Cardinality(B \cap MissingUpTo(n)))
                         + Cardinality(MissingIn(S, miss))]
  BY <1>6, Zenon DEF Check
<1> QED BY <1>4, <1>7, <1>8, Zenon

LEMMA CheckedFacts ==
  ASSUME TypeOK, NEW a \in AttemptType, a.after <= LastOf(a.pass)
  PROVE  Checked(a) = Remains(a, Len(missing))
<1> DEFINE L == Len(missing)
           g == [n \in 0..L |-> Remains(a, n)]
           st[n \in 0..L] == IF n = 0 THEN [rows |-> Batch(a), surviving |-> 1..BatchLen(a),
                                            discarded |-> a.discarded]
                             ELSE Check(st[n - 1], missing[n])
<1>1. L \in Nat
  BY MissingFacts
<1>2. \A n \in 0..L : g[n] = IF n = 0 THEN [rows |-> Batch(a), surviving |-> 1..BatchLen(a),
                                            discarded |-> a.discarded]
                             ELSE Check(g[n - 1], missing[n])
  <2> SUFFICES ASSUME NEW n \in 0..L
               PROVE  g[n] = IF n = 0 THEN First(a) ELSE Check(g[n - 1], missing[n])
    BY Zenon DEF First
  <2>1. CASE n = 0
    BY <2>1, RemainsFirst
  <2>2. CASE n # 0
    <3>1. n - 1 \in Nat /\ n - 1 \in 0..L /\ (n - 1) + 1 = n
      BY <1>1, <2>2
    <3>2. Remains(a, (n - 1) + 1) = Check(Remains(a, n - 1), missing[(n - 1) + 1])
      BY <3>1, RemainsNext
    <3> QED BY <2>2, <3>1, <3>2
  <2> QED BY <2>1, <2>2
<1>3. g = [n \in 0..L |-> IF n = 0 THEN [rows |-> Batch(a), surviving |-> 1..BatchLen(a),
                                         discarded |-> a.discarded]
                          ELSE Check(g[n - 1], missing[n])]
  <2>1. g = [n \in 0..L |-> g[n]]
    OBVIOUS
  <2> HIDE DEF g
  <2> QED BY <1>2, <2>1, Zenon
<1> HIDE DEF g
<1>4. st = [n \in 0..L |-> IF n = 0 THEN [rows |-> Batch(a), surviving |-> 1..BatchLen(a),
                                          discarded |-> a.discarded]
                           ELSE Check(st[n - 1], missing[n])]
  BY <1>3, Zenon
<1>5. Checked(a) = st[L]
  BY Zenon DEF Checked
<1> HIDE DEF st
<1>6. \A n \in Nat : n \in 0..L => st[n] = Remains(a, n)
  <2> DEFINE S == {n \in Nat : n \in 0..L => st[n] = Remains(a, n)}
  <2>1. 0 \in S
    <3>1. 0 \in 0..L
      BY <1>1
    <3>2. st[0] = First(a)
      BY <1>4, <3>1, Zenon DEF First
    <3> QED BY <3>2, RemainsFirst
  <2>2. ASSUME NEW n \in Nat, n \in S PROVE n + 1 \in S
    <3> SUFFICES ASSUME n + 1 \in 0..L PROVE st[n + 1] = Remains(a, n + 1)
      OBVIOUS
    <3>1. n \in 0..L /\ (n + 1) - 1 = n /\ n + 1 # 0
      BY <1>1
    <3>2. st[n + 1] = Check(st[n], missing[n + 1])
      BY <1>4, <3>1
    <3> QED BY <2>2, <3>1, <3>2, RemainsNext
  <2>3. Nat \subseteq S
    BY <2>1, <2>2, NatSetInduction
  <2> QED BY <2>3
<1> QED BY <1>1, <1>5, <1>6

LEMMA LeftOutAdds ==
  ASSUME TypeOK, NEW l \in Nat, NEW m \in Nat, NEW n \in Nat, l <= m, m <= n
  PROVE  /\ LeftOutIn(l, n) = LeftOutIn(l, m) + LeftOutIn(m, n)
         /\ LeftOutIn(l, m) \in Nat /\ LeftOutIn(m, m) = 0
<1> DEFINE X == LeftOut \cap (l + 1)..m
           Y == LeftOut \cap (m + 1)..n
<1>1. IsFiniteSet(X) /\ IsFiniteSet(Y)
  BY MissingFacts, FS_Intersection
<1>2. X \cup Y = LeftOut \cap (l + 1)..n /\ X \cap Y = {}
  BY MissingFacts, TableAssumption DEF Rows
<1>3. Cardinality(X) \in Nat /\ Cardinality(Y) \in Nat
  BY <1>1, FS_CardinalityType
<1>4. Cardinality(X \cup Y) = Cardinality(X) + Cardinality(Y)
  <2>1. Cardinality(X \cap Y) = 0
    BY <1>2, FS_EmptySet
  <2>2. Cardinality(X \cup Y) = Cardinality(X) + Cardinality(Y) - Cardinality(X \cap Y)
    BY <1>1, FS_Union
  <2> QED BY <1>3, <2>1, <2>2
<1>5. LeftOutIn(m, m) = 0
  <2>1. LeftOut \cap (m + 1)..m = {}
    OBVIOUS
  <2> QED BY <2>1, FS_EmptySet DEF LeftOutIn
<1> HIDE DEF X, Y
<1>6. LeftOutIn(l, n) = Cardinality(X \cup Y)
  BY <1>2 DEF LeftOutIn
<1> QED BY <1>3, <1>4, <1>5, <1>6 DEF LeftOutIn, X, Y

-----------------------------------------------------------------------------
(* The invariant, of the first state, and what the steps have in common.   *)

LEMMA Constants ==
  ASSUME TypeOK
  PROVE  /\ become \in [Rows -> SUBSET Keys] /\ onConflict \in {"none", "nothing"}
         /\ Rows \subseteq Nat \ {0} /\ MaxRow \in Nat /\ MaxChild \in Nat
         /\ Boss \in [Rows -> 0..MaxRow] /\ \A r \in Rows : Boss[r] # 0 => Boss[r] \in Rows
         /\ ParentOf \in [Children -> Rows] /\ Children \subseteq Nat \ {0}
         /\ \A r : r \in Rows <=> r \in Nat \ {0} /\ r <= MaxRow
         /\ \A c : c \in Children <=> c \in Nat \ {0} /\ c <= MaxChild
         /\ None \notin Keys /\ None \notin Workers /\ "absent" \notin Keys /\ None # "absent"
         /\ PageLimit \in Nat \ {0}
<1>1. become \in [Rows -> SUBSET Keys] /\ onConflict \in {"none", "nothing"}
  BY KeysAssumption DEF TypeOK
<1>2. /\ MaxRow \in Nat /\ MaxChild \in Nat
      /\ Boss \in [Rows -> 0..MaxRow] /\ ParentOf \in [Children -> Rows]
  BY TableAssumption
<1> QED BY <1>1, <1>2, KeysAssumption, PageAssumption DEF Rows, Children

LEMMA JobStays ==
  ASSUME UNCHANGED job
  PROVE  /\ LeftOut' = LeftOut /\ (Deterministic' <=> Deterministic)
         /\ (KeepsApart' <=> KeepsApart)
         /\ \A r : Kept(r)' <=> Kept(r)
         /\ \A k, r : KeyOf(k, r)' <=> KeyOf(k, r)
         /\ \A k, b : Refers(k, b)' <=> Refers(k, b)
         /\ \A c, b : ChildRefers(c, b)' <=> ChildRefers(c, b)
         /\ \A m, n : LeftOutIn(m, n)' = LeftOutIn(m, n)
<1>1. become' = become /\ missing' = missing
  BY DEF job
<1> QED BY <1>1 DEF LeftOut, Deterministic, KeepsApart, Kept, KeyOf, Refers, ChildRefers, LeftOutIn

LEMMA IdleFacts ==
  /\ Idle \in AttemptType /\ NoKeys \in [Rows -> Keys \cup {None}]
  /\ Idle.pc = "off" /\ Idle.pass = "insert" /\ Idle.tx = {} /\ Idle.keys = NoKeys
  /\ Idle.after = 0 /\ Idle.read = 0 /\ Idle.discarded = 0
  /\ \A r \in Rows : NoKeys[r] = None
<1>1. NoKeys \in [Rows -> Keys \cup {None}] /\ \A r \in Rows : NoKeys[r] = None
  BY DEF NoKeys
<1>2. 0 \in 0..PageLimit
  BY PageAssumption
<1> QED BY <1>1, <1>2 DEF Idle, AttemptType

LEMMA InitInv == Init => IndInv
<1> SUFFICES ASSUME Init PROVE IndInv
  OBVIOUS
<1>1. TypeOK
  <2>1. faults \in 0..MaxFaults
    BY PageAssumption DEF Init
  <2>2. attempt \in [Workers -> AttemptType] /\ store \in [Rows -> Keys \cup {None}]
    BY IdleFacts DEF Init
  <2>3. dest \in [Keys -> [row : 0..MaxRow, boss : Keys \cup {None}]]
    <3>1. 0 \in 0..MaxRow
      BY TableAssumption
    <3> QED BY <3>1 DEF Init
  <2>4. childDest \in [Children -> Keys \cup {None, "absent"}]
    BY DEF Init
  <2> QED BY <2>1, <2>2, <2>3, <2>4 DEF Init, TypeOK
<1>2. /\ pass = "insert" /\ after = 0 /\ discarded = 0 /\ awaited = None /\ tries = 0
      /\ \A w \in Workers : attempt[w] = Idle
      /\ \A r \in Rows : store[r] = None
      /\ \A k \in Keys : dest[k].row = 0 /\ dest[k].boss = None
      /\ \A c \in Children : childDest[c] = "absent"
      /\ refused = FALSE
  BY DEF Init, NoKeys
<1>3. TypeInv
  <2>1. AttemptFacts(Idle)
    BY <1>2, IdleFacts, TableAssumption DEF AttemptFacts, LastOf
  <2>2. AwaitedFacts
    BY <1>2, TableAssumption DEF AwaitedFacts, LastOf
  <2> QED BY <1>1, <1>2, <2>1, <2>2 DEF TypeInv
<1>4. KeyInv
  <2>1. AttemptTrue(Idle)
    BY IdleFacts DEF AttemptTrue
  <2>2. StoreTrue /\ RowsTrue /\ BossesTrue /\ ChildrenTrue
    BY <1>2 DEF StoreTrue, RowsTrue, IsThere, BossesTrue, ChildrenTrue
  <2>3. FreshKeys
    BY <1>2, IdleFacts DEF FreshKeys
  <2> QED BY <1>2, <2>1, <2>2, <2>3 DEF KeyInv
<1>5. DoneInv
  <2>1. \A r \in Nat \ {0} : \A p \in {"insert", "update", "children"} : ~Through(p, r)
    BY <1>2 DEF Through
  <2>2. \A p, r : ~InHand(p, r)
    BY <1>2 DEF InHand
  <2> QED BY <1>1, <2>1, <2>2, Constants DEF DoneInv, Published, WrittenRows, WrittenBosses, WrittenChildren
<1>6. CountInv
  <2>1. Counted
    BY <1>1, <1>2, LeftOutAdds DEF Counted
  <2>2. Stale
    BY <1>2, IdleFacts DEF Stale, Runs
  <2>3. NotAhead
    BY <1>2 DEF NotAhead, Reach
  <2> QED BY <1>2, <2>1, <2>2, <2>3 DEF CountInv, RetriesGoThrough
<1> QED BY <1>3, <1>4, <1>5, <1>6 DEF IndInv

\* The attempt of a worker goes on; the others are as they were.
LEMMA AttemptMoves ==
  ASSUME TypeInv, NEW w \in Workers, NEW b \in AttemptType, Becomes(w, b),
         pass # "insert" => pass' # "insert",
         pass \in {"children", "done"} => pass' \in {"children", "done"},
         AttemptFacts(attempt[w])'
  PROVE  /\ attempt' \in [Workers -> AttemptType] /\ attempt'[w] = b
         /\ \A v \in Workers : v # w => attempt'[v] = attempt[v]
         /\ \A v \in Workers : AttemptFacts(attempt[v])'
<1>1. /\ attempt' \in [Workers -> AttemptType] /\ attempt'[w] = b
      /\ \A v \in Workers : v # w => attempt'[v] = attempt[v]
  BY DEF Becomes, TypeInv, TypeOK
<1>2. ASSUME NEW v \in Workers, v # w PROVE AttemptFacts(attempt[v])'
  <2>1. AttemptFacts(attempt[v]) /\ attempt'[v] = attempt[v]
    BY <1>1, <1>2 DEF TypeInv
  <2> QED BY <2>1 DEF AttemptFacts, WritesOf, LastOf, BatchLen, Least
<1> QED BY <1>1, <1>2

LEMMA ReachFacts ==
  ASSUME TypeInv
  PROVE  Reach \in Nat /\ after <= Reach /\ Reach <= after + PageLimit
<1>1. after \in Nat /\ PageLimit \in Nat /\ awaited \in Workers \cup {None}
  BY PageAssumption DEF TypeInv, TypeOK
<1>2. awaited # None =>
        /\ attempt[awaited].after \in Nat /\ attempt[awaited].read \in 0..PageLimit
        /\ attempt[awaited].after - attempt[awaited].read = after
  BY <1>1 DEF TypeInv, TypeOK, AwaitedFacts, AttemptType
<1> QED BY <1>1, <1>2 DEF Reach

LEMMA ReachThen ==
  ASSUME TypeInv'
  PROVE  Reach' \in Nat
<1> DEFINE last == attempt'[awaited'].after
<1>1. after' \in Nat /\ PageLimit \in Nat /\ after' + PageLimit \in Nat
  <2>1. after' \in Nat
    BY DEF TypeInv, TypeOK
  <2>2. PageLimit \in Nat
    BY PageAssumption
  <2>3. \A m \in Nat : m + PageLimit \in Nat
    BY <2>2
  <2> QED BY <2>1, <2>2, <2>3
<1>2. awaited' # None => last \in Nat
  <2>1. awaited' \in Workers \cup {None} /\ attempt' \in [Workers -> AttemptType]
    BY DEF TypeInv, TypeOK
  <2> QED BY <2>1 DEF AttemptType
<1>3. Reach' = IF tries' > 0 THEN after' + PageLimit ELSE IF awaited' # None THEN last ELSE after'
  BY Zenon DEF Reach
<1> HIDE DEF last
<1> QED BY <1>1, <1>2, <1>3

\* Nothing is further ahead while nothing is written.
LEMMA NotFurther ==
  ASSUME TypeInv, TypeInv', NotAhead, UNCHANGED <<pass, dest>>, Reach <= Reach'
  PROVE  NotAhead'
<1> SUFFICES ASSUME pass = "insert", NEW k \in Keys PROVE dest[k].row <= Reach'
  BY DEF NotAhead
<1>1. dest[k].row <= Reach /\ dest[k].row \in Nat
  BY TableAssumption DEF NotAhead, TypeInv, TypeOK
<1>2. Reach \in Nat
  BY ReachFacts
<1>3. Reach' \in Nat
  BY ReachThen
<1> QED BY <1>1, <1>2, <1>3

\* An attempt ends without an answer, or the workflow gives up on it.
LEMMA GivenUpStep ==
  ASSUME IndInv, NEW w \in Workers, Becomes(w, Idle) \/ UNCHANGED attempt,
         \/ awaited = w /\ awaited' = None /\ tries' = tries + 1
         \/ awaited # w /\ UNCHANGED <<awaited, tries>>,
         UNCHANGED <<job, pass, after, discarded, store, destination>>,
         faults' \in 0..MaxFaults, refused' \in BOOLEAN, RetriesGoThrough'
  PROVE  IndInv'
<1>1. TypeInv /\ TypeOK /\ KeyInv /\ DoneInv /\ CountInv
  BY DEF IndInv, TypeInv
<1>2. /\ attempt' \in [Workers -> AttemptType]
      /\ \A v \in Workers : attempt'[v] = attempt[v] \/ (v = w /\ attempt'[v] = Idle)
      /\ \A v \in Workers : v # w => attempt'[v] = attempt[v]
  BY <1>1, IdleFacts DEF Becomes, TypeOK
<1>3. /\ awaited' # None => awaited' = awaited /\ awaited \in Workers /\ awaited # w /\ tries' = tries
      /\ awaited' \in Workers \cup {None} /\ tries' \in Nat
      /\ tries' = 0 => tries = 0 /\ awaited' = awaited /\ awaited # w
  BY <1>1, Constants DEF TypeOK
<1>4. TypeInv'
  <2>1. TypeOK'
    BY <1>1, <1>2, <1>3 DEF TypeOK, job, destination
  <2>2. ASSUME NEW v \in Workers PROVE AttemptFacts(attempt[v])'
    <3>1. CASE attempt'[v] = attempt[v]
      BY <1>1, <3>1 DEF TypeInv, AttemptFacts, WritesOf, LastOf, BatchLen, Least
    <3>2. CASE attempt'[v] = Idle
      BY <3>2, IdleFacts, TableAssumption DEF AttemptFacts, WritesOf, LastOf
    <3> QED BY <1>2, <3>1, <3>2
  <2>3. AwaitedFacts'
    BY <1>1, <1>2, <1>3 DEF TypeInv, AwaitedFacts, Runs, LastOf
  <2> QED BY <2>1, <2>2, <2>3 DEF TypeInv
<1>5. KeyInv'
  <2>1. ASSUME NEW v \in Workers PROVE AttemptTrue(attempt[v])'
    <3>1. CASE attempt'[v] = attempt[v]
      <4>1. AttemptTrue(attempt[v])
        BY <1>1 DEF KeyInv
      <4> QED BY <3>1, <4>1, JobStays DEF AttemptTrue
    <3>2. CASE attempt'[v] = Idle
      BY <3>2, IdleFacts DEF AttemptTrue
    <3> QED BY <1>2, <3>1, <3>2
  <2>2. StoreTrue' /\ RowsTrue' /\ BossesTrue' /\ ChildrenTrue'
    BY <1>1, JobStays DEF KeyInv, StoreTrue, RowsTrue, BossesTrue, ChildrenTrue, IsThere, destination
  <2>3. FreshKeys'
    BY <1>1, <1>2, IdleFacts DEF KeyInv, FreshKeys, IsThere, Locked, destination
  <2> QED BY <2>1, <2>2, <2>3 DEF KeyInv
<1>6. DoneInv'
  <2>1. /\ \A p, r : Through(p, r)' => Through(p, r)
        /\ \A p, r : InHand(p, r)' => InHand(p, r) /\ attempt'[awaited'] = attempt[awaited]
        /\ \A x : awaited' # None /\ Wrote(x) => Wrote(x)'
    BY <1>2, <1>3 DEF Through, InHand, Wrote
  <2>2. Published'
    BY <1>1, <2>1, JobStays DEF DoneInv, Published
  <2>3. WrittenRows' /\ WrittenBosses' /\ WrittenChildren'
    BY <1>1, <2>1, JobStays
       DEF DoneInv, WrittenRows, WrittenBosses, WrittenChildren, IsThere, InHand, job, destination
  <2> QED BY <2>2, <2>3 DEF DoneInv
<1>7. CountInv'
  <2>1. Counted'
    BY <1>1, <1>2, <1>3, JobStays DEF CountInv, Counted
  <2>2. Stale'
    <3> SUFFICES ASSUME pass' = "insert", NEW v \in Workers, Runs(attempt'[v], "insert"), v # awaited'
                 PROVE  \/ attempt'[v].after - attempt'[v].read + PageLimit <= after
                        \/ attempt'[v].after - attempt'[v].read = after /\ tries' > 0
      BY DEF Stale, Runs
    <3>1. attempt'[v] = attempt[v]
      BY <1>2, IdleFacts DEF Runs
    <3>2. CASE v # awaited
      BY <1>1, <1>3, <3>1, <3>2 DEF CountInv, Stale, TypeOK
    <3>3. CASE v = awaited
      <4>1. attempt[v].after - attempt[v].read = after
        BY <1>1, <3>3, Constants DEF TypeInv, AwaitedFacts
      <4>2. tries' > 0
        BY <1>1, <3>3 DEF TypeOK
      <4> QED BY <3>1, <4>1, <4>2
    <3> QED BY <3>2, <3>3
  <2>3. NotAhead'
    <3>1. Reach <= Reach'
      <4>1. Reach \in Nat /\ Reach <= after + PageLimit
        BY <1>1, ReachFacts
      <4>2. CASE awaited = w
        BY <1>1, <4>1, <4>2 DEF Reach, TypeOK
      <4>3. CASE awaited # w
        BY <1>1, <1>2, <4>1, <4>3 DEF Reach, TypeOK
      <4> QED BY <4>2, <4>3
    <3> QED BY <1>1, <1>4, <3>1, NotFurther DEF CountInv, destination
  <2> QED BY <2>1, <2>2, <2>3 DEF CountInv
<1> QED BY <1>4, <1>5, <1>6, <1>7 DEF IndInv

LEMMA StartAttemptStep ==
  ASSUME IndInv, NEW w \in Workers, StartAttempt(w)
  PROVE  IndInv'
<1> DEFINE b == [Idle EXCEPT !.pc = "page", !.pass = pass, !.after = after, !.retry = (tries > 0)]
<1>1. TypeInv /\ TypeOK /\ KeyInv /\ DoneInv /\ CountInv
  BY DEF IndInv, TypeInv
<1>2. /\ pass # "done" /\ awaited = None /\ attempt[w].pc = "off" /\ awaited' = w /\ Becomes(w, b)
      /\ UNCHANGED <<job, pass, after, discarded, tries, store, dest, childDest, refused, faults>>
  BY DEF StartAttempt, destination
<1>3. pass \in {"insert", "update", "children"} /\ after \in Nat /\ tries \in Nat /\ after <= LastOf(pass)
  BY <1>1, <1>2 DEF TypeOK, TypeInv, AwaitedFacts
<1>4. /\ b \in AttemptType /\ b.pc = "page" /\ b.pass = pass /\ b.after = after /\ b.read = 0
      /\ b.tx = {} /\ b.keys = NoKeys /\ b.discarded = 0 /\ (~b.retry => tries = 0)
  <2> DEFINE again == tries > 0
  <2>1. again \in BOOLEAN /\ (~again => tries = 0)
    BY <1>3
  <2> HIDE DEF again
  <2>2. b = [[[[Idle EXCEPT !.pc = "page"] EXCEPT !.pass = pass] EXCEPT !.after = after]
             EXCEPT !.retry = again]
    BY DEF again, Idle
  <2> QED BY <1>3, <2>1, <2>2, IdleFacts DEF AttemptType
<1> HIDE DEF b
<1>5. attempt[w] = Idle
  BY <1>1, <1>2 DEF TypeInv, AttemptFacts
<1>6. /\ attempt' \in [Workers -> AttemptType] /\ attempt'[w] = b
      /\ \A v \in Workers : v # w => attempt'[v] = attempt[v]
      /\ \A v \in Workers : AttemptFacts(attempt[v])'
  <2>1. attempt'[w] = b
    BY <1>1, <1>2 DEF Becomes, TypeOK
  <2>2. AttemptFacts(attempt[w])'
    BY <1>2, <1>3, <1>4, <2>1 DEF AttemptFacts, WritesOf
  <2> QED BY <1>1, <1>2, <1>4, <2>2, AttemptMoves
<1>7. w # None
  BY <1>1, Constants
<1>8. TypeInv'
  <2>1. TypeOK'
    BY <1>1, <1>2, <1>6 DEF TypeOK, job
  <2>2. AwaitedFacts'
    BY <1>2, <1>3, <1>4, <1>6 DEF AwaitedFacts, Runs, LastOf
  <2> QED BY <1>6, <2>1, <2>2 DEF TypeInv
<1>9. KeyInv'
  <2>1. ASSUME NEW v \in Workers PROVE AttemptTrue(attempt[v])'
    <3>1. CASE v # w
      <4>1. AttemptTrue(attempt[v]) /\ attempt'[v] = attempt[v]
        BY <1>1, <1>6, <3>1 DEF KeyInv
      <4> QED BY <1>2, <4>1, JobStays DEF AttemptTrue
    <3>2. CASE v = w
      BY <1>4, <1>6, <3>2, IdleFacts DEF AttemptTrue
    <3> QED BY <3>1, <3>2
  <2>2. StoreTrue' /\ RowsTrue' /\ BossesTrue' /\ ChildrenTrue'
    BY <1>1, <1>2, JobStays DEF KeyInv, StoreTrue, RowsTrue, BossesTrue, ChildrenTrue, IsThere
  <2>3. FreshKeys'
    BY <1>1, <1>2, <1>4, <1>6 DEF KeyInv, FreshKeys, IsThere, Locked
  <2> QED BY <2>1, <2>2, <2>3 DEF KeyInv
<1>10. DoneInv'
  <2>1. /\ \A p, r : Through(p, r)' => Through(p, r)
        /\ \A p : \A r \in Nat : ~InHand(p, r)'
    BY <1>2, <1>3, <1>4, <1>6 DEF Through, InHand
  <2>2. Rows \subseteq Nat /\ Children \subseteq Nat
    BY <1>1, Constants
  <2> QED BY <1>1, <1>2, <2>1, <2>2, JobStays
       DEF DoneInv, Published, WrittenRows, WrittenBosses, WrittenChildren, IsThere, job
<1>11. CountInv'
  <2>1. Counted'
    BY <1>1, <1>2, <1>3, <1>4, <1>6, LeftOutAdds, JobStays DEF CountInv, Counted
  <2>2. Stale'
    BY <1>1, <1>2, <1>5, <1>6, <1>7, Constants DEF CountInv, Stale, Runs
  <2>3. NotAhead'
    BY <1>1, <1>2, <1>4, <1>6, <1>7 DEF CountInv, NotAhead, Reach
  <2>4. RetriesGoThrough'
    BY <1>1, <1>2, JobStays DEF CountInv, RetriesGoThrough
  <2> QED BY <2>1, <2>2, <2>3, <2>4 DEF CountInv
<1> QED BY <1>8, <1>9, <1>10, <1>11 DEF IndInv

LEMMA GivingUp ==
  ASSUME IndInv, AttemptFails \/ \E w \in Workers : AttemptEnds(w)
  PROVE  IndInv'
<1>1. TypeOK /\ RetriesGoThrough
  BY DEF IndInv, TypeInv, CountInv
<1>2. CASE AttemptFails
  <2>1. /\ awaited \in Workers /\ awaited' = None /\ tries' = tries + 1
        /\ Becomes(awaited, Idle) \/ UNCHANGED attempt
        /\ UNCHANGED <<job, pass, after, discarded, store, destination, refused>>
        /\ faults' \in 0..MaxFaults
    BY <1>1, <1>2, PageAssumption DEF AttemptFails, TypeOK
  <2>2. RetriesGoThrough' /\ refused' \in BOOLEAN
    BY <1>1, <2>1, JobStays DEF RetriesGoThrough, TypeOK
  <2> QED BY <2>1, <2>2, GivenUpStep
<1>3. ASSUME NEW w \in Workers, AttemptEnds(w) PROVE IndInv'
  <2>1. /\ awaited # w /\ UNCHANGED <<awaited, tries>> /\ Becomes(w, Idle)
        /\ UNCHANGED <<job, pass, after, discarded, store, destination, refused, faults>>
    BY <1>3 DEF AttemptEnds, workflow
  <2>2. RetriesGoThrough' /\ refused' \in BOOLEAN /\ faults' \in 0..MaxFaults
    BY <1>1, <2>1, JobStays DEF RetriesGoThrough, TypeOK
  <2> QED BY <2>1, <2>2, GivenUpStep
<1> QED BY <1>2, <1>3

-----------------------------------------------------------------------------
(* The batches.                                                            *)

LEMMA ReadOnFacts ==
  ASSUME TypeInv, NEW w \in Workers, attempt[w].pc = "page"
  PROVE  LET a == attempt[w]
             b == ReadOn(a)
         IN  /\ a \in AttemptType /\ AttemptFacts(a) /\ a.after <= LastOf(a.pass)
             /\ b \in AttemptType /\ b.pc = a.pc /\ b.pass = a.pass /\ b.retry = a.retry
             /\ b.tx = a.tx /\ b.keys = NoKeys /\ b.discarded = a.discarded
             /\ b.after = a.after + BatchLen(a) /\ b.read = a.read + BatchLen(a)
             /\ b.read <= b.after /\ b.after <= LastOf(a.pass) /\ a.after <= b.after
             /\ b.after - b.read = a.after - a.read /\ BatchLen(a) \in Nat
<1> DEFINE a == attempt[w]
           l == BatchLen(a)
<1>1. a \in AttemptType /\ AttemptFacts(a)
  BY DEF TypeInv, TypeOK
<1>2. /\ a.after \in Nat /\ a.read \in Nat /\ a.read <= a.after /\ a.keys = NoKeys
      /\ a.after <= LastOf(a.pass)
  BY <1>1 DEF AttemptFacts, AttemptType
<1>3. /\ l \in Nat /\ a.after + l <= LastOf(a.pass) /\ a.read + l <= PageLimit
      /\ LastOf(a.pass) \in Nat
  BY <1>1, <1>2, BatchFacts
<1> HIDE DEF l
<1>4. ReadOn(a) = [[a EXCEPT !.after = a.after + l] EXCEPT !.read = a.read + l]
  BY <1>1 DEF ReadOn, AttemptType, l
<1>5. a.after + l \in Nat /\ a.read + l \in 0..PageLimit
  BY <1>2, <1>3, PageAssumption
<1>6. /\ ReadOn(a) \in AttemptType /\ ReadOn(a).pc = a.pc /\ ReadOn(a).pass = a.pass
      /\ ReadOn(a).retry = a.retry /\ ReadOn(a).tx = a.tx /\ ReadOn(a).keys = a.keys
      /\ ReadOn(a).discarded = a.discarded
      /\ ReadOn(a).after = a.after + l /\ ReadOn(a).read = a.read + l
  BY <1>1, <1>4, <1>5 DEF AttemptType
<1> QED BY <1>1, <1>2, <1>3, <1>6 DEF l

\* What the checks keep of the batch of an attempt.
LEMMA KeptOfBatch ==
  ASSUME TypeInv, NEW w \in Workers, attempt[w].pc = "page"
  PROVE  LET a == attempt[w]
             rows == Batch(a) \ LeftOut
         IN  /\ Checked(a).rows = rows
             /\ \A r \in Batch(a) : r - a.after \in Checked(a).surviving <=> r \in rows
             /\ Checked(a).discarded = a.discarded + LeftOutIn(a.after, a.after + BatchLen(a))
             /\ Checked(a).discarded \in Nat
<1> DEFINE a == attempt[w]
           rows == Batch(a) \ LeftOut
<1>1. TypeOK /\ a \in AttemptType /\ a.after <= LastOf(a.pass) /\ a.after \in Nat /\ a.discarded \in Nat
  BY DEF TypeInv, TypeOK, AttemptFacts, AttemptType
<1>2. Checked(a) = Remains(a, Len(missing)) /\ MissingUpTo(Len(missing)) = LeftOut
  BY <1>1, CheckedFacts, MissingFacts
<1>3. /\ Checked(a).rows = rows /\ Checked(a).surviving = {r - a.after : r \in rows}
      /\ Checked(a).discarded = a.discarded + Cardinality(Batch(a) \cap LeftOut)
  BY <1>2 DEF Remains
<1>4. Batch(a) \subseteq Nat
  BY <1>1, BatchFacts
<1>5. \A r \in Batch(a) : r - a.after \in Checked(a).surviving <=> r \in rows
  <2> SUFFICES ASSUME NEW r \in Batch(a), r - a.after \in {s - a.after : s \in rows} PROVE r \in rows
    BY <1>3
  <2>1. PICK s \in rows : r - a.after = s - a.after
    OBVIOUS
  <2>2. r \in Nat /\ s \in Nat
    BY <1>4
  <2> QED BY <1>1, <2>1, <2>2
<1>6. Batch(a) \cap LeftOut = LeftOut \cap (a.after + 1)..(a.after + BatchLen(a))
  BY DEF Batch
<1>7. Cardinality(Batch(a) \cap LeftOut) = LeftOutIn(a.after, a.after + BatchLen(a))
  BY <1>6 DEF LeftOutIn
<1>8. Cardinality(Batch(a) \cap LeftOut) \in Nat
  <2>1. IsFiniteSet(Batch(a))
    BY <1>1, BatchFacts
  <2> QED BY <2>1, FS_Intersection, FS_CardinalityType
<1> QED BY <1>1, <1>3, <1>5, <1>7, <1>8

\* After an insert, each row of it has its key in the table or transaction.
LEMMA InsertedAll ==
  ASSUME NEW tx, NEW rows, rows \subseteq Nat, NEW keys, NEW r \in rows
  PROVE  \/ dest[keys[r]].row # 0
         \/ \E p \in tx \cup {<<keys[s], s>> : s \in Inserted(tx, rows, keys)} : p[1] = keys[r]
<1> DEFINE same == {s \in rows : keys[s] = keys[r]}
<1>1. PICK s \in same : \A t \in same : s <= t
  <2>1. same \subseteq Nat /\ same # {}
    OBVIOUS
  <2> HIDE DEF same
  <2> QED BY <2>1, NatLeast
<1>2. s \in rows /\ keys[s] = keys[r] /\ s \in Nat
  BY <1>1
<1>3. \A t \in rows : t < s => keys[t] # keys[s]
  BY <1>1, <1>2
<1>4. CASE dest[keys[s]].row = 0 /\ \A p \in tx : p[1] # keys[s]
  <2>1. s \in Inserted(tx, rows, keys)
    BY <1>2, <1>3, <1>4 DEF Inserted
  <2>2. <<keys[s], s>>[1] = keys[r]
    BY <1>2
  <2> QED BY <2>1, <2>2
<1>5. CASE dest[keys[s]].row # 0 \/ \E p \in tx : p[1] = keys[s]
  BY <1>2, <1>5
<1> QED BY <1>4, <1>5

\* What any batch leaves as it was, and how far it comes.
LEMMA BatchStep ==
  ASSUME IndInv, NEW w \in Workers, attempt[w].pc = "page",
         NEW b \in AttemptType, Becomes(w, b),
         UNCHANGED <<job, workflow, store, dest, childDest, refused, faults>>,
         (b.pc = "page" /\ b.keys = NoKeys) \/ (b.pc = "publish" /\ b.pass = "insert"),
         b.pass = attempt[w].pass, b.retry = attempt[w].retry,
         b.after = ReadOn(attempt[w]).after, b.read = ReadOn(attempt[w]).read,
         b.tx \subseteq WritesOf(b.pass), b.pass # "insert" => b.discarded = attempt[w].discarded
  PROVE  /\ attempt'[w] = b /\ \A v \in Workers : v # w => attempt'[v] = attempt[v]
         /\ TypeInv' /\ (AttemptTrue(attempt[w])' /\ FreshKeys' => KeyInv')
         /\ Counted' => CountInv'
<1> DEFINE a == attempt[w]
<1>1. TypeInv /\ TypeOK /\ KeyInv /\ DoneInv /\ CountInv
  BY DEF IndInv, TypeInv
<1>2. /\ a \in AttemptType /\ AttemptFacts(a) /\ b.after \in Nat /\ b.read \in Nat
      /\ b.read <= b.after /\ b.after <= LastOf(a.pass) /\ a.after <= b.after
      /\ b.after - b.read = a.after - a.read /\ a.after \in Nat /\ a.read \in Nat
  BY <1>1, ReadOnFacts DEF AttemptType
<1>3. /\ pass' = pass /\ after' = after /\ discarded' = discarded /\ awaited' = awaited /\ tries' = tries
  BY DEF workflow
<1>4. /\ attempt' \in [Workers -> AttemptType] /\ attempt'[w] = b
      /\ \A v \in Workers : v # w => attempt'[v] = attempt[v]
      /\ \A v \in Workers : AttemptFacts(attempt[v])'
  <2>1. attempt'[w] = b
    BY <1>1 DEF Becomes, TypeOK
  <2>2. AttemptFacts(attempt[w])'
    BY <1>2, <1>3, <2>1 DEF AttemptFacts
  <2> QED BY <1>1, <1>3, <2>2, AttemptMoves
<1>5. TypeInv'
  <2>1. TypeOK'
    BY <1>1, <1>3, <1>4 DEF TypeOK, job
  <2>2. AwaitedFacts'
    <3>1. pass # "done" => after <= LastOf(pass)
      BY <1>1 DEF TypeInv, AwaitedFacts
    <3>2. awaited # None /\ awaited # w => AwaitedFacts'
      BY <1>1, <1>3, <1>4, <3>1 DEF TypeInv, AwaitedFacts, Runs, LastOf, TypeOK
    <3>3. awaited = w => AwaitedFacts'
      BY <1>1, <1>2, <1>3, <1>4, <3>1, Constants DEF TypeInv, AwaitedFacts, Runs, LastOf
    <3>4. awaited = None => AwaitedFacts'
      BY <1>3, <3>1 DEF AwaitedFacts, LastOf
    <3> QED BY <3>2, <3>3, <3>4
  <2> QED BY <1>4, <2>1, <2>2 DEF TypeInv
<1>6. ASSUME AttemptTrue(attempt[w])', FreshKeys' PROVE KeyInv'
  <2>1. ASSUME NEW v \in Workers PROVE AttemptTrue(attempt[v])'
    <3>1. CASE v # w
      <4>1. AttemptTrue(attempt[v]) /\ attempt'[v] = attempt[v]
        BY <1>1, <1>4, <3>1 DEF KeyInv
      <4> QED BY <4>1, JobStays DEF AttemptTrue
    <3>2. CASE v = w
      BY <1>6, <3>2
    <3> QED BY <3>1, <3>2
  <2>2. StoreTrue' /\ RowsTrue' /\ BossesTrue' /\ ChildrenTrue'
    BY <1>1, <1>3, JobStays DEF KeyInv, StoreTrue, RowsTrue, BossesTrue, ChildrenTrue, IsThere
  <2> QED BY <1>6, <2>1, <2>2 DEF KeyInv
<1>7. ASSUME Counted' PROVE CountInv'
  <2>1. Stale'
    <3> SUFFICES ASSUME pass = "insert", NEW v \in Workers, Runs(attempt'[v], "insert"), v # awaited
                 PROVE  \/ attempt'[v].after - attempt'[v].read + PageLimit <= after
                        \/ attempt'[v].after - attempt'[v].read = after /\ tries > 0
      BY <1>3 DEF Stale, Runs
    <3>1. Runs(attempt[v], "insert") /\ attempt'[v].after - attempt'[v].read = attempt[v].after - attempt[v].read
      BY <1>2, <1>4 DEF Runs
    <3> QED BY <1>1, <3>1 DEF CountInv, Stale
  <2>2. NotAhead'
    <3>1. Reach \in Nat
      BY <1>1, ReachFacts
    <3>2. Reach <= Reach'
      <4>1. CASE awaited = w
        BY <1>1, <1>2, <1>3, <1>4, <3>1, <4>1, Constants DEF Reach
      <4>2. CASE awaited # w
        BY <1>1, <1>3, <1>4, <3>1, <4>2 DEF Reach, TypeOK
      <4> QED BY <4>1, <4>2
    <3> QED BY <1>1, <1>3, <1>5, <3>2, NotFurther DEF CountInv
  <2>3. RetriesGoThrough'
    BY <1>1, JobStays DEF CountInv, RetriesGoThrough
  <2> QED BY <1>7, <2>1, <2>2, <2>3 DEF CountInv
<1> QED BY <1>4, <1>5, <1>6, <1>7

LEMMA InsertStep ==
  ASSUME IndInv, NEW w \in Workers, NEW keys \in [Batch(attempt[w]) -> Keys],
         InsertBatch(w, keys),
         Policy(attempt[w]) = "nothing"
           \/ Inserted(attempt[w].tx, Batch(attempt[w]) \ LeftOut, keys) = Batch(attempt[w]) \ LeftOut
  PROVE  IndInv'
<1> DEFINE a == attempt[w]
           rows == Batch(a) \ LeftOut
           new == Inserted(a.tx, rows, keys)
           c == ReadOn(a)
           puts == {<<keys[r], r>> : r \in new}
           publishes == [r \in Rows |-> IF r \in Batch(a) /\ r - a.after \in Checked(a).surviving
                                        THEN keys[r] ELSE None]
           b == [c EXCEPT !.pc = "publish", !.discarded = Checked(a).discarded,
                          !.tx = @ \cup puts, !.keys = publishes]
<1>1. TypeInv /\ TypeOK /\ KeyInv /\ DoneInv /\ CountInv
  BY DEF IndInv, TypeInv
<1>2. a.pc = "page" /\ a.pass = "insert"
  BY DEF InsertBatch, Reads
<1>3. /\ Checked(a).rows = rows
      /\ \A r \in Batch(a) : r - a.after \in Checked(a).surviving <=> r \in rows
      /\ Checked(a).discarded = a.discarded + LeftOutIn(a.after, a.after + BatchLen(a))
      /\ Checked(a).discarded \in Nat
  BY <1>1, <1>2, KeptOfBatch
<1>4. /\ \A r \in Batch(a) : keys[r] \in become[r]
      /\ \A r \in rows : ~Locked(w, keys[r])
      /\ Becomes(w, b)
      /\ UNCHANGED <<job, workflow, store, dest, childDest, refused, faults>>
  BY <1>3 DEF InsertBatch, workflow, destination
<1>5. /\ c \in AttemptType /\ c.pass = "insert" /\ c.tx = a.tx /\ c.retry = a.retry
      /\ c.after = a.after + BatchLen(a) /\ a.after <= c.after /\ c.after <= LastOf(a.pass)
      /\ a.after \in Nat /\ c.after \in Nat /\ BatchLen(a) \in Nat /\ LastOf(a.pass) = MaxRow
      /\ a \in AttemptType /\ AttemptFacts(a) /\ a.after <= LastOf(a.pass)
  BY <1>1, <1>2, ReadOnFacts DEF AttemptType, LastOf
<1>6. \A r : r \in Batch(a) <=> r \in Nat /\ a.after < r /\ r <= c.after
  BY <1>5, BatchFacts
<1>7. Batch(a) \subseteq Rows /\ rows \subseteq Rows /\ new \subseteq rows
  BY <1>1, <1>5, <1>6, Constants DEF Inserted
<1>8. /\ publishes \in [Rows -> Keys \cup {None}]
      /\ \A r \in Rows : publishes[r] = IF r \in rows THEN keys[r] ELSE None
  BY <1>3, <1>7
<1>9. /\ puts \subseteq Keys \X Rows
      /\ \A p \in puts : p[2] \in new /\ p[1] = keys[p[2]]
      /\ \A r \in new : \E p \in puts : p[1] = keys[r]
  <2>1. \A r \in new : r \in Rows /\ keys[r] \in Keys
    BY <1>7
  <2> HIDE DEF new
  <2>2. \A r \in new : <<keys[r], r>> \in Keys \X Rows /\ <<keys[r], r>> \in puts
    BY <2>1
  <2>3. \A p \in puts : \E r \in new : p = <<keys[r], r>>
    BY Zenon
  <2>4. \A p \in puts : p \in Keys \X Rows
    BY <2>2, <2>3, Zenon
  <2> HIDE DEF puts
  <2>5. \A p \in puts : p[2] \in new /\ p[1] = keys[p[2]]
    BY <2>3
  <2>6. \A r \in new : \E p \in puts : p[1] = keys[r]
    BY <2>2
  <2> QED BY <2>4, <2>5, <2>6
<1>10. /\ b \in AttemptType /\ b.pc = "publish" /\ b.pass = "insert" /\ b.retry = a.retry
       /\ b.after = c.after /\ b.read = c.read /\ b.tx = a.tx \cup puts /\ b.keys = publishes
       /\ b.discarded = a.discarded + LeftOutIn(a.after, c.after)
  <2> DEFINE count == Checked(a).discarded
             all == a.tx \cup puts
  <2>1. all \in SUBSET ((Keys \cup Children) \X (Rows \cup Keys \cup {None}))
    BY <1>5, <1>9 DEF AttemptType
  <2>2. count \in Nat /\ count = a.discarded + LeftOutIn(a.after, c.after)
    BY <1>3, <1>5
  <2> HIDE DEF count, all, c, publishes, puts
  <2>3. b = [[[[c EXCEPT !.pc = "publish"] EXCEPT !.discarded = count] EXCEPT !.tx = all]
             EXCEPT !.keys = publishes]
    BY <1>5 DEF AttemptType, count, all
  <2> QED BY <1>5, <1>8, <2>1, <2>2, <2>3 DEF AttemptType, all
<1> HIDE DEF b, c, puts, publishes, new
<1>11. /\ attempt'[w] = b /\ \A v \in Workers : v # w => attempt'[v] = attempt[v]
       /\ TypeInv' /\ (AttemptTrue(attempt[w])' /\ FreshKeys' => KeyInv')
       /\ Counted' => CountInv'
  <2>1. b.tx \subseteq WritesOf(b.pass)
    BY <1>2, <1>5, <1>9, <1>10 DEF AttemptFacts, WritesOf
  <2> QED BY <1>2, <1>4, <1>10, <2>1, BatchStep DEF c
<1>12. become' = become /\ pass' = pass /\ after' = after /\ awaited' = awaited /\ discarded' = discarded
       /\ store' = store /\ dest' = dest /\ childDest' = childDest
  BY <1>4 DEF job, workflow
<1>13. \A r \in rows : KeyOf(keys[r], r)
  BY <1>4, <1>7 DEF KeyOf, Kept
<1>14. AttemptTrue(attempt[w])'
  <2>1. \A r \in Rows : b.keys[r] # None => KeyOf(b.keys[r], r)
    BY <1>8, <1>10, <1>13
  <2>2. \A p \in a.tx : KeyOf(p[1], p[2]) /\ p[2] <= a.after
    BY <1>1, <1>2 DEF KeyInv, AttemptTrue
  <2>3. \A p \in puts : KeyOf(p[1], p[2]) /\ p[2] <= c.after
    BY <1>6, <1>7, <1>9, <1>13
  <2>4. \A p \in a.tx : p[2] \in Rows
    BY <1>2, <1>5 DEF AttemptFacts, WritesOf
  <2>5. \A p \in b.tx : KeyOf(p[1], p[2]) /\ p[2] <= b.after
    BY <1>1, <1>5, <1>10, <2>2, <2>3, <2>4, Constants
  <2> QED BY <1>4, <1>10, <1>11, <2>1, <2>5, JobStays DEF AttemptTrue
<1>15. FreshKeys'
  <2>1. ASSUME NEW v \in Workers, attempt'[v].pass = "insert", NEW p \in attempt'[v].tx
        PROVE  ~IsThere(p[1])
    <3>1. CASE p \in attempt[v].tx /\ attempt[v].pass = "insert"
      BY <1>1, <3>1 DEF KeyInv, FreshKeys
    <3>2. CASE p \in puts
      BY <1>9, <3>2 DEF new, Inserted, IsThere
    <3> QED BY <1>2, <1>10, <1>11, <2>1, <3>1, <3>2
  <2>2. ASSUME NEW v \in Workers, attempt'[v].pass = "insert", NEW p \in attempt'[v].tx,
               NEW x \in Workers \ {v}, attempt'[x].pass = "insert", NEW q \in attempt'[x].tx, p[1] = q[1]
        PROVE  FALSE
    <3>1. \A y \in Workers : attempt'[y].pass = "insert" => attempt[y].pass = "insert"
      BY <1>2, <1>11
    <3>2. p \in attempt[v].tx /\ q \in attempt[x].tx => FALSE
      BY <1>1, <2>2, <3>1 DEF KeyInv, FreshKeys, Locked
    <3>3. v = w => x # w /\ q \in attempt[x].tx /\ attempt[x].pass = "insert"
      BY <1>11, <2>2
    <3>4. x = w => v # w /\ p \in attempt[v].tx /\ attempt[v].pass = "insert"
      BY <1>11, <2>2
    <3>5. CASE v = w /\ p \in puts
      <4>1. Locked(w, p[1])
        BY <2>2, <3>3, <3>5 DEF Locked
      <4> QED BY <1>4, <1>7, <1>9, <3>5, <4>1
    <3>6. CASE x = w /\ q \in puts
      <4>1. Locked(w, q[1])
        BY <2>2, <3>4, <3>6 DEF Locked
      <4> QED BY <1>4, <1>7, <1>9, <3>6, <4>1
    <3> QED BY <1>10, <1>11, <2>2, <3>2, <3>3, <3>4, <3>5, <3>6
  <2> QED BY <1>12, <2>1, <2>2 DEF FreshKeys, IsThere, Locked
<1>16. DoneInv'
  <2>1. \A p, r : Through(p, r)' => Through(p, r)
    BY <1>12 DEF Through
  <2>2. ASSUME awaited # w
        PROVE  /\ \A p, r : InHand(p, r)' => InHand(p, r) /\ attempt'[awaited] = attempt[awaited]
               /\ \A x : awaited # None /\ Wrote(x) => Wrote(x)'
    BY <1>1, <1>11, <1>12, <2>2 DEF InHand, Wrote, TypeOK
  <2>3. ASSUME awaited = w
        PROVE  /\ \A p, r : InHand(p, r)' => p = "insert"
               /\ \A r \in Rows \ LeftOut : InHand("insert", r)' => r \in rows \/ InHand("insert", r)
               /\ \A x : Wrote(x) => Wrote(x)'
    <3>1. w # None
      BY <1>1, Constants
    <3>2. \A p, r : InHand(p, r)' => p = "insert" /\ after < r /\ r <= c.after
      BY <1>10, <1>11, <1>12, <2>3 DEF InHand
    <3>3. \A r \in Rows : r <= c.after => r \in Batch(a) \/ r <= a.after
      BY <1>1, <1>5, <1>6, Constants
    <3>4. \A r \in Rows \ LeftOut : InHand("insert", r)' => r \in rows \/ InHand("insert", r)
      BY <1>2, <2>3, <3>1, <3>2, <3>3 DEF InHand
    <3>5. \A x : Wrote(x) => Wrote(x)'
      BY <1>10, <1>11, <1>12, <2>3 DEF Wrote
    <3> QED BY <3>2, <3>4, <3>5
  <2>4. Published'
    <3>1. CASE awaited # w
      BY <1>1, <1>4, <1>12, <2>1, <2>2, <3>1, JobStays DEF DoneInv, Published
    <3>2. CASE awaited = w
      <4> SUFFICES ASSUME NEW r \in Rows \ LeftOut
                   PROVE  /\ Through("insert", r) => store[r] # None
                          /\ InHand("insert", r)' => store[r] # None \/ b.keys[r] # None
        BY <1>4, <1>11, <1>12, <2>1, <3>2, JobStays DEF Published
      <4>1. a.keys[r] = None
        BY <1>2, <1>5, IdleFacts DEF AttemptFacts
      <4>2. InHand("insert", r) => store[r] # None
        BY <1>1, <3>2, <4>1 DEF DoneInv, Published
      <4>3. r \in rows => b.keys[r] # None
        BY <1>1, <1>7, <1>8, <1>10, Constants
      <4> QED BY <1>1, <2>3, <3>2, <4>2, <4>3 DEF DoneInv, Published
    <3> QED BY <3>1, <3>2
  <2>5. WrittenRows'
    <3> SUFFICES ASSUME Deterministic, NEW r \in Rows \ LeftOut, NEW k \in become[r]
                 PROVE  /\ Through("insert", r) => IsThere(k)
                        /\ InHand("insert", r)' => IsThere(k) \/ Wrote(k)'
      BY <1>4, <1>12, <2>1, JobStays DEF WrittenRows, IsThere
    <3>1. /\ Through("insert", r) => IsThere(k)
          /\ InHand("insert", r) => IsThere(k) \/ Wrote(k)
      BY <1>1 DEF DoneInv, WrittenRows
    <3>2. CASE awaited # w
      BY <2>2, <3>1, <3>2 DEF InHand
    <3>3. CASE awaited = w /\ r \in rows
      <4>1. k = keys[r]
        BY <1>4, <1>7, <3>3 DEF Deterministic
      <4>2. rows \subseteq Nat
        BY <1>1, <1>7, Constants
      <4>3. IsThere(k) \/ \E p \in a.tx \cup puts : p[1] = k
        BY <3>3, <4>1, <4>2, InsertedAll DEF IsThere, puts, new
      <4> QED BY <1>10, <1>11, <1>12, <3>1, <3>3, <4>3 DEF Wrote
    <3>4. CASE awaited = w /\ r \notin rows
      BY <2>3, <3>1, <3>4
    <3> QED BY <3>2, <3>3, <3>4
  <2>6. WrittenBosses' /\ WrittenChildren'
    <3>1. CASE awaited # w
      BY <1>1, <1>4, <1>12, <2>1, <2>2, <3>1, JobStays
         DEF DoneInv, WrittenBosses, WrittenChildren, InHand
    <3>2. CASE awaited = w
      <4>1. \A r : ~InHand("update", r)' /\ ~InHand("children", r)'
        BY <2>3, <3>2
      <4> QED BY <1>1, <1>4, <1>12, <2>1, <4>1, JobStays DEF DoneInv, WrittenBosses, WrittenChildren
    <3> QED BY <3>1, <3>2
  <2> QED BY <2>4, <2>5, <2>6 DEF DoneInv
<1>17. Counted'
  <2>1. pass = "insert" /\ awaited # None => attempt'[awaited].discarded = LeftOutIn(after, attempt'[awaited].after)
    <3>1. CASE awaited # w
      BY <1>1, <1>11, <3>1 DEF CountInv, Counted, TypeOK
    <3>2. CASE awaited = w
      <4>1. awaited # None
        BY <1>1, <3>2, Constants
      <4>2. after <= a.after /\ after \in Nat
        BY <1>1, <1>5, <3>2, <4>1 DEF TypeInv, AwaitedFacts, TypeOK, AttemptType
      <4>3. LeftOutIn(after, c.after) = LeftOutIn(after, a.after) + LeftOutIn(a.after, c.after)
        BY <1>1, <1>5, <4>2, LeftOutAdds
      <4> QED BY <1>1, <1>10, <1>11, <3>2, <4>3 DEF CountInv, Counted
    <3> QED BY <3>1, <3>2
  <2> QED BY <1>1, <1>4, <1>12, <2>1, JobStays DEF CountInv, Counted
<1> QED BY <1>11, <1>14, <1>15, <1>16, <1>17 DEF IndInv

\* Where rows are given keys apart, the first attempt of a page meets none.
LEMMA FirstMeetsNone ==
  ASSUME IndInv, KeepsApart, NEW w \in Workers, NEW keys \in [Batch(attempt[w]) -> Keys],
         Reads(attempt[w], "insert"), \A r \in Batch(attempt[w]) : keys[r] \in become[r],
         awaited = w, ~attempt[w].retry
  PROVE  Inserted(attempt[w].tx, Batch(attempt[w]) \ LeftOut, keys) = Batch(attempt[w]) \ LeftOut
<1> DEFINE a == attempt[w]
           rows == Batch(a) \ LeftOut
<1>1. TypeInv /\ TypeOK /\ KeyInv /\ CountInv
  BY DEF IndInv, TypeInv
<1>2. a.pc = "page" /\ a.pass = "insert" /\ awaited # None
  BY <1>1, Constants DEF Reads
<1>3. /\ a \in AttemptType /\ a.after \in Nat /\ a.after <= LastOf(a.pass) /\ LastOf(a.pass) = MaxRow
      /\ a.after + BatchLen(a) <= MaxRow /\ BatchLen(a) \in Nat
      /\ \A r : r \in Batch(a) <=> r \in Nat /\ a.after < r /\ r <= a.after + BatchLen(a)
  <2>1. a \in AttemptType /\ a.after <= LastOf(a.pass) /\ LastOf(a.pass) = MaxRow
    BY <1>1, <1>2, ReadOnFacts DEF LastOf
  <2> QED BY <2>1, BatchFacts
<1>4. \A r \in Batch(a) : r \in Rows /\ a.after < r
  BY <1>1, <1>3, Constants
<1>5. tries = 0 /\ pass = "insert"
  BY <1>1, <1>2 DEF TypeInv, AwaitedFacts, Runs
<1>6. \A r, s \in Rows : \A k : k \in become[r] /\ k \in become[s] => r = s
  BY DEF KeepsApart
<1>7. ASSUME NEW r \in rows PROVE dest[keys[r]].row = 0
  <2> SUFFICES ASSUME IsThere(keys[r]) PROVE FALSE
    BY DEF IsThere
  <2>1. KeyOf(keys[r], dest[keys[r]].row)
    BY <1>1 DEF KeyInv, RowsTrue
  <2>2. dest[keys[r]].row = r
    BY <1>4, <1>6, <2>1 DEF KeyOf, Kept
  <2>3. dest[keys[r]].row <= a.after
    BY <1>1, <1>2, <1>5 DEF CountInv, NotAhead, Reach
  <2> QED BY <1>1, <1>3, <1>4, <2>2, <2>3, Constants
<1>8. ASSUME NEW r \in rows, NEW p \in a.tx, p[1] = keys[r] PROVE FALSE
  <2>1. KeyOf(p[1], p[2]) /\ p[2] <= a.after
    BY <1>1, <1>2 DEF KeyInv, AttemptTrue
  <2>2. p[2] = r
    BY <1>4, <1>6, <1>8, <2>1 DEF KeyOf, Kept
  <2> QED BY <1>1, <1>3, <1>4, <2>1, <2>2, Constants
<1>9. ASSUME NEW r \in rows, NEW s \in rows, s < r, keys[s] = keys[r] PROVE FALSE
  <2>1. s = r
    BY <1>4, <1>6, <1>9
  <2> QED BY <1>3, <1>9, <2>1
<1> QED BY <1>7, <1>8, <1>9 DEF Inserted

LEMMA InsertFails ==
  ASSUME IndInv, NEW w \in Workers, NEW keys \in [Batch(attempt[w]) -> Keys],
         InsertBatch(w, keys),
         ~ \/ Policy(attempt[w]) = "nothing"
           \/ Inserted(attempt[w].tx, Batch(attempt[w]) \ LeftOut, keys) = Batch(attempt[w]) \ LeftOut
  PROVE  IndInv'
<1> DEFINE a == attempt[w]
<1>1. TypeInv /\ TypeOK /\ CountInv
  BY DEF IndInv, TypeInv
<1>2. Reads(a, "insert") /\ \A r \in Batch(a) : keys[r] \in become[r]
  BY DEF InsertBatch
<1>3. Checked(a).rows = Batch(a) \ LeftOut
  BY <1>1, <1>2, KeptOfBatch DEF Reads
<1>4. /\ Becomes(w, Idle) /\ refused' = (refused \/ awaited = w)
      /\ awaited' = IF awaited = w THEN None ELSE awaited
      /\ tries' = IF awaited = w THEN tries + 1 ELSE tries
      /\ UNCHANGED <<job, pass, after, discarded, store, destination, faults>>
  BY <1>3 DEF InsertBatch
<1>5. ~a.retry
  BY DEF Policy
<1>6. RetriesGoThrough'
  <2>1. KeepsApart => awaited # w
    BY <1>2, <1>5, FirstMeetsNone
  <2>2. KeepsApart => ~refused
    BY <1>1 DEF CountInv, RetriesGoThrough
  <2>3. KeepsApart' <=> KeepsApart
    BY <1>4, JobStays
  <2> QED BY <1>4, <2>1, <2>2, <2>3, Zenon DEF RetriesGoThrough
<1>7. refused' \in BOOLEAN /\ faults' \in 0..MaxFaults
  <2>1. refused \in BOOLEAN /\ faults \in 0..MaxFaults
    BY <1>1 DEF TypeOK
  <2>2. faults' = faults
    BY <1>4
  <2>3. refused' \in BOOLEAN
    BY <1>4
  <2> QED BY <2>1, <2>2, <2>3
<1>8. \/ awaited = w /\ awaited' = None /\ tries' = tries + 1
      \/ awaited # w /\ UNCHANGED <<awaited, tries>>
  BY <1>4
<1> QED BY <1>4, <1>6, <1>7, <1>8, GivenUpStep

LEMMA InsertSomeStep ==
  ASSUME IndInv, NEW w \in Workers, InsertSome(w)
  PROVE  IndInv'
<1>1. PICK keys \in [Batch(attempt[w]) -> Keys] : InsertBatch(w, keys)
  BY DEF InsertSome
<1> QED BY <1>1, InsertStep, InsertFails

LEMMA PublishStep ==
  ASSUME IndInv, NEW w \in Workers, Publish(w)
  PROVE  IndInv'
<1> DEFINE a == attempt[w]
           b == [a EXCEPT !.pc = "page", !.keys = NoKeys]
<1>1. TypeInv /\ TypeOK /\ KeyInv /\ DoneInv /\ CountInv
  BY DEF IndInv, TypeInv
<1>2. /\ a.pc = "publish" /\ Becomes(w, b) /\ UNCHANGED <<job, workflow, dest, childDest, refused, faults>>
      /\ store' = [r \in Rows |-> IF a.keys[r] # None THEN a.keys[r] ELSE store[r]]
  BY DEF Publish, destination
<1>3. a \in AttemptType /\ AttemptFacts(a) /\ a.pass = "insert"
  BY <1>1, <1>2 DEF TypeInv, TypeOK, AttemptFacts
<1>4. /\ b \in AttemptType /\ b.pc = "page" /\ b.pass = "insert" /\ b.keys = NoKeys
      /\ b.after = a.after /\ b.read = a.read /\ b.tx = a.tx /\ b.retry = a.retry
      /\ b.discarded = a.discarded
  <2>1. b = [[a EXCEPT !.pc = "page"] EXCEPT !.keys = NoKeys]
    BY <1>3 DEF AttemptType
  <2> QED BY <1>3, <2>1, IdleFacts DEF AttemptType
<1> HIDE DEF b
<1>5. /\ become' = become /\ pass' = pass /\ after' = after /\ discarded' = discarded
      /\ awaited' = awaited /\ tries' = tries /\ dest' = dest /\ childDest' = childDest
      /\ refused' = refused
  BY <1>2 DEF job, workflow
<1>6. /\ attempt' \in [Workers -> AttemptType] /\ attempt'[w] = b
      /\ \A v \in Workers : v # w => attempt'[v] = attempt[v]
      /\ \A v \in Workers : AttemptFacts(attempt[v])'
  <2>1. attempt'[w] = b
    BY <1>1, <1>2 DEF Becomes, TypeOK
  <2>2. AttemptFacts(attempt[w])'
    BY <1>2, <1>3, <1>4, <2>1 DEF AttemptFacts, WritesOf, LastOf
  <2> QED BY <1>1, <1>2, <1>4, <1>5, <2>2, AttemptMoves
<1>7. \A v \in Workers :
        /\ attempt'[v].pass = attempt[v].pass /\ attempt'[v].tx = attempt[v].tx
        /\ attempt'[v].after = attempt[v].after /\ attempt'[v].read = attempt[v].read
        /\ attempt'[v].retry = attempt[v].retry /\ attempt'[v].discarded = attempt[v].discarded
        /\ (attempt'[v].pc = "off" <=> attempt[v].pc = "off")
  BY <1>2, <1>3, <1>4, <1>6
<1>8. store' \in [Rows -> Keys \cup {None}]
  <2>1. a.keys \in [Rows -> Keys \cup {None}] /\ store \in [Rows -> Keys \cup {None}]
    BY <1>1, <1>3 DEF AttemptType, TypeOK
  <2> QED BY <1>2, <2>1
<1>9. TypeInv'
  <2>1. TypeOK'
    BY <1>1, <1>2, <1>5, <1>6, <1>8 DEF TypeOK, job
  <2>2. AwaitedFacts'
    BY <1>1, <1>5, <1>7 DEF TypeInv, TypeOK, AwaitedFacts, Runs, LastOf
  <2> QED BY <1>6, <2>1, <2>2 DEF TypeInv
<1>10. KeyInv'
  <2>1. ASSUME NEW v \in Workers PROVE AttemptTrue(attempt[v])'
    <3>1. AttemptTrue(attempt[v])
      BY <1>1 DEF KeyInv
    <3>2. attempt'[v].keys = attempt[v].keys \/ attempt'[v].keys = NoKeys
      BY <1>4, <1>6
    <3> QED BY <1>2, <1>7, <3>1, <3>2, JobStays, IdleFacts DEF AttemptTrue
  <2>2. StoreTrue'
    <3>1. \A r \in Rows : a.keys[r] # None => KeyOf(a.keys[r], r)
      BY <1>1 DEF KeyInv, AttemptTrue
    <3> QED BY <1>1, <1>2, <3>1, JobStays DEF KeyInv, StoreTrue
  <2>3. RowsTrue' /\ BossesTrue' /\ ChildrenTrue'
    BY <1>1, <1>2, <1>5, JobStays DEF KeyInv, RowsTrue, BossesTrue, ChildrenTrue, IsThere
  <2>4. FreshKeys'
    BY <1>1, <1>5, <1>7 DEF KeyInv, FreshKeys, IsThere, Locked
  <2> QED BY <2>1, <2>2, <2>3, <2>4 DEF KeyInv
<1>11. DoneInv'
  <2>1. /\ \A p, r : Through(p, r)' <=> Through(p, r)
        /\ \A p, r : InHand(p, r)' <=> InHand(p, r)
        /\ \A x : awaited # None => (Wrote(x)' <=> Wrote(x))
    BY <1>1, <1>5, <1>7 DEF Through, InHand, Wrote, TypeOK
  <2>2. Published'
    <3> SUFFICES ASSUME NEW r \in Rows \ LeftOut
                 PROVE  /\ Through("insert", r) => store'[r] # None
                        /\ InHand("insert", r) => store'[r] # None \/ attempt'[awaited].keys[r] # None
      BY <1>2, <1>5, <2>1, JobStays DEF Published
    <3>1. /\ Through("insert", r) => store[r] # None
          /\ InHand("insert", r) => store[r] # None \/ attempt[awaited].keys[r] # None
      BY <1>1 DEF DoneInv, Published
    <3>2. store[r] # None \/ a.keys[r] # None => store'[r] # None
      BY <1>2
    <3>3. InHand("insert", r) /\ awaited # w => attempt'[awaited] = attempt[awaited]
      BY <1>1, <1>6 DEF InHand, TypeOK
    <3> QED BY <3>1, <3>2, <3>3
  <2>3. WrittenRows' /\ WrittenBosses' /\ WrittenChildren'
    BY <1>1, <1>2, <1>5, <2>1, JobStays
       DEF DoneInv, WrittenRows, WrittenBosses, WrittenChildren, IsThere, InHand
  <2> QED BY <2>2, <2>3 DEF DoneInv
<1>12. CountInv'
  <2>1. Counted'
    BY <1>1, <1>2, <1>5, <1>7, JobStays DEF CountInv, Counted, TypeOK
  <2>2. Stale'
    BY <1>1, <1>5, <1>7 DEF CountInv, Stale, Runs
  <2>3. NotAhead'
    BY <1>1, <1>5, <1>7 DEF CountInv, NotAhead, Reach, TypeOK
  <2>4. RetriesGoThrough'
    BY <1>1, <1>2, <1>5, JobStays DEF CountInv, RetriesGoThrough
  <2> QED BY <2>1, <2>2, <2>3, <2>4 DEF CountInv
<1> QED BY <1>9, <1>10, <1>11, <1>12 DEF IndInv

\* What a batch of a later pass adds to its transaction: true references, and
\* all there are to write.
Fills(a, pp, puts) ==
  /\ pp = "update" => \A p \in puts : Refers(p[1], p[2])
  /\ pp = "children" => \A p \in puts : ChildRefers(p[1], p[2])
  /\ pp = "update" /\ Deterministic =>
       \A r \in Batch(a) : r \in Rows \ LeftOut /\ Boss[r] \in Rows \ LeftOut =>
         \A k \in become[r] : \E p \in puts : p[1] = k
  /\ pp = "children" =>
       \A x \in Batch(a) : x \in Nullable \/ Kept(ParentOf[x]) => \E p \in puts : p[1] = x

LEMMA LaterBatchStep ==
  ASSUME IndInv, NEW w \in Workers, NEW pp \in {"update", "children"}, Reads(attempt[w], pp),
         NEW puts, puts \subseteq WritesOf(pp),
         Becomes(w, [ReadOn(attempt[w]) EXCEPT !.tx = @ \cup puts]),
         UNCHANGED <<job, workflow, store, destination, refused, faults>>,
         Fills(attempt[w], pp, puts)
  PROVE  IndInv'
<1> DEFINE a == attempt[w]
           c == ReadOn(a)
           b == [c EXCEPT !.tx = @ \cup puts]
<1>1. TypeInv /\ TypeOK /\ KeyInv /\ DoneInv /\ CountInv
  BY DEF IndInv, TypeInv
<1>2. a.pc = "page" /\ a.pass = pp /\ Becomes(w, b)
  BY DEF Reads
<1>3. /\ c \in AttemptType /\ c.pass = pp /\ c.tx = a.tx /\ c.retry = a.retry /\ c.pc = "page"
      /\ c.keys = NoKeys /\ c.discarded = a.discarded
      /\ c.after = a.after + BatchLen(a) /\ c.after \in Nat /\ a.after \in Nat
      /\ a \in AttemptType /\ AttemptFacts(a) /\ a.after <= LastOf(a.pass)
  BY <1>1, <1>2, ReadOnFacts DEF AttemptType
<1>4. /\ b \in AttemptType /\ b.pc = "page" /\ b.pass = pp /\ b.retry = a.retry /\ b.keys = NoKeys
      /\ b.after = c.after /\ b.read = c.read /\ b.tx = a.tx \cup puts /\ b.discarded = a.discarded
  <2> DEFINE all == c.tx \cup puts
  <2>1. all \in SUBSET ((Keys \cup Children) \X (Rows \cup Keys \cup {None}))
    <3>1. WritesOf(pp) \subseteq (Keys \cup Children) \X (Rows \cup Keys \cup {None})
      BY DEF WritesOf
    <3> QED BY <1>3, <3>1 DEF AttemptType
  <2> HIDE DEF all, c
  <2>2. b = [c EXCEPT !.tx = all]
    BY DEF all
  <2> QED BY <1>3, <2>1, <2>2 DEF AttemptType, all
<1> HIDE DEF b, c
<1>5. b.tx \subseteq WritesOf(b.pass)
  BY <1>2, <1>3, <1>4 DEF AttemptFacts
<1>6. /\ attempt'[w] = b /\ \A v \in Workers : v # w => attempt'[v] = attempt[v]
      /\ TypeInv' /\ (AttemptTrue(attempt[w])' /\ FreshKeys' => KeyInv')
      /\ Counted' => CountInv'
  <2>1. UNCHANGED <<job, workflow, store, dest, childDest, refused, faults>>
    BY DEF destination
  <2>2. /\ b.after = ReadOn(attempt[w]).after /\ b.read = ReadOn(attempt[w]).read
        /\ b.pass = attempt[w].pass /\ b.retry = attempt[w].retry /\ attempt[w].pc = "page"
        /\ b.pass # "insert" => b.discarded = attempt[w].discarded
    BY <1>2, <1>4 DEF c
  <2> QED BY <1>2, <1>4, <1>5, <2>1, <2>2, BatchStep
<1>7. /\ become' = become /\ pass' = pass /\ after' = after /\ awaited' = awaited /\ discarded' = discarded
      /\ store' = store /\ dest' = dest /\ childDest' = childDest /\ UNCHANGED job
  BY DEF job, workflow, destination
<1>8. pass # "insert"
  BY <1>2, <1>3 DEF AttemptFacts
<1>9. AttemptTrue(attempt[w])'
  <2>1. AttemptTrue(a)
    BY <1>1 DEF KeyInv
  <2>2. \A p \in b.tx : p \in a.tx \/ p \in puts
    BY <1>4
  <2>3. CASE pp = "update"
    <3>1. \A p \in b.tx : Refers(p[1], p[2])
      BY <1>2, <2>1, <2>2, <2>3 DEF AttemptTrue, Fills
    <3> QED BY <1>4, <1>6, <1>7, <2>3, <3>1, JobStays, IdleFacts DEF AttemptTrue
  <2>4. CASE pp = "children"
    <3>1. \A p \in b.tx : ChildRefers(p[1], p[2])
      BY <1>2, <2>1, <2>2, <2>4 DEF AttemptTrue, Fills
    <3> QED BY <1>4, <1>6, <1>7, <2>4, <3>1, JobStays, IdleFacts DEF AttemptTrue
  <2> QED BY <2>3, <2>4
<1>10. FreshKeys'
  <2>1. \A v \in Workers : attempt'[v].pass = "insert" =>
          v # w /\ attempt'[v] = attempt[v] /\ attempt[v].pass = "insert"
    BY <1>4, <1>6
  <2> QED BY <1>1, <1>7, <2>1 DEF KeyInv, FreshKeys, IsThere, Locked
<1>11. DoneInv'
  <2>1. \A p, r : Through(p, r)' => Through(p, r)
    BY <1>7 DEF Through
  <2>2. /\ \A p, r : p # pp /\ InHand(p, r)' => InHand(p, r) /\ attempt'[awaited] = attempt[awaited]
        /\ \A r \in Nat : InHand(pp, r)' => InHand(pp, r) \/ (awaited = w /\ r \in Batch(a))
        /\ \A x : awaited # None /\ Wrote(x) => Wrote(x)'
        /\ \A x : awaited = w /\ (\E p \in puts : p[1] = x) => Wrote(x)'
    <3>1. CASE awaited # w
      <4>1. \A p, r : InHand(p, r)' => InHand(p, r) /\ attempt'[awaited] = attempt[awaited]
        BY <1>1, <1>6, <1>7, <3>1 DEF InHand, TypeOK
      <4>2. \A x : awaited # None /\ Wrote(x) => Wrote(x)'
        BY <1>1, <1>6, <1>7, <3>1 DEF Wrote, TypeOK
      <4> QED BY <3>1, <4>1, <4>2
    <3>2. CASE awaited = w
      <4>1. \A p, r : InHand(p, r)' => p = pp /\ after < r /\ r <= c.after
        BY <1>4, <1>6, <1>7, <3>2 DEF InHand
      <4>2. \A r \in Nat : r <= c.after => r <= a.after \/ r \in Batch(a)
        BY <1>3, BatchFacts
      <4>3. \A r \in Nat : InHand(pp, r)' => InHand(pp, r) \/ r \in Batch(a)
        BY <1>1, <1>2, <3>2, <4>1, <4>2, Constants DEF InHand
      <4>4. \A x : Wrote(x) => Wrote(x)'
        BY <1>4, <1>6, <1>7, <3>2 DEF Wrote
      <4>5. \A x : (\E p \in puts : p[1] = x) => Wrote(x)'
        BY <1>4, <1>6, <1>7, <3>2 DEF Wrote
      <4> QED BY <3>2, <4>1, <4>3, <4>4, <4>5
    <3> QED BY <3>1, <3>2
  <2>3. Rows \subseteq Nat /\ Children \subseteq Nat
    BY <1>1, Constants
  <2>4. Published' /\ WrittenRows'
    <3>1. /\ pp # "insert"
          /\ \A r : InHand("insert", r)' => InHand("insert", r) /\ attempt'[awaited] = attempt[awaited]
      BY <2>2
    <3>2. Published'
      BY <1>1, <1>7, <2>1, <3>1, JobStays DEF DoneInv, Published
    <3>3. WrittenRows'
      BY <1>1, <1>7, <2>1, <2>2, <3>1, JobStays DEF DoneInv, WrittenRows, IsThere, InHand
    <3> QED BY <3>2, <3>3
  <2>5. WrittenBosses'
    <3> SUFFICES ASSUME Deterministic, NEW r \in Rows \ LeftOut, Boss[r] \in Rows \ LeftOut,
                        NEW k \in become[r]
                 PROVE  /\ Through("update", r) => dest[k].boss # None
                        /\ InHand("update", r)' => dest[k].boss # None \/ Wrote(k)'
      BY <1>7, <2>1, JobStays DEF WrittenBosses
    <3>1. /\ Through("update", r) => dest[k].boss # None
          /\ InHand("update", r) => dest[k].boss # None \/ Wrote(k)
      BY <1>1 DEF DoneInv, WrittenBosses
    <3>2. InHand("update", r) => awaited # None
      BY DEF InHand
    <3>3. CASE pp = "update"
      BY <2>2, <2>3, <3>1, <3>2, <3>3 DEF Fills
    <3>4. CASE pp # "update"
      BY <2>2, <3>1, <3>2, <3>4
    <3> QED BY <3>3, <3>4
  <2>6. WrittenChildren'
    <3> SUFFICES ASSUME NEW x \in Children, x \in Nullable \/ Kept(ParentOf[x])
                 PROVE  /\ Through("children", x) => childDest[x] # "absent"
                        /\ InHand("children", x)' => childDest[x] # "absent" \/ Wrote(x)'
      BY <1>7, <2>1, JobStays DEF WrittenChildren
    <3>1. /\ Through("children", x) => childDest[x] # "absent"
          /\ InHand("children", x) => childDest[x] # "absent" \/ Wrote(x)
      BY <1>1 DEF DoneInv, WrittenChildren
    <3>2. InHand("children", x) => awaited # None
      BY DEF InHand
    <3>3. CASE pp = "children"
      BY <2>2, <2>3, <3>1, <3>2, <3>3 DEF Fills
    <3>4. CASE pp # "children"
      BY <2>2, <3>1, <3>2, <3>4
    <3> QED BY <3>3, <3>4
  <2> QED BY <2>4, <2>5, <2>6 DEF DoneInv
<1>12. Counted'
  BY <1>1, <1>7, <1>8, JobStays DEF CountInv, Counted
<1> QED BY <1>6, <1>9, <1>10, <1>11, <1>12 DEF IndInv

LEMMA UpdateBatchStep ==
  ASSUME IndInv, NEW w \in Workers, UpdateBatch(w)
  PROVE  IndInv'
<1> DEFINE a == attempt[w]
           filled == {r \in Batch(a) : Boss[r] # 0 /\ store[r] # None /\ store[Boss[r]] # None}
           puts == {<<store[r], store[Boss[r]]>> : r \in filled}
<1>1. TypeInv /\ TypeOK /\ KeyInv /\ DoneInv
  BY DEF IndInv, TypeInv
<1>2. /\ Reads(a, "update") /\ Becomes(w, [ReadOn(a) EXCEPT !.tx = @ \cup puts])
      /\ UNCHANGED <<job, workflow, store, destination, refused, faults>>
  BY DEF UpdateBatch
<1>3. Batch(a) \subseteq Rows /\ pass # "insert"
  <2>1. a \in AttemptType /\ AttemptFacts(a) /\ a.after <= LastOf(a.pass) /\ LastOf(a.pass) = MaxRow
    BY <1>1, <1>2, ReadOnFacts DEF Reads, LastOf
  <2>2. \A r \in Batch(a) : r \in Nat /\ 0 < r /\ r <= MaxRow
    BY <1>1, <2>1, BatchFacts, Constants
  <2> QED BY <1>1, <1>2, <2>1, <2>2, Constants DEF AttemptFacts, Reads
<1>4. \A r \in filled :
        /\ store[r] \in Keys /\ KeyOf(store[r], r)
        /\ store[Boss[r]] \in Keys /\ KeyOf(store[Boss[r]], Boss[r]) /\ Boss[r] # 0 /\ r \in Rows
  BY <1>1, <1>3, Constants DEF TypeOK, KeyInv, StoreTrue
<1>5. \A r \in filled : <<store[r], store[Boss[r]]>> \in puts
  OBVIOUS
<1>6. \A p \in puts : \E r \in filled : p = <<store[r], store[Boss[r]]>>
  OBVIOUS
<1> HIDE DEF puts
<1>7. puts \subseteq WritesOf("update")
  <2>1. \A r \in filled : <<store[r], store[Boss[r]]>> \in Keys \X Keys
    BY <1>4
  <2> QED BY <1>6, <2>1 DEF WritesOf
<1>8. \A p \in puts : Refers(p[1], p[2])
  <2>1. \A r \in filled : Refers(store[r], store[Boss[r]])
    BY <1>4 DEF Refers
  <2> QED BY <1>6, <2>1
<1>9. ASSUME Deterministic, NEW r \in Batch(a), r \in Rows \ LeftOut, Boss[r] \in Rows \ LeftOut,
             NEW k \in become[r]
      PROVE  \E p \in puts : p[1] = k
  <2>1. store[r] # None /\ store[Boss[r]] # None
    BY <1>1, <1>3, <1>9 DEF DoneInv, Published, Through
  <2>2. r \in filled
    BY <1>1, <1>9, <2>1, Constants
  <2>3. store[r] = k
    BY <1>4, <1>9, <2>2 DEF KeyOf, Deterministic
  <2> QED BY <1>5, <2>2, <2>3
<1>10. Fills(a, "update", puts)
  BY <1>8, <1>9 DEF Fills
<1> QED BY <1>2, <1>7, <1>10, LaterBatchStep

LEMMA ChildBatchStep ==
  ASSUME IndInv, NEW w \in Workers, ChildBatch(w)
  PROVE  IndInv'
<1> DEFINE a == attempt[w]
           written == {x \in Batch(a) : Written(x)}
           puts == {<<x, store[ParentOf[x]]>> : x \in written}
<1>1. TypeInv /\ TypeOK /\ KeyInv /\ DoneInv
  BY DEF IndInv, TypeInv
<1>2. /\ Reads(a, "children") /\ Becomes(w, [ReadOn(a) EXCEPT !.tx = @ \cup puts])
      /\ UNCHANGED <<job, workflow, store, destination, refused, faults>>
  BY DEF ChildBatch
<1>3. Batch(a) \subseteq Children /\ pass # "insert"
  <2>1. a \in AttemptType /\ AttemptFacts(a) /\ a.after <= LastOf(a.pass) /\ LastOf(a.pass) = MaxChild
    BY <1>1, <1>2, ReadOnFacts DEF Reads, LastOf
  <2>2. \A r \in Batch(a) : r \in Nat /\ 0 < r /\ r <= MaxChild
    BY <1>1, <2>1, BatchFacts, Constants
  <2> QED BY <1>1, <1>2, <2>1, <2>2, Constants DEF AttemptFacts, Reads
<1>4. \A x \in Batch(a) : ParentOf[x] \in Rows /\ (Kept(ParentOf[x]) => store[ParentOf[x]] # None)
  BY <1>1, <1>3, Constants DEF DoneInv, Published, Through, Kept
<1>5. \A x \in written : <<x, store[ParentOf[x]]>> \in puts
  OBVIOUS
<1>6. \A p \in puts : \E x \in written : p = <<x, store[ParentOf[x]]>>
  OBVIOUS
<1> HIDE DEF puts
<1>7. puts \subseteq WritesOf("children")
  <2>1. \A x \in written : <<x, store[ParentOf[x]]>> \in Children \X (Keys \cup {None})
    BY <1>1, <1>3, <1>4 DEF TypeOK
  <2> QED BY <1>6, <2>1 DEF WritesOf
<1>8. \A p \in puts : ChildRefers(p[1], p[2])
  <2>1. \A x \in written : ChildRefers(x, store[ParentOf[x]])
    BY <1>1, <1>4 DEF ChildRefers, KeyInv, StoreTrue, Written
  <2> QED BY <1>6, <2>1
<1>9. ASSUME NEW x \in Batch(a), x \in Nullable \/ Kept(ParentOf[x]) PROVE \E p \in puts : p[1] = x
  <2>1. x \in written
    BY <1>4, <1>9 DEF Written
  <2> QED BY <1>5, <2>1
<1>10. Fills(a, "children", puts)
  BY <1>8, <1>9 DEF Fills
<1> QED BY <1>2, <1>7, <1>10, LaterBatchStep

-----------------------------------------------------------------------------
(* The commit.                                                             *)

\* What a commit does to a table: what is there stays, a row or a reference
\* that is new was in the transaction, and what was in it is there.
RowsAdded(a) ==
  /\ \A k \in Keys : IsThere(k) => dest'[k].row = dest[k].row
  /\ \A k \in Keys : dest'[k].row # 0 =>
       \/ IsThere(k)
       \/ a.pass = "insert" /\ \E p \in a.tx : p[1] = k /\ p[2] = dest'[k].row
  /\ a.pass = "insert" => \A p \in a.tx : dest'[p[1]].row # 0
BossesAdded(a) ==
  /\ \A k \in Keys : dest[k].boss # None => dest'[k].boss # None
  /\ \A k \in Keys : dest'[k].boss # None =>
       \/ dest[k].boss = dest'[k].boss
       \/ a.pass = "update" /\ IsThere(k) /\ \E p \in a.tx : p[1] = k /\ p[2] = dest'[k].boss
  /\ a.pass = "update" => \A p \in a.tx : IsThere(p[1]) => dest'[p[1]].boss # None
ChildrenAdded(a) ==
  /\ \A x \in Children : childDest[x] # "absent" => childDest'[x] = childDest[x]
  /\ \A x \in Children : childDest'[x] # "absent" =>
       \/ childDest'[x] = childDest[x]
       \/ a.pass = "children" /\ \E p \in a.tx : p[1] = x /\ p[2] = childDest'[x]
  /\ a.pass = "children" => \A p \in a.tx : childDest'[p[1]] # "absent"

LEMMA CommitAdds ==
  ASSUME IndInv, NEW w \in Workers, Commit(w)
  PROVE  /\ dest' \in [Keys -> [row : 0..MaxRow, boss : Keys \cup {None}]]
         /\ childDest' \in [Children -> Keys \cup {None, "absent"}]
         /\ RowsAdded(attempt[w]) /\ BossesAdded(attempt[w]) /\ ChildrenAdded(attempt[w])
<1> DEFINE a == attempt[w]
           Has(x) == \E p \in a.tx : p[1] = x
           Put(x) == (CHOOSE p \in a.tx : p[1] = x)[2]
<1>1. TypeOK /\ AttemptFacts(a) /\ KeyInv /\ a \in AttemptType
  BY DEF IndInv, TypeInv, TypeOK
<1>2. /\ dest' = [k \in Keys |->
            IF a.pass = "insert" /\ Has(k) THEN [row |-> Put(k), boss |-> None]
            ELSE IF a.pass = "update" /\ Has(k) /\ dest[k].row # 0
            THEN [dest[k] EXCEPT !.boss = Put(k)]
            ELSE dest[k]]
      /\ childDest' = [x \in Children |->
            IF a.pass = "children" /\ Has(x) /\ childDest[x] = "absent"
            THEN Put(x) ELSE childDest[x]]
  BY Zenon DEF Commit
<1>3. /\ \A x : Has(x) => \E p \in a.tx : p[1] = x /\ p[2] = Put(x)
      /\ \A p \in a.tx : Has(p[1])
  <2>1. ASSUME NEW x, Has(x) PROVE \E p \in a.tx : p[1] = x /\ p[2] = Put(x)
    <3> DEFINE q == CHOOSE p \in a.tx : p[1] = x
    <3>1. q \in a.tx /\ q[1] = x
      BY <2>1
    <3> QED BY <3>1
  <2> QED BY <2>1
<1> HIDE DEF Has, Put
<1>4. CASE a.pass = "insert"
  <2>1. /\ \A k \in Keys : Has(k) => Put(k) \in Rows /\ ~IsThere(k)
        /\ \A p \in a.tx : p[1] \in Keys
    BY <1>1, <1>3, <1>4 DEF AttemptFacts, WritesOf, KeyInv, FreshKeys
  <2>2. /\ \A k \in Keys : dest'[k] = IF Has(k) THEN [row |-> Put(k), boss |-> None] ELSE dest[k]
        /\ \A x \in Children : childDest'[x] = childDest[x]
    BY <1>2, <1>4
  <2>3. ASSUME NEW k \in Keys, Has(k)
        PROVE  /\ dest'[k].row = Put(k) /\ dest'[k].row \in Rows
               /\ dest'[k].boss = None /\ dest[k].boss = None
               /\ dest'[k] \in [row : 0..MaxRow, boss : Keys \cup {None}]
    <3>1. dest'[k] = [row |-> Put(k), boss |-> None]
      BY <2>2, <2>3
    <3>2. Put(k) \in Rows /\ Put(k) \in 0..MaxRow /\ ~IsThere(k)
      BY <1>1, <2>1, <2>3, Constants
    <3>3. dest[k].boss = None
      BY <1>1, <3>2 DEF KeyInv, BossesTrue
    <3> QED BY <3>1, <3>2, <3>3
  <2>8. ASSUME NEW k \in Keys, ~Has(k) PROVE dest'[k] = dest[k]
    BY <2>2, <2>8
  <2>4. /\ dest' \in [Keys -> [row : 0..MaxRow, boss : Keys \cup {None}]]
        /\ childDest' \in [Children -> Keys \cup {None, "absent"}]
    <3>1. \A k \in Keys : dest'[k] \in [row : 0..MaxRow, boss : Keys \cup {None}]
      BY <1>1, <2>3, <2>8 DEF TypeOK
    <3>2. dest' = [k \in Keys |-> dest'[k]]
      BY <1>2, Zenon
    <3>3. childDest' = childDest
      BY <1>1, <1>2, <1>4 DEF TypeOK
    <3> QED BY <1>1, <3>1, <3>2, <3>3 DEF TypeOK
  <2>5. RowsAdded(a)
    <3>1. \A k \in Keys : IsThere(k) => dest'[k].row = dest[k].row
      BY <2>1, <2>8
    <3>2. ASSUME NEW k \in Keys, dest'[k].row # 0, ~IsThere(k)
          PROVE  \E p \in a.tx : p[1] = k /\ p[2] = dest'[k].row
      BY <1>3, <2>3, <2>8, <3>2 DEF IsThere
    <3>3. \A p \in a.tx : dest'[p[1]].row # 0
      BY <1>1, <1>3, <2>1, <2>3, Constants
    <3> QED BY <1>4, <3>1, <3>2, <3>3 DEF RowsAdded
  <2>6. BossesAdded(a)
    BY <1>4, <2>3, <2>8 DEF BossesAdded
  <2>7. ChildrenAdded(a)
    BY <1>4, <2>2 DEF ChildrenAdded
  <2> QED BY <2>4, <2>5, <2>6, <2>7
<1>5. CASE a.pass = "update"
  <2>1. /\ \A k \in Keys : Has(k) => Put(k) \in Keys
        /\ \A p \in a.tx : p[1] \in Keys
    BY <1>1, <1>3, <1>5 DEF AttemptFacts, WritesOf
  <2>2. /\ \A k \in Keys : dest'[k] = IF Has(k) /\ IsThere(k) THEN [dest[k] EXCEPT !.boss = Put(k)] ELSE dest[k]
        /\ \A x \in Children : childDest'[x] = childDest[x]
    BY <1>2, <1>5 DEF IsThere
  <2>3. ASSUME NEW k \in Keys
        PROVE  /\ dest'[k].row = dest[k].row
               /\ Has(k) /\ IsThere(k) => dest'[k].boss = Put(k) /\ dest'[k].boss # None
               /\ ~ (Has(k) /\ IsThere(k)) => dest'[k].boss = dest[k].boss
               /\ dest'[k] \in [row : 0..MaxRow, boss : Keys \cup {None}]
    <3>1. dest[k] \in [row : 0..MaxRow, boss : Keys \cup {None}] /\ None \notin Keys
      BY <1>1, Constants DEF TypeOK
    <3>2. CASE Has(k) /\ IsThere(k)
      <4>1. dest'[k] = [dest[k] EXCEPT !.boss = Put(k)] /\ Put(k) \in Keys
        BY <2>1, <2>2, <3>2
      <4> QED BY <3>1, <3>2, <4>1
    <3>3. CASE ~ (Has(k) /\ IsThere(k))
      BY <2>2, <3>1, <3>3
    <3> QED BY <3>2, <3>3
  <2>4. /\ dest' \in [Keys -> [row : 0..MaxRow, boss : Keys \cup {None}]]
        /\ childDest' \in [Children -> Keys \cup {None, "absent"}]
    <3>2. dest' = [k \in Keys |-> dest'[k]]
      BY <1>2, Zenon
    <3>3. childDest' = childDest
      BY <1>1, <1>2, <1>5 DEF TypeOK
    <3> QED BY <1>1, <2>3, <3>2, <3>3 DEF TypeOK
  <2>5. RowsAdded(a)
    BY <1>5, <2>3 DEF RowsAdded, IsThere
  <2>6. BossesAdded(a)
    BY <1>3, <1>5, <2>1, <2>3 DEF BossesAdded
  <2>7. ChildrenAdded(a)
    BY <1>5, <2>2 DEF ChildrenAdded
  <2> QED BY <2>4, <2>5, <2>6, <2>7
<1>6. CASE a.pass = "children"
  <2>1. /\ \A x \in Children : Has(x) => Put(x) \in Keys \cup {None}
        /\ \A p \in a.tx : p[1] \in Children
    BY <1>1, <1>3, <1>6 DEF AttemptFacts, WritesOf
  <2>2. dest' = dest
    BY <1>1, <1>2, <1>6 DEF TypeOK
  <2>3. \A x \in Children : childDest'[x] = IF Has(x) /\ childDest[x] = "absent" THEN Put(x) ELSE childDest[x]
    BY <1>2, <1>6
  <2>4. /\ dest' \in [Keys -> [row : 0..MaxRow, boss : Keys \cup {None}]]
        /\ childDest' \in [Children -> Keys \cup {None, "absent"}]
    BY <1>1, <1>2, <2>1, <2>2, <2>3 DEF TypeOK
  <2>5. RowsAdded(a)
    BY <1>6, <2>2 DEF RowsAdded, IsThere
  <2>6. BossesAdded(a)
    BY <1>6, <2>2 DEF BossesAdded
  <2>7. ChildrenAdded(a)
    BY <1>1, <1>3, <1>6, <2>1, <2>3, Constants DEF ChildrenAdded
  <2> QED BY <2>4, <2>5, <2>6, <2>7
<1> QED BY <1>1, <1>4, <1>5, <1>6 DEF AttemptType

LEMMA CommitStep ==
  ASSUME IndInv, NEW w \in Workers, Commit(w)
  PROVE  IndInv'
<1> DEFINE a == attempt[w]
           b == [a EXCEPT !.pc = "answer", !.tx = {}]
<1>1. TypeInv /\ TypeOK /\ KeyInv /\ DoneInv /\ CountInv
  BY DEF IndInv, TypeInv
<1>2. /\ a.pc = "page" /\ BatchLen(a) = 0 /\ Becomes(w, b)
      /\ UNCHANGED <<job, workflow, store, refused, faults>>
  BY DEF Commit, ReadAll
<1>3. /\ dest' \in [Keys -> [row : 0..MaxRow, boss : Keys \cup {None}]]
      /\ childDest' \in [Children -> Keys \cup {None, "absent"}]
      /\ RowsAdded(a) /\ BossesAdded(a) /\ ChildrenAdded(a)
  BY CommitAdds
<1>4. a \in AttemptType /\ AttemptFacts(a) /\ a.keys = NoKeys
  BY <1>1, <1>2 DEF TypeInv, TypeOK, AttemptFacts
<1>5. /\ b \in AttemptType /\ b.pc = "answer" /\ b.pass = a.pass /\ b.keys = a.keys
      /\ b.after = a.after /\ b.read = a.read /\ b.tx = {} /\ b.retry = a.retry
      /\ b.discarded = a.discarded
  <2>1. b = [[a EXCEPT !.pc = "answer"] EXCEPT !.tx = {}]
    BY <1>4 DEF AttemptType
  <2> QED BY <1>4, <2>1 DEF AttemptType
<1> HIDE DEF b
<1>6. /\ become' = become /\ pass' = pass /\ after' = after /\ discarded' = discarded
      /\ awaited' = awaited /\ tries' = tries /\ store' = store /\ refused' = refused
      /\ faults' = faults /\ UNCHANGED job
  BY <1>2 DEF job, workflow
<1>7. /\ attempt' \in [Workers -> AttemptType] /\ attempt'[w] = b
      /\ \A v \in Workers : v # w => attempt'[v] = attempt[v]
      /\ \A v \in Workers : AttemptFacts(attempt[v])'
  <2>1. attempt'[w] = b
    BY <1>1, <1>2 DEF Becomes, TypeOK
  <2>2. BatchLen(b) = 0
    BY <1>2, <1>5 DEF BatchLen
  <2>3. AttemptFacts(attempt[w])'
    <3>1. AttemptFacts(b)
      BY <1>4, <1>5, <2>2 DEF AttemptFacts, WritesOf
    <3> QED BY <1>6, <2>1, <3>1 DEF AttemptFacts
  <2> QED BY <1>1, <1>2, <1>5, <1>6, <2>3, AttemptMoves
<1>8. \A v \in Workers :
        /\ attempt'[v].pass = attempt[v].pass /\ attempt'[v].keys = attempt[v].keys
        /\ attempt'[v].after = attempt[v].after /\ attempt'[v].read = attempt[v].read
        /\ attempt'[v].retry = attempt[v].retry /\ attempt'[v].discarded = attempt[v].discarded
        /\ (attempt'[v].pc = "off" <=> attempt[v].pc = "off")
        /\ attempt'[v].tx \subseteq attempt[v].tx
  BY <1>2, <1>5, <1>7
<1>9. TypeInv'
  <2>1. TypeOK'
    BY <1>1, <1>3, <1>6, <1>7 DEF TypeOK, job
  <2>2. AwaitedFacts'
    BY <1>1, <1>6, <1>8 DEF TypeInv, TypeOK, AwaitedFacts, Runs, LastOf
  <2> QED BY <1>7, <2>1, <2>2 DEF TypeInv
<1>10. \A k \in Keys : IsThere(k) => IsThere(k)'
  BY <1>3 DEF RowsAdded, IsThere
<1>11. KeyInv'
  <2>1. ASSUME NEW v \in Workers PROVE AttemptTrue(attempt[v])'
    <3>1. AttemptTrue(attempt[v])
      BY <1>1 DEF KeyInv
    <3> QED BY <1>6, <1>8, <3>1, JobStays DEF AttemptTrue
  <2>2. AttemptTrue(a)
    BY <1>1 DEF KeyInv
  <2>3. StoreTrue'
    BY <1>1, <1>6, JobStays DEF KeyInv, StoreTrue
  <2>4. RowsTrue'
    <3> SUFFICES ASSUME NEW k \in Keys, dest'[k].row # 0 PROVE KeyOf(k, dest'[k].row)
      BY <1>6, JobStays DEF RowsTrue, IsThere
    <3>1. CASE IsThere(k)
      BY <1>1, <1>3, <3>1 DEF RowsAdded, KeyInv, RowsTrue
    <3>2. CASE ~IsThere(k)
      BY <1>3, <2>2, <3>2 DEF RowsAdded, AttemptTrue
    <3> QED BY <3>1, <3>2
  <2>5. BossesTrue'
    <3> SUFFICES ASSUME NEW k \in Keys, dest'[k].boss # None
                 PROVE  pass # "insert" /\ IsThere(k) /\ Refers(k, dest'[k].boss)
      BY <1>6, <1>10, JobStays DEF BossesTrue
    <3>1. CASE dest[k].boss = dest'[k].boss
      BY <1>1, <3>1 DEF KeyInv, BossesTrue
    <3>2. CASE dest[k].boss # dest'[k].boss
      <4>1. a.pass = "update" /\ IsThere(k) /\ \E p \in a.tx : p[1] = k /\ p[2] = dest'[k].boss
        BY <1>3, <3>2 DEF BossesAdded
      <4> QED BY <1>4, <2>2, <4>1 DEF AttemptTrue, AttemptFacts
    <3> QED BY <3>1, <3>2
  <2>6. ChildrenTrue'
    <3> SUFFICES ASSUME NEW x \in Children, childDest'[x] # "absent"
                 PROVE  pass # "insert" /\ ChildRefers(x, childDest'[x])
      BY <1>6, JobStays DEF ChildrenTrue
    <3>1. CASE childDest'[x] = childDest[x]
      BY <1>1, <3>1 DEF KeyInv, ChildrenTrue
    <3>2. CASE childDest'[x] # childDest[x]
      <4>1. a.pass = "children" /\ \E p \in a.tx : p[1] = x /\ p[2] = childDest'[x]
        BY <1>3, <3>2 DEF ChildrenAdded
      <4> QED BY <1>4, <2>2, <4>1 DEF AttemptTrue, AttemptFacts
    <3> QED BY <3>1, <3>2
  <2>7. FreshKeys'
    <3> SUFFICES ASSUME NEW v \in Workers, attempt'[v].pass = "insert", NEW p \in attempt'[v].tx
                 PROVE  dest'[p[1]].row = 0 /\ ~Locked(v, p[1])'
      BY DEF FreshKeys, IsThere
    <3>1. /\ v # w /\ attempt[v].pass = "insert" /\ p \in attempt[v].tx
          /\ ~IsThere(p[1]) /\ ~Locked(v, p[1])
      BY <1>1, <1>5, <1>7, <1>8 DEF KeyInv, FreshKeys
    <3>2. ~Locked(v, p[1])'
      <4> SUFFICES ASSUME NEW x \in Workers \ {v}, attempt'[x].pass = "insert",
                          NEW q \in attempt'[x].tx, q[1] = p[1]
                   PROVE  FALSE
        BY DEF Locked
      <4> QED BY <1>8, <3>1 DEF Locked
    <3>3. p[1] \in Keys
      BY <1>1, <3>1 DEF TypeInv, AttemptFacts, WritesOf
    <3>4. dest'[p[1]].row # 0 => a.pass = "insert" /\ \E q \in a.tx : q[1] = p[1]
      BY <1>3, <3>1, <3>3 DEF RowsAdded
    <3>5. a.pass = "insert" /\ (\E q \in a.tx : q[1] = p[1]) => FALSE
      BY <3>1 DEF Locked
    <3> QED BY <3>2, <3>4, <3>5
  <2> QED BY <2>1, <2>3, <2>4, <2>5, <2>6, <2>7 DEF KeyInv
<1>12. DoneInv'
  <2>1. /\ \A p, r : Through(p, r)' <=> Through(p, r)
        /\ \A p, r : InHand(p, r)' <=> InHand(p, r)
        /\ \A p, r : InHand(p, r) => awaited \in Workers
        /\ \A p, r : InHand(p, r) /\ awaited = w => a.pass = p
        /\ \A x : awaited \in Workers /\ awaited # w /\ Wrote(x) => Wrote(x)'
    BY <1>1, <1>6, <1>7, <1>8 DEF Through, InHand, Wrote, TypeOK
  <2>2. Published'
    BY <1>1, <1>6, <1>8, <2>1, JobStays DEF DoneInv, Published
  <2>3. WrittenRows'
    <3> SUFFICES ASSUME Deterministic, NEW r \in Rows \ LeftOut, NEW k \in become[r]
                 PROVE  /\ Through("insert", r) => IsThere(k)'
                        /\ InHand("insert", r) => IsThere(k)' \/ Wrote(k)'
      BY <1>6, <2>1, JobStays DEF WrittenRows
    <3>1. /\ Through("insert", r) => IsThere(k)
          /\ InHand("insert", r) => IsThere(k) \/ Wrote(k)
      BY <1>1 DEF DoneInv, WrittenRows
    <3>2. k \in Keys
      BY <1>1, Constants
    <3>3. a.pass = "insert" /\ awaited = w /\ Wrote(k) => IsThere(k)'
      BY <1>3 DEF RowsAdded, Wrote, IsThere
    <3> QED BY <1>10, <2>1, <3>1, <3>2, <3>3
  <2>4. WrittenBosses'
    <3> SUFFICES ASSUME Deterministic, NEW r \in Rows \ LeftOut, Boss[r] \in Rows \ LeftOut,
                        NEW k \in become[r]
                 PROVE  /\ Through("update", r) => dest'[k].boss # None
                        /\ InHand("update", r) => dest'[k].boss # None \/ Wrote(k)'
      BY <1>6, <2>1, JobStays DEF WrittenBosses
    <3>1. /\ Through("update", r) => dest[k].boss # None
          /\ InHand("update", r) => dest[k].boss # None \/ Wrote(k)
      BY <1>1 DEF DoneInv, WrittenBosses
    <3>2. k \in Keys
      BY <1>1, Constants
    <3>3. dest[k].boss # None => dest'[k].boss # None
      BY <1>3, <3>2 DEF BossesAdded
    <3>4. a.pass = "update" /\ awaited = w /\ Wrote(k) => dest'[k].boss # None
      <4> SUFFICES ASSUME a.pass = "update", awaited = w, Wrote(k) PROVE dest'[k].boss # None
        OBVIOUS
      <4>1. Through("insert", r)
        BY <1>4 DEF AttemptFacts, Through
      <4>2. IsThere(k)
        BY <1>1, <4>1 DEF DoneInv, WrittenRows
      <4> QED BY <1>3, <4>2 DEF BossesAdded, Wrote
    <3> QED BY <2>1, <3>1, <3>3, <3>4
  <2>5. WrittenChildren'
    <3> SUFFICES ASSUME NEW x \in Children, x \in Nullable \/ Kept(ParentOf[x])
                 PROVE  /\ Through("children", x) => childDest'[x] # "absent"
                        /\ InHand("children", x) => childDest'[x] # "absent" \/ Wrote(x)'
      BY <1>6, <2>1, JobStays DEF WrittenChildren
    <3>1. /\ Through("children", x) => childDest[x] # "absent"
          /\ InHand("children", x) => childDest[x] # "absent" \/ Wrote(x)
      BY <1>1 DEF DoneInv, WrittenChildren
    <3>2. childDest[x] # "absent" => childDest'[x] # "absent"
      BY <1>3 DEF ChildrenAdded
    <3>3. a.pass = "children" /\ awaited = w /\ Wrote(x) => childDest'[x] # "absent"
      BY <1>3 DEF ChildrenAdded, Wrote
    <3> QED BY <2>1, <3>1, <3>2, <3>3
  <2> QED BY <2>2, <2>3, <2>4, <2>5 DEF DoneInv
<1>13. CountInv'
  <2>1. Counted'
    BY <1>1, <1>6, <1>8, JobStays DEF CountInv, Counted, TypeOK
  <2>2. Stale'
    BY <1>1, <1>6, <1>8 DEF CountInv, Stale, Runs
  <2>3. NotAhead'
    <3> SUFFICES ASSUME pass = "insert", NEW k \in Keys PROVE dest'[k].row <= Reach
      BY <1>1, <1>6, <1>8 DEF NotAhead, Reach, TypeOK
    <3>1. Reach \in Nat /\ after <= Reach /\ after \in Nat
      BY <1>1, ReachFacts DEF TypeOK
    <3>2. CASE IsThere(k) \/ dest'[k].row = 0
      <4>1. dest[k].row <= Reach
        BY <1>1 DEF CountInv, NotAhead
      <4> QED BY <1>3, <3>1, <3>2, <4>1 DEF RowsAdded
    <3>3. CASE ~IsThere(k) /\ dest'[k].row # 0
      <4>1. a.pass = "insert" /\ \E p \in a.tx : p[1] = k /\ p[2] = dest'[k].row
        BY <1>3, <3>3 DEF RowsAdded
      <4>2. dest'[k].row <= a.after /\ dest'[k].row \in Nat /\ a.after \in Nat
        BY <1>1, <1>3, <1>4, <4>1, Constants DEF KeyInv, AttemptTrue, AttemptType
      <4>3. a.after <= Reach
        <5>1. a.after - a.read + PageLimit \in Int /\ a.read <= PageLimit /\ a.read \in Nat /\ PageLimit \in Nat
          BY <1>1, <1>4, Constants DEF AttemptType
        <5>2. CASE awaited = w
          <6>1. a.after - a.read = after
            BY <1>1, <5>2, Constants DEF TypeInv, AwaitedFacts
          <6> QED BY <1>1, <3>1, <4>2, <5>1, <5>2, <6>1, Constants DEF Reach
        <5>3. CASE awaited # w
          <6>1. Runs(a, "insert")
            BY <1>2, <4>1 DEF Runs
          <6>2. \/ a.after - a.read + PageLimit <= after
                \/ a.after - a.read = after /\ tries > 0
            BY <1>1, <5>3, <6>1 DEF CountInv, Stale
          <6> QED BY <3>1, <4>2, <5>1, <6>2 DEF Reach
        <5> QED BY <5>2, <5>3
      <4> QED BY <3>1, <4>2, <4>3
    <3> QED BY <3>2, <3>3
  <2>4. RetriesGoThrough'
    BY <1>1, <1>6, JobStays DEF CountInv, RetriesGoThrough
  <2> QED BY <2>1, <2>2, <2>3, <2>4 DEF CountInv
<1> QED BY <1>9, <1>11, <1>12, <1>13 DEF IndInv

-----------------------------------------------------------------------------
(* The answer.                                                             *)

\* What the workflow takes to be through is what the page it is at has seen.
LEMMA AnswerMoves ==
  ASSUME IndInv, NEW w \in Workers, Answer(w)
  PROVE  LET a == attempt[w]
         IN  /\ a \in AttemptType /\ AttemptFacts(a) /\ a.pass = pass /\ a.pass # "done"
             /\ after \in Nat /\ a.after \in Nat /\ after <= a.after
             /\ a.tx = {} /\ a.keys = NoKeys /\ w # None /\ awaited = w
             /\ \/ /\ pass' = pass /\ after' = a.after /\ after' = after + PageLimit
                   /\ after' <= LastOf(pass)
                \/ /\ pass' = NextPass[pass] /\ after' = 0 /\ a.after = LastOf(pass)
<1> DEFINE a == attempt[w]
<1>1. TypeInv /\ TypeOK
  BY DEF IndInv, TypeInv
<1>2. a \in AttemptType /\ AttemptFacts(a) /\ awaited = w /\ w # None /\ a.pc = "answer"
  BY <1>1, Constants DEF Answer, TypeInv, TypeOK
<1>3. /\ a.pass = pass /\ a.pass # "done" /\ a.after - a.read = after
  BY <1>1, <1>2 DEF TypeInv, AwaitedFacts, Runs, AttemptType
<1>4. a.tx = {} /\ a.keys = NoKeys /\ BatchLen(a) = 0 /\ a.after <= LastOf(a.pass)
  BY <1>2 DEF AttemptFacts
<1>5. /\ after \in Nat /\ a.after \in Nat /\ a.read \in Nat /\ a.read <= PageLimit /\ PageLimit \in Nat
      /\ a.after = LastOf(a.pass) \/ a.read = PageLimit
  BY <1>1, <1>2, <1>4, BatchFacts, Constants DEF TypeOK, AttemptType
<1>6. CASE HasMore(a)
  <2>1. pass' = pass /\ after' = a.after
    BY <1>6 DEF Answer
  <2> QED BY <1>2, <1>3, <1>4, <1>5, <1>6, <2>1 DEF HasMore
<1>7. CASE ~HasMore(a)
  <2>1. pass' = NextPass[pass] /\ after' = 0
    BY <1>7 DEF Answer
  <2> QED BY <1>2, <1>3, <1>4, <1>5, <1>7, <2>1 DEF HasMore
<1> QED BY <1>6, <1>7

LEMMA AnswerStep ==
  ASSUME IndInv, NEW w \in Workers, Answer(w)
  PROVE  IndInv'
<1> DEFINE a == attempt[w]
<1>1. TypeInv /\ TypeOK /\ KeyInv /\ DoneInv /\ CountInv
  BY DEF IndInv, TypeInv
<1>2. /\ discarded' = discarded + a.discarded /\ awaited' = None /\ tries' = 0 /\ Becomes(w, Idle)
      /\ UNCHANGED <<job, store, dest, childDest, refused, faults>>
  BY DEF Answer, destination
<1>3. /\ a \in AttemptType /\ AttemptFacts(a) /\ a.pass = pass /\ a.pass # "done"
      /\ after \in Nat /\ a.after \in Nat /\ after <= a.after
      /\ a.tx = {} /\ a.keys = NoKeys /\ w # None /\ awaited = w
  BY AnswerMoves
<1>4. \/ /\ pass' = pass /\ after' = a.after /\ after' = after + PageLimit
         /\ after' <= LastOf(pass)
      \/ /\ pass' = NextPass[pass] /\ after' = 0 /\ a.after = LastOf(pass)
  BY AnswerMoves
<1>5. pass \in {"insert", "update", "children"}
  BY <1>1, <1>3 DEF TypeOK
<1>6. /\ pass' \in {"insert", "update", "children", "done"} /\ after' \in Nat
      /\ pass # "insert" => pass' # "insert"
      /\ pass \in {"children", "done"} => pass' \in {"children", "done"}
  BY <1>3, <1>4, <1>5 DEF NextPass
<1>7. /\ attempt' \in [Workers -> AttemptType] /\ attempt'[w] = Idle
      /\ \A v \in Workers : v # w => attempt'[v] = attempt[v]
      /\ \A v \in Workers : AttemptFacts(attempt[v])'
  <2>1. attempt'[w] = Idle
    BY <1>1, <1>2 DEF Becomes, TypeOK
  <2>2. AttemptFacts(attempt[w])'
    BY <2>1, IdleFacts, TableAssumption DEF AttemptFacts, WritesOf, LastOf
  <2> QED BY <1>1, <1>2, <1>6, <2>2, IdleFacts, AttemptMoves
<1>8. TypeInv'
  <2>1. discarded' \in Nat
    BY <1>1, <1>2, <1>3 DEF TypeOK, AttemptType
  <2>2. TypeOK'
    BY <1>1, <1>2, <1>6, <1>7, <2>1 DEF TypeOK, job
  <2>3. AwaitedFacts'
    <3>1. pass' # "done" => after' <= LastOf(pass')
      BY <1>4, TableAssumption DEF LastOf
    <3> QED BY <1>2, <3>1 DEF AwaitedFacts, LastOf
  <2> QED BY <1>7, <2>2, <2>3 DEF TypeInv
<1>9. KeyInv'
  <2>1. ASSUME NEW v \in Workers PROVE AttemptTrue(attempt[v])'
    <3>1. CASE v # w
      <4>1. AttemptTrue(attempt[v]) /\ attempt'[v] = attempt[v]
        BY <1>1, <1>7, <3>1 DEF KeyInv
      <4> QED BY <1>2, <4>1, JobStays DEF AttemptTrue
    <3>2. CASE v = w
      BY <1>7, <3>2, IdleFacts DEF AttemptTrue
    <3> QED BY <3>1, <3>2
  <2>2. StoreTrue' /\ RowsTrue' /\ BossesTrue' /\ ChildrenTrue'
    BY <1>1, <1>2, <1>6, JobStays DEF KeyInv, StoreTrue, RowsTrue, BossesTrue, ChildrenTrue, IsThere
  <2>3. FreshKeys'
    BY <1>1, <1>2, <1>7, IdleFacts DEF KeyInv, FreshKeys, IsThere, Locked
  <2> QED BY <2>1, <2>2, <2>3 DEF KeyInv
<1>10. DoneInv'
  <2>1. \A p, r : ~InHand(p, r)'
    BY <1>2 DEF InHand
  <2>2. ASSUME NEW p \in {"insert", "update", "children"}, NEW r \in Nat \ {0}, r <= LastOf(p), Through(p, r)'
        PROVE  Through(p, r) \/ InHand(p, r)
    <3>1. p = pass /\ r <= a.after => Through(p, r) \/ InHand(p, r)
      BY <1>3 DEF Through, InHand
    <3>2. CASE pass' = pass /\ after' = a.after
      BY <2>2, <3>1, <3>2 DEF Through
    <3>3. CASE pass' = NextPass[pass] /\ after' = 0 /\ a.after = LastOf(pass)
      <4>1. p = pass \/ Through(p, r)
        BY <1>5, <2>2, <3>3 DEF Through, NextPass
      <4> QED BY <2>2, <3>1, <3>3, <4>1
    <3> QED BY <1>4, <3>2, <3>3
  <2>3. /\ \A x : awaited = w => ~Wrote(x)
        /\ \A r \in Rows : attempt[awaited].keys[r] = None
    BY <1>3, IdleFacts DEF Wrote
  <2>4. /\ \A r \in Rows : r \in Nat \ {0} /\ r <= LastOf("insert") /\ r <= LastOf("update")
        /\ \A x \in Children : x \in Nat \ {0} /\ x <= LastOf("children")
    BY <1>1, Constants DEF LastOf
  <2>5. Published'
    BY <1>1, <1>2, <2>1, <2>2, <2>3, <2>4, JobStays DEF DoneInv, Published
  <2>6. WrittenRows'
    BY <1>1, <1>2, <1>3, <2>1, <2>2, <2>3, <2>4, JobStays DEF DoneInv, WrittenRows, IsThere, job
  <2>7. WrittenBosses'
    BY <1>1, <1>2, <1>3, <2>1, <2>2, <2>3, <2>4, JobStays DEF DoneInv, WrittenBosses, job
  <2>8. WrittenChildren'
    BY <1>1, <1>2, <1>3, <2>1, <2>2, <2>3, <2>4, JobStays DEF DoneInv, WrittenChildren
  <2> QED BY <2>5, <2>6, <2>7, <2>8 DEF DoneInv
<1>11. CountInv'
  <2>1. Counted'
    <3>1. pass = "insert" => discarded' = LeftOutIn(0, a.after)
      <4> SUFFICES ASSUME pass = "insert" PROVE discarded' = LeftOutIn(0, a.after)
        OBVIOUS
      <4>1. discarded = LeftOutIn(0, after) /\ a.discarded = LeftOutIn(after, a.after)
        BY <1>1, <1>3 DEF CountInv, Counted
      <4>2. LeftOutIn(0, a.after) = LeftOutIn(0, after) + LeftOutIn(after, a.after)
        BY <1>1, <1>3, LeftOutAdds
      <4> QED BY <1>2, <4>1, <4>2
    <3>2. pass # "insert" => discarded' = Cardinality(LeftOut)
      BY <1>1, <1>2, <1>3 DEF CountInv, Counted, AttemptFacts, TypeOK
    <3>3. pass = "insert" /\ pass' # "insert" => a.after = MaxRow
      BY <1>4, <1>5 DEF LastOf
    <3>4. LeftOutIn(0, MaxRow) = Cardinality(LeftOut)
      <4>1. LeftOut \cap (0 + 1)..MaxRow = LeftOut
        BY <1>1, MissingFacts DEF Rows
      <4> QED BY <4>1 DEF LeftOutIn
    <3>5. pass' = "insert" => discarded' = LeftOutIn(0, after')
      BY <1>4, <1>5, <1>6, <3>1 DEF NextPass
    <3>6. pass' # "insert" => discarded' = Cardinality(LeftOut)
      BY <3>1, <3>2, <3>3, <3>4
    <3> QED BY <1>2, <3>5, <3>6, JobStays DEF Counted
  <2>2. pass' = "insert" => pass = "insert" /\ after' = a.after /\ after' = after + PageLimit
    BY <1>4, <1>5 DEF NextPass
  <2>3. Stale'
    <3> SUFFICES ASSUME pass' = "insert", NEW v \in Workers, Runs(attempt'[v], "insert")
                 PROVE  attempt'[v].after - attempt'[v].read + PageLimit <= after'
      BY DEF Stale, Runs
    <3>1. v # w /\ attempt'[v] = attempt[v] /\ attempt[v] \in AttemptType
      BY <1>1, <1>7, IdleFacts DEF Runs, TypeOK
    <3>2. \/ attempt[v].after - attempt[v].read + PageLimit <= after
          \/ attempt[v].after - attempt[v].read = after
      BY <1>1, <1>3, <2>2, <3>1 DEF CountInv, Stale
    <3>3. attempt[v].after \in Nat /\ attempt[v].read \in Nat /\ PageLimit \in Nat
      BY <1>1, <3>1, Constants DEF AttemptType
    <3> QED BY <1>3, <2>2, <3>1, <3>2, <3>3
  <2>4. NotAhead'
    <3> SUFFICES ASSUME pass' = "insert", NEW k \in Keys PROVE dest[k].row <= after'
      BY <1>2 DEF NotAhead, Reach
    <3>1. dest[k].row <= Reach /\ dest[k].row \in Nat
      BY <1>1, <2>2, Constants DEF CountInv, NotAhead, TypeOK
    <3>2. Reach \in Nat /\ Reach <= after + PageLimit
      BY <1>1, ReachFacts
    <3> QED BY <1>6, <2>2, <3>1, <3>2
  <2>5. RetriesGoThrough'
    BY <1>1, <1>2, JobStays DEF CountInv, RetriesGoThrough
  <2> QED BY <2>1, <2>3, <2>4, <2>5 DEF CountInv
<1> QED BY <1>8, <1>9, <1>10, <1>11 DEF IndInv

-----------------------------------------------------------------------------
(* The theorems.                                                           *)

LEMMA StandsStill ==
  ASSUME IndInv, UNCHANGED vars
  PROVE  IndInv'
<1>1. /\ UNCHANGED <<job, pass, after, discarded, store, destination>> /\ UNCHANGED attempt
      /\ UNCHANGED <<awaited, tries>> /\ refused' = refused /\ faults' = faults
  BY DEF vars, workflow
<1>2. /\ become' = become /\ missing' = missing /\ onConflict' = onConflict
      /\ dest' = dest /\ childDest' = childDest
  BY <1>1 DEF job, destination
<1>3. TypeInv'
  BY <1>1, <1>2 DEF IndInv, TypeInv, TypeOK, AttemptFacts, AwaitedFacts, BatchLen, LastOf, WritesOf, Runs
<1>4. KeyInv'
  <2>1. UNCHANGED job
    BY <1>1
  <2>2. ASSUME NEW v \in Workers PROVE AttemptTrue(attempt[v])'
    <3>1. AttemptTrue(attempt[v]) /\ attempt'[v] = attempt[v]
      BY <1>1 DEF IndInv, KeyInv
    <3> QED BY <2>1, <3>1, JobStays DEF AttemptTrue
  <2>3. StoreTrue' /\ RowsTrue' /\ BossesTrue' /\ ChildrenTrue'
    BY <1>1, <1>2, <2>1, JobStays
       DEF IndInv, KeyInv, StoreTrue, RowsTrue, BossesTrue, ChildrenTrue, IsThere
  <2>4. FreshKeys'
    BY <1>1, <1>2 DEF IndInv, KeyInv, FreshKeys, IsThere, Locked
  <2> QED BY <2>2, <2>3, <2>4 DEF KeyInv
<1>5. DoneInv'
  <2>1. /\ \A p, r : Through(p, r)' <=> Through(p, r)
        /\ \A p, r : InHand(p, r)' <=> InHand(p, r)
        /\ \A x : Wrote(x)' <=> Wrote(x)
    BY <1>1 DEF Through, InHand, Wrote
  <2> QED BY <1>1, <1>2, <2>1, JobStays
          DEF IndInv, DoneInv, Published, WrittenRows, WrittenBosses, WrittenChildren, IsThere
<1>6. CountInv'
  BY <1>1, <1>2, JobStays
     DEF IndInv, CountInv, Counted, Stale, NotAhead, Reach, Runs, RetriesGoThrough
<1> QED BY <1>3, <1>4, <1>5, <1>6 DEF IndInv

\* Whatever the workflow, its attempts, those it has given up on, and Redis do,
\* the invariant holds.
THEOREM Invariance == Spec => []IndInv
<1>1. IndInv /\ [Next]_vars => IndInv'
  <2> SUFFICES ASSUME IndInv, [Next]_vars PROVE IndInv'
    OBVIOUS
  <2>1. CASE AttemptFails
    BY <2>1, GivingUp
  <2>2. ASSUME NEW w \in Workers, StartAttempt(w) PROVE IndInv'
    BY <2>2, StartAttemptStep
  <2>3. ASSUME NEW w \in Workers, AttemptEnds(w) PROVE IndInv'
    BY <2>3, GivingUp
  <2>4. ASSUME NEW w \in Workers, Answer(w) PROVE IndInv'
    BY <2>4, AnswerStep
  <2>5. ASSUME NEW w \in Workers, Commit(w) PROVE IndInv'
    BY <2>5, CommitStep
  <2>6. ASSUME NEW w \in Workers, InsertSome(w) PROVE IndInv'
    BY <2>6, InsertSomeStep
  <2>7. ASSUME NEW w \in Workers, Publish(w) PROVE IndInv'
    BY <2>7, PublishStep
  <2>8. ASSUME NEW w \in Workers, UpdateBatch(w) PROVE IndInv'
    BY <2>8, UpdateBatchStep
  <2>9. ASSUME NEW w \in Workers, ChildBatch(w) PROVE IndInv'
    BY <2>9, ChildBatchStep
  <2>10. CASE UNCHANGED vars
    BY <2>10, StandsStill
  <2> QED BY <2>1, <2>2, <2>3, <2>4, <2>5, <2>6, <2>7, <2>8, <2>9, <2>10 DEF Next
<1> QED BY <1>1, InitInv, PTL DEF Spec

\* What the workflow, the workers, Redis and the destination hold is always of
\* its type.
THEOREM TypeCorrect == Spec => []TypeOK
<1>1. IndInv => TypeOK
  BY DEF IndInv, TypeInv
<1> QED BY <1>1, Invariance, PTL

\* A reference in the destination is to a row that is there, however pages are
\* cut, fail, are tried again, or are still written by attempts given up on.
THEOREM ReferencesAreHeld == Spec => []ReferencesHold
<1>1. ASSUME IndInv PROVE ReferencesHold
  <2> SUFFICES ASSUME Deterministic
               PROVE  /\ \A k \in Keys : dest[k].boss # None => dest[dest[k].boss].row # 0
                      /\ \A x \in Children : childDest[x] \in Keys => dest[childDest[x]].row # 0
    BY DEF ReferencesHold
  <2>1. TypeOK /\ KeyInv /\ WrittenRows
    BY <1>1 DEF IndInv, TypeInv, DoneInv
  <2>2. ASSUME pass # "insert", NEW r, NEW k, KeyOf(k, r) PROVE IsThere(k)
    BY <2>1, <2>2 DEF WrittenRows, Through, KeyOf, Kept
  <2>3. ASSUME NEW k \in Keys, dest[k].boss # None PROVE dest[dest[k].boss].row # 0
    <3>1. pass # "insert" /\ Refers(k, dest[k].boss)
      BY <2>1, <2>3 DEF KeyInv, BossesTrue
    <3> QED BY <2>2, <3>1 DEF Refers, IsThere
  <2>4. ASSUME NEW x \in Children, childDest[x] \in Keys PROVE dest[childDest[x]].row # 0
    <3>1. pass # "insert" /\ ChildRefers(x, childDest[x]) /\ childDest[x] # None
      BY <2>1, <2>4, Constants DEF KeyInv, ChildrenTrue
    <3> QED BY <2>2, <3>1 DEF ChildRefers, IsThere
  <2> QED BY <2>3, <2>4
<1> QED BY <1>1, Invariance, PTL

\* It is to the row it was to in the source, and cleared only when that row was
\* left out.
THEOREM ReferencesAreFollowed == Spec => []ReferencesFollow
<1>1. ASSUME IndInv PROVE ReferencesFollow
  <2> SUFFICES ASSUME Deterministic, KeepsApart
               PROVE  /\ \A k \in Keys : dest[k].boss # None => dest[dest[k].boss].row = Boss[dest[k].row]
                      /\ pass \in {"children", "done"} =>
                           \A k \in Keys : dest[k].row # 0 /\ Boss[dest[k].row] \in Rows \ LeftOut
                                             => dest[k].boss # None
                      /\ \A x \in Children :
                           childDest[x] \in Keys => dest[childDest[x]].row = ParentOf[x]
                      /\ pass = "done" => \A x \in Children :
                           /\ ParentOf[x] \notin LeftOut => childDest[x] \in Keys
                           /\ ParentOf[x] \in LeftOut =>
                                childDest[x] = IF x \in Nullable THEN None ELSE "absent"
    BY DEF ReferencesFollow
  <2>1. TypeOK /\ KeyInv /\ WrittenRows /\ WrittenBosses /\ WrittenChildren
    BY <1>1 DEF IndInv, TypeInv, DoneInv
  <2>2. ASSUME NEW k, NEW r, NEW s, KeyOf(k, r), KeyOf(k, s) PROVE r = s
    BY <2>2 DEF KeepsApart, KeyOf, Kept
  <2>3. ASSUME pass # "insert", NEW r, NEW k \in Keys, KeyOf(k, r) PROVE dest[k].row = r
    <3>1. IsThere(k)
      BY <2>1, <2>3 DEF WrittenRows, Through, KeyOf, Kept
    <3> QED BY <2>1, <2>2, <2>3, <3>1 DEF KeyInv, RowsTrue
  <2>4. ASSUME NEW k \in Keys, dest[k].boss # None PROVE dest[dest[k].boss].row = Boss[dest[k].row]
    <3>1. pass # "insert" /\ Refers(k, dest[k].boss) /\ dest[k].boss \in Keys
      BY <2>1, <2>4 DEF KeyInv, BossesTrue, TypeOK
    <3> QED BY <2>3, <3>1 DEF Refers
  <2>5. ASSUME pass \in {"children", "done"},
               NEW k \in Keys, dest[k].row # 0, Boss[dest[k].row] \in Rows \ LeftOut
        PROVE  dest[k].boss # None
    <3>1. KeyOf(k, dest[k].row)
      BY <2>1, <2>5 DEF KeyInv, RowsTrue, IsThere
    <3> QED BY <2>1, <2>5, <3>1 DEF WrittenBosses, Through, KeyOf, Kept
  <2>6. ASSUME NEW x \in Children, childDest[x] # "absent"
        PROVE  pass # "insert" /\ ChildRefers(x, childDest[x])
    BY <2>1, <2>6 DEF KeyInv, ChildrenTrue
  <2>7. ASSUME NEW x \in Children, childDest[x] \in Keys PROVE dest[childDest[x]].row = ParentOf[x]
    <3>1. childDest[x] # "absent" /\ childDest[x] # None
      BY <2>1, <2>7, Constants
    <3> QED BY <2>3, <2>6, <2>7, <3>1 DEF ChildRefers
  <2>8. ASSUME pass = "done", NEW x \in Children
        PROVE  /\ ParentOf[x] \notin LeftOut => childDest[x] \in Keys
               /\ ParentOf[x] \in LeftOut =>
                    childDest[x] = IF x \in Nullable THEN None ELSE "absent"
    <3>1. /\ childDest[x] \in Keys \cup {None, "absent"} /\ ParentOf[x] \in Rows
          /\ None \notin Keys /\ None # "absent"
      BY <2>1, Constants DEF TypeOK
    <3>2. x \in Nullable \/ Kept(ParentOf[x]) => childDest[x] # "absent"
      BY <2>1, <2>8 DEF WrittenChildren, Through
    <3>3. CASE Kept(ParentOf[x])
      <4>1. childDest[x] # None
        BY <2>6, <3>2, <3>3 DEF ChildRefers
      <4> QED BY <3>1, <3>2, <3>3, <4>1 DEF Kept
    <3>4. CASE ~Kept(ParentOf[x])
      <4>1. childDest[x] \notin Keys
        BY <2>6, <3>1, <3>4, Constants, <2>1 DEF ChildRefers, KeyOf
      <4>2. x \notin Nullable => childDest[x] = "absent"
        BY <2>6, <3>1, <4>1 DEF ChildRefers
      <4> QED BY <3>1, <3>2, <3>4, <4>1, <4>2 DEF Kept
    <3> QED BY <3>3, <3>4
  <2> QED BY <2>4, <2>5, <2>7, <2>8
<1> QED BY <1>1, Invariance, PTL

\* Once its insert pass is through, the destination has each row of the table
\* that is not left out, once.
THEOREM TableIsWhole == Spec => []RowsWhole
<1>1. ASSUME IndInv PROVE RowsWhole
  <2> SUFFICES ASSUME Deterministic, KeepsApart, pass # "insert", NEW r \in Rows
               PROVE  Cardinality(Held(r)) = IF r \in LeftOut THEN 0 ELSE 1
    BY DEF RowsWhole
  <2>1. TypeOK /\ KeyInv /\ WrittenRows
    BY <1>1 DEF IndInv, TypeInv, DoneInv
  <2>2. \A k \in Held(r) : KeyOf(k, r)
    BY <2>1, Constants DEF Held, KeyInv, RowsTrue, IsThere
  <2>3. CASE r \in LeftOut
    <3>1. Held(r) = {}
      BY <2>2, <2>3 DEF KeyOf, Kept
    <3> QED BY <2>3, <3>1, FS_EmptySet
  <2>4. CASE r \notin LeftOut
    <3>1. PICK k \in Keys : become[r] = {k}
      BY DEF Deterministic
    <3>2. IsThere(k)
      BY <2>1, <2>4, <3>1 DEF WrittenRows, Through
    <3>3. dest[k].row = r
      BY <2>1, <3>1, <3>2 DEF KeyInv, RowsTrue, KeyOf, Kept, KeepsApart
    <3>4. Held(r) = {k}
      BY <2>2, <3>1, <3>3 DEF Held, KeyOf
    <3> QED BY <2>4, <3>4, FS_Singleton
  <2> QED BY <2>3, <2>4
<1> QED BY <1>1, Invariance, PTL

\* The count of the rows left out is theirs, whatever was tried again.
THEOREM DiscardedCounted == Spec => []DiscardedIsExact
<1>1. IndInv => DiscardedIsExact
  BY DEF IndInv, CountInv, Counted, DiscardedIsExact
<1> QED BY <1>1, Invariance, PTL

\* No page fails on the rows an attempt before it has written.
THEOREM RetriesGo == Spec => []RetriesGoThrough
<1>1. IndInv => RetriesGoThrough
  BY DEF IndInv, CountInv
<1> QED BY <1>1, Invariance, PTL
=============================================================================

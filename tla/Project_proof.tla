--------------------------- MODULE Project_proof ---------------------------
(***************************************************************************)
(* Proofs about what vexillum keeps for a project: the panes of its        *)
(* commanders (Commanders), the copies of the skills (ManagedFiles) and    *)
(* the block in AGENTS.md (SlotText); for every set of panes, commands,    *)
(* wakes and skills, any number of versions of the binary and of changes   *)
(* the user makes, and files of any length.                                *)
(***************************************************************************)
EXTENDS Commanders, ManagedFiles, SlotText, FiniteSetTheorems, FunctionTheorems,
        SequenceTheorems, WellFoundedInduction, TLAPS

-----------------------------------------------------------------------------
(* The block (SlotText): what a run writes is found again, and loses none   *)
(* of the user's lines.  Three facts carry it: what an edit moves in order  *)
(* stays in order (PickedMoved, EditOutside); a line keeps being a marker   *)
(* when the code blocks closed before it are cut (EditMarkers); between a   *)
(* BEGIN and its END all code blocks are closed (PairClosed).               *)

\* Induction: a set of numbers has a least one.
LEMMA Least ==
  ASSUME NEW S \in SUBSET Nat, S # {}
  PROVE  \E n \in S : \A m \in S : n <= m
<1> DEFINE T == {0..n : n \in S}
<1>1. T \subseteq FiniteSubsetsOf(Nat) /\ T # {}
  <2> SUFFICES ASSUME NEW n \in S PROVE 0..n \in FiniteSubsetsOf(Nat)
    OBVIOUS
  <2>1. n \in Nat /\ 0..n \subseteq Nat
    OBVIOUS
  <2>2. IsFiniteSet(0..n)
    BY <2>1, FS_Interval
  <2> QED BY <2>1, <2>2 DEF FiniteSubsetsOf
<1>2. PICK x \in T : \A y \in T : ~(<<y, x>> \in StrictSubsetOrdering(Nat))
  <2> HIDE DEF T
  <2>1. IsWellFoundedOn(StrictSubsetOrdering(Nat), FiniteSubsetsOf(Nat))
    BY FS_StrictSubsetOrderingWellFounded
  <2> QED BY <1>1, <2>1, WFMin
<1>3. PICK n \in S : x = 0..n
  OBVIOUS
<1>4. ASSUME NEW m \in S PROVE n <= m
  <2>1. 0..m \in T /\ 0..m \in SUBSET Nat /\ 0..n \in SUBSET Nat /\ m \in Nat /\ n \in Nat
    OBVIOUS
  <2>2. ~(<<0..m, 0..n>> \in StrictSubsetOrdering(Nat))
    BY <1>2, <1>3, <2>1
  <2>3. ~(0..m \subseteq 0..n /\ 0..m # 0..n)
    BY <2>1, <2>2 DEF StrictSubsetOrdering
  <2>4. m < n => 0..m \subseteq 0..n /\ n \in 0..n /\ n \notin 0..m
    BY <2>1
  <2> QED BY <2>1, <2>3, <2>4
<1> QED BY <1>4

\* Odd: what decides whether a line is in a code block.
Odd(S)     == Cardinality(S) % 2 = 1
Upto(S, n) == {m \in S : m <= n}

LEMMA OddUnion ==
  ASSUME NEW S, NEW T, IsFiniteSet(S), IsFiniteSet(T), S \cap T = {}
  PROVE  IsFiniteSet(S \cup T) /\ (Odd(S \cup T) <=> (Odd(S) <=> ~Odd(T)))
<1>1. /\ IsFiniteSet(S \cup T)
      /\ Cardinality(S \cup T) = Cardinality(S) + Cardinality(T)
      /\ Cardinality(S) \in Nat /\ Cardinality(T) \in Nat
  <2>1. Cardinality(S) \in Nat /\ Cardinality(T) \in Nat
    BY FS_CardinalityType
  <2>2. IsFiniteSet(S \cup T) /\ Cardinality(S \cup T) = Cardinality(S) + Cardinality(T) - Cardinality(S \cap T)
    BY FS_Union
  <2>3. Cardinality(S \cap T) = 0
    BY FS_EmptySet
  <2> QED BY <2>1, <2>2, <2>3
<1>2. \A a, b \in Nat : (a + b) % 2 = 1 <=> (a % 2 = 1 <=> ~(b % 2 = 1))
  OBVIOUS
<1> QED BY <1>1, <1>2 DEF Odd

LEMMA OddNone == ~Odd({})
  BY FS_EmptySet DEF Odd

LEMMA OddMoved ==
  ASSUME NEW S, NEW T, IsFiniteSet(S), ExistsBijection(S, T)
  PROVE  Odd(S) <=> Odd(T)
  BY FS_Bijection DEF Odd

\* The lines a set numbers, one after the other.
LEMMA UptoMore ==
  ASSUME NEW N, N \subseteq Nat, IsFiniteSet(N), NEW m \in N, NEW n \in N, m < n
  PROVE  Cardinality(Upto(N, m)) < Cardinality(Upto(N, n))
<1>1. Upto(N, n) \in SUBSET N /\ Upto(N, m) \in SUBSET Upto(N, n)
  <2>1. \A j \in N : j <= m => j <= n
    OBVIOUS
  <2> QED BY <2>1 DEF Upto
<1>2. n \in Upto(N, n) /\ n \notin Upto(N, m)
  BY DEF Upto
<1>3. IsFiniteSet(Upto(N, n))
  BY <1>1, FS_Subset
<1>4. /\ IsFiniteSet(Upto(N, m))
      /\ Cardinality(Upto(N, m)) <= Cardinality(Upto(N, n))
      /\ Cardinality(Upto(N, n)) # Cardinality(Upto(N, m))
  BY <1>1, <1>2, <1>3, FS_Subset
<1> QED BY <1>3, <1>4, FS_CardinalityType

LEMMA UptoRange ==
  ASSUME NEW N, N \subseteq Nat, IsFiniteSet(N), NEW n \in N
  PROVE  Cardinality(Upto(N, n)) \in 1..Cardinality(N)
<1>1. Upto(N, n) \in SUBSET N /\ n \in Upto(N, n)
  BY DEF Upto
<1>2. /\ IsFiniteSet(Upto(N, n)) /\ Cardinality(Upto(N, n)) <= Cardinality(N)
  BY <1>1, FS_Subset
<1>3. Cardinality(Upto(N, n)) # 0
  BY <1>1, <1>2, FS_EmptySet
<1> QED BY <1>2, <1>3, FS_CardinalityType

LEMMA NthIs ==
  ASSUME NEW N, N \subseteq Nat, IsFiniteSet(N), NEW k \in 1..Cardinality(N)
  PROVE  Nth(N, k) \in N /\ Cardinality(Upto(N, Nth(N, k))) = k
<1> DEFINE rank == [n \in N |-> Cardinality(Upto(N, n))]
<1>0. Cardinality(N) \in Nat
  BY FS_CardinalityType
<1>1. rank \in [N -> 1..Cardinality(N)]
  BY UptoRange
<1>2. ASSUME NEW m \in N, NEW n \in N, rank[m] = rank[n] PROVE m = n
  <2>1. m \in Nat /\ n \in Nat
    OBVIOUS
  <2>2. rank[m] \in Int /\ rank[n] \in Int
    BY <1>1
  <2>3. m < n => rank[m] < rank[n]
    BY UptoMore
  <2>4. n < m => rank[n] < rank[m]
    BY UptoMore
  <2> QED BY <1>2, <2>1, <2>2, <2>3, <2>4
<1>3. rank \in Injection(N, 1..Cardinality(N))
  <2> HIDE DEF rank
  <2> QED BY <1>1, <1>2 DEF Injection, IsInjective
<1>4. IsFiniteSet(1..Cardinality(N)) /\ Cardinality(1..Cardinality(N)) = Cardinality(N)
  BY <1>0, FS_Interval
<1>5. rank \in Surjection(N, 1..Cardinality(N))
  <2> HIDE DEF rank
  <2> QED BY <1>3, <1>4, FS_Injection
<1>6. \E n \in N : rank[n] = k
  <2> HIDE DEF rank
  <2> QED BY <1>5 DEF Surjection
<1>7. \E n \in N : Cardinality({m \in N : m <= n}) = k
  BY <1>6 DEF Upto
<1> QED BY <1>7 DEF Nth, Upto

LEMMA NthUnique ==
  ASSUME NEW N, N \subseteq Nat, IsFiniteSet(N), NEW n \in N
  PROVE  Nth(N, Cardinality(Upto(N, n))) = n
<1> DEFINE k == Cardinality(Upto(N, n))
           m == Nth(N, k)
<1>1. k \in 1..Cardinality(N)
  BY UptoRange
<1>2. m \in N /\ Cardinality(Upto(N, m)) = k
  BY <1>1, NthIs
<1>3. m < n => Cardinality(Upto(N, m)) < k
  BY <1>2, UptoMore
<1>4. n < m => k < Cardinality(Upto(N, m))
  BY <1>2, UptoMore
<1>5. k \in Int /\ m \in Nat /\ n \in Nat
  <2>1. Cardinality(N) \in Nat
    BY FS_CardinalityType
  <2>2. k \in Int
    BY <1>1, <2>1
  <2>3. m \in Nat
    BY <1>2
  <2> QED BY <2>2, <2>3
<1> HIDE DEF k, m
<1>6. m = n
  BY <1>2, <1>3, <1>4, <1>5
<1> QED BY <1>6 DEF k, m

\* What is moved in order is listed in the same order.
Moves(h, N, M) ==
  /\ \A n \in N : h[n] \in M
  /\ \A m \in M : \E n \in N : h[n] = m
  /\ \A m, n \in N : m < n => h[m] < h[n]

LEMMA MovesBijection ==
  ASSUME NEW h, NEW N, NEW M, N \subseteq Nat, M \subseteq Nat, Moves(h, N, M)
  PROVE  ExistsBijection(N, M)
<1> DEFINE g == [n \in N |-> h[n]]
<1>1. g \in [N -> M]
  BY DEF Moves
<1>2. \A m, n \in N : g[m] = g[n] => m = n
  <2> SUFFICES ASSUME NEW m \in N, NEW n \in N, g[m] = g[n] PROVE m = n
    OBVIOUS
  <2>1. m \in Nat /\ n \in Nat /\ h[m] \in Nat /\ h[n] \in Nat /\ h[m] = h[n]
    BY DEF Moves
  <2>2. (m < n => h[m] < h[n]) /\ (n < m => h[n] < h[m])
    BY DEF Moves
  <2> QED BY <2>1, <2>2
<1>3. \A m \in M : \E n \in N : g[n] = m
  BY DEF Moves
<1> HIDE DEF g
<1>4. g \in Bijection(N, M)
  BY <1>1, <1>2, <1>3 DEF Bijection, Injection, Surjection, IsInjective
<1> QED BY <1>4 DEF ExistsBijection

LEMMA MovesUpto ==
  ASSUME NEW h, NEW N, NEW M, N \subseteq Nat, M \subseteq Nat, Moves(h, N, M), NEW n \in N
  PROVE  Moves(h, Upto(N, n), Upto(M, h[n]))
<1>1. \A k \in N : k \in Nat /\ h[k] \in Nat
  BY DEF Moves
<1>2. \A k \in N : k <= n <=> h[k] <= h[n]
  <2> SUFFICES ASSUME NEW k \in N PROVE k <= n <=> h[k] <= h[n]
    OBVIOUS
  <2>1. (k < n => h[k] < h[n]) /\ (n < k => h[n] < h[k])
    BY DEF Moves
  <2> QED BY <1>1, <2>1
<1> QED BY <1>2 DEF Moves, Upto

Copied(d, e, h, N, M) ==
  /\ N \subseteq Nat /\ M \subseteq Nat /\ IsFiniteSet(N)
  /\ Moves(h, N, M) /\ \A n \in N : e[h[n]] = d[n]

LEMMA PickedMoved ==
  ASSUME NEW d, NEW e, NEW h, NEW N, NEW M, Copied(d, e, h, N, M)
  PROVE  Picked(e, M) = Picked(d, N)
<1>0. N \subseteq Nat /\ M \subseteq Nat /\ IsFiniteSet(N) /\ Moves(h, N, M)
  BY DEF Copied
<1>1. IsFiniteSet(M) /\ Cardinality(M) = Cardinality(N)
  BY <1>0, MovesBijection, FS_Bijection
<1>2. ASSUME NEW k \in 1..Cardinality(N) PROVE e[Nth(M, k)] = d[Nth(N, k)]
  <2> DEFINE n == Nth(N, k)
  <2>1. n \in N /\ Cardinality(Upto(N, n)) = k
    BY <1>0, NthIs
  <2>2. h[n] \in M
    BY <1>0, <2>1 DEF Moves
  <2>3. IsFiniteSet(Upto(N, n)) /\ Upto(N, n) \subseteq Nat /\ Upto(M, h[n]) \subseteq Nat
    <3>1. Upto(N, n) \in SUBSET N
      BY DEF Upto
    <3> QED BY <1>0, <3>1, FS_Subset DEF Upto
  <2>4. Cardinality(Upto(M, h[n])) = k
    <3> HIDE DEF n
    <3>1. ExistsBijection(Upto(N, n), Upto(M, h[n]))
      BY <1>0, <2>1, <2>3, MovesUpto, MovesBijection
    <3> QED BY <2>1, <2>3, <3>1, FS_Bijection
  <2>5. Nth(M, k) = h[n]
    BY <1>0, <1>1, <2>2, <2>4, NthUnique
  <2> QED BY <2>1, <2>5 DEF Copied
<1> QED BY <1>1, <1>2 DEF Picked

-----------------------------------------------------------------------------
Templates == {TemplateBody(v) : v \in 1..MaxTemplate}
Line == Mines \cup {Blank, Fence, EndLine} \cup {BeginLine(b) : b \in Templates}
          \cup {TemplateLine(v) : v \in 1..MaxTemplate}
Fences(d) == {k \in DOMAIN d : d[k][1] = "fence"}
Mined(d)  == {k \in DOMAIN d : d[k] \in Mines \cup {Fence}}

LEMMA LineKinds ==
  /\ Blank[1] = "text" /\ Fence[1] = "fence" /\ EndLine[1] = "end"
  /\ \A b : BeginLine(b)[1] = "begin" /\ BeginLine(b)[2] = b
  /\ \A v : TemplateLine(v)[1] = "text" /\ TemplateLine(v) # Blank
  /\ \A l \in Mines : l[1] = "text" /\ l # Blank
  /\ \A v \in 1..MaxTemplate : TemplateLine(v) \notin Mines
  /\ \A l \in Line : l[1] = "fence" => l = Fence
<1>1. \A v : TemplateLine(v) # Blank
  BY DEF TemplateLine, Blank
<1>2. \A m : Mine(m)[1] = "text" /\ Mine(m) # Blank
  BY DEF Mine, Blank
<1>3. \A v \in 1..MaxTemplate : TemplateLine(v) \notin Mines
  <2> SUFFICES ASSUME NEW v \in 1..MaxTemplate, NEW m \in MineText, TemplateLine(v) = Mine(m)
               PROVE FALSE
    BY DEF Mines
  <2>1. <<v>> = <<m>>
    BY DEF TemplateLine, Mine
  <2> QED BY <2>1, SlotAssumption
<1>4. \A b : BeginLine(b)[1] = "begin" /\ BeginLine(b)[2] = b
  BY DEF BeginLine
<1>5. \A v : TemplateLine(v)[1] = "text"
  BY DEF TemplateLine
<1>6. Blank[1] = "text" /\ Fence[1] = "fence" /\ EndLine[1] = "end"
  BY DEF Blank, Fence, EndLine
<1>7. \A l \in Mines : l[1] = "text" /\ l # Blank
  BY <1>2 DEF Mines
<1>8. \A l \in Line : l[1] = "fence" => l = Fence
  <2> SUFFICES ASSUME NEW l \in Line, l[1] = "fence" PROVE l = Fence
    OBVIOUS
  <2> QED BY <1>4, <1>5, <1>6, <1>7 DEF Line
<1> QED BY <1>1, <1>3, <1>4, <1>5, <1>6, <1>7, <1>8

LEMMA LinesFinite ==
  ASSUME NEW d, d \in Seq(Line), NEW N, N \subseteq DOMAIN d
  PROVE  IsFiniteSet(N) /\ N \subseteq Nat
<1>1. DOMAIN d = 1..Len(d) /\ Len(d) \in Nat
  OBVIOUS
<1>2. N \in SUBSET (1..Len(d)) /\ N \subseteq Nat
  BY <1>1
<1>3. IsFiniteSet(1..Len(d))
  BY <1>1, FS_Interval
<1> QED BY <1>2, <1>3, FS_Subset

LEMMA FencedIs ==
  ASSUME NEW d, d \in Seq(Line), NEW n \in DOMAIN d
  PROVE  /\ Fenced(d, n) <=> Odd(Upto(Fences(d), n))
         /\ IsFiniteSet(Fences(d)) /\ Fences(d) \subseteq Nat
<1>1. DOMAIN d = 1..Len(d) /\ Len(d) \in Nat
  OBVIOUS
<1>2. {k \in 1..n : d[k][1] = "fence"} = Upto(Fences(d), n)
  BY <1>1 DEF Upto, Fences
<1>3. Fences(d) \in SUBSET (1..Len(d)) /\ IsFiniteSet(1..Len(d))
  BY <1>1, FS_Interval DEF Fences
<1>4. IsFiniteSet(Fences(d))
  BY <1>3, FS_Subset
<1>5. Fences(d) \subseteq Nat
  BY <1>1 DEF Fences
<1> QED BY <1>2, <1>4, <1>5 DEF Fenced, Odd

\* An edit that moves the lines in G to the places in H, in their order.
Edit(d, e, h, G, H) ==
  /\ d \in Seq(Line) /\ e \in Seq(Line)
  /\ G \subseteq DOMAIN d /\ H \subseteq DOMAIN e
  /\ Moves(h, G, H) /\ \A k \in G : e[h[k]][1] = d[k][1]
  /\ \A k \in DOMAIN e \ H : e[k][1] # "fence"
\* Those it cuts before a line have their code blocks closed.
Closed(d, G, k) == ~Odd({j \in Fences(d) : j <= k /\ j \notin G})

LEMMA EditFenced ==
  ASSUME NEW d, NEW e, NEW h, NEW G, NEW H, Edit(d, e, h, G, H), NEW k \in G, Closed(d, G, k)
  PROVE  Fenced(e, h[k]) <=> Fenced(d, k)
<1> DEFINE A == {j \in Fences(d) : j <= k /\ j \in G}
           B == {j \in Fences(d) : j <= k /\ j \notin G}
           C == Upto(Fences(e), h[k])
<1>1. d \in Seq(Line) /\ e \in Seq(Line) /\ k \in DOMAIN d /\ h[k] \in DOMAIN e /\ h[k] \in H
      /\ G \subseteq Nat /\ H \subseteq Nat /\ Moves(h, G, H)
  BY DEF Edit, Moves
<1>2. /\ Fenced(d, k) <=> Odd(Upto(Fences(d), k))
      /\ IsFiniteSet(Fences(d))
      /\ Fenced(e, h[k]) <=> Odd(C)
  BY <1>1, FencedIs
<1>3. Upto(Fences(d), k) = A \cup B /\ A \cap B = {} /\ A \in SUBSET Fences(d) /\ B \in SUBSET Fences(d)
  BY DEF Upto
<1>4. IsFiniteSet(A) /\ IsFiniteSet(B)
  BY <1>2, <1>3, FS_Subset
<1>5. Odd(Upto(Fences(d), k)) <=> Odd(A)
  <2> HIDE DEF A
  <2>1. ~Odd(B)
    BY DEF Closed
  <2> HIDE DEF B
  <2> QED BY <1>3, <1>4, <2>1, OddUnion
<1>6. Moves(h, Upto(G, k), Upto(H, h[k]))
  BY <1>1, MovesUpto
<1>7. Moves(h, A, C)
  <2>1. \A j \in Upto(G, k) : j \in A <=> h[j] \in C
    BY <1>1, <1>6 DEF Edit, Moves, Upto, Fences
  <2>2. A \subseteq Upto(G, k)
    BY DEF Upto
  <2>3. C \subseteq Upto(H, h[k])
    BY <1>1 DEF Upto, Edit, Fences
  <2> HIDE DEF A, C
  <2>4. \A j \in A : h[j] \in C
    BY <2>1, <2>2
  <2>5. \A m \in C : \E j \in A : h[j] = m
    BY <1>6, <2>1, <2>3 DEF Moves
  <2>6. \A m, n \in A : m < n => h[m] < h[n]
    BY <1>6, <2>2 DEF Moves
  <2> QED BY <2>4, <2>5, <2>6 DEF Moves
<1>8. ExistsBijection(A, C)
  <2>1. A \subseteq Nat /\ C \subseteq Nat
    BY <1>1, FencedIs DEF Upto
  <2> HIDE DEF A, C
  <2> QED BY <1>7, <2>1, MovesBijection
<1> HIDE DEF A, C
<1> QED BY <1>2, <1>4, <1>5, <1>8, OddMoved

LEMMA EditMarkers ==
  ASSUME NEW d, NEW e, NEW h, NEW G, NEW H, Edit(d, e, h, G, H), NEW k \in G, Closed(d, G, k)
  PROVE  k \in Markers(d) <=> h[k] \in Markers(e)
<1>1. k \in DOMAIN d /\ h[k] \in DOMAIN e /\ e[h[k]][1] = d[k][1]
  BY DEF Edit, Moves
<1> QED BY <1>1, EditFenced DEF Markers

\* Pairs go with their markers.
LEMMA EditPairs ==
  ASSUME NEW d, NEW e, NEW h, NEW G, NEW H, Edit(d, e, h, G, H),
         \A k \in G : k \in Markers(d) <=> h[k] \in Markers(e),
         Markers(d) \subseteq G, Markers(e) \subseteq H
  PROVE  /\ \A p \in Pairs(d) : <<h[p[1]], h[p[2]]>> \in Pairs(e)
         /\ \A q \in Pairs(e) : \E p \in Pairs(d) : q = <<h[p[1]], h[p[2]]>>
<1>1. G \subseteq Nat /\ H \subseteq Nat
  BY DEF Edit
<1>2. \A m, n \in G : h[m] \in Nat /\ h[n] \in Nat /\ (m < n <=> h[m] < h[n])
  <2> SUFFICES ASSUME NEW m \in G, NEW n \in G
               PROVE  h[m] \in Nat /\ h[n] \in Nat /\ (m < n <=> h[m] < h[n])
    OBVIOUS
  <2>1. (m < n => h[m] < h[n]) /\ (n < m => h[n] < h[m]) /\ h[m] \in H /\ h[n] \in H
    BY DEF Edit, Moves
  <2>2. m \in Nat /\ n \in Nat /\ h[m] \in Nat /\ h[n] \in Nat
    BY <1>1, <2>1
  <2>3. m = n => h[m] = h[n]
    OBVIOUS
  <2> QED BY <2>1, <2>2, <2>3
<1>3. \A m \in H : \E n \in G : h[n] = m
  BY DEF Edit, Moves
<1>4. ASSUME NEW m \in Markers(d), NEW n \in Markers(d)
      PROVE  <<m, n>> \in Pairs(d) <=> <<h[m], h[n]>> \in Pairs(e)
  <2>1. h[m] \in Markers(e) /\ h[n] \in Markers(e) /\ m \in G /\ n \in G
    OBVIOUS
  <2>2. e[h[m]][1] = d[m][1] /\ e[h[n]][1] = d[n][1]
    BY <2>1 DEF Edit
  <2>3. (\E x \in Markers(d) : m < x /\ x < n) <=> (\E y \in Markers(e) : h[m] < y /\ y < h[n])
    BY <1>2, <1>3, <2>1
  <2>4. m < n <=> h[m] < h[n]
    BY <1>2, <2>1
  <2> QED BY <2>1, <2>2, <2>3, <2>4 DEF Pairs
<1>5. \A p \in Pairs(d) : p = <<p[1], p[2]>> /\ p[1] \in Markers(d) /\ p[2] \in Markers(d)
  BY DEF Pairs
<1>6. \A q \in Pairs(e) : q = <<q[1], q[2]>> /\ q[1] \in Markers(e) /\ q[2] \in Markers(e)
  BY DEF Pairs
<1>7. ASSUME NEW q \in Pairs(e) PROVE \E p \in Pairs(d) : q = <<h[p[1]], h[p[2]]>>
  <2>1. PICK m \in G, n \in G : h[m] = q[1] /\ h[n] = q[2]
    BY <1>3, <1>6
  <2>2. m \in Markers(d) /\ n \in Markers(d)
    BY <1>6, <2>1
  <2>3. <<m, n>> \in Pairs(d)
    BY <1>4, <1>6, <2>1, <2>2
  <2> QED BY <1>6, <2>1, <2>3
<1> QED BY <1>4, <1>5, <1>7

LEMMA EditInBlocks ==
  ASSUME NEW d, NEW e, NEW h, NEW G, NEW H, Edit(d, e, h, G, H),
         \A p \in Pairs(e) : \E q \in Pairs(d) : q[1] \in G /\ q[2] \in G /\ p = <<h[q[1]], h[q[2]]>>,
         \A k \in G : k \in InBlocks(d) =>
            \E p \in Pairs(d) : /\ k \in p[1]..p[2] /\ p[1] \in G /\ p[2] \in G
                                /\ <<h[p[1]], h[p[2]]>> \in Pairs(e),
         NEW k \in G
  PROVE  k \in InBlocks(d) <=> h[k] \in InBlocks(e)
<1>1. G \subseteq Nat /\ H \subseteq Nat
  BY DEF Edit
<1>2. \A m, n \in G : m \in Nat /\ n \in Nat /\ h[m] \in Nat /\ h[n] \in Nat /\ (m <= n <=> h[m] <= h[n])
  <2> SUFFICES ASSUME NEW m \in G, NEW n \in G
               PROVE  m \in Nat /\ n \in Nat /\ h[m] \in Nat /\ h[n] \in Nat /\ (m <= n <=> h[m] <= h[n])
    OBVIOUS
  <2>1. (m < n => h[m] < h[n]) /\ (n < m => h[n] < h[m]) /\ h[m] \in H /\ h[n] \in H
    BY DEF Edit, Moves
  <2>2. m \in Nat /\ n \in Nat /\ h[m] \in Nat /\ h[n] \in Nat
    BY <1>1, <2>1
  <2>3. m = n => h[m] = h[n]
    OBVIOUS
  <2> QED BY <2>1, <2>2, <2>3
<1>3. ASSUME NEW m \in G, NEW n \in G PROVE k \in m..n <=> h[k] \in h[m]..h[n]
  BY <1>2
<1>4. ASSUME k \in InBlocks(d) PROVE h[k] \in InBlocks(e)
  <2>1. PICK p \in Pairs(d) : /\ k \in p[1]..p[2] /\ p[1] \in G /\ p[2] \in G
                              /\ <<h[p[1]], h[p[2]]>> \in Pairs(e)
    BY <1>4
  <2>2. h[k] \in h[p[1]]..h[p[2]]
    BY <1>3, <2>1
  <2> QED BY <2>1, <2>2 DEF InBlocks
<1>5. ASSUME h[k] \in InBlocks(e) PROVE k \in InBlocks(d)
  <2>1. PICK p \in Pairs(e) : h[k] \in p[1]..p[2]
    BY <1>5 DEF InBlocks
  <2>2. PICK q \in Pairs(d) : q[1] \in G /\ q[2] \in G /\ p = <<h[q[1]], h[q[2]]>>
    BY <2>1
  <2>3. h[k] \in h[q[1]]..h[q[2]]
    BY <2>1, <2>2
  <2>4. k \in q[1]..q[2]
    BY <1>3, <2>2, <2>3
  <2> QED BY <2>4 DEF InBlocks
<1> QED BY <1>4, <1>5

\* What is outside the blocks is moved with its order.
LEMMA EditOutside ==
  ASSUME NEW d, NEW e, NEW h, NEW G, NEW H, Edit(d, e, h, G, H),
         \A k \in G : k \in InBlocks(d) <=> h[k] \in InBlocks(e),
         \A k \in G \ InBlocks(d) : e[h[k]] = d[k],
         \A k \in Mined(d) : k \in G \/ k \in InBlocks(d),
         Mined(e) \subseteq H
  PROVE  OutsideBlocks(e) = OutsideBlocks(d)
<1> DEFINE N == {n \in DOMAIN d \ InBlocks(d) : d[n] \in Mines \cup {Fence}}
           M == {n \in DOMAIN e \ InBlocks(e) : e[n] \in Mines \cup {Fence}}
<1>1. N \subseteq G /\ M \subseteq H
  BY DEF Mined
<1>2. d \in Seq(Line) /\ e \in Seq(Line) /\ N \subseteq DOMAIN d /\ M \subseteq DOMAIN e
  BY DEF Edit
<1>3. N \subseteq Nat /\ M \subseteq Nat /\ IsFiniteSet(N)
  <2> HIDE DEF N, M
  <2> QED BY <1>2, LinesFinite
<1>5. \A n \in N : e[h[n]] = d[n]
  BY <1>1
<1>6. \A n \in G : n \in N <=> h[n] \in M
  <2> SUFFICES ASSUME NEW n \in G PROVE n \in N <=> h[n] \in M
    OBVIOUS
  <2>1. n \in DOMAIN d /\ h[n] \in DOMAIN e
    BY DEF Edit, Moves
  <2> QED BY <2>1
<1> HIDE DEF N, M
<1>7. Moves(h, N, M)
  BY <1>1, <1>6 DEF Edit, Moves
<1>8. Copied(d, e, h, N, M)
  BY <1>3, <1>5, <1>7 DEF Copied
<1>9. Picked(e, M) = Picked(d, N)
  BY <1>8, PickedMoved
<1> QED BY <1>9 DEF OutsideBlocks, N, M

-----------------------------------------------------------------------------
(* Pairs of markers, and their repair.                                      *)

LEMMA PairIs ==
  ASSUME NEW d, d \in Seq(Line), NEW p \in Pairs(d)
  PROVE  /\ p = <<p[1], p[2]>> /\ p[1] \in DOMAIN d /\ p[2] \in DOMAIN d
         /\ p[1] \in Nat \ {0} /\ p[2] \in Nat /\ p[1] < p[2] /\ p[2] <= Len(d)
         /\ p[1] \in Markers(d) /\ p[2] \in Markers(d)
         /\ d[p[1]][1] = "begin" /\ d[p[2]][1] = "end"
         /\ \A n \in Markers(d) : ~(p[1] < n /\ n < p[2])
<1>1. p \in Markers(d) \X Markers(d) /\ Markers(d) \subseteq 1..Len(d) /\ Len(d) \in Nat
  BY DEF Pairs, Markers
<1> QED BY <1>1 DEF Pairs

LEMMA PairsApart ==
  ASSUME NEW d, d \in Seq(Line), NEW p \in Pairs(d), NEW q \in Pairs(d), p # q
  PROVE  p[2] < q[1] \/ q[2] < p[1]
<1>1. p[1] # q[2] /\ p[2] # q[1]
  BY PairIs
<1>2. p[1] = q[1] => p[2] = q[2]
  BY PairIs
<1>3. p[1] # q[1]
  BY <1>2, PairIs
<1>4. ~(p[1] < q[1] /\ q[1] < p[2]) /\ ~(q[1] < p[1] /\ p[1] < q[2])
  BY PairIs
<1>5. p[1] \in Nat /\ p[2] \in Nat /\ q[1] \in Nat /\ q[2] \in Nat
  BY PairIs
<1> QED BY <1>1, <1>3, <1>4, <1>5

LEMMA FirstIs ==
  ASSUME NEW d, d \in Seq(Line), Pairs(d) # {}
  PROVE  First(d) \in Pairs(d)
<1> DEFINE S == {p[1] : p \in Pairs(d)}
<1>1. S \in SUBSET Nat /\ S # {}
  BY PairIs
<1>2. PICK n \in S : \A m \in S : n <= m
  <2> HIDE DEF S
  <2> QED BY <1>1, Least
<1>3. \E p \in Pairs(d) : \A q \in Pairs(d) : p[1] <= q[1]
  BY <1>2
<1> QED BY <1>3 DEF First

\* The code blocks inside a pair are closed.
LEMMA PairClosed ==
  ASSUME NEW d, d \in Seq(Line), NEW p \in Pairs(d)
  PROVE  ~Odd({j \in Fences(d) : p[1] <= j /\ j <= p[2]})
<1> DEFINE A == Upto(Fences(d), p[1])
           B == {j \in Fences(d) : p[1] <= j /\ j <= p[2]}
           C == Upto(Fences(d), p[2])
<1>1. p[1] \in DOMAIN d /\ p[2] \in DOMAIN d /\ p[1] < p[2] /\ p[1] \in Nat /\ p[2] \in Nat
  BY PairIs
<1>2. ~Fenced(d, p[1]) /\ ~Fenced(d, p[2])
  BY PairIs DEF Markers
<1>3. ~Odd(A) /\ ~Odd(C) /\ IsFiniteSet(Fences(d)) /\ Fences(d) \subseteq Nat
  BY <1>1, <1>2, FencedIs
<1>4. p[1] \notin Fences(d)
  BY PairIs DEF Fences
<1>5. C = A \cup B /\ A \cap B = {} /\ A \in SUBSET Fences(d) /\ B \in SUBSET Fences(d)
  BY <1>1, <1>3, <1>4 DEF Upto
<1> HIDE DEF A, B, C
<1>6. IsFiniteSet(A) /\ IsFiniteSet(B)
  BY <1>3, <1>5, FS_Subset
<1>7. ~Odd(B)
  BY <1>3, <1>5, <1>6, OddUnion
<1> QED BY <1>7 DEF B

Extra(d)  == {q \in Pairs(d) : q # First(d)}
Removed(d) == UNION {p[1]..p[2] : p \in Extra(d)}

\* The code blocks inside the pairs a repair removes are closed, up to any line that is
\* in none of them.
LEMMA ExtraClosed ==
  ASSUME NEW d, d \in Seq(Line), NEW k \in 0..Len(d),
         \A p \in Extra(d) : ~(p[1] <= k /\ k < p[2])
  PROVE  ~Odd({j \in Fences(d) : j <= k /\ j \in Removed(d)})
<1> DEFINE In(n)  == {j \in Fences(d) : j <= n /\ j \in Removed(d)}
           Out(n) == \A p \in Extra(d) : ~(p[1] <= n /\ n < p[2])
           Bad    == {n \in 0..Len(d) : Out(n) /\ Odd(In(n))}
<1>0. /\ Fences(d) \subseteq Nat \ {0} /\ Len(d) \in Nat
      /\ \A N : N \subseteq Fences(d) => IsFiniteSet(N)
  <2>1. Fences(d) \subseteq DOMAIN d /\ DOMAIN d = 1..Len(d) /\ Len(d) \in Nat
    BY DEF Fences
  <2> QED BY <2>1, LinesFinite
<1>1. SUFFICES ASSUME Bad # {} PROVE FALSE
  OBVIOUS
<1>2. PICK n \in Bad : \A m \in Bad : n <= m
  <2>1. Bad \in SUBSET Nat
    BY <1>0
  <2> HIDE DEF Bad
  <2> QED BY <1>1, <2>1, Least
<1>3. n \in 0..Len(d) /\ Out(n) /\ Odd(In(n)) /\ n \in Nat
  BY <1>0, <1>2
<1>4. n # 0
  <2>1. In(0) = {}
    BY <1>0
  <2> QED BY <1>3, <2>1, OddNone
<1>5. ASSUME NEW m \in 0..(n - 1), Out(m) PROVE ~Odd(In(m))
  <2>1. m \in 0..Len(d) /\ m < n
    BY <1>0, <1>3
  <2> QED BY <1>2, <1>3, <1>5, <2>1
<1>6. CASE \E p \in Extra(d) : n = p[2]
  <2>1. PICK p \in Extra(d) : n = p[2]
    BY <1>6
  <2>2. p \in Pairs(d) /\ p[1] \in Nat \ {0} /\ p[2] \in Nat /\ p[1] < p[2]
    BY PairIs DEF Extra
  <2> DEFINE m == p[1] - 1
             S == {j \in Fences(d) : p[1] <= j /\ j <= p[2]}
  <2>3. Out(m)
    <3> SUFFICES ASSUME NEW q \in Extra(d), q[1] <= m, m < q[2] PROVE FALSE
      OBVIOUS
    <3>1. q \in Pairs(d) /\ q[1] \in Nat /\ q[2] \in Nat
      BY PairIs DEF Extra
    <3>2. q # p => p[2] < q[1] \/ q[2] < p[1]
      BY <2>2, <3>1, PairsApart
    <3> QED BY <2>2, <3>1, <3>2
  <2>4. ~Odd(In(m))
    BY <1>5, <2>1, <2>2, <2>3
  <2>5. ~Odd(S)
    BY <2>2, PairClosed
  <2>6. In(n) = In(m) \cup S /\ In(m) \cap S = {}
    <3>1. \A j \in S : j \in Removed(d) /\ j <= n
      <4> SUFFICES ASSUME NEW j \in S PROVE j \in Removed(d) /\ j <= n
        OBVIOUS
      <4>1. j \in Nat /\ j \in p[1]..p[2]
        BY <1>0, <2>2
      <4> QED BY <2>1, <4>1 DEF Removed
    <3>2. \A j \in Fences(d) : j <= m <=> j < p[1]
      BY <1>0, <2>2
    <3>3. \A j \in Fences(d) : j <= m => j <= n
      BY <1>0, <2>1, <2>2
    <3>4. \A j \in Fences(d) : j <= n /\ ~(j <= m) => j \in S
      BY <1>0, <2>1, <2>2
    <3>5. \A j \in S : ~(j <= m)
      BY <1>0, <2>2
    <3> QED BY <3>1, <3>3, <3>4, <3>5
  <2>7. IsFiniteSet(In(m)) /\ IsFiniteSet(S)
    BY <1>0
  <2> HIDE DEF In, S, m
  <2>8. ~Odd(In(n))
    <3>1. Odd(In(m) \cup S) <=> (Odd(In(m)) <=> ~Odd(S))
      BY <2>6, <2>7, OddUnion
    <3> QED BY <2>4, <2>5, <2>6, <3>1
  <2> QED BY <1>3, <2>8
<1>7. CASE ~\E p \in Extra(d) : n = p[2]
  <2> DEFINE m == n - 1
  <2>1. \A p \in Extra(d) : p[1] \in Nat /\ p[2] \in Nat
    BY PairIs DEF Extra
  <2>2. n \notin Removed(d)
    <3> SUFFICES ASSUME NEW p \in Extra(d), n \in p[1]..p[2] PROVE FALSE
      BY DEF Removed
    <3> QED BY <1>3, <1>7, <2>1
  <2>3. Out(m)
    <3> SUFFICES ASSUME NEW q \in Extra(d), q[1] <= m, m < q[2] PROVE FALSE
      OBVIOUS
    <3>1. q[1] <= n /\ n <= q[2]
      BY <1>3, <2>1
    <3>2. n \in q[1]..q[2]
      BY <1>3, <2>1, <3>1
    <3> QED BY <2>2, <3>2 DEF Removed
  <2>4. ~Odd(In(m))
    BY <1>3, <1>4, <1>5, <2>3
  <2>5. \A j \in Removed(d) \cap Nat : j <= n <=> j <= m
    BY <1>3, <2>2
  <2>6. In(n) = In(m)
    BY <1>0, <2>5
  <2> QED BY <1>3, <2>4, <2>6
<1> QED BY <1>6, <1>7

LEMMA OnePair ==
  ASSUME NEW e, e \in Seq(Line), NEW x, NEW y, Markers(e) = {x, y}, x < y,
         e[x][1] = "begin", e[y][1] = "end"
  PROVE  Pairs(e) = {<<x, y>>} /\ Cardinality(Pairs(e)) = 1 /\ Orphans(e) = {} /\ First(e) = <<x, y>>
<1>1. x \in Nat /\ y \in Nat /\ x \in Markers(e) /\ y \in Markers(e)
  BY DEF Markers
<1>2. <<x, y>> \in Pairs(e)
  BY <1>1 DEF Pairs
<1>3. ASSUME NEW p \in Pairs(e) PROVE p = <<x, y>>
  <2>1. p \in {x, y} \X {x, y} /\ p[1] < p[2]
    BY DEF Pairs
  <2> QED BY <1>1, <2>1
<1>4. Pairs(e) = {<<x, y>>}
  BY <1>2, <1>3
<1>5. Cardinality(Pairs(e)) = 1
  BY <1>4, FS_Singleton
<1>6. Orphans(e) = {}
  BY <1>4 DEF Orphans
<1>7. First(e) = <<x, y>>
  BY <1>1, <1>4 DEF First
<1> QED BY <1>4, <1>5, <1>6, <1>7

LEMMA NoPairs ==
  ASSUME NEW e, Markers(e) = {}
  PROVE  Pairs(e) = {} /\ InBlocks(e) = {}
  BY DEF Pairs, InBlocks

LEMMA Malformed ==
  ASSUME NEW d
  PROVE  SlotState(d) # "malformed" <=>
           Markers(d) = {} \/ (Cardinality(Pairs(d)) = 1 /\ Orphans(d) = {})
<1>1. CASE Markers(d) = {}
  BY <1>1 DEF SlotState
<1>2. CASE Markers(d) # {} /\ (Cardinality(Pairs(d)) # 1 \/ Orphans(d) # {})
  BY <1>2 DEF SlotState
<1>3. CASE Markers(d) # {} /\ ~(Cardinality(Pairs(d)) # 1 \/ Orphans(d) # {})
  BY <1>3 DEF SlotState
<1> QED BY <1>1, <1>2, <1>3

\* The lines a repair cuts: orphans, the other pairs, and blank lines.
LEMMA CutIs ==
  ASSUME NEW d, d \in Seq(Line), NEW k \in DOMAIN d
  PROVE  /\ k \in Orphans(d) => k \in Cut(d) /\ k \in Markers(d)
         /\ k \in Removed(d) => k \in Cut(d) /\ k \in InBlocks(d)
         /\ k \in Cut(d) => k \in Orphans(d) \/ k \in Removed(d) \/ d[k] = Blank
  BY DEF Cut, Doubled, Removed, Extra, Orphans, InBlocks

LEMMA RepairedLines ==
  ASSUME NEW d, d \in Seq(Line)
  PROVE  LET G == DOMAIN d \ Cut(d)
             h == [k \in G |-> Cardinality(Upto(G, k))]
         IN  Edit(d, Repair(d), h, G, DOMAIN Repair(d)) /\ \A k \in G : Repair(d)[h[k]] = d[k]
<1> DEFINE G == DOMAIN d \ Cut(d)
           h == [k \in G |-> Cardinality(Upto(G, k))]
           e == Repair(d)
           c == Cardinality(G)
<1>1. IsFiniteSet(G) /\ G \subseteq Nat /\ G \subseteq DOMAIN d
  <2>1. G \subseteq DOMAIN d
    OBVIOUS
  <2> HIDE DEF G
  <2> QED BY <2>1, LinesFinite
<1>2. e = [k \in 1..c |-> d[Nth(G, k)]] /\ c \in Nat
  <2>1. e = Picked(d, G)
    BY DEF Repair
  <2> HIDE DEF G, e
  <2> QED BY <1>1, <2>1, FS_CardinalityType DEF Picked
<1> HIDE DEF G
<1>3. \A k \in 1..c : Nth(G, k) \in G /\ Cardinality(Upto(G, Nth(G, k))) = k
  BY <1>1, NthIs
<1>4. \A k \in G : h[k] \in 1..c /\ Nth(G, h[k]) = k
  BY <1>1, UptoRange, NthUnique
<1> HIDE DEF c, e
<1>5. e \in Seq(Line) /\ DOMAIN e = 1..c
  <2>0. \A j \in DOMAIN d : d[j] \in Line
    OBVIOUS
  <2>1. \A k \in 1..c : d[Nth(G, k)] \in Line
    BY <1>1, <1>3, <2>0
  <2> QED BY <1>2, <2>1
<1>6. \A k \in G : e[h[k]] = d[k]
  BY <1>2, <1>4
<1>7. Moves(h, G, 1..c)
  <2>1. \A m \in 1..c : h[Nth(G, m)] = m
    BY <1>3
  <2>2. \A m, n \in G : m < n => h[m] < h[n]
    BY <1>1, UptoMore
  <2> HIDE DEF h
  <2> QED BY <1>3, <1>4, <2>1, <2>2 DEF Moves
<1> HIDE DEF h
<1>8. Edit(d, e, h, G, DOMAIN e)
  <2>1. DOMAIN e \subseteq DOMAIN e
    OBVIOUS
  <2> QED BY <1>1, <1>5, <1>6, <1>7 DEF Edit
<1> QED BY <1>6, <1>8 DEF G, h, e

\* What is left of the markers is the first pair.
LEMMA RepairedMarkers ==
  ASSUME NEW d, d \in Seq(Line), NEW k \in DOMAIN d \ Cut(d)
  PROVE  /\ Closed(d, DOMAIN d \ Cut(d), k)
         /\ k \in Markers(d) => Pairs(d) # {} /\ k \in {First(d)[1], First(d)[2]}
         /\ k \in InBlocks(d) => Pairs(d) # {} /\ k \in First(d)[1]..First(d)[2]
<1>1. \A q \in Extra(d) : k \notin q[1]..q[2]
  BY CutIs DEF Removed
<1>2. Closed(d, DOMAIN d \ Cut(d), k)
  <2>1. k \in 0..Len(d) /\ k \in Nat
    OBVIOUS
  <2>2. \A q \in Extra(d) : ~(q[1] <= k /\ k < q[2])
    <3> SUFFICES ASSUME NEW q \in Extra(d), q[1] <= k, k < q[2] PROVE FALSE
      OBVIOUS
    <3>1. q[1] \in Nat /\ q[2] \in Nat
      BY PairIs DEF Extra
    <3> QED BY <1>1, <2>1, <3>1
  <2>3. ~Odd({j \in Fences(d) : j <= k /\ j \in Removed(d)})
    BY <2>1, <2>2, ExtraClosed
  <2>4. \A j \in Fences(d) : j \notin DOMAIN d \ Cut(d) <=> j \in Removed(d)
    <3> SUFFICES ASSUME NEW j \in Fences(d) PROVE j \in Cut(d) <=> j \in Removed(d)
      BY DEF Fences
    <3>1. j \in DOMAIN d /\ d[j][1] = "fence"
      BY DEF Fences
    <3>2. d[j] # Blank /\ j \notin Markers(d)
      BY <3>1, LineKinds DEF Markers
    <3> QED BY <3>1, <3>2, CutIs
  <2>5. {j \in Fences(d) : j <= k /\ j \notin DOMAIN d \ Cut(d)}
          = {j \in Fences(d) : j <= k /\ j \in Removed(d)}
    BY <2>4
  <2> QED BY <2>3, <2>5 DEF Closed
<1>3. ASSUME k \in Markers(d) PROVE Pairs(d) # {} /\ k \in {First(d)[1], First(d)[2]}
  <2>1. k \notin Orphans(d)
    BY CutIs
  <2>2. PICK p \in Pairs(d) : k \in {p[1], p[2]}
    BY <1>3, <2>1 DEF Orphans
  <2>3. k \in p[1]..p[2]
    BY <2>2, PairIs
  <2>4. p = First(d)
    BY <1>1, <2>3 DEF Extra
  <2> QED BY <2>2, <2>4
<1>4. ASSUME k \in InBlocks(d) PROVE Pairs(d) # {} /\ k \in First(d)[1]..First(d)[2]
  <2>1. PICK p \in Pairs(d) : k \in p[1]..p[2]
    BY <1>4 DEF InBlocks
  <2>2. p = First(d)
    BY <1>1, <2>1 DEF Extra
  <2> QED BY <2>1, <2>2
<1> QED BY <1>2, <1>3, <1>4

LEMMA FirstStays ==
  ASSUME NEW d, d \in Seq(Line), Pairs(d) # {}
  PROVE  First(d)[1] \in DOMAIN d \ Cut(d) /\ First(d)[2] \in DOMAIN d \ Cut(d)
<1> DEFINE p == First(d)
<1>1. p \in Pairs(d)
  BY FirstIs
<1> HIDE DEF p
<1>2. ASSUME NEW k \in {p[1], p[2]} PROVE k \in DOMAIN d \ Cut(d)
  <2>1. k \in DOMAIN d /\ k \in Markers(d) /\ k \in Nat /\ p[1] <= k /\ k <= p[2]
    BY <1>1, PairIs
  <2>2. k \notin Orphans(d)
    BY <1>1 DEF Orphans
  <2>3. d[k] # Blank
    BY <1>1, PairIs, LineKinds
  <2>4. k \notin Removed(d)
    <3> SUFFICES ASSUME NEW q \in Extra(d), k \in q[1]..q[2] PROVE FALSE
      BY DEF Removed
    <3>1. q \in Pairs(d) /\ q # p
      BY DEF Extra, p
    <3>2. /\ p[1] \in Nat /\ p[2] \in Nat /\ q[1] \in Nat /\ q[2] \in Nat
          /\ p[2] < q[1] \/ q[2] < p[1]
      BY <1>1, <3>1, PairIs, PairsApart
    <3> QED BY <2>1, <3>2
  <2> QED BY <2>1, <2>2, <2>3, <2>4, CutIs
<1> QED BY <1>2 DEF p

\* A repair leaves one pair at most, and all that was outside of pairs, in its order
\* (scan.go, Repair).
LEMMA RepairKeeps ==
  ASSUME NEW d, d \in Seq(Line)
  PROVE  /\ Repair(d) \in Seq(Line) /\ SlotState(Repair(d)) # "malformed"
         /\ OutsideBlocks(Repair(d)) = OutsideBlocks(d)
<1> DEFINE G == DOMAIN d \ Cut(d)
           h == [k \in G |-> Cardinality(Upto(G, k))]
           e == Repair(d)
           H == DOMAIN e
           p == First(d)
<1>1. Edit(d, e, h, G, H) /\ \A k \in G : e[h[k]] = d[k]
  BY RepairedLines
<1>2. \A k \in G : /\ Closed(d, G, k)
                   /\ k \in Markers(d) => Pairs(d) # {} /\ k \in {p[1], p[2]}
                   /\ k \in InBlocks(d) => Pairs(d) # {} /\ k \in p[1]..p[2]
  BY RepairedMarkers
<1>3. Pairs(d) # {} => p \in Pairs(d) /\ p[1] \in G /\ p[2] \in G
  BY FirstIs, FirstStays
<1>4. \A k \in Mined(d) : k \in G \/ k \in InBlocks(d)
  <2> SUFFICES ASSUME NEW k \in Mined(d), k \in Cut(d) PROVE k \in InBlocks(d)
    BY DEF Mined
  <2>1. k \in DOMAIN d /\ d[k][1] \in {"text", "fence"} /\ d[k] # Blank
    BY LineKinds DEF Mined
  <2>2. k \notin Markers(d)
    BY <2>1 DEF Markers
  <2> QED BY <2>1, <2>2, CutIs
<1>5. Markers(e) \subseteq H /\ Mined(e) \subseteq H
  BY DEF Markers, Mined
<1> HIDE DEF G, h, H, p, e
<1>6. \A k \in G : k \in Markers(d) <=> h[k] \in Markers(e)
  BY <1>1, <1>2, EditMarkers
<1>7. \A m \in Markers(e) : \E k \in G : m = h[k] /\ k \in Markers(d)
  BY <1>1, <1>5, <1>6 DEF Edit, Moves
<1>8. CASE Pairs(d) = {}
  <2>1. Markers(e) = {}
    BY <1>2, <1>7, <1>8
  <2>2. Pairs(e) = {} /\ InBlocks(e) = {} /\ InBlocks(d) = {}
    BY <1>8, <2>1, NoPairs DEF InBlocks
  <2>3. OutsideBlocks(e) = OutsideBlocks(d)
    BY <1>1, <1>4, <1>5, <2>2, EditOutside
  <2> QED BY <1>1, <2>1, <2>3, Malformed DEF e, Edit
<1>9. CASE Pairs(d) # {}
  <2>1. Markers(e) = {h[p[1]], h[p[2]]}
    <3>1. \A m \in Markers(e) : m \in {h[p[1]], h[p[2]]}
      BY <1>2, <1>7
    <3>2. h[p[1]] \in Markers(e) /\ h[p[2]] \in Markers(e)
      BY <1>3, <1>6, <1>9, PairIs
    <3> QED BY <3>1, <3>2
  <2>2. /\ h[p[1]] < h[p[2]] /\ e[h[p[1]]][1] = "begin" /\ e[h[p[2]]][1] = "end"
    BY <1>1, <1>3, <1>9, PairIs DEF Edit, Moves
  <2>3. e \in Seq(Line)
    BY <1>1 DEF Edit
  <2>4. Pairs(e) = {<<h[p[1]], h[p[2]]>>} /\ Cardinality(Pairs(e)) = 1 /\ Orphans(e) = {}
    BY <2>1, <2>2, <2>3, OnePair
  <2>5. \A k \in G : k \in InBlocks(d) <=> h[k] \in InBlocks(e)
    <3>1. \A r \in Pairs(e) : \E q \in Pairs(d) : q[1] \in G /\ q[2] \in G /\ r = <<h[q[1]], h[q[2]]>>
      BY <1>3, <1>9, <2>4
    <3>2. \A k \in G : k \in InBlocks(d) =>
            \E r \in Pairs(d) : /\ k \in r[1]..r[2] /\ r[1] \in G /\ r[2] \in G
                                /\ <<h[r[1]], h[r[2]]>> \in Pairs(e)
      BY <1>2, <1>3, <1>9, <2>4
    <3> QED BY <1>1, <3>1, <3>2, EditInBlocks
  <2>6. OutsideBlocks(e) = OutsideBlocks(d)
    BY <1>1, <1>4, <1>5, <2>5, EditOutside
  <2> QED BY <2>3, <2>4, <2>6, Malformed DEF e
<1> QED BY <1>8, <1>9

-----------------------------------------------------------------------------
(* The block as it is written.                                              *)

\* Three lines in the place of those after the first i and before the j-th.
Spliced(S, e, d, i, j, a, b, c) ==
  /\ d \in Seq(S) /\ a \in S /\ b \in S /\ c \in S
  /\ i \in 0..Len(d) /\ j \in (i + 1)..(Len(d) + 1)
  /\ e = SubSeq(d, 1, i) \o <<a, b, c>> \o SubSeq(d, j, Len(d))
SplicedLines(S, e, d, i, j, a, b, c) ==
  /\ e \in Seq(S) /\ Len(e) = i + 3 + (Len(d) - j + 1)
  /\ \A k \in 1..i : e[k] = d[k]
  /\ e[i + 1] = a /\ e[i + 2] = b /\ e[i + 3] = c
  /\ \A k \in j..Len(d) : e[k - j + i + 4] = d[k]

LEMMA Splice ==
  ASSUME NEW S, NEW d, NEW a, NEW b, NEW c, NEW i, NEW j, NEW e, Spliced(S, e, d, i, j, a, b, c)
  PROVE  SplicedLines(S, e, d, i, j, a, b, c)
<1>a. d \in Seq(S) /\ a \in S /\ b \in S /\ c \in S
  BY DEF Spliced
<1>b. i \in 0..Len(d) /\ j \in (i + 1)..(Len(d) + 1)
  BY DEF Spliced
<1> DEFINE u == SubSeq(d, 1, i)
           w == SubSeq(d, j, Len(d))
           m == <<a, b, c>>
<1>0. Len(d) \in Nat /\ \A k \in 1..Len(d) : d[k] \in S
  BY <1>a
<1>1. u \in Seq(S) /\ Len(u) = i /\ \A k \in 1..i : u[k] = d[k]
  <2>1. 1 \in Int /\ i \in Int /\ \A k \in 1..i : d[k] \in S
    BY <1>0, <1>b
  <2>2. /\ u \in Seq(S) /\ Len(u) = IF 1 <= i THEN i - 1 + 1 ELSE 0
        /\ \A k \in 1..(i - 1 + 1) : u[k] = d[1 + k - 1]
    BY <2>1, SubSeqProperties
  <2> HIDE DEF u
  <2> QED BY <1>b, <2>1, <2>2
<1>2. w \in Seq(S) /\ Len(w) = Len(d) - j + 1 /\ \A k \in 1..(Len(d) - j + 1) : w[k] = d[j + k - 1]
  <2>1. j \in Int /\ Len(d) \in Int /\ \A k \in j..Len(d) : d[k] \in S
    BY <1>0, <1>b
  <2>2. /\ w \in Seq(S) /\ Len(w) = IF j <= Len(d) THEN Len(d) - j + 1 ELSE 0
        /\ \A k \in 1..(Len(d) - j + 1) : w[k] = d[j + k - 1]
    BY <2>1, SubSeqProperties
  <2>3. (IF j <= Len(d) THEN Len(d) - j + 1 ELSE 0) = Len(d) - j + 1
    <3>1. i \in Nat /\ j \in Int /\ j <= Len(d) + 1
      BY <1>0, <1>b
    <3> QED BY <1>0, <3>1
  <2> HIDE DEF w
  <2> QED BY <2>2, <2>3
<1>3. m \in Seq(S) /\ Len(m) = 3 /\ m[1] = a /\ m[2] = b /\ m[3] = c
  BY <1>a
<1>4. e = (u \o m) \o w
  BY DEF Spliced
<1> HIDE DEF u, w, m
<1> DEFINE x == u \o m
<1>5. /\ x \in Seq(S) /\ Len(x) = i + 3
      /\ \A k \in 1..(i + 3) : x[k] = IF k <= i THEN u[k] ELSE m[k - i]
  <2>1. /\ x \in Seq(S) /\ Len(x) = Len(u) + Len(m)
        /\ \A k \in 1..(Len(u) + Len(m)) : x[k] = IF k <= Len(u) THEN u[k] ELSE m[k - Len(u)]
    BY <1>1, <1>3, ConcatProperties
  <2> HIDE DEF x
  <2> QED BY <1>b, <1>1, <1>3, <2>1
<1>6. /\ e \in Seq(S) /\ Len(e) = Len(x) + Len(w)
      /\ \A k \in 1..(Len(x) + Len(w)) : e[k] = IF k <= Len(x) THEN x[k] ELSE w[k - Len(x)]
  <2>1. e = x \o w
    BY <1>4
  <2> HIDE DEF x
  <2> QED BY <1>2, <1>5, <2>1, ConcatProperties
<1> HIDE DEF x
<1>7. Len(e) = i + 3 + (Len(d) - j + 1)
  BY <1>b, <1>0, <1>2, <1>5, <1>6
<1>8. /\ \A k \in 1..(i + 3) : e[k] = x[k]
      /\ \A k \in 1..Len(w) : e[i + 3 + k] = w[k]
  <2>1. ASSUME NEW k \in 1..(i + 3) PROVE e[k] = x[k]
    <3>1. k <= Len(x) /\ k \in 1..(Len(x) + Len(w))
      BY <1>b, <1>0, <1>2, <1>5
    <3> QED BY <1>6, <3>1
  <2>2. ASSUME NEW k \in 1..Len(w) PROVE e[i + 3 + k] = w[k]
    <3> DEFINE y == i + 3 + k
    <3>1. y \in 1..(Len(x) + Len(w)) /\ ~(y <= Len(x)) /\ y - Len(x) = k
      BY <1>b, <1>0, <1>2, <1>5
    <3> HIDE DEF y
    <3>2. e[y] = w[k]
      BY <1>6, <3>1
    <3> QED BY <3>2 DEF y
  <2> QED BY <2>1, <2>2
<1>9. \A k \in 1..i : e[k] = d[k]
  <2> SUFFICES ASSUME NEW k \in 1..i PROVE e[k] = d[k]
    OBVIOUS
  <2>1. k \in 1..(i + 3) /\ k <= i
    BY <1>b, <1>0
  <2> QED BY <1>1, <1>5, <1>8, <2>1
<1>10. e[i + 1] = a /\ e[i + 2] = b /\ e[i + 3] = c
  <2>1. ASSUME NEW n \in 1..3 PROVE e[i + n] = m[n]
    <3> DEFINE y == i + n
    <3>1. y \in 1..(i + 3) /\ ~(y <= i) /\ y - i = n
      BY <1>b, <1>0
    <3> HIDE DEF y
    <3>2. e[y] = m[n]
      BY <1>5, <1>8, <3>1
    <3> QED BY <3>2 DEF y
  <2>2. 1 \in 1..3 /\ 2 \in 1..3 /\ 3 \in 1..3
    OBVIOUS
  <2> QED BY <1>3, <2>1, <2>2
<1>11. ASSUME NEW k \in j..Len(d) PROVE e[k - j + i + 4] = d[k]
  <2> DEFINE r == k - j + 1
  <2>1. r \in 1..Len(w) /\ i + 3 + r = k - j + i + 4 /\ j + r - 1 = k
    BY <1>b, <1>0, <1>2
  <2> HIDE DEF r
  <2>2. w[r] = d[j + r - 1]
    BY <1>2, <2>1
  <2>3. e[i + 3 + r] = w[r]
    BY <1>8, <2>1
  <2> QED BY <2>1, <2>2, <2>3
<1> QED BY <1>6, <1>7, <1>9, <1>10, <1>11 DEF SplicedLines

LEMMA BlockIs ==
  ASSUME NEW v \in 1..MaxTemplate
  PROVE  /\ Block(TemplateBody(v)) = <<BeginLine(TemplateBody(v)), TemplateLine(v), EndLine>>
         /\ BeginLine(TemplateBody(v)) \in Line /\ TemplateLine(v) \in Line /\ EndLine \in Line
<1>1. BeginLine(TemplateBody(v)) \in Line /\ TemplateLine(v) \in Line /\ EndLine \in Line
  BY DEF Line, Templates
<1> DEFINE b == BeginLine(TemplateBody(v))
           l == TemplateLine(v)
<1> HIDE DEF b, l
<1>2. <<b>> \o <<l>> \o <<EndLine>> = <<b, l, EndLine>>
  <2> DEFINE S == {b, l, EndLine}
             x == <<b>> \o <<l>>
             y == x \o <<EndLine>>
             z == <<b, l, EndLine>>
  <2>1. /\ <<b>> \in Seq(S) /\ <<l>> \in Seq(S) /\ <<EndLine>> \in Seq(S) /\ z \in Seq(S)
        /\ Len(<<b>>) = 1 /\ Len(<<l>>) = 1 /\ Len(<<EndLine>>) = 1 /\ Len(z) = 3
    OBVIOUS
  <2> HIDE DEF S
  <2>2. x \in Seq(S) /\ Len(x) = 2 /\ x[1] = b /\ x[2] = l
    BY <2>1, ConcatProperties
  <2>3. y \in Seq(S) /\ Len(y) = 3 /\ y[1] = b /\ y[2] = l /\ y[3] = EndLine
    <3> HIDE DEF x
    <3> QED BY <2>1, <2>2, ConcatProperties
  <2>4. z[1] = b /\ z[2] = l /\ z[3] = EndLine
    OBVIOUS
  <2> HIDE DEF x, y, z
  <2>5. \A k \in 1..3 : y[k] = z[k]
    BY <2>3, <2>4
  <2>6. y = z
    BY <2>1, <2>3, <2>5, SeqEqual
  <2> QED BY <2>6 DEF x, y, z
<1>3. TemplateBody(v) = <<l>>
  BY DEF TemplateBody, l
<1> QED BY <1>1, <1>2, <1>3 DEF Block, b, l

LEMMA OneLine ==
  ASSUME NEW S, NEW d \in Seq(S), NEW n \in 1..Len(d)
  PROVE  SubSeq(d, n, n) = <<d[n]>>
<1>1. d[n] \in S /\ n \in Int /\ n..n = {n} /\ n - n + 1 = 1
  OBVIOUS
<1>2. /\ SubSeq(d, n, n) \in Seq(S) /\ Len(SubSeq(d, n, n)) = 1
      /\ SubSeq(d, n, n)[1] = d[n]
  <2>1. /\ SubSeq(d, n, n) \in Seq(S) /\ Len(SubSeq(d, n, n)) = IF n <= n THEN n - n + 1 ELSE 0
        /\ \A k \in 1..(n - n + 1) : SubSeq(d, n, n)[k] = d[n + k - 1]
    BY <1>1, SubSeqProperties
  <2>2. 1 \in 1..(n - n + 1) /\ n + 1 - 1 = n /\ n <= n
    BY <1>1
  <2> QED BY <1>1, <2>1, <2>2
<1> DEFINE x == SubSeq(d, n, n)
           a == d[n]
<1> HIDE DEF x, a
<1>3. x \in Seq(S) /\ Len(x) = 1 /\ x[1] = a /\ a \in S
  BY <1>1, <1>2 DEF x, a
<1>4. <<a>> \in Seq(S) /\ Len(<<a>>) = 1 /\ <<a>>[1] = a
  BY <1>3
<1>5. x = <<a>>
  BY <1>3, <1>4, SeqEqual
<1> QED BY <1>5 DEF x, a

\* The block stands in e at line n.
BlockAt(e, n, v) ==
  /\ n \in 1..(Len(e) - 2)
  /\ e[n] = BeginLine(TemplateBody(v)) /\ e[n + 1] = TemplateLine(v) /\ e[n + 2] = EndLine

LEMMA BlockLines ==
  ASSUME NEW e, e \in Seq(Line), NEW n, NEW v \in 1..MaxTemplate, BlockAt(e, n, v)
  PROVE  /\ n \in DOMAIN e /\ n + 1 \in DOMAIN e /\ n + 2 \in DOMAIN e /\ n \in Nat
         /\ e[n][1] = "begin" /\ e[n + 1][1] = "text" /\ e[n + 2][1] = "end"
         /\ n \notin Mined(e) /\ n + 1 \notin Mined(e) /\ n + 2 \notin Mined(e)
<1>1. n \in DOMAIN e /\ n + 1 \in DOMAIN e /\ n + 2 \in DOMAIN e /\ n \in Nat
  BY DEF BlockAt
<1>2. e[n][1] = "begin" /\ e[n + 1][1] = "text" /\ e[n + 2][1] = "end"
  BY LineKinds DEF BlockAt
<1>3. e[n + 1] \notin Mines \cup {Fence}
  BY <1>2, LineKinds DEF BlockAt
<1>4. e[n] \notin Mines \cup {Fence} /\ e[n + 2] \notin Mines \cup {Fence}
  BY <1>2, LineKinds
<1> QED BY <1>1, <1>2, <1>3, <1>4 DEF Mined

LEMMA FoundCurrent ==
  ASSUME NEW e, e \in Seq(Line), NEW n, template \in 1..MaxTemplate, BlockAt(e, n, template),
         Markers(e) = {n, n + 2}
  PROVE  SlotState(e) = "current"
<1>1. /\ n \in Nat /\ n + 1 \in DOMAIN e /\ n < n + 2
      /\ e[n][1] = "begin" /\ e[n + 2][1] = "end"
  BY BlockLines
<1>2. Cardinality(Pairs(e)) = 1 /\ Orphans(e) = {} /\ First(e) = <<n, n + 2>>
  <2> DEFINE y == n + 2
  <2>1. Markers(e) = {n, y} /\ n < y /\ e[n][1] = "begin" /\ e[y][1] = "end"
    BY <1>1
  <2> HIDE DEF y
  <2>2. Cardinality(Pairs(e)) = 1 /\ Orphans(e) = {} /\ First(e) = <<n, y>>
    BY <2>1, OnePair
  <2> QED BY <2>2 DEF y
<1>3. SubSeq(e, n + 1, n + 1) = <<TemplateLine(template)>>
  <2>1. n + 1 \in 1..Len(e)
    BY <1>1
  <2>2. SubSeq(e, n + 1, n + 1) = <<e[n + 1]>>
    BY <2>1, OneLine
  <2> QED BY <2>2 DEF BlockAt
<1>4. Canonical(<<TemplateLine(template)>>) = <<TemplateLine(template)>>
  <2> DEFINE l == TemplateLine(template)
             b == <<l>>
             S == {k \in DOMAIN b : b[k] # Blank}
  <2>1. l # Blank
    BY LineKinds
  <2> HIDE DEF l
  <2>2. S = {1}
    BY <2>1
  <2>3. (CHOOSE k \in {1} : \A m \in {1} : m <= k) = 1
    OBVIOUS
  <2>4. SubSeq(b, 1, 1) = b
    <3>1. b \in Seq({l}) /\ 1 \in 1..Len(b) /\ b = <<b[1]>>
      OBVIOUS
    <3> HIDE DEF b
    <3> QED BY <3>1, OneLine
  <2>5. Canonical(b) = b
    <3> HIDE DEF b
    <3> QED BY <2>2, <2>3, <2>4 DEF Canonical
  <2> QED BY <2>5 DEF l
<1>5. Body(e) = TemplateBody(template)
  <2>1. First(e)[1] = n /\ First(e)[2] = n + 2 /\ (n + 2) - 1 = n + 1
    BY <1>1, <1>2
  <2> QED BY <1>3, <1>4, <2>1 DEF Body, TemplateBody
<1>6. e[First(e)[1]][2] = TemplateBody(template)
  BY <1>2, LineKinds DEF BlockAt
<1>7. Markers(e) # {}
  OBVIOUS
<1> QED BY <1>2, <1>5, <1>6, <1>7 DEF SlotState

\* A pair that is the only one has the only markers.
LEMMA SolePair ==
  ASSUME NEW d, d \in Seq(Line), SlotState(d) # "malformed", Pairs(d) # {}
  PROVE  Pairs(d) = {First(d)} /\ Markers(d) = {First(d)[1], First(d)[2]}
<1> DEFINE p == First(d)
<1>1. p \in Pairs(d)
  BY FirstIs
<1>2. Cardinality(Pairs(d)) = 1 /\ Orphans(d) = {}
  <2>1. Markers(d) # {}
    BY NoPairs
  <2> QED BY <2>1, Malformed
<1>3. Pairs(d) = {p}
  <2>1. IsFiniteSet(Pairs(d))
    <3>1. Markers(d) \subseteq DOMAIN d
      BY DEF Markers
    <3>2. IsFiniteSet(Markers(d))
      BY <3>1, LinesFinite
    <3>3. IsFiniteSet(Markers(d) \X Markers(d))
      BY <3>2, FS_Product
    <3>4. Pairs(d) \in SUBSET (Markers(d) \X Markers(d))
      BY DEF Pairs
    <3> QED BY <3>3, <3>4, FS_Subset
  <2>2. PICK q : Pairs(d) = {q}
    BY <1>2, <2>1, FS_Singleton
  <2> HIDE DEF p
  <2> QED BY <1>1, <2>2
<1>4. Markers(d) \subseteq {p[1], p[2]}
  <2> HIDE DEF p
  <2> QED BY <1>2, <1>3 DEF Orphans
<1>5. p[1] \in Markers(d) /\ p[2] \in Markers(d)
  BY <1>1, PairIs
<1> QED BY <1>3, <1>4, <1>5

\* The block in the place of the one there was.
LEMMA Replaced ==
  ASSUME NEW d, d \in Seq(Line), SlotState(d) # "malformed", Pairs(d) # {},
         NEW v \in 1..MaxTemplate, NEW e, e = Upsert(d, TemplateBody(v))
  PROVE  /\ e \in Seq(Line) /\ OutsideBlocks(e) = OutsideBlocks(d)
         /\ BlockAt(e, First(d)[1], v) /\ Markers(e) = {First(d)[1], First(d)[1] + 2}
         /\ \A k \in DOMAIN d : k < First(d)[1] \/ k > First(d)[2] => d[k] \in Lines(e)
<1> DEFINE p == First(d)
           a == p[1]
           z == p[2]
           s == BeginLine(TemplateBody(v))
           l == TemplateLine(v)
<1>1. /\ p \in Pairs(d) /\ Pairs(d) = {p} /\ Markers(d) = {a, z}
      /\ a \in 1..Len(d) /\ z \in 1..Len(d) /\ a < z /\ d[a][1] = "begin" /\ d[z][1] = "end"
      /\ DOMAIN d = 1..Len(d) /\ Len(d) \in Nat
  <2>1. p \in Pairs(d) /\ Pairs(d) = {p} /\ Markers(d) = {a, z}
    BY FirstIs, SolePair
  <2>2. DOMAIN d = 1..Len(d) /\ Len(d) \in Nat
    OBVIOUS
  <2> HIDE DEF p
  <2> QED BY <2>1, <2>2, PairIs
<1>2. s \in Line /\ l \in Line /\ EndLine \in Line
  BY BlockIs
<1>3. e = SubSeq(d, 1, a - 1) \o <<s, l, EndLine>> \o SubSeq(d, z + 1, Len(d))
  BY BlockIs DEF Upsert
<1>4. ~Odd({j \in Fences(d) : a <= j /\ j <= z})
  <2> HIDE DEF p
  <2> QED BY <1>1, PairClosed
<1> HIDE DEF p, a, z, s, l
<1>5. /\ e \in Seq(Line) /\ Len(e) = Len(d) - z + a + 2
      /\ \A k \in 1..(a - 1) : e[k] = d[k]
      /\ e[a] = s /\ e[a + 1] = l /\ e[a + 2] = EndLine
      /\ \A k \in (z + 1)..Len(d) : e[k - z + a + 2] = d[k]
  <2> DEFINE i == a - 1
             j == z + 1
  <2>1. i \in 0..Len(d) /\ j \in (i + 1)..(Len(d) + 1) /\ Spliced(Line, e, d, i, j, s, l, EndLine)
    BY <1>1, <1>2, <1>3 DEF Spliced
  <2> HIDE DEF i, j
  <2>2. /\ e \in Seq(Line) /\ Len(e) = i + 3 + (Len(d) - j + 1)
        /\ \A k \in 1..i : e[k] = d[k]
        /\ e[i + 1] = s /\ e[i + 2] = l /\ e[i + 3] = EndLine
        /\ \A k \in j..Len(d) : e[k - j + i + 4] = d[k]
    <3>1. SplicedLines(Line, e, d, i, j, s, l, EndLine)
      BY <2>1, Splice
    <3> QED BY <3>1 DEF SplicedLines
  <2>3. /\ i + 1 = a /\ i + 2 = a + 1 /\ i + 3 = a + 2
        /\ i + 3 + (Len(d) - j + 1) = Len(d) - z + a + 2
        /\ \A k \in j..Len(d) : k - j + i + 4 = k - z + a + 2
    BY <1>1 DEF i, j
  <2>4. \A k \in j..Len(d) : e[k - z + a + 2] = d[k]
    BY <2>2, <2>3
  <2> QED BY <2>2, <2>3, <2>4 DEF i, j
<1>6. BlockAt(e, a, v)
  <2>1. a \in 1..(Len(e) - 2)
    BY <1>1, <1>5
  <2> QED BY <1>5, <2>1 DEF BlockAt, s, l
<1> DEFINE G == {k \in DOMAIN d : k <= a \/ k >= z}
           h == [k \in G |-> IF k <= a THEN k ELSE k - z + a + 2]
           H == DOMAIN e \ {a + 1}
<1>7. /\ DOMAIN e = 1..Len(e) /\ Len(e) \in Nat /\ a + 1 \in DOMAIN e
      /\ a \in DOMAIN e /\ a + 2 \in DOMAIN e
      /\ e[a][1] = "begin" /\ e[a + 1][1] = "text" /\ e[a + 2][1] = "end"
      /\ a \notin Mined(e) /\ a + 1 \notin Mined(e) /\ a + 2 \notin Mined(e)
  BY <1>5, <1>6, BlockLines
<1>0. /\ a \in Nat /\ z \in Nat /\ Len(d) \in Nat /\ 1 <= a /\ a < z /\ z <= Len(d)
      /\ DOMAIN d = 1..Len(d) /\ DOMAIN e = 1..(Len(d) - z + a + 2)
  BY <1>1, <1>5, <1>7
<1>8. /\ h[a] = a /\ h[z] = a + 2 /\ a \in G /\ z \in G
      /\ \A k \in G : /\ k < a => h[k] = k /\ e[h[k]] = d[k]
                      /\ k > z => h[k] = k - z + a + 2 /\ e[h[k]] = d[k]
  BY <1>1, <1>5
<1>9. \A k \in G : h[k] \in H /\ (k < a \/ k = a \/ k = z \/ k > z)
  BY <1>0
<1>10. \A m \in H : \E k \in G : h[k] = m
  <2> SUFFICES ASSUME NEW m \in H PROVE \E k \in G : h[k] = m
    OBVIOUS
  <2>1. CASE m <= a
    <3>1. m \in G /\ h[m] = m
      BY <1>0, <2>1
    <3> QED BY <3>1
  <2>2. CASE m > a
    <3> DEFINE k == m - a - 2 + z
    <3>0. m \in 1..(Len(d) - z + a + 2) /\ m # a + 1
      BY <1>0
    <3>1. k \in 1..Len(d) /\ k >= z /\ k > a /\ k - z + a + 2 = m
      BY <1>0, <2>2, <3>0
    <3>2. k \in G
      BY <1>0, <3>1
    <3>3. h[k] = m
      BY <1>0, <3>1, <3>2
    <3> QED BY <3>2, <3>3
  <2>3. m <= a \/ m > a
    BY <1>0
  <2> QED BY <2>1, <2>2, <2>3
<1>11. \A m, n \in G : m < n => h[m] < h[n]
  BY <1>1
<1>12. Moves(h, G, H)
  <2> HIDE DEF G, h, H
  <2> QED BY <1>9, <1>10, <1>11 DEF Moves
<1>13. Edit(d, e, h, G, H)
  <2>1. \A k \in G : e[h[k]][1] = d[k][1]
    <3> HIDE DEF G, h, H
    <3> QED BY <1>1, <1>7, <1>8, <1>9
  <2>2. \A k \in DOMAIN e \ H : e[k][1] # "fence"
    BY <1>7
  <2>3. G \subseteq DOMAIN d /\ H \subseteq DOMAIN e
    OBVIOUS
  <2> HIDE DEF G, h, H
  <2> QED BY <1>5, <1>12, <2>1, <2>2, <2>3 DEF Edit
<1>14. \A k \in G : Closed(d, G, k)
  <2> SUFFICES ASSUME NEW k \in G PROVE Closed(d, G, k)
    OBVIOUS
  <2>1. Fences(d) \subseteq DOMAIN d /\ a \notin Fences(d) /\ z \notin Fences(d)
    BY <1>1 DEF Fences
  <2>2. CASE k <= a
    <3>1. {j \in Fences(d) : j <= k /\ j \notin G} = {}
      BY <1>1, <2>1, <2>2
    <3> HIDE DEF G
    <3> QED BY <3>1, OddNone DEF Closed
  <2>3. CASE k >= z
    <3>1. {j \in Fences(d) : j <= k /\ j \notin G} = {j \in Fences(d) : a <= j /\ j <= z}
      BY <1>1, <2>1, <2>3
    <3> HIDE DEF G
    <3> QED BY <1>4, <3>1 DEF Closed
  <2> QED BY <2>2, <2>3
<1>15. Markers(d) \subseteq G /\ Markers(e) \subseteq H
  <2>1. a + 1 \notin Markers(e)
    BY <1>7 DEF Markers
  <2> QED BY <1>1, <2>1 DEF Markers
<1> HIDE DEF G, h, H
<1>16. \A k \in G : k \in Markers(d) <=> h[k] \in Markers(e)
  BY <1>13, <1>14, EditMarkers
<1>17. Markers(e) = {a, a + 2}
  <2>1. \A m \in Markers(e) : m \in {a, a + 2}
    <3> SUFFICES ASSUME NEW m \in Markers(e) PROVE m \in {a, a + 2}
      OBVIOUS
    <3>1. PICK k \in G : h[k] = m
      BY <1>10, <1>15
    <3>2. k \in {a, z}
      BY <1>1, <1>16, <3>1
    <3> QED BY <1>8, <3>1, <3>2
  <2> QED BY <1>1, <1>8, <1>16, <2>1
<1>18. OutsideBlocks(e) = OutsideBlocks(d)
  <2>1. <<a, z>> \in Pairs(d) /\ <<h[a], h[z]>> \in Pairs(e)
    <3>1. p = <<a, z>>
      BY <1>1, PairIs DEF a, z
    <3>2. \A q \in Pairs(d) : <<h[q[1]], h[q[2]]>> \in Pairs(e)
      BY <1>13, <1>15, <1>16, EditPairs
    <3> QED BY <1>1, <3>1, <3>2
  <2>2. \A r \in Pairs(e) : \E q \in Pairs(d) : q[1] \in G /\ q[2] \in G /\ r = <<h[q[1]], h[q[2]]>>
    <3>1. \A r \in Pairs(e) : \E q \in Pairs(d) : r = <<h[q[1]], h[q[2]]>>
      BY <1>13, <1>15, <1>16, EditPairs
    <3>2. \A q \in Pairs(d) : q[1] \in G /\ q[2] \in G
      BY <1>1, <1>8 DEF a, z
    <3> QED BY <3>1, <3>2
  <2>3. \A k \in G : k \in InBlocks(d) =>
          \E q \in Pairs(d) : /\ k \in q[1]..q[2] /\ q[1] \in G /\ q[2] \in G
                              /\ <<h[q[1]], h[q[2]]>> \in Pairs(e)
    <3>1. \A k \in InBlocks(d) : k \in p[1]..p[2]
      BY <1>1 DEF InBlocks
    <3>2. p[1] \in G /\ p[2] \in G /\ <<h[p[1]], h[p[2]]>> \in Pairs(e)
      BY <1>8, <2>1 DEF a, z
    <3> QED BY <1>1, <3>1, <3>2
  <2>4. \A k \in G : k \in InBlocks(d) <=> h[k] \in InBlocks(e)
    BY <1>13, <2>2, <2>3, EditInBlocks
  <2>5. \A k \in G \ InBlocks(d) : e[h[k]] = d[k]
    <3>1. \A k \in G : k \notin InBlocks(d) => k # a /\ k # z
      <4>1. a \in a..z /\ z \in a..z
        BY <1>1
      <4> QED BY <1>1, <4>1 DEF InBlocks, a, z
    <3> QED BY <1>8, <1>9, <3>1
  <2>6. \A k \in Mined(d) : k \in G \/ k \in InBlocks(d)
    <3>1. \A k \in DOMAIN d : k \in G \/ k \in p[1]..p[2]
      BY <1>1 DEF G, a, z
    <3>2. p[1]..p[2] \subseteq InBlocks(d)
      BY <1>1 DEF InBlocks
    <3> QED BY <3>1, <3>2 DEF Mined
  <2>7. Mined(e) \subseteq H
    BY <1>7 DEF H, Mined
  <2> QED BY <1>13, <2>4, <2>5, <2>6, <2>7, EditOutside
<1>19. ASSUME NEW k \in DOMAIN d, k < a \/ k > z PROVE d[k] \in Lines(e)
  <2>1. k \in G
    BY <1>1, <1>19 DEF G
  <2>2. h[k] \in DOMAIN e /\ e[h[k]] = d[k]
    BY <1>8, <1>9, <1>19, <2>1 DEF H
  <2> QED BY <2>2 DEF Lines
<1> QED BY <1>5, <1>6, <1>17, <1>18, <1>19 DEF a, z, p

\* The file c that the block goes after: d, blank lines more or less.
Padded(d, c) ==
  /\ d \in Seq(Line) /\ c \in Seq(Line)
  /\ \A k \in DOMAIN d : k \in DOMAIN c => c[k] = d[k]
  /\ \A k \in DOMAIN c : k \notin DOMAIN d => c[k] = Blank
  /\ \A k \in DOMAIN d : k \notin DOMAIN c => d[k] = Blank

\* The block after all of the file.
AtEnd(e, c, v) == e = c \o Block(TemplateBody(v))

LEMMA Appended ==
  ASSUME NEW d, NEW c, Padded(d, c), Markers(d) = {}, NEW v \in 1..MaxTemplate,
         NEW e, AtEnd(e, c, v)
  PROVE  /\ e \in Seq(Line) /\ OutsideBlocks(e) = OutsideBlocks(d)
         /\ BlockAt(e, Len(c) + 1, v)
         /\ ~Open(e) => Markers(e) = {Len(c) + 1, Len(c) + 1 + 2}
         /\ \A k \in DOMAIN d : d[k] = Blank \/ d[k] \in Lines(e)
<1> DEFINE s == BeginLine(TemplateBody(v))
           l == TemplateLine(v)
           n == Len(c) + 1
<1>1. /\ d \in Seq(Line) /\ c \in Seq(Line) /\ DOMAIN d = 1..Len(d) /\ DOMAIN c = 1..Len(c)
      /\ Len(c) \in Nat /\ Len(d) \in Nat
  BY DEF Padded
<1>2. s \in Line /\ l \in Line /\ EndLine \in Line
  BY BlockIs
<1> HIDE DEF s, l
<1>3. e = c \o <<s, l, EndLine>>
  BY BlockIs DEF AtEnd, s, l
<1>4. /\ e \in Seq(Line) /\ Len(e) = Len(c) + 3
      /\ \A k \in 1..Len(c) : e[k] = c[k]
      /\ e[n] = s /\ e[n + 1] = l /\ e[n + 2] = EndLine
  <2> DEFINE m == <<s, l, EndLine>>
  <2>1. m \in Seq(Line) /\ Len(m) = 3 /\ m[1] = s /\ m[2] = l /\ m[3] = EndLine
    BY <1>2
  <2>2. e = c \o m
    BY <1>3
  <2> HIDE DEF m
  <2> DEFINE x == c \o m
  <2>3. /\ x \in Seq(Line) /\ Len(x) = Len(c) + Len(m)
        /\ \A k \in 1..(Len(c) + Len(m)) : x[k] = IF k <= Len(c) THEN c[k] ELSE m[k - Len(c)]
    BY <1>1, <2>1, ConcatProperties
  <2>4. e = x
    BY <2>2
  <2> HIDE DEF x
  <2>5. /\ n \in 1..(Len(c) + 3) /\ n + 1 \in 1..(Len(c) + 3) /\ n + 2 \in 1..(Len(c) + 3)
        /\ ~(n <= Len(c)) /\ ~(n + 1 <= Len(c)) /\ ~(n + 2 <= Len(c))
        /\ n - Len(c) = 1 /\ n + 1 - Len(c) = 2 /\ n + 2 - Len(c) = 3
    BY <1>1
  <2>6. \A k \in 1..Len(c) : k \in 1..(Len(c) + 3) /\ k <= Len(c)
    BY <1>1
  <2> HIDE DEF n
  <2> QED BY <2>1, <2>3, <2>4, <2>5, <2>6
<1>5. BlockAt(e, n, v)
  <2>1. n \in 1..(Len(e) - 2)
    BY <1>1, <1>4
  <2> QED BY <1>4, <2>1 DEF BlockAt, s, l
<1>6. /\ DOMAIN e = 1..(Len(c) + 3) /\ n \in Nat /\ n \in DOMAIN e /\ n + 1 \in DOMAIN e /\ n + 2 \in DOMAIN e
      /\ e[n][1] = "begin" /\ e[n + 1][1] = "text" /\ e[n + 2][1] = "end"
      /\ n \notin Mined(e) /\ n + 1 \notin Mined(e) /\ n + 2 \notin Mined(e)
  <2>1. DOMAIN e = 1..(Len(c) + 3)
    BY <1>4
  <2> HIDE DEF n
  <2> QED BY <1>4, <1>5, <2>1, BlockLines
<1> DEFINE G == DOMAIN d \cap DOMAIN c
           h == [k \in G |-> k]
<1>7. \A k \in G : k \in DOMAIN e /\ h[k] = k /\ e[h[k]] = d[k] /\ k \in Nat /\ k < n
  BY <1>1, <1>4, <1>6 DEF Padded
<1>8. \A k \in DOMAIN e \ G : k \in {n, n + 1, n + 2} \/ (k \in DOMAIN c /\ e[k] = Blank)
  <2> SUFFICES ASSUME NEW k \in DOMAIN e \ G, k \notin {n, n + 1, n + 2}
               PROVE  k \in DOMAIN c /\ e[k] = Blank
    OBVIOUS
  <2>1. k \in DOMAIN c
    <3>1. k \in 1..(Len(c) + 3)
      BY <1>6
    <3> QED BY <1>1, <3>1
  <2>2. k \notin DOMAIN d
    BY <2>1
  <2> QED BY <1>1, <1>4, <2>1, <2>2 DEF Padded
<1> HIDE DEF n
<1>9. Edit(d, e, h, G, G)
  <2>1. Moves(h, G, G)
    BY <1>7 DEF Moves
  <2>2. \A k \in DOMAIN e \ G : e[k][1] # "fence"
    BY <1>6, <1>8, LineKinds
  <2>3. G \subseteq DOMAIN d /\ G \subseteq DOMAIN e /\ \A k \in G : e[h[k]][1] = d[k][1]
    BY <1>7
  <2> HIDE DEF G, h
  <2> QED BY <1>1, <1>4, <2>1, <2>2, <2>3 DEF Edit
<1>10. \A k \in G : Closed(d, G, k)
  <2> SUFFICES ASSUME NEW k \in G PROVE Closed(d, G, k)
    OBVIOUS
  <2>1. \A j \in Fences(d) : j <= k => j \in G
    BY <1>1 DEF Fences
  <2>2. {j \in Fences(d) : j <= k /\ j \notin G} = {}
    BY <2>1
  <2> HIDE DEF G
  <2> QED BY <2>2, OddNone DEF Closed
<1> HIDE DEF G, h
<1>11. \A k \in G : k \notin Markers(e)
  <2>1. \A k \in G : k \in Markers(d) <=> h[k] \in Markers(e)
    BY <1>9, <1>10, EditMarkers
  <2> QED BY <1>7, <2>1
<1>12. Markers(e) \subseteq {n, n + 2}
  <2> SUFFICES ASSUME NEW k \in Markers(e) PROVE k \in {n, n + 2}
    OBVIOUS
  <2>1. k \in DOMAIN e /\ k \notin G /\ e[k][1] \in {"begin", "end"}
    BY <1>11 DEF Markers
  <2>2. e[k] # Blank /\ k # n + 1
    BY <1>6, <2>1, LineKinds
  <2> QED BY <1>8, <2>1, <2>2
<1>13. OutsideBlocks(e) = OutsideBlocks(d)
  <2>1. \A k \in G : k \notin InBlocks(e)
    <3> SUFFICES ASSUME NEW k \in G, NEW p \in Pairs(e), k \in p[1]..p[2] PROVE FALSE
      BY DEF InBlocks
    <3>1. p[1] \in Markers(e) /\ p[1] \in Nat /\ p[2] \in Nat
      BY <1>4, PairIs
    <3>2. p[1] = n \/ p[1] = n + 2
      BY <1>12, <3>1
    <3> QED BY <1>6, <1>7, <3>1, <3>2
  <2>2. InBlocks(d) = {}
    BY NoPairs
  <2>3. \A k \in Mined(d) : k \in G
    <3> SUFFICES ASSUME NEW k \in Mined(d) PROVE k \in G
      OBVIOUS
    <3>1. k \in DOMAIN d /\ d[k] # Blank
      BY LineKinds DEF Mined
    <3> QED BY <3>1 DEF Padded, G
  <2>4. Mined(e) \subseteq G
    <3> SUFFICES ASSUME NEW k \in Mined(e) PROVE k \in G
      OBVIOUS
    <3>1. k \in DOMAIN e /\ e[k] # Blank /\ k \notin {n, n + 1, n + 2}
      BY <1>6, LineKinds DEF Mined
    <3> QED BY <1>8, <3>1
  <2>5. \A k \in G : k \in InBlocks(d) <=> h[k] \in InBlocks(e)
    BY <1>7, <2>1, <2>2
  <2> QED BY <1>7, <1>9, <2>3, <2>4, <2>5, EditOutside
<1>14. ASSUME ~Open(e) PROVE Markers(e) = {n, n + 2}
  <2>1. ~Fenced(e, n + 2)
    <3>1. Len(e) = n + 2
      BY <1>1, <1>4 DEF n
    <3> QED BY <1>14, <3>1 DEF Open
  <2>2. ~Fenced(e, n)
    <3>1. {k \in 1..(n + 2) : e[k][1] = "fence"} = {k \in 1..n : e[k][1] = "fence"}
      <4>1. \A k \in 1..(n + 2) : k \in 1..n \/ k = n + 1 \/ k = n + 2
        BY <1>6
      <4>2. \A k \in 1..n : k \in 1..(n + 2)
        BY <1>6
      <4> QED BY <1>6, <4>1, <4>2
    <3> QED BY <2>1, <3>1 DEF Fenced
  <2>3. n \in Markers(e) /\ n + 2 \in Markers(e)
    BY <1>6, <2>1, <2>2 DEF Markers
  <2> QED BY <1>12, <2>3
<1>15. ASSUME NEW k \in DOMAIN d PROVE d[k] = Blank \/ d[k] \in Lines(e)
  <2>1. CASE k \in G
    BY <1>7, <2>1 DEF Lines
  <2>2. CASE k \notin G
    BY <2>2 DEF Padded, G
  <2> QED BY <2>1, <2>2
<1> QED BY <1>4, <1>5, <1>13, <1>14, <1>15 DEF n

\* canonical drops blank lines only.
LEMMA CanonicalKeeps ==
  ASSUME NEW b, b \in Seq(Line)
  PROVE  Canonical(b) \in Seq(Line) /\ \A k \in DOMAIN b : b[k] # Blank => b[k] \in Lines(Canonical(b))
<1> DEFINE filled == {n \in DOMAIN b : b[n] # Blank}
<1>1. DOMAIN b = 1..Len(b) /\ Len(b) \in Nat /\ \A k \in 1..Len(b) : b[k] \in Line
  OBVIOUS
<1>2. CASE filled = {}
  <2>1. Canonical(b) = <<>> /\ <<>> \in Seq(Line)
    BY <1>2 DEF Canonical
  <2> QED BY <1>2, <2>1
<1>3. CASE filled # {}
  <2> DEFINE S == {Len(b) - n : n \in filled}
             z == CHOOSE n \in filled : \A m \in filled : m <= n
             c == SubSeq(b, 1, z)
  <2>1. S \in SUBSET Nat /\ S # {}
    BY <1>1, <1>3
  <2>2. PICK x \in S : \A y \in S : x <= y
    <3> HIDE DEF S
    <3> QED BY <2>1, Least
  <2>3. PICK n \in filled : x = Len(b) - n
    OBVIOUS
  <2>4. \A m \in filled : m <= n
    <3> SUFFICES ASSUME NEW m \in filled PROVE m <= n
      OBVIOUS
    <3>1. Len(b) - n <= Len(b) - m
      BY <2>2, <2>3
    <3> QED BY <1>1, <3>1
  <2>5. z \in filled /\ \A m \in filled : m <= z
    <3> HIDE DEF filled
    <3> QED BY <2>4
  <2>6. Canonical(b) = c
    BY <1>3 DEF Canonical
  <2> HIDE DEF z
  <2>7. z \in 1..Len(b)
    BY <1>1, <2>5
  <2>8. c \in Seq(Line) /\ Len(c) = z /\ \A k \in 1..z : c[k] = b[k]
    <3>1. 1 \in Int /\ z \in Int /\ 1 <= z /\ z - 1 + 1 = z /\ \A k \in 1..z : b[k] \in Line
      BY <1>1, <2>7
    <3>2. /\ c \in Seq(Line) /\ Len(c) = IF 1 <= z THEN z - 1 + 1 ELSE 0
          /\ \A k \in 1..(z - 1 + 1) : c[k] = b[1 + k - 1]
      BY <3>1, SubSeqProperties
    <3> HIDE DEF c
    <3> QED BY <3>1, <3>2
  <2>9. ASSUME NEW k \in DOMAIN b, b[k] # Blank PROVE b[k] \in Lines(c)
    <3>1. k \in filled
      BY <2>9
    <3>2. k \in 1..z
      BY <1>1, <2>5, <2>7, <3>1
    <3> HIDE DEF c
    <3>3. DOMAIN c = 1..z
      BY <2>8
    <3> QED BY <2>8, <3>2, <3>3 DEF Lines
  <2> QED BY <2>6, <2>8, <2>9
<1> QED BY <1>2, <1>3

\* The user's lines inside the first pair are in its body.
LEMMA BodyKeeps ==
  ASSUME NEW d, d \in Seq(Line), Pairs(d) # {}
  PROVE  /\ Body(d) \in Seq(Line)
         /\ \A k \in First(d)[1]..First(d)[2] : d[k] \in Mines => d[k] \in Lines(Body(d))
<1> DEFINE p == First(d)
           a == p[1]
           z == p[2]
           b == SubSeq(d, a + 1, z - 1)
<1>1. p \in Pairs(d)
  BY FirstIs
<1> HIDE DEF p
<1>2. /\ a \in Nat \ {0} /\ z \in Nat /\ a < z /\ z <= Len(d) /\ Len(d) \in Nat
      /\ d[a][1] = "begin" /\ d[z][1] = "end"
  BY <1>1, PairIs
<1> HIDE DEF a, z
<1>3. /\ b \in Seq(Line) /\ Len(b) = z - 1 - a
      /\ \A k \in 1..(z - 1 - a) : b[k] = d[a + k]
  <2> DEFINE i == a + 1
             j == z - 1
  <2>1. i \in Int /\ j \in Int /\ \A k \in i..j : d[k] \in Line
    BY <1>2
  <2>2. /\ b \in Seq(Line) /\ Len(b) = IF i <= j THEN j - i + 1 ELSE 0
        /\ \A k \in 1..(j - i + 1) : b[k] = d[i + k - 1]
    <3> HIDE DEF i, j
    <3>1. /\ SubSeq(d, i, j) \in Seq(Line) /\ Len(SubSeq(d, i, j)) = IF i <= j THEN j - i + 1 ELSE 0
          /\ \A k \in 1..(j - i + 1) : SubSeq(d, i, j)[k] = d[i + k - 1]
      BY <2>1, SubSeqProperties
    <3> QED BY <3>1 DEF i, j
  <2>3. (IF i <= j THEN j - i + 1 ELSE 0) = z - 1 - a /\ j - i + 1 = z - 1 - a
    BY <1>2
  <2>4. \A k \in 1..(z - 1 - a) : i + k - 1 = a + k
    BY <1>2
  <2> HIDE DEF b
  <2>5. \A k \in 1..(z - 1 - a) : b[k] = d[i + k - 1]
    <3> HIDE DEF i, j
    <3> QED BY <2>2, <2>3
  <2>6. \A k \in 1..(z - 1 - a) : b[k] = d[a + k]
    <3> HIDE DEF i, j
    <3> QED BY <2>4, <2>5
  <2> QED BY <2>2, <2>3, <2>6
<1>4. Body(d) = Canonical(b)
  BY DEF Body, a, z, p
<1> HIDE DEF b
<1>5. Canonical(b) \in Seq(Line) /\ \A k \in DOMAIN b : b[k] # Blank => b[k] \in Lines(Canonical(b))
  BY <1>3, CanonicalKeeps
<1>6. ASSUME NEW k \in a..z, d[k] \in Mines PROVE d[k] \in Lines(Canonical(b))
  <2>1. d[k][1] = "text" /\ d[k] # Blank
    BY <1>6, LineKinds
  <2>2. k # a /\ k # z
    BY <1>2, <2>1
  <2> DEFINE r == k - a
  <2>3. r \in 1..(z - 1 - a) /\ a + r = k
    BY <1>2, <2>2
  <2> HIDE DEF r
  <2>4. r \in DOMAIN b /\ b[r] = d[k]
    BY <1>3, <2>3
  <2> QED BY <1>5, <2>1, <2>4
<1> QED BY <1>4, <1>5, <1>6 DEF a, z, p

\* Unless it is drifted, a block holds a template, and no line of the user's.
LEMMA BodyNotMine ==
  ASSUME NEW d, d \in Seq(Line), Pairs(d) # {}, SlotState(d) \notin {"malformed", "drifted"},
         template \in 1..MaxTemplate
  PROVE  Lines(Body(d)) \cap Mines = {}
<1> DEFINE p == First(d)
<1>1. p \in Pairs(d)
  BY FirstIs
<1> HIDE DEF p
<1>2. d[p[1]] \in Line /\ d[p[1]][1] = "begin"
  BY <1>1, PairIs
<1>3. d[p[1]][2] \in Templates
  <2>1. PICK b \in Templates : d[p[1]] = BeginLine(b)
    <3>1. \A v \in 1..MaxTemplate : TemplateLine(v)[1] = "text"
      BY LineKinds
    <3> QED BY <1>2, <3>1, LineKinds DEF Line
  <2> QED BY <2>1, LineKinds
<1>4. Body(d) \in Templates
  <2>1. Markers(d) # {}
    BY NoPairs
  <2>2. ~(Cardinality(Pairs(d)) # 1 \/ Orphans(d) # {})
    BY <2>1, Malformed
  <2>3. Body(d) = TemplateBody(template) \/ d[First(d)[1]][2] = Body(d)
    <3> DEFINE vouched == d[First(d)[1]][2]
               body == Body(d)
    <3>1. SlotState(d) = CASE body = TemplateBody(template) /\ vouched = body -> "current"
                           [] (body = TemplateBody(template)) # (vouched = body) -> "stale"
                           [] OTHER -> "drifted"
      BY <2>1, <2>2 DEF SlotState
    <3> HIDE DEF vouched, body
    <3>2. ASSUME body # TemplateBody(template), vouched # body PROVE FALSE
      <4>1. (body = TemplateBody(template)) = FALSE /\ (vouched = body) = FALSE
        BY <3>2
      <4>2. SlotState(d) = "drifted"
        BY <3>1, <4>1
      <4> QED BY <4>2
    <3> QED BY <3>2 DEF vouched, body
  <2> QED BY <1>3, <2>3 DEF Templates, p
<1>5. PICK v \in 1..MaxTemplate : Body(d) = <<TemplateLine(v)>>
  BY <1>4 DEF Templates, TemplateBody
<1>6. Lines(<<TemplateLine(v)>>) = {TemplateLine(v)}
  BY DEF Lines
<1> QED BY <1>5, <1>6, LineKinds

\* The file the block goes after, from the file.
LEMMA AppendIs ==
  ASSUME NEW d, d \in Seq(Line), NEW v \in 1..MaxTemplate, NEW b, b = Block(TemplateBody(v))
  PROVE  \E c : Padded(d, c) /\ Append1(d, TemplateBody(v)) = c \o b
<1>0. b \in Seq(Line)
  <2> DEFINE s == BeginLine(TemplateBody(v))
             l == TemplateLine(v)
  <2>1. b = <<s, l, EndLine>> /\ s \in Line /\ l \in Line /\ EndLine \in Line
    BY BlockIs
  <2> HIDE DEF s, l
  <2> QED BY <2>1
<1>1. DOMAIN d = 1..Len(d) /\ Len(d) \in Nat /\ Blank \in Line
  BY DEF Line
<1>2. CASE \A n \in DOMAIN d : d[n] = Blank
  <2>1. Padded(d, <<>>)
    BY <1>1, <1>2 DEF Padded
  <2>2. b = <<>> \o b
    BY <1>0, ConcatEmptySeq
  <2>3. Append1(d, TemplateBody(v)) = <<>> \o b
    BY <1>2, <2>2 DEF Append1
  <2> QED BY <2>1, <2>3
<1>3. CASE ~(\A n \in DOMAIN d : d[n] = Blank) /\ d[Len(d)] = Blank
  <2>1. Padded(d, d)
    BY DEF Padded
  <2> QED BY <1>3, <2>1 DEF Append1
<1>4. CASE ~(\A n \in DOMAIN d : d[n] = Blank) /\ d[Len(d)] # Blank
  <2> DEFINE c == d \o <<Blank>>
  <2>1. /\ c \in Seq(Line) /\ Len(c) = Len(d) + 1
        /\ \A k \in 1..Len(d) : c[k] = d[k]
        /\ c[Len(d) + 1] = Blank
    <3>1. <<Blank>> \in Seq(Line) /\ Len(<<Blank>>) = 1 /\ <<Blank>>[1] = Blank
      BY <1>1
    <3>2. /\ c \in Seq(Line) /\ Len(c) = Len(d) + Len(<<Blank>>)
          /\ \A k \in 1..(Len(d) + Len(<<Blank>>)) :
                c[k] = IF k <= Len(d) THEN d[k] ELSE <<Blank>>[k - Len(d)]
      BY <3>1, ConcatProperties
    <3>3. /\ \A k \in 1..Len(d) : k \in 1..(Len(d) + 1) /\ k <= Len(d)
          /\ Len(d) + 1 \in 1..(Len(d) + 1) /\ ~(Len(d) + 1 <= Len(d)) /\ Len(d) + 1 - Len(d) = 1
      BY <1>1
    <3> HIDE DEF c
    <3> QED BY <3>1, <3>2, <3>3
  <2>2. Append1(d, TemplateBody(v)) = c \o b
    BY <1>4 DEF Append1
  <2> HIDE DEF c
  <2>3. DOMAIN c = 1..(Len(d) + 1) /\ \A k \in DOMAIN c : k \in 1..Len(d) \/ k = Len(d) + 1
    BY <1>1, <2>1
  <2>4. Padded(d, c)
    BY <1>1, <2>1, <2>3 DEF Padded
  <2> QED BY <2>2, <2>4
<1> QED BY <1>2, <1>3, <1>4

\* Upsert moves nothing that is outside the blocks, loses no line of the user's that was
\* not in the body it replaces, and writes a block that inspect finds current
\* (slot.go, Upsert).
LEMMA UpsertKeeps ==
  ASSUME NEW d, d \in Seq(Line), SlotState(d) # "malformed", template \in 1..MaxTemplate,
         NEW e, e = Upsert(d, TemplateBody(template))
  PROVE  /\ e \in Seq(Line) /\ OutsideBlocks(e) = OutsideBlocks(d)
         /\ ~Open(e) => SlotState(e) = "current"
         /\ Lines(d) \cap Mines \subseteq Lines(e) \cup (IF Pairs(d) = {} THEN {} ELSE Lines(Body(d)))
<1>1. CASE Pairs(d) = {}
  <2>1. Markers(d) = {}
    <3>1. Cardinality(Pairs(d)) # 1
      BY <1>1, FS_EmptySet
    <3> QED BY <3>1, Malformed
  <2>2. PICK c : Padded(d, c) /\ Append1(d, TemplateBody(template)) = c \o Block(TemplateBody(template))
    BY AppendIs
  <2>3. AtEnd(e, c, template)
    BY <1>1, <2>2 DEF Upsert, AtEnd
  <2> DEFINE n == Len(c) + 1
  <2>4. /\ e \in Seq(Line) /\ OutsideBlocks(e) = OutsideBlocks(d)
        /\ BlockAt(e, n, template)
        /\ ~Open(e) => Markers(e) = {n, n + 2}
        /\ \A k \in DOMAIN d : d[k] = Blank \/ d[k] \in Lines(e)
    BY <2>1, <2>2, <2>3, Appended
  <2> HIDE DEF n
  <2>5. ~Open(e) => SlotState(e) = "current"
    BY <2>4, FoundCurrent
  <2>6. Lines(d) \cap Mines \subseteq Lines(e)
    BY <2>4, LineKinds DEF Lines
  <2> QED BY <2>4, <2>5, <2>6
<1>2. CASE Pairs(d) # {}
  <2> DEFINE n == First(d)[1]
  <2>1. /\ e \in Seq(Line) /\ OutsideBlocks(e) = OutsideBlocks(d)
        /\ BlockAt(e, n, template) /\ Markers(e) = {n, n + 2}
        /\ \A k \in DOMAIN d : k < n \/ k > First(d)[2] => d[k] \in Lines(e)
    BY <1>2, Replaced
  <2>2. \A k \in n..First(d)[2] : d[k] \in Mines => d[k] \in Lines(Body(d))
    BY <1>2, BodyKeeps
  <2>3. n \in Nat /\ First(d)[2] \in Nat
    BY <1>2, FirstIs, PairIs
  <2>4. Lines(d) \cap Mines \subseteq Lines(e) \cup Lines(Body(d))
    <3> SUFFICES ASSUME NEW k \in DOMAIN d, d[k] \in Mines PROVE d[k] \in Lines(e) \cup Lines(Body(d))
      BY DEF Lines
    <3>1. k \in Nat
      OBVIOUS
    <3>2. k \in n..First(d)[2] \/ k < n \/ k > First(d)[2]
      BY <2>3, <3>1
    <3> HIDE DEF n
    <3> QED BY <2>1, <2>2, <3>2
  <2> HIDE DEF n
  <2>5. SlotState(e) = "current"
    BY <2>1, FoundCurrent
  <2> QED BY <1>2, <2>1, <2>4, <2>5
<1> QED BY <1>1, <1>2

-----------------------------------------------------------------------------
(* The runs, and the user.                                                  *)

RunTypes == [at : {"none", "write", "repair", "saved"}, force : BOOLEAN, content : Seq(Line),
             body : Seq(Line), file : Seq(Line), same : BOOLEAN]
BlockTypes == text \in Seq(Line) /\ template \in 1..MaxTemplate /\ slotRun \in RunTypes
\* Not malformed, whatever the template.
WellFormed(d) == Markers(d) = {} \/ (Cardinality(Pairs(d)) = 1 /\ Orphans(d) = {})
\* What a run has in hand: the file it read, or its repair with the file saved; the body it
\* saved is the one it replaces.
InHand ==
    /\ slotRun.at # "none" => done = "none"
    /\ slotRun.at \in {"write", "saved"} => WellFormed(slotRun.content)
    /\ slotRun.at = "saved" => slotRun.body = Body(slotRun.content)
    /\ slotRun.at = "repair" /\ slotRun.same => slotRun.content = text
    /\ slotRun.at \in {"write", "saved"} /\ slotRun.same =>
          \/ slotRun.content = text
          \/ slotRun.file = text /\ slotRun.content = Repair(text)
BlockInv == BlockTypes /\ InHand /\ WrittenIsFound

\* inspect, of a file and of a template.
FileState(d, t) ==
    CASE Markers(d) = {} -> "absent"
      [] Markers(d) # {} /\ (Cardinality(Pairs(d)) # 1 \/ Orphans(d) # {}) -> "malformed"
      [] OTHER ->
           LET vouched == d[First(d)[1]][2]
               body == Body(d) IN
           CASE body = TemplateBody(t) /\ vouched = body -> "current"
             [] (body = TemplateBody(t)) # (vouched = body) -> "stale"
             [] OTHER -> "drifted"

LEMMA FileStateIs == \A d : SlotState(d) = FileState(d, template)
  BY DEF SlotState, FileState

LEMMA FoundNext ==
  WrittenIsFound' <=> (done' = "written" /\ ~Open(text') => FileState(text', template') = "current")
  BY DEF WrittenIsFound, SlotState, FileState

LEMMA WellFormedIs == \A d : WellFormed(d) <=> SlotState(d) # "malformed"
  BY Malformed DEF WellFormed

LEMMA NoSlotRunTyped == NoSlotRun \in RunTypes /\ NoSlotRun.at = "none"
<1>1. <<>> \in Seq(Line)
  OBVIOUS
<1> QED BY <1>1 DEF NoSlotRun, RunTypes

LEMMA BlockStart == SlotInit => BlockInv
<1> SUFFICES ASSUME SlotInit PROVE BlockInv
  OBVIOUS
<1>1. text \in Seq(Line)
  <2>1. PICK n \in 0..MaxLines : text \in [1..n -> Mines \cup {Blank, Fence}]
    BY DEF SlotInit, Mines
  <2>2. n \in Nat /\ Mines \cup {Blank, Fence} \subseteq Line
    BY SlotAssumption DEF Line
  <2> QED BY <2>1, <2>2
<1>2. template \in 1..MaxTemplate
  BY SlotAssumption DEF SlotInit
<1>3. InHand /\ WrittenIsFound
  BY NoSlotRunTyped DEF SlotInit, InHand, WrittenIsFound
<1> QED BY <1>1, <1>2, <1>3, NoSlotRunTyped DEF BlockInv, BlockTypes, SlotInit

\* A run that is over leaves nothing in hand.
LEMMA NothingInHand ==
  ASSUME text' \in Seq(Line), template' \in 1..MaxTemplate, slotRun' = NoSlotRun, WrittenIsFound'
  PROVE  BlockInv'
  BY NoSlotRunTyped DEF BlockInv, BlockTypes, InHand

LEMMA InspectStep == ASSUME BlockInv, InspectFile PROVE BlockInv'
<1>0. BlockTypes /\ InHand /\ WrittenIsFound
  BY DEF BlockInv
<1>1. text' = text /\ template' = template /\ slotRun.at = "none"
  BY DEF InspectFile
<1>2. PICK upgrade \in BOOLEAN, force \in BOOLEAN :
         IF Plan(upgrade, force) = "nothing" THEN done' = "nothing" /\ UNCHANGED slotRun
         ELSE /\ slotRun' = [NoSlotRun EXCEPT !.at = Plan(upgrade, force), !.force = force, !.content = text]
              /\ done' = "none"
  BY DEF InspectFile
<1>3. CASE Plan(upgrade, force) = "nothing"
  <2>1. done' = "nothing" /\ slotRun' = slotRun
    BY <1>2, <1>3
  <2>2. WrittenIsFound'
    BY <2>1 DEF WrittenIsFound
  <2> QED BY <1>0, <1>1, <2>1, <2>2 DEF BlockInv, BlockTypes, InHand
<1>4. CASE Plan(upgrade, force) # "nothing"
  <2> DEFINE plan == Plan(upgrade, force)
  <2>1. plan \in {"write", "repair"} /\ (plan = "write" => WellFormed(text))
    <3> DEFINE st == SlotState(text)
    <3>1. plan = CASE st \in {"absent", "stale"} -> "write"
                   [] st = "drifted" /\ force -> "write"
                   [] st = "malformed" /\ upgrade -> "repair"
                   [] OTHER -> "nothing"
      BY DEF Plan
    <3>2. plan # "nothing"
      BY <1>4
    <3> HIDE DEF plan, st
    <3>3. plan \in {"write", "repair"} /\ (plan = "write" => st # "malformed")
      <4>1. CASE st \in {"absent", "stale"}
        BY <3>1, <4>1
      <4>2. CASE st = "drifted" /\ force
        BY <3>1, <4>2
      <4>3. CASE st = "malformed" /\ upgrade
        BY <3>1, <4>3
      <4>4. CASE st \notin {"absent", "stale"} /\ ~(st = "drifted" /\ force) /\ ~(st = "malformed" /\ upgrade)
        BY <3>1, <3>2, <4>4
      <4> QED BY <4>1, <4>2, <4>3, <4>4
    <3> QED BY <3>3, WellFormedIs DEF st
  <2>2. slotRun' = [NoSlotRun EXCEPT !.at = plan, !.force = force, !.content = text] /\ done' = "none"
    BY <1>2, <1>4
  <2> HIDE DEF plan
  <2>3. slotRun' \in RunTypes /\ slotRun'.at = plan /\ slotRun'.content = text'
    BY <1>0, <1>1, <2>1, <2>2, NoSlotRunTyped DEF RunTypes, BlockTypes
  <2>4. BlockTypes'
    BY <1>0, <1>1, <2>3 DEF BlockTypes
  <2>5. InHand'
    BY <1>1, <2>1, <2>2, <2>3 DEF InHand
  <2>6. WrittenIsFound'
    BY <2>2 DEF WrittenIsFound
  <2> QED BY <2>4, <2>5, <2>6 DEF BlockInv
<1> QED BY <1>3, <1>4

LEMMA ConfirmStep == ASSUME BlockInv, ConfirmRepair PROVE BlockInv'
<1>0. BlockTypes /\ InHand /\ WrittenIsFound
  BY DEF BlockInv
<1>1. /\ slotRun.at = "repair" /\ text' = text /\ template' = template /\ done' = done
      /\ slotRun' = [slotRun EXCEPT !.at = "write", !.file = slotRun.content,
                                    !.content = Repair(slotRun.content)]
  BY DEF ConfirmRepair
<1>2. slotRun.content \in Seq(Line)
  BY <1>0 DEF BlockTypes, RunTypes
<1>3. Repair(slotRun.content) \in Seq(Line) /\ WellFormed(Repair(slotRun.content))
  BY <1>2, RepairKeeps, WellFormedIs
<1>4. /\ slotRun' \in RunTypes /\ slotRun'.at = "write" /\ slotRun'.file = slotRun.content
      /\ slotRun'.content = Repair(slotRun.content) /\ slotRun'.same = slotRun.same
  BY <1>0, <1>1, <1>2, <1>3 DEF BlockTypes, RunTypes
<1>5. done = "none"
  BY <1>0, <1>1 DEF InHand
<1>6. BlockTypes' /\ WrittenIsFound'
  BY <1>0, <1>1, <1>4, <1>5 DEF BlockTypes, WrittenIsFound
<1>7. InHand'
  BY <1>0, <1>1, <1>3, <1>4, <1>5 DEF InHand
<1> QED BY <1>6, <1>7 DEF BlockInv

LEMMA SaveBodyStep == ASSUME BlockInv, SaveBody PROVE BlockInv'
<1>0. BlockTypes /\ InHand /\ WrittenIsFound
  BY DEF BlockInv
<1>1. /\ slotRun.at = "write" /\ text' = text /\ template' = template /\ done' = done
      /\ slotRun' = [slotRun EXCEPT !.at = "saved", !.body = Body(slotRun.content)]
      /\ SlotState(slotRun.content) = "drifted"
  BY DEF SaveBody
<1>2. slotRun.content \in Seq(Line)
  BY <1>0 DEF BlockTypes, RunTypes
<1>3. Body(slotRun.content) \in Seq(Line)
  <2>1. Pairs(slotRun.content) # {}
    <3>1. Markers(slotRun.content) # {}
      BY <1>1 DEF SlotState
    <3>2. SlotState(slotRun.content) # "malformed"
      BY <1>1
    <3>3. Cardinality(Pairs(slotRun.content)) = 1
      BY <3>1, <3>2, Malformed
    <3> QED BY <3>3, FS_EmptySet
  <2> QED BY <1>2, <2>1, BodyKeeps
<1>4. /\ slotRun' \in RunTypes /\ slotRun'.at = "saved" /\ slotRun'.file = slotRun.file
      /\ slotRun'.content = slotRun.content /\ slotRun'.same = slotRun.same
      /\ slotRun'.body = Body(slotRun.content)
  BY <1>0, <1>1, <1>3 DEF BlockTypes, RunTypes
<1>5. done = "none"
  BY <1>0, <1>1 DEF InHand
<1>6. BlockTypes' /\ WrittenIsFound'
  BY <1>0, <1>1, <1>4, <1>5 DEF BlockTypes, WrittenIsFound
<1>7. InHand'
  BY <1>0, <1>1, <1>4, <1>5 DEF InHand
<1> QED BY <1>6, <1>7 DEF BlockInv

LEMMA MarkersStep == ASSUME BlockInv, WriteMarkers PROVE BlockInv'
<1>1. /\ slotRun' = NoSlotRun /\ text' = slotRun.content /\ template' = template /\ done' = done
      /\ slotRun.at # "none"
  BY DEF WriteMarkers
<1>2. text' \in Seq(Line) /\ template' \in 1..MaxTemplate /\ done = "none"
  BY <1>1 DEF BlockInv, BlockTypes, RunTypes, InHand
<1>3. WrittenIsFound'
  BY <1>1, <1>2 DEF WrittenIsFound
<1> QED BY <1>1, <1>2, <1>3, NothingInHand

\* What WriteBlock leaves: the content, if the block there is current, or Upsert's.
LEMMA Written ==
  ASSUME BlockInv, WriteBlock
  PROVE  /\ slotRun.content \in Seq(Line) /\ text' \in Seq(Line)
         /\ slotRun' = NoSlotRun /\ template' = template /\ template \in 1..MaxTemplate
         /\ slotRun.at \in {"write", "saved"} /\ SlotState(slotRun.content) # "malformed"
         /\ OutsideBlocks(text') = OutsideBlocks(slotRun.content)
         /\ ~Open(text') => FileState(text', template) = "current"
         /\ \/ text' = slotRun.content
            \/ Lines(slotRun.content) \cap Mines \subseteq Lines(text') \cup
                  (IF Pairs(slotRun.content) = {} THEN {} ELSE Lines(Body(slotRun.content)))
<1>0. BlockTypes /\ InHand
  BY DEF BlockInv
<1> DEFINE d == slotRun.content
<1>1. /\ d \in Seq(Line) /\ slotRun' = NoSlotRun /\ template' = template
      /\ template \in 1..MaxTemplate /\ slotRun.at \in {"write", "saved"}
  BY <1>0 DEF BlockTypes, RunTypes, WriteBlock
<1>2. SlotState(d) # "malformed"
  BY <1>0, <1>1, WellFormedIs DEF InHand
<1>3. text' = IF SlotState(d) = "current" THEN d ELSE Upsert(d, TemplateBody(template))
  BY DEF WriteBlock
<1> HIDE DEF d
<1>4. CASE SlotState(d) = "current"
  BY <1>1, <1>2, <1>3, <1>4, FileStateIs DEF d
<1>5. CASE SlotState(d) # "current"
  <2> DEFINE e == Upsert(d, TemplateBody(template))
  <2>1. text' = e
    BY <1>3, <1>5
  <2> HIDE DEF e
  <2>2. /\ e \in Seq(Line) /\ OutsideBlocks(e) = OutsideBlocks(d)
        /\ ~Open(e) => SlotState(e) = "current"
        /\ Lines(d) \cap Mines \subseteq Lines(e) \cup (IF Pairs(d) = {} THEN {} ELSE Lines(Body(d)))
    BY <1>1, <1>2, UpsertKeeps DEF e
  <2>3. ~Open(e) => FileState(e, template) = "current"
    BY <2>2, FileStateIs
  <2> QED BY <1>1, <1>2, <2>1, <2>2, <2>3 DEF d
<1> QED BY <1>4, <1>5

LEMMA WriteStep == ASSUME BlockInv, WriteBlock PROVE BlockInv'
<1>1. WrittenIsFound'
  BY Written, FoundNext
<1> QED BY <1>1, Written, NothingInHand

LEMMA StopsStep == ASSUME BlockInv, RunStops \/ DeclineRepair PROVE BlockInv'
<1>1. slotRun' = NoSlotRun /\ text' = text /\ template' = template /\ done' = done /\ slotRun.at # "none"
  BY DEF RunStops, DeclineRepair
<1>2. text' \in Seq(Line) /\ template' \in 1..MaxTemplate /\ done = "none"
  BY <1>1 DEF BlockInv, BlockTypes, InHand
<1>3. WrittenIsFound'
  BY <1>1, <1>2 DEF WrittenIsFound
<1> QED BY <1>1, <1>2, <1>3, NothingInHand

\* What the user does to the file while a run is under way is not what the run read.
LEMMA ChangesStep ==
  ASSUME BlockInv, NEW d \in Seq(Line), Changes(d)
  PROVE  BlockInv'
<1>0. BlockTypes /\ InHand
  BY DEF BlockInv
<1>1. /\ text' = d /\ done' = "none" /\ template' = template
      /\ slotRun' = [slotRun EXCEPT !.same = slotRun.at = "none"]
  BY DEF Changes
<1>2. /\ slotRun' \in RunTypes /\ slotRun'.at = slotRun.at /\ slotRun'.content = slotRun.content
      /\ slotRun'.body = slotRun.body /\ (slotRun'.same => slotRun.at = "none")
  <2>1. (slotRun.at = "none") \in BOOLEAN
    OBVIOUS
  <2> DEFINE is == slotRun.at = "none"
  <2> HIDE DEF is
  <2>2. slotRun' = [slotRun EXCEPT !.same = is]
    BY <1>1 DEF is
  <2>3. is \in BOOLEAN
    BY <2>1 DEF is
  <2>4. /\ slotRun' \in RunTypes /\ slotRun'.at = slotRun.at /\ slotRun'.content = slotRun.content
        /\ slotRun'.body = slotRun.body /\ slotRun'.same = is
    BY <1>0, <2>2, <2>3 DEF BlockTypes, RunTypes
  <2> QED BY <2>4 DEF is
<1>3. BlockTypes' /\ WrittenIsFound'
  BY <1>0, <1>1, <1>2 DEF BlockTypes, WrittenIsFound
<1>4. InHand'
  BY <1>0, <1>1, <1>2 DEF InHand
<1> QED BY <1>3, <1>4 DEF BlockInv

LEMMA UserStep == ASSUME BlockInv, InsertLine \/ DeleteLine \/ PasteBlock PROVE BlockInv'
<1>0. text \in Seq(Line)
  BY DEF BlockInv, BlockTypes
<1>1. ASSUME NEW i \in Int, NEW j \in Int, 1 <= i, j <= Len(text) PROVE SubSeq(text, i, j) \in Seq(Line)
  <2>1. \A k \in i..j : text[k] \in Line
    BY <1>0, <1>1
  <2> QED BY <2>1, SubSeqProperties
<1>2. Len(text) \in Nat
  BY <1>0
<1>3. ASSUME InsertLine PROVE \E d \in Seq(Line) : Changes(d)
  <2>1. PICK n \in 0..Len(text), l \in {Mine(m) : m \in MineText} \cup {Fence} :
           Changes(SubSeq(text, 1, n) \o <<l>> \o SubSeq(text, n + 1, Len(text)))
    BY <1>3 DEF InsertLine
  <2>2. <<l>> \in Seq(Line)
    <3>1. l \in Line
      BY DEF Line, Mines
    <3> QED BY <3>1
  <2>3. SubSeq(text, 1, n) \in Seq(Line) /\ SubSeq(text, n + 1, Len(text)) \in Seq(Line)
    BY <1>1, <1>2
  <2>4. SubSeq(text, 1, n) \o <<l>> \in Seq(Line)
    BY <2>2, <2>3, ConcatProperties
  <2>5. SubSeq(text, 1, n) \o <<l>> \o SubSeq(text, n + 1, Len(text)) \in Seq(Line)
    BY <2>3, <2>4, ConcatProperties
  <2> QED BY <2>1, <2>5
<1>4. ASSUME DeleteLine PROVE \E d \in Seq(Line) : Changes(d)
  <2>1. PICK n \in DOMAIN text : Changes(SubSeq(text, 1, n - 1) \o SubSeq(text, n + 1, Len(text)))
    BY <1>4 DEF DeleteLine
  <2>2. n \in 1..Len(text)
    BY <1>0
  <2>3. SubSeq(text, 1, n - 1) \in Seq(Line) /\ SubSeq(text, n + 1, Len(text)) \in Seq(Line)
    BY <1>1, <1>2, <2>2
  <2>4. SubSeq(text, 1, n - 1) \o SubSeq(text, n + 1, Len(text)) \in Seq(Line)
    BY <2>3, ConcatProperties
  <2> QED BY <2>1, <2>4
<1>5. ASSUME PasteBlock PROVE \E d \in Seq(Line) : Changes(d)
  <2> DEFINE p == First(text)
  <2>1. Pairs(text) # {} /\ Changes(text \o <<Blank>> \o SubSeq(text, p[1], p[2]))
    BY <1>5 DEF PasteBlock
  <2>2. p \in Pairs(text)
    BY <1>0, <2>1, FirstIs
  <2> HIDE DEF p
  <2>3. p[1] \in Int /\ p[2] \in Int /\ 1 <= p[1] /\ p[2] <= Len(text)
    BY <1>0, <2>2, PairIs
  <2>4. SubSeq(text, p[1], p[2]) \in Seq(Line)
    BY <1>1, <2>3
  <2>5. <<Blank>> \in Seq(Line)
    <3>1. Blank \in Line
      BY DEF Line
    <3> QED BY <3>1
  <2>6. text \o <<Blank>> \in Seq(Line)
    BY <1>0, <2>5, ConcatProperties
  <2>7. text \o <<Blank>> \o SubSeq(text, p[1], p[2]) \in Seq(Line)
    BY <2>4, <2>6, ConcatProperties
  <2> QED BY <2>1, <2>7 DEF p
<1>6. \E d \in Seq(Line) : Changes(d)
  BY <1>3, <1>4, <1>5
<1> QED BY <1>6, ChangesStep

LEMMA TemplateStep == ASSUME BlockInv, NewTemplate PROVE BlockInv'
<1>1. /\ template' = template + 1 /\ done' = "none" /\ text' = text /\ slotRun' = slotRun
      /\ template < MaxTemplate
  BY DEF NewTemplate
<1>2. template' \in 1..MaxTemplate
  BY <1>1, SlotAssumption DEF BlockInv, BlockTypes
<1>3. WrittenIsFound'
  BY <1>1 DEF WrittenIsFound
<1> QED BY <1>1, <1>2, <1>3 DEF BlockInv, BlockTypes, InHand

LEMMA BlockStep == ASSUME BlockInv, [SlotNext]_slotVars PROVE BlockInv'
<1>1. CASE UNCHANGED slotVars
  <2>1. text' = text /\ template' = template /\ slotRun' = slotRun /\ done' = done
    BY <1>1 DEF slotVars
  <2>2. WrittenIsFound'
    BY <2>1, FileStateIs, FoundNext DEF BlockInv, WrittenIsFound
  <2> QED BY <2>1, <2>2 DEF BlockInv, BlockTypes, InHand
<1>2. CASE InspectFile
  BY <1>2, InspectStep
<1>3. CASE ConfirmRepair
  BY <1>3, ConfirmStep
<1>4. CASE SaveBody
  BY <1>4, SaveBodyStep
<1>5. CASE WriteMarkers
  BY <1>5, MarkersStep
<1>6. CASE WriteBlock
  BY <1>6, WriteStep
<1>7. CASE RunStops \/ DeclineRepair
  BY <1>7, StopsStep
<1>8. CASE InsertLine \/ DeleteLine \/ PasteBlock
  BY <1>8, UserStep
<1>9. CASE NewTemplate
  BY <1>9, TemplateStep
<1> QED BY <1>1, <1>2, <1>3, <1>4, <1>5, <1>6, <1>7, <1>8, <1>9 DEF SlotNext

\* The next run finds the block the last one wrote, and finds it current (applySlot, inspect).
THEOREM BlockFound == SlotSpec => []WrittenIsFound
<1>1. BlockInv => WrittenIsFound
  BY DEF BlockInv
<1>2. BlockInv /\ [SlotNext]_slotVars => BlockInv'
  BY BlockStep
<1> QED BY <1>1, <1>2, BlockStart, PTL DEF SlotSpec

LEMMA WritingKeeps ==
  ASSUME BlockInv, Writing, slotRun.same
  PROVE  /\ Lines(text) \cap Mines \subseteq Lines(text') \cup Lines(slotRun.body) \cup Lines(slotRun.file)
         /\ OutsideBlocks(text') = OutsideBlocks(text)
<1> DEFINE d == slotRun.content
<1>0. BlockTypes /\ InHand /\ slotRun.at \in {"write", "saved"}
  BY DEF BlockInv, Writing, WriteMarkers, WriteBlock
<1>1. d = text \/ (slotRun.file = text /\ d = Repair(text))
  BY <1>0 DEF InHand
<1>2. OutsideBlocks(d) = OutsideBlocks(text)
  BY <1>0, <1>1, RepairKeeps DEF BlockTypes
<1>3. CASE WriteMarkers
  <2>1. text' = d
    BY <1>3 DEF WriteMarkers
  <2> QED BY <1>1, <1>2, <2>1
<1>4. CASE WriteBlock
  <2>1. OutsideBlocks(text') = OutsideBlocks(text)
    BY <1>2, <1>4, Written
  <2>2. CASE slotRun.file = text
    BY <2>1, <2>2
  <2>3. CASE d = text
    <3>1. \/ text' = d
          \/ Lines(d) \cap Mines \subseteq Lines(text') \cup (IF Pairs(d) = {} THEN {} ELSE Lines(Body(d)))
      BY <1>4, Written
    <3>2. Pairs(d) # {} => Lines(Body(d)) \cap Mines \subseteq Lines(slotRun.body)
      <4>1. CASE slotRun.at = "saved"
        BY <1>0, <4>1 DEF InHand
      <4>2. CASE slotRun.at # "saved"
        <5>1. SlotState(d) \notin {"malformed", "drifted"}
          BY <1>4, <4>2, Written DEF WriteBlock
        <5>2. Pairs(d) # {} => Lines(Body(d)) \cap Mines = {}
          BY <1>4, <5>1, Written, BodyNotMine
        <5> QED BY <5>2
      <4> QED BY <4>1, <4>2
    <3> HIDE DEF d
    <3> QED BY <2>1, <2>3, <3>1, <3>2
  <2> QED BY <1>1, <2>2, <2>3
<1> QED BY <1>3, <1>4 DEF Writing

\* A run loses no line of the user's, and moves none of those outside the blocks
\* (applySlot, with slot.go's Repair and Upsert).
THEOREM UserLinesKept == SlotSpec => LinesKept
<1>1. BlockInv /\ [SlotNext]_slotVars => BlockInv'
  BY BlockStep
<1>2. BlockInv /\ [SlotNext]_slotVars =>
        [Writing /\ slotRun.same =>
            /\ Lines(text) \cap Mines \subseteq Lines(text') \cup Lines(slotRun.body) \cup Lines(slotRun.file)
            /\ OutsideBlocks(text') = OutsideBlocks(text)]_slotVars
  BY WritingKeeps
<1> QED BY <1>1, <1>2, BlockStart, PTL DEF SlotSpec, LinesKept

-----------------------------------------------------------------------------
(* Commanders: no registration is lost, and no wake goes to an agent that   *)
(* was not the commander's when the sweep found its pane.                    *)

USE CommanderAssumption, ManagedAssumption DEF Kinds

PaneOrNone == Pane \cup {NoPane}
Entries    == [Kinds -> PaneOrNone]
AgentTypes == [kind : {"none", "claude", "opencode"}, dir : {"project", "camp", "elsewhere"},
               busy : BOOLEAN, session : BOOLEAN]
PaneTypes  == pane \in [Pane -> AgentTypes]
Regs       == [at : {"none", "lock", "load", "write", "done"}, kind : Kinds, pane : PaneOrNone,
               seen : Entries]
RegTypes == /\ registry \in Entries
            /\ registryLock \in Announcer \cup {NoPane}
            /\ reg \in [Announcer -> Regs]
InjTypes == inj \in [at : {"idle", "resolve", "look", "claim", "deliver"}, pane : PaneOrNone,
                     held : SUBSET Wake, typed : BOOLEAN, found : BOOLEAN, same : BOOLEAN]
QueueTypes == queue \subseteq Wake /\ nested \in BOOLEAN

\* Only the holder of the lock has loaded the registry, and what it has loaded
\* is still what is there.
LoadedAlone == \A c \in Announcer : reg[c].at \in {"load", "write"} => registryLock = c
LoadedFresh == \A c \in Announcer : reg[c].at = "write" => reg[c].seen = registry

\* The pane a sweep works on is the one it found, while that has not changed hands.
Chosen == /\ inj.at = "resolve" => ~inj.found
          /\ inj.at \in {"look", "claim", "deliver"} =>
               /\ inj.pane \in Pane
               /\ inj.same => LiveAt(inj.pane) /\ (inj.found => ~Soldier(inj.pane))

RegInv   == PaneTypes /\ RegTypes /\ LoadedAlone /\ LoadedFresh /\ EntriesKept
SweepInv == RegTypes /\ PaneTypes /\ InjTypes /\ QueueTypes /\ Chosen /\ WakesTheCommander

-----------------------------------------------------------------------------
(* The registry.                                                            *)

LEMMA AgentsTyped == Agents \subseteq AgentTypes /\ [NoAgent EXCEPT !.kind = "claude", !.dir = "project"] \in AgentTypes
<1>1. NoAgent \in AgentTypes
  BY DEF NoAgent, AgentTypes
<1>2. [kind : {"opencode"}, dir : {"project", "camp", "elsewhere"}, busy : {FALSE}, session : BOOLEAN]
        \subseteq AgentTypes
  BY DEF AgentTypes
<1>3. [NoAgent EXCEPT !.kind = "claude", !.dir = "project"] \in AgentTypes
  BY <1>1 DEF AgentTypes
<1> QED BY <1>1, <1>2, <1>3 DEF Agents, AgentTypes

LEMMA NoRegTyped == NoReg \in Regs /\ [NoReg EXCEPT !.at = "done"] \in Regs
<1>1. [k \in Kinds |-> NoPane] \in Entries
  BY DEF Entries, PaneOrNone
<1> QED BY <1>1 DEF NoReg, Regs, PaneOrNone

\* No step gives a pane anything but an agent of a known kind.
LEMMA PaneStep ==
  ASSUME PaneTypes, InjTypes, Chosen, [CommandersNext]_commanderVars
  PROVE  PaneTypes'
<1>0. CASE UNCHANGED commanderVars
  BY <1>0 DEF PaneTypes, commanderVars
<1>1. ASSUME NEW c \in Announcer, Announce(c) \/ Registration(c) \/ RegistrationFails(c)
      PROVE  PaneTypes'
  BY <1>1 DEF Announce, Registration, LockRegistry, LoadRegistry, WriteRegistry, RegistrationFails,
              PaneTypes, paneVars
<1>2. ASSUME Deliver \/ AnswerLost
      PROVE  PaneTypes'
  <2>1. inj.pane \in Pane
    BY <1>2 DEF Deliver, AnswerLost, Chosen
  <2>2. pane' = [pane EXCEPT ![inj.pane] = [pane[inj.pane] EXCEPT !.busy = TRUE, !.session = TRUE]]
    BY <1>2, <2>1 DEF Deliver, AnswerLost, Reaches, PaneTypes
  <2>3. [pane[inj.pane] EXCEPT !.busy = TRUE, !.session = TRUE] \in AgentTypes
    BY <2>1 DEF PaneTypes, AgentTypes
  <2> QED BY <2>2, <2>3 DEF PaneTypes
<1>3. ASSUME Sweep \/ NothingWaits \/ Resolve \/ LookAtPane \/ ClaimAll \/ NotDelivered
      PROVE  PaneTypes'
  BY <1>3 DEF Sweep, NothingWaits, Resolve, LookAtPane, ClaimAll, NotDelivered, PaneTypes, paneVars
<1>4. ASSUME HerdrFails \/ InjectorDies \/ TimePasses \/ AwaitComes \/ AwaitEnds
      PROVE  PaneTypes'
  BY <1>4 DEF HerdrFails, InjectorDies, TimePasses, AwaitComes, AwaitEnds, PaneTypes, paneVars
<1>5. ASSUME NEW w \in Wake, RecordWake(w)
      PROVE  PaneTypes'
  BY <1>5 DEF RecordWake, PaneTypes
<1>6. ASSUME NEW p \in Pane, PaneChanges(p)
      PROVE  PaneTypes'
  BY <1>6, AgentsTyped DEF PaneChanges, PaneTypes
<1>7. ASSUME NEW p \in Pane, EndsTurn(p)
      PROVE  PaneTypes'
  BY <1>7 DEF EndsTurn, PaneTypes, AgentTypes
<1> QED
  BY <1>0, <1>1, <1>2, <1>3, <1>4, <1>5, <1>6, <1>7 DEF CommandersNext, Injecting

\* Nobody but a registration writes what registrations share.
LEMMA RegVarsStep ==
  ASSUME [CommandersNext]_commanderVars
  PROVE  \/ UNCHANGED regVars
         \/ \E c \in Announcer : Announce(c) \/ Registration(c) \/ RegistrationFails(c)
<1>1. ASSUME Injecting \/ HerdrFails \/ InjectorDies \/ TimePasses \/ AwaitComes \/ AwaitEnds
      PROVE  UNCHANGED regVars
  BY <1>1 DEF Injecting, Sweep, NothingWaits, Resolve, LookAtPane, ClaimAll, Deliver, AnswerLost,
              NotDelivered, HerdrFails, InjectorDies, TimePasses, AwaitComes, AwaitEnds, regVars
<1>2. ASSUME NEW w \in Wake, RecordWake(w)
      PROVE  UNCHANGED regVars
  BY <1>2 DEF RecordWake, regVars
<1>3. ASSUME NEW p \in Pane, PaneChanges(p) \/ EndsTurn(p)
      PROVE  UNCHANGED regVars
  BY <1>3 DEF PaneChanges, EndsTurn, regVars
<1> QED
  BY <1>1, <1>2, <1>3 DEF CommandersNext, commanderVars, regVars

LEMMA RegInit == CommandersInit => RegInv
<1> SUFFICES ASSUME CommandersInit PROVE RegInv
  OBVIOUS
<1>1. PaneTypes
  <2>1. NoAgent \in AgentTypes
    BY DEF NoAgent, AgentTypes
  <2> QED BY <2>1, AgentsTyped DEF CommandersInit, PaneTypes
<1>2. RegTypes
  BY NoRegTyped DEF CommandersInit, RegTypes, Entries, PaneOrNone
<1>3. \A c \in Announcer : reg[c].at = "none"
  BY DEF CommandersInit, NoReg
<1> QED BY <1>1, <1>2, <1>3 DEF CommandersInit, RegInv, LoadedAlone, LoadedFresh, EntriesKept

LEMMA RegStep ==
  ASSUME RegInv, [CommandersNext]_commanderVars
  PROVE  (RegTypes /\ LoadedAlone /\ LoadedFresh /\ EntriesKept)'
<1> USE DEF RegInv, RegTypes, Regs, LoadedAlone, LoadedFresh, EntriesKept
<1>0. CASE UNCHANGED regVars
  BY <1>0 DEF regVars
<1>1. ASSUME NEW c \in Announcer, Announce(c)
      PROVE  (RegTypes /\ LoadedAlone /\ LoadedFresh /\ EntriesKept)'
  <2>1. PICK p \in Pane : /\ pane[p].kind # "none"
                          /\ reg' = [reg EXCEPT ![c] = [NoReg EXCEPT !.at = "lock", !.pane = p,
                                                                    !.kind = pane[p].kind]]
    BY <1>1 DEF Announce
  <2>2. pane[p].kind \in Kinds
    BY <2>1 DEF PaneTypes, AgentTypes
  <2>3. [NoReg EXCEPT !.at = "lock", !.pane = p, !.kind = pane[p].kind] \in Regs
    BY <2>2, NoRegTyped DEF Regs, PaneOrNone
  <2>4. RegTypes'
    BY <1>1, <2>1, <2>3 DEF Announce
  <2>5. \A d \in Announcer : reg'[d].at \in {"load", "write"} => reg'[d] = reg[d]
    BY <2>1 DEF NoReg
  <2> QED BY <1>1, <2>4, <2>5 DEF Announce
<1>2. ASSUME NEW c \in Announcer, LockRegistry(c)
      PROVE  (RegTypes /\ LoadedAlone /\ LoadedFresh /\ EntriesKept)'
  BY <1>2 DEF LockRegistry
<1>3. ASSUME NEW c \in Announcer, LoadRegistry(c)
      PROVE  (RegTypes /\ LoadedAlone /\ LoadedFresh /\ EntriesKept)'
  BY <1>3 DEF LoadRegistry
<1>4. ASSUME NEW c \in Announcer, WriteRegistry(c)
      PROVE  (RegTypes /\ LoadedAlone /\ LoadedFresh /\ EntriesKept)'
  <2>1. reg[c].seen = registry /\ registryLock = c /\ reg[c].kind \in Kinds /\ reg[c].pane \in PaneOrNone
    BY <1>4 DEF WriteRegistry
  <2>2. RegTypes'
    BY <1>4, <2>1, NoRegTyped DEF WriteRegistry, Entries
  <2>3. EntriesKept'
    BY <1>4, <2>1 DEF WriteRegistry
  <2>4. \A d \in Announcer : reg'[d].at \notin {"load", "write"}
    BY <1>4, <2>1 DEF WriteRegistry, NoReg
  <2> QED BY <2>2, <2>3, <2>4
<1>5. ASSUME NEW c \in Announcer, RegistrationFails(c)
      PROVE  (RegTypes /\ LoadedAlone /\ LoadedFresh /\ EntriesKept)'
  <2>1. RegTypes'
    BY <1>5, NoRegTyped DEF RegistrationFails
  <2>2. \A d \in Announcer : reg'[d].at \in {"load", "write"} => d # c /\ reg'[d] = reg[d]
    BY <1>5 DEF RegistrationFails, NoReg
  <2> QED BY <1>5, <2>1, <2>2 DEF RegistrationFails
<1> QED
  BY <1>0, <1>1, <1>2, <1>3, <1>4, <1>5, RegVarsStep DEF Registration

-----------------------------------------------------------------------------
(* The sweep.                                                               *)

LEMMA SweepInit == CommandersInit => SweepInv
  BY RegInit DEF CommandersInit, RegInv, SweepInv, InjTypes, QueueTypes, Chosen, WakesTheCommander,
                 NoSweep, PaneOrNone

\* Agents that only become busy, idle or have a session are where they were.
LEMMA SamePlace ==
  ASSUME PaneTypes, NEW p \in Pane, NEW q \in Pane, NEW b, NEW s,
         nested' = nested,
         \/ pane' = [pane EXCEPT ![p].busy = b]
         \/ pane' = [pane EXCEPT ![p].busy = b, ![p].session = s]
  PROVE  (LiveAt(q))' = LiveAt(q) /\ (Soldier(q))' = Soldier(q)
<1>1. pane'[q].kind = pane[q].kind /\ pane'[q].dir = pane[q].dir
  BY DEF PaneTypes, AgentTypes
<1> QED BY <1>1 DEF LiveAt, Soldier, Inside

\* A delivery is told to nobody it was not meant for.
LEMMA ReachesRight ==
  ASSUME SweepInv, inj.at = "deliver", Reaches
  PROVE  ~misled'
  BY DEF SweepInv, Chosen, WakesTheCommander, Reaches

LEMMA SweepStep ==
  ASSUME SweepInv, [CommandersNext]_commanderVars
  PROVE  (InjTypes /\ QueueTypes /\ Chosen /\ WakesTheCommander)'
<1> DEFINE Goal == (InjTypes /\ QueueTypes /\ Chosen /\ WakesTheCommander)'
<1> USE DEF SweepInv, InjTypes, QueueTypes, WakesTheCommander
<1>0. CASE UNCHANGED commanderVars
  BY <1>0 DEF commanderVars, Chosen, LiveAt, Soldier, Inside
<1>1. ASSUME NEW c \in Announcer, Announce(c) \/ Registration(c) \/ RegistrationFails(c)
      PROVE  Goal
  <2>1. UNCHANGED <<paneVars, queue, inj, misled>>
    BY <1>1 DEF Announce, Registration, LockRegistry, LoadRegistry, WriteRegistry, RegistrationFails
  <2> QED BY <2>1 DEF paneVars, Chosen, LiveAt, Soldier, Inside
<1>2. ASSUME NEW f, Leave(f), queue' \subseteq Wake, nested' = nested, ~misled'
      PROVE  Goal
  BY <1>2 DEF Leave, NoSweep, Chosen, PaneOrNone
<1>3. ASSUME Sweep PROVE Goal
  BY <1>3 DEF Sweep, NoSweep, Chosen, PaneOrNone, paneVars
<1>4. ASSUME NothingWaits PROVE Goal
  BY <1>4, <1>2 DEF NothingWaits, paneVars
<1>5. ASSUME Resolve PROVE Goal
  <2>1. CASE LiveAt(registry["opencode"]) /\ inj' = [inj EXCEPT !.at = "look", !.pane = registry["opencode"]]
    <3>1. registry["opencode"] \in Pane
      BY <2>1 DEF RegTypes, Entries, PaneOrNone, LiveAt
    <3> QED BY <1>5, <2>1, <3>1 DEF Resolve, Chosen, LiveAt, Soldier, Inside, PaneOrNone, paneVars
  <2>2. ASSUME NEW p \in Pane, FoundByDir(p), inj' = [inj EXCEPT !.at = "look", !.pane = p, !.found = TRUE]
        PROVE  Goal
    BY <1>5, <2>2 DEF Resolve, Chosen, FoundByDir, LiveAt, Soldier, Inside, PaneOrNone, paneVars
  <2>3. CASE Leave("no")
    BY <1>5, <2>3, <1>2 DEF Resolve, paneVars
  <2> QED BY <1>5, <2>1, <2>2, <2>3 DEF Resolve
<1>6. ASSUME HerdrFails PROVE Goal
  BY <1>6, <1>2 DEF HerdrFails
<1>7. ASSUME LookAtPane PROVE Goal
  <2>1. UNCHANGED <<paneVars, queue, misled>>
    BY <1>7 DEF LookAtPane
  <2>2. CASE Leave(Problem(failing))
    BY <2>1, <2>2, <1>2 DEF paneVars
  <2>3. ASSUME NEW t \in BOOLEAN, inj' = [inj EXCEPT !.at = "claim", !.typed = t]
        PROVE  Goal
    <3>1. inj.at = "look" /\ pane' = pane /\ nested' = nested
      BY <1>7, <2>1 DEF LookAtPane, paneVars
    <3>2. inj' \in [at : {"idle", "resolve", "look", "claim", "deliver"}, pane : PaneOrNone,
                    held : SUBSET Wake, typed : BOOLEAN, found : BOOLEAN, same : BOOLEAN]
      BY <2>3
    <3>3. inj'.at = "claim" /\ inj'.pane = inj.pane /\ inj'.found = inj.found /\ inj'.same = inj.same
      BY <2>3
    <3> QED BY <2>1, <3>1, <3>2, <3>3 DEF Chosen, LiveAt, Soldier, Inside, paneVars
  <2> QED BY <1>7, <2>2, <2>3 DEF LookAtPane
<1>8. ASSUME ClaimAll PROVE Goal
  <2>1. CASE Leave("no")
    BY <1>8, <2>1, <1>2 DEF ClaimAll, paneVars
  <2>2. CASE inj' = [inj EXCEPT !.at = "deliver", !.held = queue]
    BY <1>8, <2>2 DEF ClaimAll, Chosen, LiveAt, Soldier, Inside, paneVars
  <2> QED BY <1>8, <2>1, <2>2 DEF ClaimAll
<1>9. ASSUME Deliver PROVE Goal
  BY <1>9, <1>2, ReachesRight DEF Deliver
<1>10. ASSUME AnswerLost PROVE Goal
  BY <1>10, <1>2, ReachesRight DEF AnswerLost
<1>11. ASSUME NotDelivered PROVE Goal
  BY <1>11, <1>2 DEF NotDelivered, paneVars
<1>12. ASSUME InjectorDies PROVE Goal
  BY <1>12, <1>2 DEF InjectorDies
<1>13. ASSUME TimePasses \/ AwaitComes \/ AwaitEnds PROVE Goal
  BY <1>13 DEF TimePasses, AwaitComes, AwaitEnds, Chosen, LiveAt, Soldier, Inside, paneVars
<1>14. ASSUME NEW w \in Wake, RecordWake(w) PROVE Goal
  BY <1>14 DEF RecordWake, Chosen, LiveAt, Soldier, Inside
<1>15. ASSUME NEW p \in Pane, PaneChanges(p) PROVE Goal
  BY <1>15 DEF PaneChanges, Chosen, LiveAt, Soldier, Inside, PaneTypes
<1>16. ASSUME NEW p \in Pane, EndsTurn(p) PROVE Goal
  BY <1>16, SamePlace DEF EndsTurn, Chosen
<1> QED
  BY <1>0, <1>1, <1>3, <1>4, <1>5, <1>6, <1>7, <1>8, <1>9, <1>10, <1>11, <1>12, <1>13, <1>14, <1>15, <1>16
     DEF CommandersNext, Injecting

-----------------------------------------------------------------------------
(* The theorems.                                                            *)

LEMMA InvStep ==
  ASSUME RegInv, SweepInv, [CommandersNext]_commanderVars
  PROVE  (RegInv /\ SweepInv)'
  BY PaneStep, RegStep, SweepStep DEF RegInv, SweepInv

\* However commands that register are interleaved, fail and are killed, the registry
\* holds the last registration of each kind (commanderreg.Register, lock).
THEOREM RegistrationsKept == CommandersSpec => []EntriesKept
<1>1. CommandersInit => RegInv /\ SweepInv
  BY RegInit, SweepInit
<1>2. RegInv /\ SweepInv /\ [CommandersNext]_commanderVars => (RegInv /\ SweepInv)'
  BY InvStep
<1>3. RegInv /\ SweepInv => EntriesKept
  BY DEF RegInv
<1> QED BY <1>1, <1>2, <1>3, PTL DEF CommandersSpec

\* However panes change hands and deliveries fail, a wake goes to an OpenCode agent
\* that worked in the project when the sweep found its pane, and to no soldier found
\* by its directory (commanderreg.Resolve, findByDir; Injector.sweepProject).
THEOREM WakesReachCommanders == CommandersSpec => []WakesTheCommander
<1>1. CommandersInit => RegInv /\ SweepInv
  BY RegInit, SweepInit
<1>2. RegInv /\ SweepInv /\ [CommandersNext]_commanderVars => (RegInv /\ SweepInv)'
  BY InvStep
<1>3. RegInv /\ SweepInv => WakesTheCommander
  BY DEF SweepInv
<1> QED BY <1>1, <1>2, <1>3, PTL DEF CommandersSpec

-----------------------------------------------------------------------------
(* Copies of the skills: what the user left a copy as is not lost.          *)

\* Texts: of a version, or one of the user's so far.
Texts   == 0..(MaxBinary + changes)
Copy(i) == [Part(i) -> Texts]
Shapes  ==
    /\ version \in 1..MaxBinary /\ changes \in Nat
    /\ disk = [i \in Item |-> disk[i]] /\ mine = [i \in Item |-> mine[i]]
    /\ forced = [i \in Item |-> forced[i]] /\ backup = [i \in Item |-> backup[i]]
    /\ config = [there |-> config.there, hash |-> config.hash]
    /\ config.hash = [i \in Item |-> config.hash[i]]
    /\ run = [at |-> run.at, plan |-> run.plan, on |-> run.on, part |-> run.part,
              hash |-> run.hash, dirty |-> run.dirty]
    /\ run.plan = [i \in Item |-> run.plan[i]] /\ run.hash = [i \in Item |-> run.hash[i]]
Known ==
    /\ \A i \in Item : /\ disk[i] \in Copy(i) /\ forced[i] \in 0..2
                       /\ config.hash[i] \in Copy(i) \cup {Nothing}
                       /\ run.hash[i] \in Copy(i) \cup {Nothing}
    /\ run.at = "none" => \A i \in Item : run.plan[i] = "done"
\* A copy that is the user's, not overwritten since: it is there, it is not what
\* config.json or the run knows, it is no template, and the run under way leaves it alone
\* or saves it first.
Untouched(i) == mine[i] # Nothing /\ forced[i] = 0
Guarded(i) == /\ disk[i] = mine[i] /\ mine[i][1] # 0
              /\ mine[i] \notin {config.hash[i], run.hash[i]}
              /\ \E p \in Part(i) : mine[i][p] > MaxBinary
              /\ run.plan[i] \in {"done", "overwrite"}
Saved(i)   == backup[i] = mine[i]
Keeps == \A i \in Item : /\ Untouched(i) => Guarded(i)
                         /\ mine[i] # Nothing /\ forced[i] = 1 => Saved(i)
ManagedIInv == Shapes /\ Known /\ Keeps

LEMMA ManagedStart == ManagedInit => ManagedIInv
<1> SUFFICES ASSUME ManagedInit PROVE ManagedIInv
  OBVIOUS
<1> USE DEF ManagedInit, NoRun
<1>1. Shapes
  BY DEF Shapes
<1>2. Known
  BY DEF Known, Copy, Texts, Gone, Part
<1>3. Keeps
  BY DEF Keeps, Untouched
<1> QED BY <1>1, <1>2, <1>3 DEF ManagedIInv

-----------------------------------------------------------------------------
(* The run.                                                                 *)

\* What a run decides about a copy of the user's.
LEMMA ActGuards ==
  ASSUME ManagedIInv, NEW i \in Item, NEW o, Untouched(i)
  PROVE  Act(i, o) \in {"done", "overwrite"}
<1>1. Guarded(i)
  BY DEF ManagedIInv, Keeps
<1>2. disk[i] # Template(i)
  BY <1>1 DEF Guarded, Template, ManagedIInv, Shapes
<1>3. StateOf(i) = "edited"
  BY <1>1, <1>2 DEF Guarded, StateOf
<1> QED BY <1>3 DEF Act

\* A step that writes nothing and plans no more than the run has planned.
LEMMA PlanKeeps ==
  ASSUME ManagedIInv, UNCHANGED <<userVars, disk, backup, forced>>, Shapes',
         config'.hash \in {config.hash, run.hash},
         \A i \in Item : run'.hash[i] \in {config.hash[i], run.hash[i], Nothing},
         \A i \in Item : Untouched(i) => run'.plan[i] \in {"done", "overwrite"},
         run'.at = "none" => \A i \in Item : run'.plan[i] = "done"
  PROVE  ManagedIInv'
<1>1. Known'
  BY DEF ManagedIInv, Known, userVars, Copy, Texts
<1>2. Keeps'
  BY DEF ManagedIInv, Keeps, Untouched, Guarded, Saved, userVars
<1> QED BY <1>1, <1>2 DEF ManagedIInv

LEMMA RunOver ==
  ASSUME ManagedIInv
  PROVE  /\ NoRun.at = "none" /\ \A i \in Item : NoRun.plan[i] = "done"
         /\ NoRun = [at |-> NoRun.at, plan |-> NoRun.plan, on |-> NoRun.on, part |-> NoRun.part,
                     hash |-> NoRun.hash, dirty |-> NoRun.dirty]
         /\ NoRun.plan = [i \in Item |-> NoRun.plan[i]] /\ NoRun.hash = [i \in Item |-> NoRun.hash[i]]
         /\ \A i \in Item : NoRun.hash[i] = Nothing
  BY DEF NoRun

LEMMA InspectKeeps == ASSUME ManagedIInv, Inspect PROVE ManagedIInv'
<1>1. PICK o \in Options :
         run' = [NoRun EXCEPT !.at = IF o.skills = "ask" THEN "ask" ELSE "consent",
                              !.plan = [i \in Item |-> Act(i, o)], !.hash = config.hash]
  BY DEF Inspect
<1>2. run' = [at |-> IF o.skills = "ask" THEN "ask" ELSE "consent", plan |-> [i \in Item |-> Act(i, o)],
              on |-> WakeFile, part |-> 1, hash |-> config.hash, dirty |-> FALSE]
  BY <1>1 DEF NoRun
<1>3. UNCHANGED <<userVars, disk, config, backup, forced>>
  BY DEF Inspect
<1>4. Shapes'
  BY <1>2, <1>3 DEF ManagedIInv, Shapes, userVars
<1> QED BY <1>2, <1>3, <1>4, ActGuards, PlanKeeps

LEMMA OverKeeps ==
  ASSUME ManagedIInv, UNCHANGED <<userVars, disk, backup, forced>>, run' = NoRun,
         config' = [there |-> config'.there, hash |-> config'.hash],
         config'.hash \in {config.hash, run.hash}
  PROVE  ManagedIInv'
<1>1. Shapes'
  BY RunOver DEF ManagedIInv, Shapes, userVars
<1> QED BY <1>1, RunOver, PlanKeeps

LEMMA ConsentKeeps == ASSUME ManagedIInv, Consent PROVE ManagedIInv'
<1>1. UNCHANGED <<userVars, disk, config, backup, forced>>
  BY DEF Consent
<1>2. CASE run' = NoRun
  BY <1>1, <1>2, OverKeeps DEF ManagedIInv, Shapes
<1>3. ASSUME NEW plan, plan = [i \in Item |-> plan[i]],
             \A i \in Item : plan[i] \in {run.plan[i], "done"},
             run' = [at |-> "own", plan |-> plan, on |-> run.on, part |-> run.part,
                     hash |-> run.hash, dirty |-> run.dirty]
      PROVE  ManagedIInv'
  <2>1. Shapes'
    BY <1>1, <1>3 DEF ManagedIInv, Shapes, userVars
  <2>2. \A i \in Item : Untouched(i) => run'.plan[i] \in {"done", "overwrite"}
    BY <1>3 DEF ManagedIInv, Keeps, Guarded
  <2> QED BY <1>1, <1>3, <2>1, <2>2, PlanKeeps
<1>4. CASE run' = [run EXCEPT !.at = "own"]
  <2>1. run' = [at |-> "own", plan |-> run.plan, on |-> run.on, part |-> run.part,
                hash |-> run.hash, dirty |-> run.dirty]
    BY <1>4 DEF ManagedIInv, Shapes
  <2> QED BY <1>3, <2>1 DEF ManagedIInv, Shapes
<1>5. ASSUME NEW plan, plan = [i \in Item |-> IF i \in Installs(run) THEN "done" ELSE run.plan[i]],
             run' = [run EXCEPT !.at = "own", !.plan = plan]
      PROVE  ManagedIInv'
  <2>1. run' = [at |-> "own", plan |-> plan, on |-> run.on, part |-> run.part,
                hash |-> run.hash, dirty |-> run.dirty]
    BY <1>5 DEF ManagedIInv, Shapes
  <2>2. plan = [i \in Item |-> plan[i]] /\ \A i \in Item : plan[i] \in {run.plan[i], "done"}
    BY <1>5
  <2> HIDE <1>5
  <2> QED BY <1>3, <2>1, <2>2
<1> QED BY <1>2, <1>4, <1>5 DEF Consent

\* The run goes on, with the plan and the hashes it has.
LEMMA GoesOn ==
  ASSUME ManagedIInv, NEW at, at # "none", run' = [run EXCEPT !.at = at],
         UNCHANGED <<userVars, disk, backup, forced>>,
         config' = [there |-> config'.there, hash |-> config.hash]
  PROVE  ManagedIInv'
<1>1. run' = [at |-> at, plan |-> run.plan, on |-> run.on, part |-> run.part,
              hash |-> run.hash, dirty |-> run.dirty]
  BY DEF ManagedIInv, Shapes
<1>2. Shapes'
  BY <1>1 DEF ManagedIInv, Shapes, userVars
<1>3. \A i \in Item : Untouched(i) => run'.plan[i] \in {"done", "overwrite"}
  BY <1>1 DEF ManagedIInv, Keeps, Guarded
<1> QED BY <1>1, <1>2, <1>3, PlanKeeps

LEMMA WriteOwnKeeps == ASSUME ManagedIInv, WriteOwn PROVE ManagedIInv'
<1>1. config' = [there |-> config'.there, hash |-> config.hash]
  BY DEF WriteOwn, ManagedIInv, Shapes
<1> QED BY <1>1, GoesOn DEF WriteOwn

LEMMA MergeHookKeeps == ASSUME ManagedIInv, MergeHook PROVE ManagedIInv'
<1>1. config' = [there |-> config'.there, hash |-> config.hash]
  BY DEF MergeHook, ManagedIInv, Shapes
<1> QED BY <1>1, GoesOn DEF MergeHook

LEMMA SaveConfigKeeps == ASSUME ManagedIInv, SaveConfig PROVE ManagedIInv'
<1>1. /\ config' = [there |-> config'.there, hash |-> config'.hash]
      /\ config'.hash \in {config.hash, run.hash}
  <2>1. CASE config' = config
    BY <2>1 DEF ManagedIInv, Shapes
  <2>2. CASE config' = [config EXCEPT !.hash = run.hash]
    BY <2>2 DEF ManagedIInv, Shapes
  <2> QED BY <2>1, <2>2 DEF SaveConfig
<1> QED BY <1>1, OverKeeps DEF SaveConfig

LEMMA RunFailsKeeps == ASSUME ManagedIInv, RunFails PROVE ManagedIInv'
<1>1. config' = [there |-> config'.there, hash |-> config'.hash]
  BY DEF RunFails, ManagedIInv, Shapes
<1> QED BY <1>1, OverKeeps DEF RunFails

-----------------------------------------------------------------------------
(* One item of the run.                                                     *)

\* What is known of the other items stays known.
LEMMA BackupKeeps == ASSUME ManagedIInv, NEW i \in Item, SaveBackup(i) PROVE ManagedIInv'
<1>1. run' = [at |-> run.at, plan |-> [run.plan EXCEPT ![i] = "refresh"], on |-> run.on,
              part |-> run.part, hash |-> run.hash, dirty |-> run.dirty]
  BY DEF SaveBackup, ManagedIInv, Shapes
<1>2. UNCHANGED <<version, mine, changes, disk, config>> /\ run.at # "none"
      /\ backup' = [backup EXCEPT ![i] = disk[i]]
      /\ forced' = [forced EXCEPT ![i] = IF mine[i] = Nothing \/ forced[i] = 2 THEN forced[i]
                                         ELSE forced[i] + 1]
  BY DEF SaveBackup, Turn, userVars
<1>3. Shapes'
  BY <1>1, <1>2 DEF ManagedIInv, Shapes
<1>4. Known'
  BY <1>1, <1>2 DEF ManagedIInv, Shapes, Known, Copy, Texts
<1>5. ASSUME NEW j \in Item, j # i
      PROVE  /\ Untouched(j)' => Guarded(j)'
             /\ mine'[j] # Nothing /\ forced'[j] = 1 => Saved(j)'
  BY <1>1, <1>2, <1>5 DEF ManagedIInv, Shapes, Known, Keeps, Untouched, Guarded, Saved
<1>6. ~Untouched(i)' /\ (mine'[i] # Nothing /\ forced'[i] = 1 => Saved(i)')
  BY <1>2 DEF ManagedIInv, Shapes, Known, Keeps, Untouched, Guarded, Saved
<1>7. Keeps'
  BY <1>5, <1>6 DEF Keeps
<1> QED BY <1>3, <1>4, <1>7 DEF ManagedIInv

\* A copy is written or noted, which the user's is not unless it was saved.
LEMMA ItemKeeps ==
  ASSUME ManagedIInv, NEW i \in Item, run.plan[i] \notin {"done", "overwrite"},
         UNCHANGED <<userVars, config, backup, forced>>,
         NEW d \in Copy(i), disk' = [disk EXCEPT ![i] = d],
         NEW h \in Copy(i) \cup {Nothing}, NEW p \in {"done", run.plan[i]}, NEW on, NEW part, NEW dirty,
         run' = [at |-> run.at, plan |-> [run.plan EXCEPT ![i] = p], on |-> on, part |-> part,
                 hash |-> [run.hash EXCEPT ![i] = h], dirty |-> dirty]
  PROVE  ManagedIInv'
<1>1. Shapes'
  BY DEF ManagedIInv, Shapes, userVars
<1>2. Known'
  BY DEF ManagedIInv, Shapes, Known, Copy, Texts, userVars
<1>3. ~Untouched(i)
  BY DEF ManagedIInv, Keeps, Guarded
<1>4. Keeps'
  BY <1>3 DEF ManagedIInv, Shapes, Keeps, Untouched, Guarded, Saved, userVars
<1> QED BY <1>1, <1>2, <1>4 DEF ManagedIInv

LEMMA InstallKeeps == ASSUME ManagedIInv, NEW i \in Item, InstallFile(i) PROVE ManagedIInv'
<1> DEFINE d == [disk[i] EXCEPT ![run.part] = version]
<1>1. /\ run.plan[i] \notin {"done", "overwrite"} /\ UNCHANGED <<userVars, config, backup, forced>>
  BY DEF InstallFile
<1>2. CASE i \in linked
  <2>1. config' = [there |-> config'.there, hash |-> config'.hash]
    BY <1>1 DEF ManagedIInv, Shapes
  <2> QED BY <1>1, <1>2, <2>1, OverKeeps DEF InstallFile
<1>3. CASE i \notin linked
  <2>1. d \in Copy(i)
    <3>1. version \in Texts /\ disk[i] \in [Part(i) -> Texts]
      BY DEF ManagedIInv, Shapes, Known, Copy, Texts
    <3> QED BY <3>1 DEF Copy
  <2>2. disk' = [disk EXCEPT ![i] = d]
    BY <1>3 DEF InstallFile
  <2>3. CASE run.part + 1 \in Part(i)
    <3>1. run' = [run EXCEPT !.part = run.part + 1, !.on = i]
      BY <1>3, <2>3 DEF InstallFile
    <3>2. run' = [at |-> run.at, plan |-> run.plan, on |-> i, part |-> run.part + 1,
                  hash |-> run.hash, dirty |-> run.dirty]
      BY <3>1 DEF ManagedIInv, Shapes
    <3>3. /\ run.plan = [run.plan EXCEPT ![i] = run.plan[i]]
          /\ run.hash = [run.hash EXCEPT ![i] = run.hash[i]]
          /\ run.hash[i] \in Copy(i) \cup {Nothing}
      BY DEF ManagedIInv, Shapes, Known
    <3> QED BY <1>1, <2>1, <2>2, <3>2, <3>3, ItemKeeps
  <2>4. CASE run.part + 1 \notin Part(i)
    <3>1. run' = Recorded(i, d)
      BY <1>3, <2>4 DEF InstallFile, ManagedIInv, Shapes
    <3> QED BY <1>1, <2>1, <2>2, <3>1, ItemKeeps DEF Recorded
  <2> QED BY <2>3, <2>4
<1> QED BY <1>2, <1>3

LEMMA NoteKeeps == ASSUME ManagedIInv, NEW i \in Item, NoteCurrent(i) PROVE ManagedIInv'
<1> DEFINE h == IF i = WakeFile THEN Template(i) ELSE disk[i]
<1>1. /\ run.plan[i] = "note" /\ run' = Recorded(i, h)
      /\ UNCHANGED <<userVars, disk, config, backup, forced>>
  BY DEF NoteCurrent
<1>2. disk[i] \in Copy(i) /\ h \in Copy(i)
  BY DEF ManagedIInv, Shapes, Known, Copy, Texts, Template
<1>3. disk' = [disk EXCEPT ![i] = disk[i]]
  BY <1>1 DEF ManagedIInv, Shapes
<1> QED BY <1>1, <1>2, <1>3, ItemKeeps DEF Recorded

-----------------------------------------------------------------------------
(* The user.                                                                *)
LEMMA LeavesKeeps ==
  ASSUME ManagedIInv, NEW i \in Item, NEW d \in [Part(i) -> 0..(MaxBinary + changes + 1)],
         LeavesCopy(i, d), d # Gone(i) => d[1] # 0 /\ \E p \in Part(i) : d[p] = UserText
  PROVE  ManagedIInv'
<1>1. /\ disk' = [disk EXCEPT ![i] = d] /\ forced' = [forced EXCEPT ![i] = 0]
      /\ mine' = [mine EXCEPT ![i] = IF run.at = "none" /\ d # Gone(i) THEN d ELSE Nothing]
      /\ changes' = changes + 1 /\ UNCHANGED <<version, config, backup, run>>
  BY DEF LeavesCopy
<1>2. Shapes'
  <2>1. disk' = [j \in Item |-> disk'[j]]
    BY <1>1 DEF ManagedIInv, Shapes
  <2>2. forced' = [j \in Item |-> forced'[j]]
    BY <1>1 DEF ManagedIInv, Shapes
  <2>3. changes' \in Nat
    BY <1>1 DEF ManagedIInv, Shapes
  <2>4. mine' = [j \in Item |-> mine'[j]]
    BY <1>1 DEF ManagedIInv, Shapes
  <2> QED BY <1>1, <2>1, <2>2, <2>3, <2>4 DEF ManagedIInv, Shapes
<1>3. \A j \in Item : Copy(j) \subseteq Copy(j)'
  BY <1>1 DEF Copy, Texts, ManagedIInv, Shapes
<1>4. d \in Copy(i)'
  BY <1>1 DEF Copy, Texts, ManagedIInv, Shapes
<1>5. Known'
  BY <1>1, <1>3, <1>4 DEF ManagedIInv, Shapes, Known
<1>6. ASSUME NEW j \in Item, j # i
      PROVE  /\ Untouched(j)' => Guarded(j)'
             /\ mine'[j] # Nothing /\ forced'[j] = 1 => Saved(j)'
  BY <1>1, <1>6 DEF ManagedIInv, Shapes, Keeps, Untouched, Guarded, Saved
<1>7. ASSUME Untouched(i)'
      PROVE  Guarded(i)'
  <2>1. /\ disk'[i] = d /\ mine'[i] = d /\ run.at = "none" /\ d # Gone(i)
    BY <1>1, <1>7 DEF Untouched, ManagedIInv, Shapes
  <2>2. PICK p \in Part(i) : d[p] = MaxBinary + changes + 1
    BY <2>1 DEF UserText
  <2>3. \A h \in Copy(i) : h[p] # d[p]
    BY <2>2 DEF Copy, Texts, ManagedIInv, Shapes
  <2>4. d # Nothing
    BY <1>7, <2>1 DEF Untouched
  <2>5. d \notin {config.hash[i], run.hash[i]}
    BY <2>3, <2>4 DEF ManagedIInv, Known
  <2>6. run.plan[i] = "done"
    BY <2>1 DEF ManagedIInv, Known
  <2>7. d[p] > MaxBinary
    BY <2>2 DEF ManagedIInv, Shapes
  <2> QED BY <1>1, <2>1, <2>5, <2>6, <2>7 DEF Guarded
<1>8. ~(mine'[i] # Nothing /\ forced'[i] = 1)
  BY <1>1 DEF ManagedIInv, Shapes
<1>9. Keeps'
  BY <1>6, <1>7, <1>8 DEF Keeps
<1> QED BY <1>2, <1>5, <1>9 DEF ManagedIInv

LEMMA UserKeeps ==
  ASSUME ManagedIInv, NEW i \in Item, EditCopy(i) \/ RemoveCopy(i) \/ LinkOwn(i)
  PROVE  ManagedIInv'
<1> DEFINE New == [Part(i) -> 0..(MaxBinary + changes + 1)]
<1>0. changes \in Nat /\ disk[i] \in New /\ UserText \in 0..(MaxBinary + changes + 1)
      /\ UserText # 0 /\ 1 \in Part(i)
  BY DEF ManagedIInv, Shapes, Known, Copy, Texts, UserText, Part
<1>1. CASE EditCopy(i)
  <2>1. PICK p \in Part(i) : disk[i][1] # 0 /\ LeavesCopy(i, [disk[i] EXCEPT ![p] = UserText])
    BY <1>1 DEF EditCopy
  <2> DEFINE d == [disk[i] EXCEPT ![p] = UserText]
  <2>2. d \in New /\ d[1] # 0 /\ d[p] = UserText
    BY <1>0, <2>1
  <2> QED BY <2>1, <2>2, LeavesKeeps
<1>2. CASE RemoveCopy(i)
  <2>1. Gone(i) \in New
    BY <1>0 DEF Gone
  <2> QED BY <1>2, <2>1, LeavesKeeps DEF RemoveCopy
<1>3. CASE LinkOwn(i)
  <2> DEFINE d == [p \in Part(i) |-> UserText]
  <2>1. d \in New /\ d[1] # 0 /\ \E p \in Part(i) : d[p] = UserText
    BY <1>0
  <2> QED BY <1>3, <2>1, LeavesKeeps DEF LinkOwn
<1> QED BY <1>1, <1>2, <1>3

LEMMA OutsideKeeps ==
  ASSUME ManagedIInv, NewBinary \/ LoseOwn \/ UNCHANGED managedVars
  PROVE  ManagedIInv'
<1>1. /\ UNCHANGED <<disk, config, backup, run, mine, forced>>
      /\ version' \in 1..MaxBinary /\ changes' \in Nat /\ changes' >= changes
  BY DEF NewBinary, LoseOwn, managedVars, ManagedIInv, Shapes
<1>2. \A j \in Item : Copy(j) \subseteq Copy(j)'
  BY <1>1 DEF Copy, Texts, ManagedIInv, Shapes
<1>3. Shapes' /\ Known'
  BY <1>1, <1>2 DEF ManagedIInv, Shapes, Known
<1>4. Keeps'
  BY <1>1 DEF ManagedIInv, Keeps, Untouched, Guarded, Saved
<1> QED BY <1>3, <1>4 DEF ManagedIInv

LEMMA ManagedStep ==
  ASSUME ManagedIInv, [ManagedNext]_managedVars
  PROVE  ManagedIInv'
<1>1. \A s \in Skill : s \in Item
  BY DEF Item
<1>2. WakeFile \in Item
  BY DEF Item
<1> QED
  BY <1>1, <1>2, InspectKeeps, ConsentKeeps, WriteOwnKeeps, MergeHookKeeps, SaveConfigKeeps, RunFailsKeeps,
     BackupKeeps, InstallKeeps, NoteKeeps, UserKeeps, OutsideKeeps
     DEF ManagedNext, ApplySkills, ApplyPiWake, Apply

\* What a user left a copy as stays until an upgrade is forced, and is in the backup
\* after the first one, whatever runs fail and binaries are installed (setup_project.go
\* apply, install.InspectSkill, BackupSkill; piwake.Inspect, Backup).
THEOREM EditsStay == ManagedSpec => []EditsKept
<1>1. ManagedInit => ManagedIInv
  BY ManagedStart
<1>2. ManagedIInv /\ [ManagedNext]_managedVars => ManagedIInv'
  BY ManagedStep
<1>3. ManagedIInv => EditsKept
  BY DEF ManagedIInv, Known, Keeps, Untouched, Guarded, Saved, EditsKept
<1> QED BY <1>1, <1>2, <1>3, PTL DEF ManagedSpec
=============================================================================

----------------------- MODULE VariantHandles_proofs ------------------------
(***************************************************************************)
(* VariantHandles, proved for every set of handles and C variables and any *)
(* number of blocks: each counter is the number of its handles, what a     *)
(* handle or C variable owns is its own, and short of a shared copy no     *)
(* element is freed twice or used after its end.                           *)
(***************************************************************************)
EXTENDS VariantHandles, TLAPS, FiniteSetTheorems, WellFoundedInduction, Integers

Heaps == [Blocks -> [m_live: BOOLEAN, m_s: Texts \cup {""}, m_values: [Cells -> Variants]]]

\* What the program can reach without an element.
Roots == {Value(h) : h \in Handles} \cup {cvariable[x] : x \in CVariables}

\* An element of a block in use points to b.
Inside(hp, b) == \E e \in Elements(hp) : Points(Content(hp, e), b)

\* A string has no elements.
Plain(hp, v) == v.m_type = "string" => \A c \in Cells : ~Owning(hp[v.m_v].m_values[c])

-----------------------------------------------------------------------------
(* The inductive invariant                                                 *)

\* Each counter is the number of its handles.
CountInv == \A n \in Counters : counts[n] = Cardinality(HandlesOn(n))

\* Handles of one counter have one value, and no block is owned by two counters,
\* by two C variables or by one of each.
Agree ==
  \A h, g \in Handles : variable[h].m_count = variable[g].m_count => Value(h) = Value(g)
HandlesApart ==
  \A h, g \in Handles, b \in Blocks :
    Points(Value(h), b) /\ Points(Value(g), b) => variable[h].m_count = variable[g].m_count
VariablesApart ==
  \A x, y \in CVariables, b \in Blocks :
    Points(cvariable[x], b) /\ Points(cvariable[y], b) => x = y
KindsApart ==
  \A h \in Handles, x \in CVariables, b \in Blocks :
    ~(Points(Value(h), b) /\ Points(cvariable[x], b))
RootsApart == Agree /\ HandlesApart /\ VariablesApart /\ KindsApart

\* The block of a root is in use and no element points to it, not even one that is
\* freed already.
BlocksInv ==
  /\ \A v \in Roots : Usable(heap, v) /\ Plain(heap, v)
  /\ \A v \in Roots, b \in Blocks : Points(v, b) => ~Inside(heap, b)
  /\ \A e \in Elements(heap) : Plain(heap, Content(heap, e))

\* As long as nothing is shared, what an element owns is in use and its own.
ElementsInv ==
  ~shared =>
    \A e \in Elements(heap) :
      /\ Usable(heap, Content(heap, e))
      /\ \A f \in Elements(heap), b \in Blocks :
           Points(Content(heap, e), b) /\ Points(Content(heap, f), b) => e = f

\* What is used after its end, if anything: a counter by a last handle that is
\* assigned to itself, storage after a shared copy.
FaultInv ==
  /\ fault = "storage" => shared
  /\ fault = "counter" => \E h \in Handles : Declared(h) /\ Last(h)

HandlesInv == TypeOK /\ CountInv /\ RootsApart /\ BlocksInv /\ ElementsInv /\ FaultInv

-----------------------------------------------------------------------------
(* The heap                                                                *)

\* The order of the naturals is well founded.
LEMMA LessIsWellFounded ==
  IsWellFoundedOn({p \in Nat \X Nat : p[1] < p[2]}, Nat)
<1>1. OpToRel(<, Nat) = {p \in Nat \X Nat : p[1] < p[2]}
  BY DEF OpToRel
<1> QED BY <1>1, NatLessThanWellFounded, Zenon

\* malloc: if there is an available block, the one that Malloc chooses is available.
LEMMA MallocAvailable ==
  ASSUME NEW hp, Available(hp) # {}
  PROVE  Malloc(hp) \in Available(hp)
<1> DEFINE R == {p \in Nat \X Nat : p[1] < p[2]}
           A == Available(hp)
<1>1. A \subseteq Nat
  BY HandlesAssumption DEF Available, Blocks
<1>2. \E m \in A : \A a \in A : <<a, m>> \notin R
  <2>1. A # {} OBVIOUS
  <2>2. IsWellFoundedOn(R, Nat) BY LessIsWellFounded, Zenon DEF R
  <2> HIDE DEF R, A
  <2> QED BY <1>1, <2>1, <2>2, WFMin, Zenon
<1>3. PICK m \in A : \A a \in A : <<a, m>> \notin R
  BY <1>2
<1>4. ASSUME NEW a \in A PROVE m <= a
  <2>1. m \in Nat /\ a \in Nat BY <1>1, <1>4
  <2>2. ~(a < m) BY <1>3, <1>4, <2>1
  <2> QED BY <2>1, <2>2
<1> QED BY <1>3, <1>4 DEF Malloc

\* A pointer points to one block, which is a block of the heap.
LEMMA PointsTyped ==
  ASSUME NEW v \in Variants
  PROVE  /\ Owning(v) => v.m_v \in Blocks /\ Points(v, v.m_v)
         /\ \A b : Points(v, b) => Owning(v) /\ b = v.m_v /\ b \in Blocks
         /\ v \in [m_type: {"empty", "int", "function", "string", "matrix"}, m_v: Nat]
  BY HandlesAssumption DEF Variants, Owning, Points, Empty, Number, Function, Blocks

\* Empty and the numbers point to nothing.
LEMMA EmptyFacts ==
  /\ \A v \in {Empty, Number, Function} :
       /\ v \in Variants /\ ~Owning(v)
       /\ \A b : ~Points(v, b)
       /\ \A hp : Usable(hp, v) /\ Plain(hp, v) /\ ~OwnsBlocks(hp, v)
  /\ Empty \in {Empty, Number, Function}
  BY DEF Empty, Number, Function, Variants, Owning, Points, Usable, Plain, OwnsBlocks

\* The elements of a heap are variants.
LEMMA ContentTyped ==
  ASSUME NEW hp \in Heaps, NEW e \in Elements(hp)
  PROVE  /\ Content(hp, e) \in Variants
         /\ e[1] \in Blocks /\ e[2] \in Cells /\ e = <<e[1], e[2]>> /\ hp[e[1]].m_live
         /\ Content(hp, e) = hp[e[1]].m_values[e[2]]
<1>1. e \in Blocks \X Cells /\ hp[e[1]].m_live
  BY DEF Elements
<1>2. e[1] \in Blocks /\ e[2] \in Cells /\ e = <<e[1], e[2]>>
  BY <1>1
<1>3. hp[e[1]].m_values \in [Cells -> Variants]
  BY <1>2 DEF Heaps
<1> QED BY <1>1, <1>2, <1>3 DEF Content

\* A cell of a block in use is an element.
LEMMA ElementOf ==
  ASSUME NEW hp \in Heaps, NEW b \in Blocks, NEW c \in Cells, hp[b].m_live
  PROVE  /\ <<b, c>> \in Elements(hp)
         /\ Content(hp, <<b, c>>) = hp[b].m_values[c]
         /\ hp[b].m_values[c] \in Variants
<1>1. <<b, c>> \in Blocks \X Cells /\ <<b, c>>[1] = b /\ <<b, c>>[2] = c
  OBVIOUS
<1>2. <<b, c>> \in Elements(hp)
  BY <1>1 DEF Elements
<1>3. Content(hp, <<b, c>>) = hp[b].m_values[c]
  BY <1>1 DEF Content
<1>4. hp[b].m_values \in [Cells -> Variants]
  BY DEF Heaps
<1> QED BY <1>2, <1>3, <1>4

\* The parts of the state are variants and a heap.
LEMMA StateTyped ==
  ASSUME TypeOK
  PROVE  /\ heap \in Heaps
         /\ \A h \in Handles : /\ Value(h) \in Variants
                               /\ Declared(h) => variable[h].m_count \in Counters
                               /\ ~Declared(h) => variable[h] = None /\ Value(h) = Empty
         /\ \A x \in CVariables : cvariable[x] \in Variants
         /\ \A v \in Roots : v \in Variants
<1>1. heap \in Heaps
  BY DEF TypeOK, Heaps
<1>2. ASSUME NEW h \in Handles
      PROVE  /\ Value(h) \in Variants
             /\ Declared(h) => variable[h].m_count \in Counters
             /\ ~Declared(h) => variable[h] = None /\ Value(h) = Empty
  <2>1. variable[h] \in {None} \cup [m_count: Counters, m_v: Variants]
    BY DEF TypeOK
  <2>2. CASE variable[h] = None
    BY <2>2, EmptyFacts DEF None, Value, Declared
  <2>3. CASE variable[h] \in [m_count: Counters, m_v: Variants]
    <3>1. variable[h].m_count \in Counters /\ variable[h].m_v \in Variants BY <2>3
    <3>2. 0 \notin Counters BY DEF Counters
    <3> QED BY <3>1, <3>2 DEF Value, Declared
  <2> QED BY <2>1, <2>2, <2>3
<1>3. \A x \in CVariables : cvariable[x] \in Variants
  BY DEF TypeOK
<1> QED BY <1>1, <1>2, <1>3 DEF Roots

\* An available block is not in use and nothing points to it.
LEMMA AvailableFacts ==
  ASSUME NEW hp, NEW b \in Available(hp)
  PROVE  /\ b \in Blocks /\ ~hp[b].m_live /\ ~Inside(hp, b)
         /\ \A v \in Roots : ~Points(v, b)
  BY DEF Available, Pointers, Roots, Inside, Points

\* variant_free: the block goes, with what is in it, and the others are left alone.
LEMMA FreeFacts ==
  ASSUME NEW hp \in Heaps, NEW v \in Variants
  PROVE  /\ Free(hp, v) \in Heaps
         /\ \A b \in Blocks : Free(hp, v)[b].m_live <=> hp[b].m_live /\ ~Points(v, b)
         /\ \A b \in Blocks : ~Points(v, b) => Free(hp, v)[b] = hp[b]
         /\ \A b \in Blocks, c \in Cells : Points(v, b) => Free(hp, v)[b].m_values[c] = Empty
<1> DEFINE T == [m_live: BOOLEAN, m_s: Texts \cup {""}, m_values: [Cells -> Variants]]
<1>1. Freed \in T /\ ~Freed.m_live /\ \A c \in Cells : Freed.m_values[c] = Empty
  BY EmptyFacts DEF Freed, Block
<1>2. CASE Owning(v)
  <2>1. v.m_v \in Blocks /\ \A b : Points(v, b) <=> b = v.m_v
    BY <1>2, PointsTyped
  <2>2. Free(hp, v) = [hp EXCEPT ![v.m_v] = Freed]
    BY <1>2 DEF Free
  <2>3. hp \in [Blocks -> T]
    BY DEF Heaps
  <2> HIDE DEF T
  <2>4. Free(hp, v) \in [Blocks -> T]
    BY <1>1, <2>1, <2>2, <2>3
  <2>5. \A b \in Blocks : Free(hp, v)[b] = IF b = v.m_v THEN Freed ELSE hp[b]
    BY <2>2, <2>3
  <2> QED BY <1>1, <2>1, <2>4, <2>5 DEF Heaps, T
<1>3. CASE ~Owning(v)
  <2>1. Free(hp, v) = hp /\ \A b : ~Points(v, b)
    BY <1>3 DEF Free, Points
  <2> QED BY <2>1
<1> QED BY <1>2, <1>3

\* variant_copy: a block that nothing pointed to, with what is in the block of the
\* original, and the others are left alone.
LEMMA CopyFacts ==
  ASSUME NEW hp \in Heaps, NEW v \in Variants, Copyable(hp, v), Usable(hp, v)
  PROVE  /\ CopyBlock(hp, v) \in Heaps /\ CopyValue(hp, v) \in Variants
         /\ CopyValue(hp, v).m_type = v.m_type
         /\ Owning(CopyValue(hp, v)) <=> Owning(v)
         /\ \A b : Points(CopyValue(hp, v), b) => b \in Available(hp)
         /\ \A b \in Blocks : Points(CopyValue(hp, v), b)
              => Owning(v) /\ v.m_v \in Blocks /\ hp[v.m_v].m_live /\ CopyBlock(hp, v)[b] = hp[v.m_v]
         /\ \A b \in Blocks : ~Points(CopyValue(hp, v), b) => CopyBlock(hp, v)[b] = hp[b]
         /\ \A b \in Blocks :
              CopyBlock(hp, v)[b].m_live <=> hp[b].m_live \/ Points(CopyValue(hp, v), b)
<1> DEFINE M == Malloc(hp)
           w == CopyValue(hp, v)
           new == CopyBlock(hp, v)
<1>1. CASE Owning(v)
  <2>1. v.m_v \in Blocks /\ hp[v.m_v].m_live
    BY <1>1, PointsTyped DEF Usable
  <2>2. M \in Available(hp) /\ M \in Blocks
    BY <1>1, MallocAvailable DEF Copyable, Available
  <2>3. v.m_type \in {"string", "matrix"}
    BY <1>1 DEF Owning
  <2>4. w = [v EXCEPT !.m_v = M] /\ new = [hp EXCEPT ![M] = hp[v.m_v]]
    BY <1>1 DEF CopyValue, CopyBlock
  <2> HIDE DEF M, w, new
  <2>5. v \in [m_type: {"empty", "int", "function", "string", "matrix"}, m_v: Nat]
    BY PointsTyped
  <2>6. w.m_type = v.m_type /\ w.m_v = M /\ w \in [m_type: {"string", "matrix"}, m_v: Blocks]
    BY <2>2, <2>3, <2>4, <2>5
  <2>7. w \in Variants /\ Owning(w) /\ \A b : Points(w, b) <=> b = M
    BY <2>6 DEF Variants, Owning, Points
  <2>8. new \in Heaps /\ \A b \in Blocks : new[b] = IF b = M THEN hp[v.m_v] ELSE hp[b]
    BY <2>1, <2>2, <2>4 DEF Heaps
  <2> QED BY <1>1, <2>1, <2>2, <2>6, <2>7, <2>8 DEF w, new
<1>2. CASE ~Owning(v)
  <2>1. w = v /\ new = hp /\ \A b : ~Points(w, b)
    BY <1>2 DEF CopyValue, CopyBlock, Points
  <2> QED BY <1>2, <2>1
<1> QED BY <1>1, <1>2

-----------------------------------------------------------------------------
(* Counters                                                                *)

\* Sets of handles are finite.
LEMMA HandlesOnFinite ==
  ASSUME NEW n
  PROVE  /\ IsFiniteSet(HandlesOn(n)) /\ HandlesOn(n) \subseteq Handles
         /\ Cardinality(HandlesOn(n)) \in 0..Cardinality(Handles)
<1>1. HandlesOn(n) \in SUBSET Handles
  BY DEF HandlesOn
<1>2. /\ IsFiniteSet(HandlesOn(n)) /\ Cardinality(HandlesOn(n)) <= Cardinality(Handles)
      /\ IsFiniteSet(Handles)
  BY <1>1, HandlesAssumption, FS_Subset
<1>3. Cardinality(HandlesOn(n)) \in Nat /\ Cardinality(Handles) \in Nat
  BY <1>2, FS_CardinalityType
<1> QED BY <1>1, <1>2, <1>3

\* A counter that has a handle is not deleted, and the last handle is the only one.
LEMMA CounterInUse ==
  ASSUME TypeOK, CountInv, NEW h \in Handles, Declared(h)
  PROVE  /\ counts[variable[h].m_count] >= 1
         /\ Last(h) => \A g \in Handles : variable[g].m_count = variable[h].m_count => g = h
<1> DEFINE n == variable[h].m_count
           S == HandlesOn(n)
<1>1. n \in Counters
  BY StateTyped
<1>2. h \in S /\ IsFiniteSet(S) /\ Cardinality(S) \in Nat
  BY HandlesOnFinite, FS_CardinalityType DEF HandlesOn
<1>3. Cardinality(S) # 0
  BY <1>2, FS_EmptySet
<1>4. counts[n] = Cardinality(S)
  BY <1>1 DEF CountInv
<1>5. ASSUME Last(h) PROVE \A g \in Handles : variable[g].m_count = n => g = h
  <2>1. PICK x : S = {x}
    BY <1>2, <1>4, <1>5, FS_Singleton DEF Last
  <2> QED BY <1>2, <2>1 DEF HandlesOn
<1> QED BY <1>2, <1>3, <1>4, <1>5

\* As long as a handle is not declared, there is a counter for it.
LEMMA CounterLeft ==
  ASSUME TypeOK, CountInv, NEW h \in Handles, ~Declared(h)
  PROVE  \E m \in Counters : counts[m] = 0
<1> SUFFICES ASSUME \A m \in Counters : counts[m] # 0 PROVE FALSE
  OBVIOUS
<1> DEFINE T == Handles \ {h}
           f == [m \in Counters |-> CHOOSE g \in Handles : variable[g].m_count = m]
<1>1. ASSUME NEW m \in Counters
      PROVE  f[m] \in T /\ variable[f[m]].m_count = m
  <2>1. Cardinality(HandlesOn(m)) # 0
    BY DEF CountInv
  <2>2. HandlesOn(m) # {}
    BY <2>1, FS_EmptySet
  <2>3. \E g \in Handles : variable[g].m_count = m
    BY <2>2 DEF HandlesOn
  <2>4. f[m] \in Handles /\ variable[f[m]].m_count = m
    BY <2>3
  <2>5. variable[h].m_count = 0 /\ m # 0
    BY DEF Declared, Counters
  <2> QED BY <2>4, <2>5
<1>2. f \in [Counters -> T]
  BY <1>1
<1>3. IsFiniteSet(Handles) /\ Cardinality(Handles) \in Nat
  BY HandlesAssumption, FS_CardinalityType
<1>4. IsFiniteSet(T) /\ Cardinality(T) = Cardinality(Handles) - 1
  BY <1>3, FS_RemoveElement
<1>5. IsFiniteSet(Counters) /\ Cardinality(Counters) = Cardinality(Handles)
  BY <1>3, FS_Interval DEF Counters
<1>6. Cardinality(T) < Cardinality(Counters)
  BY <1>3, <1>4, <1>5
<1> HIDE DEF f, T
<1>7. \E x, y \in Counters : x # y /\ f[x] = f[y]
  BY <1>2, <1>4, <1>5, <1>6, FS_PigeonHole
<1> QED BY <1>1, <1>7

\* A handle that changes is taken from the handles of its old counter and added to
\* those of its new one.
LEMMA HandleMoves ==
  ASSUME TypeOK, NEW h \in Handles, NEW w, variable' = [variable EXCEPT ![h] = w],
         NEW n
  PROVE  HandlesOn(n)' = IF w.m_count = n THEN HandlesOn(n) \cup {h} ELSE HandlesOn(n) \ {h}
<1>1. DOMAIN variable = Handles
  BY DEF TypeOK
<1>2. \A g \in Handles : variable'[g] = IF g = h THEN w ELSE variable[g]
  BY <1>1
<1> QED BY <1>2 DEF HandlesOn

\* Counters that follow a handle that changes are still the number of their handles.
LEMMA CountStep ==
  ASSUME TypeOK, CountInv, NEW h \in Handles, NEW w,
         variable' = [variable EXCEPT ![h] = w],
         \A n \in Counters :
           counts'[n] = (counts[n] - IF variable[h].m_count = n THEN 1 ELSE 0)
                        + IF w.m_count = n THEN 1 ELSE 0
  PROVE  CountInv' /\ \A n \in Counters : counts'[n] \in 0..Cardinality(Handles)
<1> SUFFICES ASSUME NEW n \in Counters
             PROVE  /\ counts'[n] = Cardinality(HandlesOn(n)')
                    /\ counts'[n] \in 0..Cardinality(Handles)
  BY DEF CountInv
<1> DEFINE S == HandlesOn(n)
<1>1. IsFiniteSet(S) /\ counts[n] = Cardinality(S)
  BY HandlesOnFinite DEF CountInv
<1>2. h \in S <=> variable[h].m_count = n
  BY DEF HandlesOn
<1>3. HandlesOn(n)' = IF w.m_count = n THEN S \cup {h} ELSE S \ {h}
  BY HandleMoves
<1>4. /\ Cardinality(S \cup {h}) = IF h \in S THEN Cardinality(S) ELSE Cardinality(S) + 1
      /\ Cardinality(S \ {h}) = IF h \in S THEN Cardinality(S) - 1 ELSE Cardinality(S)
  BY <1>1, FS_AddElement, FS_RemoveElement
<1>5. Cardinality(S) \in Nat
  BY <1>1, FS_CardinalityType
<1> HIDE DEF S
<1>6. counts'[n] = Cardinality(HandlesOn(n)')
  <2>1. CASE w.m_count = n
    <3>1. Cardinality(HandlesOn(n)') = IF h \in S THEN Cardinality(S) ELSE Cardinality(S) + 1
      BY <1>3, <1>4, <2>1
    <3>2. counts'[n] = (counts[n] - IF variable[h].m_count = n THEN 1 ELSE 0) + 1
      BY <2>1
    <3> QED BY <1>1, <1>2, <1>5, <3>1, <3>2
  <2>2. CASE w.m_count # n
    <3>1. Cardinality(HandlesOn(n)') = IF h \in S THEN Cardinality(S) - 1 ELSE Cardinality(S)
      BY <1>3, <1>4, <2>2
    <3>2. counts'[n] = (counts[n] - IF variable[h].m_count = n THEN 1 ELSE 0) + 0
      BY <2>2
    <3> QED BY <1>1, <1>2, <1>5, <3>1, <3>2
  <2> QED BY <2>1, <2>2
<1>7. HandlesOn(n)' \in SUBSET Handles
  BY DEF HandlesOn
<1>8. /\ Cardinality(HandlesOn(n)') <= Cardinality(Handles)
      /\ IsFiniteSet(HandlesOn(n)') /\ IsFiniteSet(Handles)
  BY <1>7, HandlesAssumption, FS_Subset
<1>9. Cardinality(HandlesOn(n)') \in Nat /\ Cardinality(Handles) \in Nat
  BY <1>8, FS_CardinalityType
<1> QED BY <1>6, <1>8, <1>9

\* A constructor takes a counter that was deleted, or never used, for its one handle.
LEMMA ConstructFacts ==
  ASSUME TypeOK, CountInv, NEW h \in Handles, NEW v \in Variants,
         ~Declared(h), Construct(h, v)
  PROVE  \E n \in Counters :
           /\ counts[n] = 0 /\ HandlesOn(n) = {}
           /\ variable' = [variable EXCEPT ![h] = [m_count |-> n, m_v |-> v]]
           /\ counts' = [counts EXCEPT ![n] = 1]
           /\ CountInv' /\ counts' \in [Counters -> 0..Cardinality(Handles)]
<1>1. PICK n \in Counters :
        /\ counts[n] = 0 /\ counts' = [counts EXCEPT ![n] = 1]
        /\ variable' = [variable EXCEPT ![h] = [m_count |-> n, m_v |-> v]]
  BY CounterLeft DEF Construct
<1>2. PICK w : w = [m_count |-> n, m_v |-> v]
  OBVIOUS
<1>3. w.m_count = n /\ variable' = [variable EXCEPT ![h] = w]
  BY <1>1, <1>2
<1>4. HandlesOn(n) = {}
  BY <1>1, HandlesOnFinite, FS_EmptySet DEF CountInv
<1>5. counts \in [Counters -> 0..Cardinality(Handles)]
  BY DEF TypeOK
<1>6. variable[h].m_count = 0 /\ 0 \notin Counters
  BY DEF Declared, Counters
<1>7. Cardinality(Handles) \in Nat
  BY HandlesAssumption, FS_CardinalityType
<1>8. \A m \in Counters :
        counts'[m] = (counts[m] - IF variable[h].m_count = m THEN 1 ELSE 0)
                     + IF w.m_count = m THEN 1 ELSE 0
  BY <1>1, <1>3, <1>5, <1>6, <1>7
<1>9. CountInv' /\ \A m \in Counters : counts'[m] \in 0..Cardinality(Handles)
  BY <1>3, <1>8, CountStep
<1>10. counts' \in [Counters -> 0..Cardinality(Handles)]
  BY <1>1, <1>5, <1>9
<1> QED BY <1>1, <1>4, <1>9, <1>10

-----------------------------------------------------------------------------
(* What a step does to the blocks                                          *)

\* The block of w, if any, is new; what it has that owns a block was in an element
\* before, and is shared from now on.
Grown(w) ==
  /\ heap' \in Heaps
  /\ \A b \in Blocks : ~Points(w, b) => heap'[b] = heap[b]
  /\ \A b \in Blocks : Points(w, b) => b \in Available(heap) /\ heap'[b].m_live
  /\ \A b \in Blocks, c \in Cells :
       Points(w, b) /\ Owning(heap'[b].m_values[c])
         => /\ shared' /\ w.m_type = "matrix"
            /\ \E e \in Elements(heap) : Content(heap, e) = heap'[b].m_values[c]

\* A string that is plain stays plain where its block stays as it is.
LEMMA PlainKept ==
  ASSUME NEW hp, NEW new, NEW v \in Variants, Plain(hp, v),
         \A b \in Blocks : Points(v, b) => new[b] = hp[b]
  PROVE  Plain(new, v)
<1> SUFFICES ASSUME v.m_type = "string" PROVE Plain(new, v)
  BY DEF Plain
<1>1. v.m_v \in Blocks /\ Points(v, v.m_v)
  BY PointsTyped DEF Owning
<1> QED BY <1>1 DEF Plain

\* A heap that grew by the block of a new root.
LEMMA HeapGrown ==
  ASSUME TypeOK, BlocksInv, ElementsInv, NEW w \in Variants, Grown(w),
         Roots' \subseteq Roots \cup {w, Empty}, shared => shared'
  PROVE  BlocksInv' /\ ElementsInv'
<1> DEFINE new == heap'
<1>1. heap \in Heaps /\ new \in Heaps /\ \A v \in Roots : v \in Variants
  BY StateTyped DEF Grown
<1>2. \A b \in Blocks : Points(w, b) =>
        /\ ~heap[b].m_live /\ ~Inside(heap, b) /\ \A v \in Roots : ~Points(v, b)
  BY AvailableFacts DEF Grown
<1>3. ASSUME NEW f \in Elements(new)
      PROVE  \/ /\ f \in Elements(heap) /\ Content(new, f) = Content(heap, f)
                /\ ~Points(w, f[1])
             \/ /\ Points(w, f[1])
                /\ Owning(Content(new, f)) =>
                     /\ shared' /\ w.m_type = "matrix"
                     /\ \E e \in Elements(heap) : Content(heap, e) = Content(new, f)
  <2>1. /\ f[1] \in Blocks /\ f[2] \in Cells /\ f = <<f[1], f[2]>> /\ new[f[1]].m_live
        /\ Content(new, f) = new[f[1]].m_values[f[2]]
    BY <1>1, ContentTyped
  <2>2. CASE Points(w, f[1])
    BY <2>1, <2>2 DEF Grown
  <2>3. CASE ~Points(w, f[1])
    <3>1. new[f[1]] = heap[f[1]] BY <2>1, <2>3 DEF Grown
    <3>2. /\ <<f[1], f[2]>> \in Elements(heap)
          /\ Content(heap, <<f[1], f[2]>>) = heap[f[1]].m_values[f[2]]
      BY <1>1, <2>1, <3>1, ElementOf
    <3> QED BY <2>1, <2>3, <3>1, <3>2
  <2> QED BY <2>2, <2>3
<1>4. \A f \in Elements(new) :
        Owning(Content(new, f)) => \E e \in Elements(heap) : Content(heap, e) = Content(new, f)
  BY <1>3
<1>5. ASSUME NEW b, Inside(new, b) PROVE Inside(heap, b)
  <2>1. PICK f \in Elements(new) : Points(Content(new, f), b)
    BY <1>5 DEF Inside
  <2>2. Owning(Content(new, f)) BY <2>1 DEF Points
  <2> QED BY <1>4, <2>1, <2>2 DEF Inside
<1>6. ASSUME NEW e \in Elements(heap)
      PROVE  /\ Content(heap, e) \in Variants
             /\ \A b \in Blocks : Points(Content(heap, e), b) => new[b] = heap[b]
  <2>1. Content(heap, e) \in Variants BY <1>1, ContentTyped
  <2>2. \A b \in Blocks : Points(Content(heap, e), b) => ~Points(w, b)
    BY <1>2 DEF Inside
  <2> QED BY <2>1, <2>2 DEF Grown
<1>7. ASSUME NEW v \in Roots'
      PROVE  /\ Usable(new, v) /\ Plain(new, v)
             /\ \A b \in Blocks : Points(v, b) => ~Inside(new, b)
  <2>1. CASE v \in Roots
    <3>1. v \in Variants /\ Usable(heap, v) /\ Plain(heap, v)
      BY <1>1, <2>1 DEF BlocksInv
    <3>2. \A b \in Blocks : Points(v, b) => new[b] = heap[b]
      BY <1>2, <2>1 DEF Grown
    <3>3. Plain(new, v)
      BY <3>1, <3>2, PlainKept
    <3>4. Usable(new, v)
      BY <3>1, <3>2, PointsTyped DEF Usable
    <3>5. \A b \in Blocks : Points(v, b) => ~Inside(new, b)
      BY <1>5, <2>1 DEF BlocksInv
    <3> QED BY <3>3, <3>4, <3>5
  <2>2. CASE v = w
    <3>1. Usable(new, w)
      BY PointsTyped DEF Grown, Usable
    <3>2. Plain(new, w)
      <4> SUFFICES ASSUME w.m_type = "string" PROVE Plain(new, w)
        BY DEF Plain
      <4>1. w.m_v \in Blocks /\ Points(w, w.m_v)
        BY PointsTyped DEF Owning
      <4> QED BY <4>1 DEF Plain, Grown
    <3>3. \A b \in Blocks : Points(w, b) => ~Inside(new, b)
      BY <1>2, <1>5
    <3> QED BY <2>2, <3>1, <3>2, <3>3
  <2>3. CASE v = Empty
    BY <2>3, EmptyFacts
  <2> QED BY <2>1, <2>2, <2>3
<1>8. ASSUME NEW f \in Elements(new) PROVE Plain(new, Content(new, f))
  <2>1. CASE Owning(Content(new, f))
    <3>1. PICK e \in Elements(heap) : Content(heap, e) = Content(new, f)
      BY <1>4, <2>1
    <3>2. Plain(heap, Content(heap, e)) BY DEF BlocksInv
    <3>3. Plain(new, Content(heap, e))
      BY <1>6, <3>2, PlainKept
    <3> QED BY <3>1, <3>3
  <2>2. CASE ~Owning(Content(new, f))
    BY <2>2 DEF Owning, Plain
  <2> QED BY <2>1, <2>2
<1>9. ASSUME ~shared', NEW f \in Elements(new)
      PROVE  /\ Usable(new, Content(new, f))
             /\ \A g \in Elements(new), b \in Blocks :
                  Points(Content(new, f), b) /\ Points(Content(new, g), b) => f = g
  <2>1. CASE ~Owning(Content(new, f))
    BY <2>1 DEF Usable, Points
  <2>2. CASE Owning(Content(new, f))
    <3>1. f \in Elements(heap) /\ Content(new, f) = Content(heap, f)
      BY <1>3, <1>9, <2>2
    <3>2. Usable(heap, Content(heap, f))
      BY <1>9, <3>1 DEF ElementsInv
    <3>3. Content(heap, f).m_v \in Blocks /\ Points(Content(heap, f), Content(heap, f).m_v)
      BY <1>6, <2>2, <3>1, PointsTyped
    <3>4. Usable(new, Content(new, f))
      BY <1>6, <3>1, <3>2, <3>3 DEF Usable
    <3>5. ASSUME NEW g \in Elements(new), NEW b \in Blocks,
                 Points(Content(new, f), b), Points(Content(new, g), b)
          PROVE  f = g
      <4>1. Owning(Content(new, g)) BY <3>5 DEF Points
      <4>2. g \in Elements(heap) /\ Content(new, g) = Content(heap, g)
        BY <1>3, <1>9, <4>1
      <4> QED BY <1>9, <3>1, <3>5, <4>2 DEF ElementsInv
    <3> QED BY <3>4, <3>5
  <2> QED BY <2>1, <2>2
<1>10. BlocksInv'
  BY <1>7, <1>8 DEF BlocksInv
<1>11. ElementsInv'
  BY <1>9 DEF ElementsInv
<1> QED BY <1>10, <1>11

\* A heap from which the block of v was freed, that is of no root now and never was
\* of an element.
LEMMA HeapFreed ==
  ASSUME TypeOK, BlocksInv, ElementsInv, NEW v \in Variants, heap' = Free(heap, v),
         Roots' \subseteq Roots \cup {Empty}, shared' = shared,
         \A b \in Blocks : Points(v, b) => ~Inside(heap, b) /\ \A r \in Roots' : ~Points(r, b)
  PROVE  BlocksInv' /\ ElementsInv' /\ heap' \in Heaps
<1> DEFINE new == heap'
<1>1. heap \in Heaps /\ \A r \in Roots : r \in Variants
  BY StateTyped
<1>2. /\ new \in Heaps
      /\ \A b \in Blocks : new[b].m_live <=> heap[b].m_live /\ ~Points(v, b)
      /\ \A b \in Blocks : ~Points(v, b) => new[b] = heap[b]
  BY <1>1, FreeFacts
<1>3. ASSUME NEW f \in Elements(new)
      PROVE  f \in Elements(heap) /\ Content(new, f) = Content(heap, f)
  <2>1. /\ f[1] \in Blocks /\ f[2] \in Cells /\ f = <<f[1], f[2]>> /\ new[f[1]].m_live
        /\ Content(new, f) = new[f[1]].m_values[f[2]]
    BY <1>2, ContentTyped
  <2>2. new[f[1]] = heap[f[1]] BY <1>2, <2>1
  <2>3. /\ <<f[1], f[2]>> \in Elements(heap)
        /\ Content(heap, <<f[1], f[2]>>) = heap[f[1]].m_values[f[2]]
    BY <1>1, <2>1, <2>2, ElementOf
  <2> QED BY <2>1, <2>2, <2>3
<1>4. \A b : Inside(new, b) => Inside(heap, b)
  BY <1>3 DEF Inside
<1>5. ASSUME NEW e \in Elements(heap)
      PROVE  /\ Content(heap, e) \in Variants
             /\ \A b \in Blocks : Points(Content(heap, e), b) => new[b] = heap[b]
  <2>1. Content(heap, e) \in Variants BY <1>1, ContentTyped
  <2>2. \A b \in Blocks : Points(Content(heap, e), b) => ~Points(v, b)
    BY DEF Inside
  <2> QED BY <1>2, <2>1, <2>2
<1>6. ASSUME NEW r \in Roots'
      PROVE  /\ Usable(new, r) /\ Plain(new, r)
             /\ \A b \in Blocks : Points(r, b) => ~Inside(new, b)
  <2>1. CASE r \in Roots
    <3>1. r \in Variants /\ Usable(heap, r) /\ Plain(heap, r)
      BY <1>1, <2>1 DEF BlocksInv
    <3>2. \A b \in Blocks : Points(r, b) => new[b] = heap[b]
      BY <1>2
    <3>3. Plain(new, r)
      BY <3>1, <3>2, PlainKept
    <3>4. Usable(new, r)
      BY <3>1, <3>2, PointsTyped DEF Usable
    <3>5. \A b \in Blocks : Points(r, b) => ~Inside(new, b)
      BY <1>4, <2>1 DEF BlocksInv
    <3> QED BY <3>3, <3>4, <3>5
  <2>2. CASE r = Empty
    BY <2>2, EmptyFacts
  <2> QED BY <2>1, <2>2
<1>7. ASSUME NEW f \in Elements(new) PROVE Plain(new, Content(new, f))
  <2>1. f \in Elements(heap) /\ Content(new, f) = Content(heap, f) BY <1>3
  <2>2. Plain(heap, Content(heap, f)) BY <2>1 DEF BlocksInv
  <2>3. Plain(new, Content(heap, f)) BY <1>5, <2>1, <2>2, PlainKept
  <2> QED BY <2>1, <2>3
<1>8. ASSUME ~shared', NEW f \in Elements(new)
      PROVE  /\ Usable(new, Content(new, f))
             /\ \A g \in Elements(new), b \in Blocks :
                  Points(Content(new, f), b) /\ Points(Content(new, g), b) => f = g
  <2>1. f \in Elements(heap) /\ Content(new, f) = Content(heap, f) BY <1>3
  <2>2. Usable(heap, Content(heap, f)) BY <1>8, <2>1 DEF ElementsInv
  <2>3. Usable(new, Content(new, f))
    BY <1>5, <2>1, <2>2, PointsTyped DEF Usable
  <2>4. \A g \in Elements(new), b \in Blocks :
          Points(Content(new, f), b) /\ Points(Content(new, g), b) => f = g
    BY <1>3, <1>8, <2>1 DEF ElementsInv
  <2> QED BY <2>3, <2>4
<1>9. BlocksInv'
  BY <1>6, <1>7 DEF BlocksInv
<1>10. ElementsInv'
  BY <1>8 DEF ElementsInv
<1> QED BY <1>2, <1>9, <1>10

-----------------------------------------------------------------------------
(* The steps                                                               *)

\* What is new in the state of a constructor.
LEMMA ConstructStep ==
  ASSUME HandlesInv, fault = "none", NEW h \in Handles, NEW w \in Variants,
         ~Declared(h), Construct(h, w), Grown(w),
         cvariable' = cvariable, fault' = fault, shared' \in BOOLEAN, shared => shared'
  PROVE  HandlesInv'
<1> USE DEF HandlesInv
<1>1. PICK n \in Counters :
        /\ counts[n] = 0 /\ HandlesOn(n) = {}
        /\ variable' = [variable EXCEPT ![h] = [m_count |-> n, m_v |-> w]]
        /\ CountInv' /\ counts' \in [Counters -> 0..Cardinality(Handles)]
  BY ConstructFacts
<1>2. variable \in [Handles -> {None} \cup [m_count: Counters, m_v: Variants]]
  BY DEF TypeOK
<1>3. /\ variable' \in [Handles -> {None} \cup [m_count: Counters, m_v: Variants]]
      /\ variable'[h].m_count = n /\ variable'[h].m_v = w
      /\ \A g \in Handles : g # h => variable'[g] = variable[g]
  BY <1>1, <1>2
<1>4. \A g \in Handles : variable[g].m_count # n
  BY <1>1 DEF HandlesOn
<1>5. /\ Value(h)' = w /\ \A g \in Handles : g # h => Value(g)' = Value(g)
  BY <1>3 DEF Value
<1>6. \A b \in Blocks : Points(w, b) =>
        /\ \A g \in Handles : ~Points(Value(g), b)
        /\ \A x \in CVariables : ~Points(cvariable[x], b)
  BY AvailableFacts DEF Grown, Roots
<1>7. Roots' \subseteq Roots \cup {w, Empty}
  <2> SUFFICES ASSUME NEW r \in Roots' PROVE r \in Roots \cup {w, Empty}
    OBVIOUS
  <2>1. CASE \E g \in Handles : r = Value(g)'
    BY <1>5, <2>1 DEF Roots
  <2>2. CASE \E x \in CVariables : r = cvariable'[x]
    BY <2>2 DEF Roots
  <2> QED BY <2>1, <2>2 DEF Roots
<1>8. BlocksInv' /\ ElementsInv'
  BY <1>7, HeapGrown
<1>9. RootsApart'
  <2>1. Agree'
    BY <1>3, <1>4, <1>5 DEF RootsApart, Agree
  <2>2. HandlesApart'
    <3> SUFFICES ASSUME NEW f \in Handles, NEW g \in Handles, NEW b \in Blocks,
                        Points(Value(f)', b), Points(Value(g)', b)
                 PROVE  variable'[f].m_count = variable'[g].m_count
      BY DEF HandlesApart
    <3>1. CASE f = h \/ g = h
      BY <1>5, <1>6, <3>1
    <3>2. CASE f # h /\ g # h
      BY <1>3, <1>5, <3>2 DEF RootsApart, HandlesApart
    <3> QED BY <3>1, <3>2
  <2>3. VariablesApart'
    BY DEF RootsApart, VariablesApart
  <2>4. KindsApart'
    <3> SUFFICES ASSUME NEW g \in Handles, NEW x \in CVariables, NEW b \in Blocks,
                        Points(Value(g)', b), Points(cvariable'[x], b)
                 PROVE  FALSE
      BY DEF KindsApart
    <3>1. CASE g = h
      BY <1>5, <1>6, <3>1
    <3>2. CASE g # h
      BY <1>5, <3>2 DEF RootsApart, KindsApart
    <3> QED BY <3>1, <3>2
  <2> QED BY <2>1, <2>2, <2>3, <2>4 DEF RootsApart
<1>10. TypeOK'
  <2>1. heap' \in Heaps BY DEF Grown
  <2> QED BY <1>1, <1>3, <2>1 DEF TypeOK, Heaps
<1>11. FaultInv'
  BY DEF FaultInv
<1> QED BY <1>1, <1>8, <1>9, <1>10, <1>11

\* A handle that takes over the counter and value of another, or none.
LEMMA RootsKept ==
  ASSUME TypeOK, RootsApart, NEW h \in Handles, NEW w, cvariable' = cvariable,
         w = None \/ \E g \in Handles : w = variable[g],
         variable' = [variable EXCEPT ![h] = w]
  PROVE  /\ variable' \in [Handles -> {None} \cup [m_count: Counters, m_v: Variants]]
         /\ \A g \in Handles : variable'[g] = IF g = h THEN w ELSE variable[g]
         /\ RootsApart' /\ Roots' \subseteq Roots \cup {Empty}
<1>1. variable \in [Handles -> {None} \cup [m_count: Counters, m_v: Variants]]
  BY DEF TypeOK
<1>2. w \in {None} \cup [m_count: Counters, m_v: Variants]
  BY <1>1
<1>3. variable' \in [Handles -> {None} \cup [m_count: Counters, m_v: Variants]]
  BY <1>1, <1>2
<1>4. \A g \in Handles : variable'[g] = IF g = h THEN w ELSE variable[g]
  BY <1>1
<1>5. \A g \in Handles : variable'[g] = None \/ \E f \in Handles : variable'[g] = variable[f]
  BY <1>4
<1>6. None.m_count = 0 /\ None.m_v = Empty /\ \A b : ~Points(Empty, b)
  BY EmptyFacts DEF None
<1>7. \A f \in Handles : variable[f].m_count = 0 => variable[f].m_v = Empty
  BY StateTyped DEF Declared, Value
<1>8. Agree'
  <2> SUFFICES ASSUME NEW f \in Handles, NEW g \in Handles,
                      variable'[f].m_count = variable'[g].m_count
               PROVE  variable'[f].m_v = variable'[g].m_v
    BY DEF Agree, Value
  <2> QED BY <1>5, <1>6, <1>7 DEF RootsApart, Agree, Value
<1>9. HandlesApart'
  <2> SUFFICES ASSUME NEW f \in Handles, NEW g \in Handles, NEW b \in Blocks,
                      Points(variable'[f].m_v, b), Points(variable'[g].m_v, b)
               PROVE  variable'[f].m_count = variable'[g].m_count
    BY DEF HandlesApart, Value
  <2> QED BY <1>5, <1>6 DEF RootsApart, HandlesApart, Value
<1>10. VariablesApart'
  BY DEF RootsApart, VariablesApart
<1>11. KindsApart'
  <2> SUFFICES ASSUME NEW g \in Handles, NEW x \in CVariables, NEW b \in Blocks,
                      Points(variable'[g].m_v, b), Points(cvariable'[x], b)
               PROVE  FALSE
    BY DEF KindsApart, Value
  <2> QED BY <1>5, <1>6 DEF RootsApart, KindsApart, Value
<1>12. Roots' \subseteq Roots \cup {Empty}
  BY <1>5, <1>6 DEF Roots, Value
<1> QED BY <1>3, <1>4, <1>8, <1>9, <1>10, <1>11, <1>12 DEF RootsApart

\* The value of a last handle is of no other root.
LEMMA LastOwner ==
  ASSUME HandlesInv, NEW h \in Handles, Declared(h), Last(h), NEW b \in Blocks,
         Points(Value(h), b)
  PROVE  /\ \A g \in Handles : g # h => ~Points(Value(g), b)
         /\ \A x \in CVariables : ~Points(cvariable[x], b)
         /\ ~Inside(heap, b)
<1>1. \A g \in Handles : g # h => variable[g].m_count # variable[h].m_count
  BY CounterInUse DEF HandlesInv
<1>2. Value(h) \in Roots
  BY DEF Roots
<1> QED BY <1>1, <1>2 DEF HandlesInv, RootsApart, HandlesApart, KindsApart, BlocksInv

\* One more handle on a counter, by the copy constructor.
LEMMA CopyConstructStep ==
  ASSUME HandlesInv, fault = "none", NEW h \in Handles, NEW g \in Handles,
         CopyConstruct(h, g)
  PROVE  HandlesInv'
<1> USE DEF HandlesInv
<1>1. PICK w : w = variable[g]
  OBVIOUS
<1>2. /\ ~Declared(h) /\ Declared(g) /\ variable' = [variable EXCEPT ![h] = w]
      /\ counts' = [counts EXCEPT ![variable[g].m_count] = @ + 1]
      /\ cvariable' = cvariable /\ heap' = heap /\ fault' = fault /\ shared' = shared
  BY <1>1 DEF CopyConstruct
<1>3. variable[g].m_count \in Counters /\ variable[h].m_count = 0 /\ 0 \notin Counters
  BY <1>2, StateTyped DEF Declared, Counters
<1>4. counts \in [Counters -> 0..Cardinality(Handles)] /\ Cardinality(Handles) \in Nat
  BY HandlesAssumption, FS_CardinalityType DEF TypeOK
<1>5. \A n \in Counters :
        counts'[n] = (counts[n] - IF variable[h].m_count = n THEN 1 ELSE 0)
                     + IF w.m_count = n THEN 1 ELSE 0
  BY <1>1, <1>2, <1>3, <1>4
<1>6. CountInv' /\ \A n \in Counters : counts'[n] \in 0..Cardinality(Handles)
  <2>1. TypeOK /\ CountInv /\ variable' = [variable EXCEPT ![h] = w] BY <1>2
  <2> HIDE DEF HandlesInv
  <2> QED BY <1>5, <2>1, CountStep
<1>7. counts' \in [Counters -> 0..Cardinality(Handles)]
  BY <1>2, <1>4, <1>6
<1>8. /\ variable' \in [Handles -> {None} \cup [m_count: Counters, m_v: Variants]]
      /\ RootsApart' /\ Roots' \subseteq Roots \cup {Empty}
  BY <1>1, <1>2, RootsKept
<1>9. BlocksInv' /\ ElementsInv'
  <2>1. Empty \in Variants /\ heap' = Free(heap, Empty) /\ \A b : ~Points(Empty, b)
    BY <1>2, EmptyFacts DEF Free
  <2> QED BY <1>2, <1>8, <2>1, HeapFreed
<1>10. TypeOK'
  BY <1>2, <1>7, <1>8 DEF TypeOK
<1>11. FaultInv'
  BY <1>2 DEF FaultInv
<1> QED BY <1>6, <1>8, <1>9, <1>10, <1>11

\* The destructor: with the last handle its block goes, which was nobody else's.
LEMMA DestroyStep ==
  ASSUME HandlesInv, fault = "none", NEW h \in Handles, Destroy(h)
  PROVE  HandlesInv'
<1> USE DEF HandlesInv
<1>1. /\ Declared(h) /\ variable' = [variable EXCEPT ![h] = None]
      /\ counts' = [counts EXCEPT ![variable[h].m_count] = @ - 1] /\ heap' = HeapWithout(h)
      /\ cvariable' = cvariable /\ fault' = fault /\ shared' = shared
  BY DEF Destroy, Released
<1>2. variable[h].m_count \in Counters /\ None.m_count = 0 /\ 0 \notin Counters
  BY <1>1, StateTyped DEF None, Counters
<1>3. counts \in [Counters -> 0..Cardinality(Handles)] /\ Cardinality(Handles) \in Nat
  BY HandlesAssumption, FS_CardinalityType DEF TypeOK
<1>4. \A n \in Counters :
        counts'[n] = (counts[n] - IF variable[h].m_count = n THEN 1 ELSE 0)
                     + IF None.m_count = n THEN 1 ELSE 0
  BY <1>1, <1>2, <1>3
<1>5. CountInv' /\ \A n \in Counters : counts'[n] \in 0..Cardinality(Handles)
  <2>1. PICK w : w = None OBVIOUS
  <2>2. TypeOK /\ CountInv /\ variable' = [variable EXCEPT ![h] = w] BY <1>1, <2>1
  <2>3. \A n \in Counters :
          counts'[n] = (counts[n] - IF variable[h].m_count = n THEN 1 ELSE 0)
                       + IF w.m_count = n THEN 1 ELSE 0
    BY <1>4, <2>1
  <2> HIDE DEF HandlesInv
  <2> QED BY <2>2, <2>3, CountStep
<1>6. counts' \in [Counters -> 0..Cardinality(Handles)]
  BY <1>1, <1>3, <1>5
<1>7. /\ variable' \in [Handles -> {None} \cup [m_count: Counters, m_v: Variants]]
      /\ \A g \in Handles : variable'[g] = IF g = h THEN None ELSE variable[g]
      /\ RootsApart' /\ Roots' \subseteq Roots \cup {Empty}
  BY <1>1, RootsKept
<1>8. BlocksInv' /\ ElementsInv' /\ heap' \in Heaps
  <2>1. CASE Last(h)
    <3>1. heap' = Free(heap, Value(h)) /\ Value(h) \in Variants
      BY <1>1, <2>1, StateTyped DEF HeapWithout
    <3>2. ASSUME NEW b \in Blocks, Points(Value(h), b)
          PROVE  ~Inside(heap, b) /\ \A r \in Roots' : ~Points(r, b)
      <4>1. /\ ~Inside(heap, b) /\ \A g \in Handles : g # h => ~Points(Value(g), b)
            /\ \A x \in CVariables : ~Points(cvariable[x], b)
        BY <1>1, <2>1, <3>2, LastOwner
      <4>2. None.m_v = Empty /\ ~Points(Empty, b)
        BY EmptyFacts DEF None
      <4> QED BY <1>1, <1>7, <4>1, <4>2 DEF Roots, Value
    <3>3. PICK v \in Variants : v = Value(h)
      BY <3>1
    <3> QED BY <1>1, <1>7, <3>1, <3>2, <3>3, HeapFreed
  <2>2. CASE ~Last(h)
    <3>1. Empty \in Variants /\ heap' = Free(heap, Empty) /\ \A b : ~Points(Empty, b)
      BY <1>1, <2>2, EmptyFacts DEF Free, HeapWithout
    <3> QED BY <1>1, <1>7, <3>1, HeapFreed
  <2> QED BY <2>1, <2>2
<1>9. TypeOK'
  BY <1>1, <1>6, <1>7, <1>8 DEF TypeOK, Heaps
<1>10. FaultInv'
  BY <1>1 DEF FaultInv
<1> QED BY <1>5, <1>7, <1>8, <1>9, <1>10

\* operator=: the counter of h loses a handle and that of g, which is not deleted by
\* it, gets one.
LEMMA AssignStep ==
  ASSUME HandlesInv, fault = "none", NEW h \in Handles, NEW g \in Handles, Assign(h, g)
  PROVE  HandlesInv'
<1>1. CASE /\ Declared(h) /\ Declared(g)
           /\ Released(h)[variable[g].m_count] = 0 /\ Undefined("counter")
  <2>1. TypeOK /\ CountInv
    BY DEF HandlesInv
  <2>2. variable[h].m_count \in Counters /\ variable[g].m_count \in Counters
    BY <1>1, <2>1, StateTyped
  <2>3. counts \in [Counters -> 0..Cardinality(Handles)] /\ Cardinality(Handles) \in Nat
    BY <2>1, HandlesAssumption, FS_CardinalityType DEF TypeOK
  <2>4. counts[variable[h].m_count] >= 1 /\ counts[variable[g].m_count] >= 1
    BY <1>1, <2>1, CounterInUse
  <2>5. Last(h)
    BY <1>1, <2>2, <2>3, <2>4 DEF Released, Last
  <2>6. (Declared(h) /\ Last(h))'
    BY <1>1, <2>5 DEF Undefined, Declared, Last
  <2>7. FaultInv'
    BY <1>1, <2>6 DEF Undefined, FaultInv
  <2>8. TypeOK'
    BY <1>1, <2>1 DEF Undefined, TypeOK
  <2>9. CountInv' /\ RootsApart' /\ BlocksInv' /\ ElementsInv'
    BY <1>1 DEF Undefined, HandlesInv, CountInv, HandlesOn, RootsApart, Agree, HandlesApart,
         VariablesApart, KindsApart, Value, BlocksInv, Roots, ElementsInv
  <2> QED BY <2>7, <2>8, <2>9 DEF HandlesInv
<1>2. CASE ~(Released(h)[variable[g].m_count] = 0 /\ Undefined("counter"))
  <2> USE DEF HandlesInv
  <2>1. PICK w : w = variable[g]
    OBVIOUS
  <2>2. /\ Declared(h) /\ Declared(g) /\ Released(h)[variable[g].m_count] > 0
        /\ counts' = [Released(h) EXCEPT ![variable[g].m_count] = @ + 1]
        /\ heap' = HeapWithout(h) /\ variable' = [variable EXCEPT ![h] = w]
        /\ cvariable' = cvariable /\ fault' = fault /\ shared' = shared
    BY <1>2, <2>1 DEF Assign
  <2>3. variable[h].m_count \in Counters /\ variable[g].m_count \in Counters
    BY <2>2, StateTyped
  <2>4. counts \in [Counters -> 0..Cardinality(Handles)] /\ Cardinality(Handles) \in Nat
    BY HandlesAssumption, FS_CardinalityType DEF TypeOK
  <2>5. \A n \in Counters :
          counts'[n] = (counts[n] - IF variable[h].m_count = n THEN 1 ELSE 0)
                       + IF w.m_count = n THEN 1 ELSE 0
    BY <2>1, <2>2, <2>3, <2>4 DEF Released
  <2>6. CountInv' /\ \A n \in Counters : counts'[n] \in 0..Cardinality(Handles)
    <3>1. TypeOK /\ CountInv /\ variable' = [variable EXCEPT ![h] = w] BY <2>2
    <3> HIDE DEF HandlesInv
    <3> QED BY <2>5, <3>1, CountStep
  <2>7. counts' \in [Counters -> 0..Cardinality(Handles)]
    <3>1. DOMAIN counts' = Counters /\ counts' = [n \in Counters |-> counts'[n]]
      BY <2>2, <2>4 DEF Released
    <3> QED BY <2>6, <3>1
  <2>8. /\ variable' \in [Handles -> {None} \cup [m_count: Counters, m_v: Variants]]
        /\ \A f \in Handles : variable'[f] = IF f = h THEN w ELSE variable[f]
        /\ RootsApart' /\ Roots' \subseteq Roots \cup {Empty}
    BY <2>1, <2>2, RootsKept
  <2>9. BlocksInv' /\ ElementsInv' /\ heap' \in Heaps
    <3>1. CASE Last(h)
      <4>1. heap' = Free(heap, Value(h)) /\ Value(h) \in Variants
        BY <2>2, <3>1, StateTyped DEF HeapWithout
      <4>2. g # h
        BY <2>2, <2>3, <2>4, <3>1 DEF Released, Last
      <4>3. ASSUME NEW b \in Blocks, Points(Value(h), b)
            PROVE  ~Inside(heap, b) /\ \A r \in Roots' : ~Points(r, b)
        <5>1. /\ ~Inside(heap, b) /\ \A f \in Handles : f # h => ~Points(Value(f), b)
              /\ \A x \in CVariables : ~Points(cvariable[x], b)
          BY <2>2, <3>1, <4>3, LastOwner
        <5> QED BY <2>1, <2>2, <2>8, <4>2, <5>1 DEF Roots, Value
      <4>4. PICK v \in Variants : v = Value(h)
        BY <4>1
      <4> QED BY <2>2, <2>8, <4>1, <4>3, <4>4, HeapFreed
    <3>2. CASE ~Last(h)
      <4>1. Empty \in Variants /\ heap' = Free(heap, Empty) /\ \A b : ~Points(Empty, b)
        BY <2>2, <3>2, EmptyFacts DEF Free, HeapWithout
      <4> QED BY <2>2, <2>8, <4>1, HeapFreed
    <3> QED BY <3>1, <3>2
  <2>10. TypeOK'
    BY <2>2, <2>7, <2>8, <2>9 DEF TypeOK, Heaps
  <2>11. FaultInv'
    BY <2>2 DEF FaultInv
  <2> QED BY <2>6, <2>8, <2>9, <2>10, <2>11
<1> QED BY <1>1, <1>2 DEF Assign

\* Storage that was freed is used only after a shared copy.
LEMMA StorageStep ==
  ASSUME HandlesInv, shared, Undefined("storage")
  PROVE  HandlesInv'
<1>1. TypeOK' /\ FaultInv'
  BY DEF HandlesInv, Undefined, TypeOK, FaultInv
<1>2. CountInv' /\ RootsApart' /\ BlocksInv' /\ ElementsInv'
  BY DEF Undefined, HandlesInv, CountInv, HandlesOn, RootsApart, Agree, HandlesApart,
       VariablesApart, KindsApart, Value, BlocksInv, Roots, ElementsInv
<1> QED BY <1>1, <1>2 DEF HandlesInv

\* An element of the matrix of a handle, or Empty beyond its bounds.
LEMMA ElementFacts ==
  ASSUME HandlesInv, NEW h \in Handles, Value(h).m_type = "matrix", NEW c
  PROVE  LET old == Element(heap, Value(h), c)
             a == Value(h).m_v
         IN  /\ a \in Blocks /\ Points(Value(h), a) /\ heap[a].m_live
             /\ c \in Cells => /\ <<a, c>> \in Elements(heap)
                               /\ old = Content(heap, <<a, c>>) /\ old = heap[a].m_values[c]
             /\ c \notin Cells => old = Empty
             /\ old \in Variants /\ Plain(heap, old) /\ (~Usable(heap, old) => shared)
<1> DEFINE old == Element(heap, Value(h), c)
           a == Value(h).m_v
<1>1. heap \in Heaps /\ Value(h) \in Variants /\ Value(h) \in Roots
  BY StateTyped DEF HandlesInv, Roots
<1>2. Owning(Value(h)) /\ a \in Blocks /\ Points(Value(h), a)
  BY <1>1, PointsTyped DEF Owning
<1>3. heap[a].m_live
  BY <1>1, <1>2 DEF HandlesInv, BlocksInv, Usable
<1>4. CASE c \in Cells
  <2>1. <<a, c>> \in Elements(heap) /\ Content(heap, <<a, c>>) = heap[a].m_values[c]
    BY <1>1, <1>2, <1>3, <1>4, ElementOf
  <2>2. old = Content(heap, <<a, c>>)
    BY <1>4, <2>1 DEF Element
  <2>3. old \in Variants
    BY <1>1, <2>1, <2>2, ContentTyped
  <2>4. Plain(heap, old) /\ (~Usable(heap, old) => shared)
    BY <2>1, <2>2 DEF HandlesInv, BlocksInv, ElementsInv
  <2> QED BY <1>2, <1>3, <1>4, <2>1, <2>2, <2>3, <2>4
<1>5. CASE c \notin Cells
  <2>1. old = Empty
    BY <1>5 DEF Element
  <2> QED BY <1>2, <1>3, <1>5, <2>1, EmptyFacts
<1> QED BY <1>4, <1>5

\* A number, an empty variant or a function has no block.
LEMMA NumberStep ==
  ASSUME HandlesInv, fault = "none", NEW h \in Handles, NewNumber(h)
  PROVE  HandlesInv'
<1>1. PICK v \in {Empty, Number, Function} : Construct(h, v)
  BY DEF NewNumber
<1>2. v \in Variants /\ \A b : ~Points(v, b)
  BY EmptyFacts
<1>3. ~Declared(h) /\ UNCHANGED <<cvariable, heap, fault, shared>>
  BY DEF NewNumber
<1>4. heap \in Heaps /\ shared \in BOOLEAN
  BY StateTyped DEF HandlesInv, TypeOK
<1>5. Grown(v)
  BY <1>2, <1>3, <1>4 DEF Grown
<1> QED BY <1>1, <1>2, <1>3, <1>4, <1>5, ConstructStep

\* A string or a matrix has a new block.
LEMMA BlockStep ==
  ASSUME HandlesInv, fault = "none", NEW h \in Handles, NEW type \in {"string", "matrix"},
         NEW text \in Texts \cup {""}, NewBlock(h, type, text)
  PROVE  HandlesInv'
<1>1. PICK w : w = [m_type |-> type, m_v |-> Malloc(heap)]
  OBVIOUS
<1>2. /\ ~Declared(h) /\ Available(heap) # {} /\ Construct(h, w)
      /\ heap' = [heap EXCEPT ![Malloc(heap)] = Block(text)]
      /\ UNCHANGED <<cvariable, fault, shared>>
  BY <1>1 DEF NewBlock
<1>3. PICK m \in Blocks : m = Malloc(heap) /\ m \in Available(heap)
  BY <1>2, MallocAvailable DEF Available
<1>4. w \in Variants /\ \A b : Points(w, b) <=> b = m
  BY <1>1, <1>3 DEF Variants, Points, Owning
<1>5. heap \in Heaps /\ shared \in BOOLEAN
  BY StateTyped DEF HandlesInv, TypeOK
<1>6. /\ Block(text) \in [m_live: BOOLEAN, m_s: Texts \cup {""}, m_values: [Cells -> Variants]]
      /\ Block(text).m_live /\ \A c \in Cells : Block(text).m_values[c] = Empty
  BY EmptyFacts DEF Block
<1>7. heap' \in Heaps /\ \A b \in Blocks : heap'[b] = IF b = m THEN Block(text) ELSE heap[b]
  BY <1>2, <1>3, <1>5, <1>6 DEF Heaps
<1>8. Grown(w)
  BY <1>3, <1>4, <1>6, <1>7, EmptyFacts DEF Grown
<1> QED BY <1>2, <1>4, <1>5, <1>8, ConstructStep

\* A copy has a block of its own.
LEMMA CopyGrown ==
  ASSUME TypeOK, NEW v \in Variants, Usable(heap, v), Copyable(heap, v), Plain(heap, v),
         heap' = CopyBlock(heap, v), shared' = (shared \/ OwnsBlocks(heap, v)),
         NEW w, w = CopyValue(heap, v)
  PROVE  w \in Variants /\ Grown(w) /\ shared' \in BOOLEAN /\ (shared => shared')
<1>1. heap \in Heaps /\ shared \in BOOLEAN
  BY StateTyped DEF TypeOK
<1>2. OwnsBlocks(heap, v) \in BOOLEAN
  BY DEF OwnsBlocks
<1>3. /\ heap' \in Heaps /\ w \in Variants /\ w.m_type = v.m_type
      /\ \A b : Points(w, b) => b \in Available(heap)
      /\ \A b \in Blocks : Points(w, b)
           => Owning(v) /\ v.m_v \in Blocks /\ heap[v.m_v].m_live /\ heap'[b] = heap[v.m_v]
      /\ \A b \in Blocks : ~Points(w, b) => heap'[b] = heap[b]
      /\ \A b \in Blocks : heap'[b].m_live <=> heap[b].m_live \/ Points(w, b)
  BY <1>1, CopyFacts
<1>4. ASSUME NEW b \in Blocks, NEW c \in Cells, Points(w, b), Owning(heap'[b].m_values[c])
      PROVE  /\ shared' /\ w.m_type = "matrix"
             /\ \E e \in Elements(heap) : Content(heap, e) = heap'[b].m_values[c]
  <2>1. Owning(v) /\ v.m_v \in Blocks /\ heap[v.m_v].m_live /\ heap'[b] = heap[v.m_v]
    BY <1>3, <1>4
  <2>2. v.m_type = "matrix"
    BY <1>4, <2>1 DEF Plain, Owning
  <2>3. OwnsBlocks(heap, v)
    BY <1>4, <2>1, <2>2 DEF OwnsBlocks
  <2>4. /\ <<v.m_v, c>> \in Elements(heap)
        /\ Content(heap, <<v.m_v, c>>) = heap[v.m_v].m_values[c]
    BY <1>1, <2>1, ElementOf
  <2> QED BY <1>3, <2>1, <2>2, <2>3, <2>4
<1>5. Grown(w)
  BY <1>3, <1>4 DEF Grown
<1> QED BY <1>1, <1>2, <1>3, <1>5

\* The constructor from a C variant.
LEMMA CopyStep ==
  ASSUME HandlesInv, fault = "none", NEW h \in Handles, NEW v \in Variants, Plain(heap, v),
         ConstructCopy(h, v)
  PROVE  HandlesInv'
<1>1. PICK w : w = CopyValue(heap, v)
  OBVIOUS
<1>2. /\ ~Declared(h) /\ Usable(heap, v) /\ Copyable(heap, v) /\ Construct(h, w)
      /\ heap' = CopyBlock(heap, v) /\ shared' = (shared \/ OwnsBlocks(heap, v))
      /\ cvariable' = cvariable /\ fault' = fault
  BY <1>1 DEF ConstructCopy
<1>3. w \in Variants /\ Grown(w) /\ shared' \in BOOLEAN /\ (shared => shared')
  BY <1>1, <1>2, CopyGrown DEF HandlesInv
<1> QED BY <1>2, <1>3, ConstructStep

\* to_c: a copy, for a C variable.
LEMMA ToCStep ==
  ASSUME HandlesInv, fault = "none", NEW x \in CVariables, NEW h \in Handles, ToC(x, h)
  PROVE  HandlesInv'
<1> USE DEF HandlesInv
<1>1. PICK v \in Variants : v = Value(h) /\ Plain(heap, v) /\ Usable(heap, v)
  BY StateTyped DEF Roots, BlocksInv
<1>2. PICK w : w = CopyValue(heap, v)
  OBVIOUS
<1>3. /\ Copyable(heap, v) /\ cvariable' = [cvariable EXCEPT ![x] = w]
      /\ heap' = CopyBlock(heap, v) /\ shared' = (shared \/ OwnsBlocks(heap, v))
      /\ variable' = variable /\ counts' = counts /\ fault' = fault
  BY <1>1, <1>2 DEF ToC
<1>4. w \in Variants /\ Grown(w) /\ shared' \in BOOLEAN /\ (shared => shared')
  BY <1>1, <1>2, <1>3, CopyGrown
<1>5. /\ cvariable' \in [CVariables -> Variants]
      /\ \A y \in CVariables : cvariable'[y] = IF y = x THEN w ELSE cvariable[y]
  BY <1>3, <1>4 DEF TypeOK
<1>6. \A b \in Blocks : Points(w, b) =>
        /\ \A g \in Handles : ~Points(Value(g), b)
        /\ \A y \in CVariables : ~Points(cvariable[y], b)
  BY <1>4, AvailableFacts DEF Grown, Roots
<1>7. \A g \in Handles : Value(g)' = Value(g)
  BY <1>3 DEF Value
<1>8. Roots' \subseteq Roots \cup {w, Empty}
  BY <1>5, <1>7 DEF Roots
<1>9. BlocksInv' /\ ElementsInv'
  BY <1>4, <1>8, HeapGrown
<1>10. RootsApart'
  <2>1. Agree' /\ HandlesApart'
    BY <1>3 DEF RootsApart, Agree, HandlesApart, Value
  <2>2. VariablesApart'
    BY <1>5, <1>6 DEF RootsApart, VariablesApart
  <2>3. KindsApart'
    BY <1>5, <1>6, <1>7 DEF RootsApart, KindsApart
  <2> QED BY <2>1, <2>2, <2>3 DEF RootsApart
<1>11. CountInv' /\ FaultInv'
  BY <1>3 DEF CountInv, HandlesOn, FaultInv
<1>12. TypeOK'
  <2>1. heap' \in Heaps BY <1>4 DEF Grown
  <2> QED BY <1>3, <1>4, <1>5, <2>1 DEF TypeOK, Heaps
<1> QED BY <1>9, <1>10, <1>11, <1>12

\* variant_free of a C variable, whose block is nobody else's.
LEMMA FreeCStep ==
  ASSUME HandlesInv, fault = "none", NEW x \in CVariables, FreeC(x)
  PROVE  HandlesInv'
<1> USE DEF HandlesInv
<1>1. PICK v \in Variants : v = cvariable[x]
  BY StateTyped
<1>2. /\ heap' = Free(heap, v) /\ cvariable' = [cvariable EXCEPT ![x] = Empty]
      /\ variable' = variable /\ counts' = counts /\ fault' = fault /\ shared' = shared
  BY <1>1 DEF FreeC
<1>3. Empty \in Variants /\ \A b : ~Points(Empty, b)
  BY EmptyFacts
<1>4. /\ cvariable' \in [CVariables -> Variants]
      /\ \A y \in CVariables : cvariable'[y] = IF y = x THEN Empty ELSE cvariable[y]
  BY <1>2, <1>3 DEF TypeOK
<1>5. \A g \in Handles : Value(g)' = Value(g)
  BY <1>2 DEF Value
<1>6. Roots' \subseteq Roots \cup {Empty}
  BY <1>4, <1>5 DEF Roots
<1>7. ASSUME NEW b \in Blocks, Points(v, b)
      PROVE  ~Inside(heap, b) /\ \A r \in Roots' : ~Points(r, b)
  <2>1. ~Inside(heap, b)
    BY <1>1, <1>7 DEF BlocksInv, Roots
  <2>2. \A g \in Handles : ~Points(Value(g), b)
    BY <1>1, <1>7 DEF RootsApart, KindsApart
  <2>3. \A y \in CVariables : y # x => ~Points(cvariable[y], b)
    BY <1>1, <1>7 DEF RootsApart, VariablesApart
  <2> QED BY <1>3, <1>4, <1>5, <2>1, <2>2, <2>3 DEF Roots
<1>8. BlocksInv' /\ ElementsInv' /\ heap' \in Heaps
  BY <1>2, <1>6, <1>7, HeapFreed
<1>9. RootsApart'
  <2>1. Agree' /\ HandlesApart'
    BY <1>2 DEF RootsApart, Agree, HandlesApart, Value
  <2>2. VariablesApart'
    BY <1>3, <1>4 DEF RootsApart, VariablesApart
  <2>3. KindsApart'
    BY <1>3, <1>4, <1>5 DEF RootsApart, KindsApart
  <2> QED BY <2>1, <2>2, <2>3 DEF RootsApart
<1>10. CountInv' /\ FaultInv'
  BY <1>2 DEF CountInv, HandlesOn, FaultInv
<1>11. TypeOK'
  BY <1>2, <1>4, <1>8 DEF TypeOK, Heaps
<1> QED BY <1>8, <1>9, <1>10, <1>11

\* set(): the block of the element that goes is of no root, that of the element that
\* comes is new, and the block of the matrix itself, its elements apart, stays.
LEMMA SetStep ==
  ASSUME HandlesInv, fault = "none", NEW h \in Handles, NEW g \in Handles, NEW c,
         Set(h, c, g), ~Undefined("storage")
  PROVE  HandlesInv'
<1> USE DEF HandlesInv
<1>1. PICK m, v \in Variants, old \in Variants :
        /\ m = Value(h) /\ v = Value(g) /\ old = Element(heap, m, c)
        /\ m.m_type = "matrix" /\ Plain(heap, old)
  BY StateTyped, ElementFacts DEF Set
<1>2. PICK a \in Blocks :
        /\ a = m.m_v /\ Points(m, a) /\ heap[a].m_live
        /\ c \in Cells => <<a, c>> \in Elements(heap) /\ old = Content(heap, <<a, c>>)
        /\ c \notin Cells => old = Empty
  BY <1>1, ElementFacts
<1>3. PICK rest : rest = Free(heap, old)
  OBVIOUS
<1>4. PICK mid, w : mid = CopyBlock(rest, v) /\ w = CopyValue(rest, v)
  OBVIOUS
<1>5. /\ Usable(heap, old) /\ Copyable(rest, v) /\ heap' = PutElement(mid, m, c, w)
      /\ shared' = (shared \/ OwnsBlocks(rest, v))
      /\ variable' = variable /\ cvariable' = cvariable /\ counts' = counts /\ fault' = fault
  BY <1>1, <1>3, <1>4 DEF Set
<1>6. heap \in Heaps /\ m \in Roots /\ v \in Roots /\ \A r \in Roots : r \in Variants
  BY <1>1, StateTyped DEF Roots
<1>7. /\ rest \in Heaps
      /\ \A b \in Blocks : rest[b].m_live <=> heap[b].m_live /\ ~Points(old, b)
      /\ \A b \in Blocks : ~Points(old, b) => rest[b] = heap[b]
      /\ \A b \in Blocks, d \in Cells : Points(old, b) => rest[b].m_values[d] = Empty
  BY SMTT(30), <1>3, <1>6, FreeFacts
<1>8. \A b \in Blocks : Points(old, b) => c \in Cells /\ Inside(heap, b)
  BY <1>2, EmptyFacts DEF Inside
<1>9. \A b \in Blocks, r \in Roots : Points(r, b) => ~Points(old, b)
  BY <1>8 DEF BlocksInv
<1>10. rest[a] = heap[a] /\ ~Points(old, a)
  BY <1>2, <1>6, <1>7, <1>9
<1>11. ASSUME NEW e \in Elements(rest)
       PROVE  e \in Elements(heap) /\ Content(rest, e) = Content(heap, e)
  <2>1. /\ e[1] \in Blocks /\ e[2] \in Cells /\ e = <<e[1], e[2]>> /\ rest[e[1]].m_live
        /\ Content(rest, e) = rest[e[1]].m_values[e[2]]
    BY <1>7, ContentTyped
  <2>2. rest[e[1]] = heap[e[1]] /\ heap[e[1]].m_live BY <1>7, <2>1
  <2> QED BY <1>6, <2>1, <2>2, ElementOf
<1>12. \A b : Inside(rest, b) => Inside(heap, b)
  BY <1>11 DEF Inside
<1>13. Usable(rest, v) /\ Plain(rest, v)
  <2>1. Usable(heap, v) /\ Plain(heap, v) BY <1>6 DEF BlocksInv
  <2>2. \A b \in Blocks : Points(v, b) => rest[b] = heap[b] BY <1>6, <1>7, <1>9
  <2>3. Plain(rest, v) BY <2>1, <2>2, PlainKept
  <2> QED BY <2>1, <2>2, <2>3, PointsTyped DEF Usable
<1>14. /\ mid \in Heaps /\ w \in Variants /\ w.m_type = v.m_type
       /\ \A b : Points(w, b) => b \in Available(rest)
       /\ \A b \in Blocks : Points(w, b)
            => Owning(v) /\ v.m_v \in Blocks /\ rest[v.m_v].m_live /\ mid[b] = rest[v.m_v]
       /\ \A b \in Blocks : ~Points(w, b) => mid[b] = rest[b]
       /\ \A b \in Blocks : mid[b].m_live <=> rest[b].m_live \/ Points(w, b)
  BY <1>4, <1>5, <1>7, <1>13, CopyFacts
<1>15. \A b \in Blocks : Points(w, b) =>
         /\ ~rest[b].m_live /\ ~Inside(rest, b) /\ \A r \in Roots : ~Points(r, b)
  BY <1>14, AvailableFacts
<1>16. ~Points(w, a) /\ mid[a] = heap[a]
  BY <1>2, <1>6, <1>10, <1>14, <1>15
<1>17. /\ heap' \in Heaps
       /\ \A b \in Blocks : b # a => heap'[b] = mid[b]
       /\ heap'[a].m_live
       /\ \A d \in Cells : heap'[a].m_values[d] = IF d = c THEN w ELSE heap[a].m_values[d]
  <2>1. CASE c \in Cells
    <3>1. heap' = [mid EXCEPT ![a].m_values[c] = w]
      BY <1>2, <1>5, <2>1 DEF PutElement
    <3>2. mid \in [Blocks -> [m_live: BOOLEAN, m_s: Texts \cup {""},
                              m_values: [Cells -> Variants]]]
      BY <1>14 DEF Heaps
    <3>3. mid[a] \in [m_live: BOOLEAN, m_s: Texts \cup {""}, m_values: [Cells -> Variants]]
      BY <3>2
    <3>4. [mid[a] EXCEPT !.m_values[c] = w]
             \in [m_live: BOOLEAN, m_s: Texts \cup {""}, m_values: [Cells -> Variants]]
      BY <1>14, <2>1, <3>3
    <3>5. heap' = [mid EXCEPT ![a] = [mid[a] EXCEPT !.m_values[c] = w]]
      BY <3>1
    <3>6. heap' \in Heaps
      BY <3>2, <3>4, <3>5 DEF Heaps
    <3>7. heap'[a] = [mid[a] EXCEPT !.m_values[c] = w]
      BY <3>2, <3>5
    <3>8. /\ heap'[a].m_live = mid[a].m_live
          /\ \A d \in Cells : heap'[a].m_values[d] = IF d = c THEN w ELSE mid[a].m_values[d]
      BY <2>1, <3>3, <3>7
    <3> QED BY <1>2, <1>16, <3>2, <3>5, <3>6, <3>8
  <2>2. CASE c \notin Cells
    <3>1. heap' = mid BY <1>5, <2>2 DEF PutElement
    <3> QED BY <1>2, <1>14, <1>16, <2>2, <3>1
  <2> QED BY <2>1, <2>2
<1> DEFINE new == heap'
           Put(f) == f = <<a, c>> /\ Content(new, f) = w
           Old(f) == /\ f \in Elements(rest) /\ Content(rest, f) = Content(new, f)
                     /\ ~Points(w, f[1]) /\ (c \in Cells => f # <<a, c>>)
           Copied(f) == /\ Points(w, f[1])
                        /\ Owning(Content(new, f)) =>
                             /\ shared'
                             /\ \E e \in Elements(rest) : Content(rest, e) = Content(new, f)
\* The elements after the step: that which was set, those that were there, and those
\* that were copied.
<1>18. ASSUME NEW f \in Elements(new)
       PROVE  Put(f) \/ Old(f) \/ Copied(f)
  <2>1. /\ f[1] \in Blocks /\ f[2] \in Cells /\ f = <<f[1], f[2]>> /\ new[f[1]].m_live
        /\ Content(new, f) = new[f[1]].m_values[f[2]]
    BY <1>17, ContentTyped
  <2>2. CASE f[1] = a
    <3>1. CASE f[2] = c BY <1>17, <2>1, <2>2, <3>1
    <3>2. CASE f[2] # c
      <4>1. rest[a].m_live BY <1>2, <1>10
      <4>2. f \in Elements(rest) /\ Content(rest, f) = rest[a].m_values[f[2]]
        BY <1>7, <2>1, <2>2, <4>1, ElementOf
      <4>3. Content(new, f) = Content(rest, f)
        BY <1>10, <1>17, <2>1, <2>2, <3>2, <4>2
      <4>4. f # <<a, c>> BY <2>1, <3>2
      <4> QED BY <1>16, <2>2, <4>2, <4>3, <4>4
    <3> QED BY <3>1, <3>2
  <2>3. CASE f[1] # a /\ ~Points(w, f[1])
    <3>1. new[f[1]] = rest[f[1]] BY <1>14, <1>17, <2>1, <2>3
    <3>2. f \in Elements(rest) /\ Content(rest, f) = rest[f[1]].m_values[f[2]]
      BY <1>7, <2>1, <3>1, ElementOf
    <3>3. f # <<a, c>> BY <2>1, <2>3
    <3> QED BY <2>1, <2>3, <3>1, <3>2, <3>3
  <2>4. CASE f[1] # a /\ Points(w, f[1])
    <3>1. /\ new[f[1]] = rest[v.m_v] /\ Owning(v) /\ v.m_v \in Blocks /\ rest[v.m_v].m_live
      BY <1>14, <1>17, <2>1, <2>4
    <3>2. /\ <<v.m_v, f[2]>> \in Elements(rest)
          /\ Content(rest, <<v.m_v, f[2]>>) = Content(new, f)
          /\ Content(new, f) = rest[v.m_v].m_values[f[2]]
      BY <1>7, <2>1, <3>1, ElementOf
    <3>3. ASSUME Owning(Content(new, f)) PROVE shared'
      <4>1. v.m_type = "matrix" BY <1>13, <2>1, <3>1, <3>2, <3>3 DEF Plain, Owning
      <4>2. OwnsBlocks(rest, v) BY <2>1, <3>2, <3>3, <4>1 DEF OwnsBlocks
      <4> QED BY <1>5, <4>2
    <3> QED BY <2>4, <3>2, <3>3
  <2> QED BY <2>2, <2>3, <2>4
<1>19. ASSUME NEW f \in Elements(new), Owning(Content(new, f)), Content(new, f) # w
       PROVE  \E e \in Elements(rest) : Content(rest, e) = Content(new, f)
  BY <1>18, <1>19
<1>20. ASSUME NEW b, Inside(new, b) PROVE Points(w, b) \/ Inside(rest, b)
  <2>1. PICK f \in Elements(new) : Points(Content(new, f), b)
    BY <1>20 DEF Inside
  <2>2. Owning(Content(new, f)) BY <2>1 DEF Points
  <2>3. CASE Content(new, f) = w BY <2>1, <2>3
  <2>4. CASE Content(new, f) # w
    <3>1. PICK e \in Elements(rest) : Content(rest, e) = Content(new, f)
      BY <1>19, <2>2, <2>4
    <3> QED BY <2>1, <3>1 DEF Inside
  <2> QED BY <2>3, <2>4
<1>21. \A b \in Blocks : ~Points(w, b) /\ b # a => new[b] = rest[b]
  BY <1>14, <1>17
<1>22. Roots' = Roots
  BY <1>5 DEF Roots, Value
\* Only the handles of the matrix itself point to its block.
<1>23. ASSUME NEW r \in Roots, Points(r, a) PROVE r = m
  <2>1. CASE \E f \in Handles : r = Value(f)
    BY <1>1, <1>2, <1>23, <2>1 DEF RootsApart, HandlesApart, Agree
  <2>2. CASE \E x \in CVariables : r = cvariable[x]
    BY <1>1, <1>2, <1>23, <2>2 DEF RootsApart, KindsApart
  <2> QED BY <2>1, <2>2 DEF Roots
<1>24. ASSUME NEW r \in Roots
       PROVE  /\ Usable(new, r) /\ Plain(new, r)
              /\ \A b \in Blocks : Points(r, b) => ~Inside(new, b)
  <2>1. r \in Variants /\ Usable(heap, r) /\ Plain(heap, r) BY <1>6 DEF BlocksInv
  <2>2. \A b \in Blocks : Points(r, b) /\ b # a => new[b] = heap[b]
    BY <1>7, <1>9, <1>15, <1>21
  <2>3. Usable(new, r)
    BY <1>17, <2>1, <2>2, PointsTyped DEF Usable
  <2>4. Plain(new, r)
    <3>1. CASE r = m BY <1>1, <3>1 DEF Plain
    <3>2. CASE r # m
      <4>1. \A b \in Blocks : Points(r, b) => new[b] = heap[b] BY <1>23, <2>2, <3>2
      <4> QED BY <2>1, <4>1, PlainKept
    <3> QED BY <3>1, <3>2
  <2>5. \A b \in Blocks : Points(r, b) => ~Inside(new, b)
    BY <1>12, <1>15, <1>20 DEF BlocksInv
  <2> QED BY <2>3, <2>4, <2>5
<1>25. ASSUME NEW f \in Elements(new) PROVE Plain(new, Content(new, f))
  <2>1. CASE ~Owning(Content(new, f))
    BY <2>1 DEF Owning, Plain
  <2>2. CASE Content(new, f) = w
    <3> SUFFICES ASSUME w.m_type = "string" PROVE Plain(new, w)
      BY <2>2 DEF Plain
    <3>1. w.m_v \in Blocks /\ Points(w, w.m_v) BY <1>14, PointsTyped DEF Owning
    <3>2. new[w.m_v] = rest[v.m_v] BY <1>14, <1>16, <1>17, <3>1
    <3> QED BY <1>13, <1>14, <3>2 DEF Plain
  <2>3. CASE Owning(Content(new, f)) /\ Content(new, f) # w
    <3>1. PICK e \in Elements(rest) : Content(rest, e) = Content(new, f)
      BY <1>19, <2>3
    <3>2. e \in Elements(heap) /\ Content(heap, e) = Content(new, f) BY <1>11, <3>1
    <3>3. Content(heap, e) \in Variants BY <1>6, <3>2, ContentTyped
    <3>4. Plain(rest, Content(heap, e))
      <4>1. Plain(heap, Content(heap, e)) BY <3>2 DEF BlocksInv
      <4> SUFFICES ASSUME Content(heap, e).m_type = "string"
                   PROVE  Plain(rest, Content(heap, e))
        BY DEF Plain
      <4>2. Content(heap, e).m_v \in Blocks BY <3>3, PointsTyped DEF Owning
      <4> QED BY <1>7, <4>1, <4>2, EmptyFacts DEF Plain
    <3>5. \A b \in Blocks : Points(Content(heap, e), b) => new[b] = rest[b]
      <4> SUFFICES ASSUME NEW b \in Blocks, Points(Content(heap, e), b)
                   PROVE  new[b] = rest[b]
        OBVIOUS
      <4>1. Inside(rest, b) BY <3>1, <3>2 DEF Inside
      <4>2. ~Points(w, b) BY <1>15, <4>1
      <4>3. b # a BY <1>2, <1>6, <1>12, <4>1 DEF BlocksInv
      <4> QED BY <1>21, <4>2, <4>3
    <3> QED BY <3>2, <3>3, <3>4, <3>5, PlainKept
  <2> QED BY <2>1, <2>2, <2>3
<1>26. ASSUME ~shared', NEW f \in Elements(new), NEW k \in Elements(new), NEW b \in Blocks,
              Points(Content(new, f), b), Points(Content(new, k), b)
       PROVE  new[b].m_live /\ f = k
  <2>1. Owning(Content(new, f)) /\ Owning(Content(new, k)) /\ ~shared
    BY <1>5, <1>26 DEF Points
  <2>2. (Put(f) \/ Old(f)) /\ (Put(k) \/ Old(k))
    BY <1>18, <1>26, <2>1
  <2>3. CASE Old(f) /\ Old(k)
    <3>1. /\ f \in Elements(heap) /\ Points(Content(heap, f), b)
          /\ k \in Elements(heap) /\ Points(Content(heap, k), b)
      BY <1>11, <1>26, <2>3
    <3>2. f = k BY <2>1, <3>1 DEF ElementsInv
    <3>3. Usable(heap, Content(heap, f)) BY <2>1, <3>1 DEF ElementsInv
    <3>4. heap[b].m_live BY <3>1, <3>3 DEF Usable, Points
    <3>5. ~Points(old, b) BY <1>2, <1>8, <2>1, <2>3, <3>1 DEF ElementsInv
    <3>6. Inside(rest, b) BY <1>26, <2>3 DEF Inside
    <3>7. ~Points(w, b) BY <1>15, <3>6
    <3>8. b # a BY <1>2, <1>6, <1>12, <3>6 DEF BlocksInv
    <3> QED BY <1>7, <1>21, <3>2, <3>4, <3>5, <3>7, <3>8
  <2>4. CASE Points(w, b)
    <3>1. ~Inside(rest, b) BY <1>15, <2>4
    <3>2. ~Old(f) /\ ~Old(k) BY <1>26, <3>1 DEF Inside
    <3>3. f = k BY <2>2, <3>2
    <3>4. b # a /\ mid[b].m_live BY <1>14, <1>16, <2>4
    <3> QED BY <1>17, <3>3, <3>4
  <2>5. Points(w, b) \/ (Old(f) /\ Old(k))
    BY <1>26, <2>2
  <2> QED BY <2>3, <2>4, <2>5
<1>27. BlocksInv'
  BY <1>22, <1>24, <1>25 DEF BlocksInv
<1>28. ElementsInv'
  <2>1. ASSUME ~shared', NEW f \in Elements(new) PROVE Usable(new, Content(new, f))
    <3> SUFFICES ASSUME Owning(Content(new, f)) PROVE Usable(new, Content(new, f))
      BY DEF Usable
    <3>1. Content(new, f) \in Variants BY <1>17, ContentTyped
    <3>2. Content(new, f).m_v \in Blocks /\ Points(Content(new, f), Content(new, f).m_v)
      BY <3>1, PointsTyped
    <3>3. new[Content(new, f).m_v].m_live BY <1>26, <2>1, <3>2
    <3> QED BY <3>3 DEF Usable
  <2>2. ASSUME ~shared', NEW f \in Elements(new), NEW k \in Elements(new), NEW b \in Blocks,
               Points(Content(new, f), b), Points(Content(new, k), b)
        PROVE  f = k
    BY <1>26, <2>2
  <2> QED BY <2>1, <2>2 DEF ElementsInv
<1>29. CountInv' /\ FaultInv' /\ RootsApart'
  BY <1>5 DEF CountInv, HandlesOn, FaultInv, RootsApart, Agree, HandlesApart, VariablesApart,
       KindsApart, Value
<1>30. TypeOK'
  <2>1. OwnsBlocks(rest, v) \in BOOLEAN BY DEF OwnsBlocks
  <2> QED BY <1>5, <1>17, <2>1 DEF TypeOK, Heaps
<1> QED BY <1>27, <1>28, <1>29, <1>30

\* The constructor of a text or an error, and operator+.
LEMMA TextStep ==
  ASSUME HandlesInv, fault = "none", NEW h \in Handles, NewText(h)
  PROVE  HandlesInv'
<1>1. PICK text \in Texts : NewBlock(h, "string", text)
  BY DEF NewText
<1> QED BY <1>1, BlockStep

\* get(): another handle, or a copy of an element.
LEMMA GetStep ==
  ASSUME HandlesInv, fault = "none", NEW h \in Handles, NEW g \in Handles, NEW c, Get(h, g, c)
  PROVE  HandlesInv'
<1>1. CASE CopyConstruct(h, g)
  BY <1>1, CopyConstructStep
<1>2. CASE Value(g).m_type = "matrix" /\ ConstructCopy(h, Element(heap, Value(g), c))
  <2>1. PICK e \in Variants : e = Element(heap, Value(g), c) /\ Plain(heap, e)
    BY <1>2, ElementFacts
  <2> QED BY <1>2, <2>1, CopyStep
<1>3. CASE /\ Value(g).m_type = "matrix" /\ ~Usable(heap, Element(heap, Value(g), c))
           /\ Undefined("storage")
  <2>1. shared BY <1>3, ElementFacts
  <2> QED BY <1>3, <2>1, StorageStep
<1> QED BY <1>1, <1>2, <1>3 DEF Get

\* call(): a number, a text or a copy of what the function was called with.
LEMMA CallStep ==
  ASSUME HandlesInv, fault = "none", NEW h \in Handles, NEW g \in Handles, NEW k \in Handles,
         Call(h, g, k)
  PROVE  HandlesInv'
<1>1. NewNumber(h) \/ NewText(h) \/ ConstructCopy(h, Value(k))
  BY DEF Call
<1>2. CASE ConstructCopy(h, Value(k))
  <2>1. PICK v \in Variants : v = Value(k) /\ Plain(heap, v)
    BY StateTyped DEF HandlesInv, BlocksInv, Roots
  <2> QED BY <1>2, <2>1, CopyStep
<1> QED BY <1>1, <1>2, NumberStep, TextStep

\* set(): the element is replaced, or its storage was freed.
LEMMA SetOrFault ==
  ASSUME HandlesInv, fault = "none", NEW h \in Handles, NEW g \in Handles, NEW c, Set(h, c, g)
  PROVE  HandlesInv'
<1>1. CASE Undefined("storage")
  <2>1. fault' = "storage" BY <1>1 DEF Undefined
  <2>2. CASE shared BY <1>1, <2>2, StorageStep
  <2>3. CASE ~shared
    <3>1. Usable(heap, Element(heap, Value(h), c)) BY <2>3, ElementFacts DEF Set
    <3> QED BY <2>1, <3>1 DEF Set
  <2> QED BY <2>2, <2>3
<1>2. CASE ~Undefined("storage")
  BY <1>2, SetStep
<1> QED BY <1>1, <1>2

\* Every step keeps the invariant.
LEMMA NextStep ==
  ASSUME HandlesInv, [Next]_vars
  PROVE  HandlesInv'
<1>1. CASE UNCHANGED vars
  <2>1. UNCHANGED <<variable, cvariable, counts, heap, fault, shared>>
    BY <1>1 DEF vars
  <2>2. TypeOK' /\ FaultInv'
    BY <2>1 DEF HandlesInv, TypeOK, FaultInv, Declared, Last
  <2>3. CountInv' /\ RootsApart'
    BY <2>1 DEF HandlesInv, CountInv, HandlesOn, RootsApart, Agree, HandlesApart,
         VariablesApart, KindsApart, Value
  <2>4. BlocksInv' /\ ElementsInv'
    BY <2>1 DEF HandlesInv, BlocksInv, Roots, Value, ElementsInv
  <2> QED BY <2>2, <2>3, <2>4 DEF HandlesInv
<1>2. CASE Next
  <2>1. fault = "none"
    BY <1>2 DEF Next
  <2>2. ASSUME NEW h \in Handles,
               NewNumber(h) \/ NewText(h) \/ NewMatrix(h) \/ Destroy(h)
        PROVE  HandlesInv'
    <3>1. CASE NewMatrix(h)
      BY <2>1, <3>1, BlockStep DEF NewMatrix
    <3> QED BY <2>1, <2>2, <3>1, NumberStep, TextStep, DestroyStep
  <2>3. ASSUME NEW h \in Handles, NEW g \in Handles, CopyConstruct(h, g) \/ Assign(h, g)
        PROVE  HandlesInv'
    BY <2>1, <2>3, CopyConstructStep, AssignStep
  <2>4. ASSUME NEW h \in Handles, NEW g \in Handles, NEW c \in 1..Size + 1,
               Get(h, g, c) \/ Set(h, c, g)
        PROVE  HandlesInv'
    BY <2>1, <2>4, GetStep, SetOrFault
  <2>5. ASSUME NEW h \in Handles, NEW g \in Handles, NEW k \in Handles,
               Add(h, g, k) \/ Call(h, g, k)
        PROVE  HandlesInv'
    BY <2>1, <2>5, TextStep, CallStep DEF Add
  <2>6. ASSUME NEW h \in Handles, NEW x \in CVariables, ToC(x, h) \/ FromC(h, x)
        PROVE  HandlesInv'
    <3>1. CASE FromC(h, x)
      <4>1. PICK v \in Variants : v = cvariable[x] /\ Plain(heap, v)
        BY StateTyped DEF HandlesInv, BlocksInv, Roots
      <4> QED BY <2>1, <3>1, <4>1, CopyStep DEF FromC
    <3> QED BY <2>1, <2>6, <3>1, ToCStep
  <2>7. ASSUME NEW x \in CVariables, FreeC(x) PROVE HandlesInv'
    BY <2>1, <2>7, FreeCStep
  <2> QED
    BY <1>2, <2>2, <2>3, <2>4, <2>5, <2>6, <2>7 DEF Next
<1> QED BY <1>1, <1>2

\* At first nothing is declared.
LEMMA InitStep ==
  ASSUME Init
  PROVE  HandlesInv
<1>1. Cardinality(Handles) \in Nat
  BY HandlesAssumption, FS_CardinalityType
<1>2. /\ Freed \in [m_live: BOOLEAN, m_s: Texts \cup {""}, m_values: [Cells -> Variants]]
      /\ ~Freed.m_live
  BY EmptyFacts DEF Freed, Block
<1>3. TypeOK
  <2>1. variable \in [Handles -> {None}] /\ cvariable \in [CVariables -> {Empty}]
    BY DEF Init
  <2>2. counts \in [Counters -> 0..Cardinality(Handles)]
    BY <1>1 DEF Init
  <2>3. heap \in Heaps
    BY <1>2 DEF Init, Heaps
  <2>4. Empty \in Variants
    BY EmptyFacts
  <2> HIDE DEF None
  <2>5. variable \in [Handles -> {None} \cup [m_count: Counters, m_v: Variants]]
    BY <2>1
  <2>6. cvariable \in [CVariables -> Variants]
    BY <2>1, <2>4
  <2> QED BY <2>2, <2>3, <2>5, <2>6 DEF Init, TypeOK, Heaps
<1>4. \A h \in Handles : variable[h] = None /\ None.m_count = 0 /\ Value(h) = Empty
  BY DEF Init, None, Value
<1>5. CountInv
  <2> SUFFICES ASSUME NEW n \in Counters PROVE counts[n] = Cardinality(HandlesOn(n))
    BY DEF CountInv
  <2>1. n # 0 /\ counts[n] = 0 BY DEF Counters, Init
  <2>2. HandlesOn(n) = {} BY <1>4, <2>1 DEF HandlesOn
  <2> QED BY <2>1, <2>2, FS_EmptySet
<1>6. \A r \in Roots : r = Empty
  BY <1>4 DEF Roots, Init
<1>7. RootsApart
  BY <1>4, EmptyFacts DEF RootsApart, Agree, HandlesApart, VariablesApart, KindsApart, Init
<1>8. Elements(heap) = {}
  BY <1>2 DEF Elements, Init
<1>9. BlocksInv /\ ElementsInv
  BY <1>6, <1>8, EmptyFacts DEF BlocksInv, ElementsInv, Inside
<1>10. FaultInv
  BY DEF FaultInv, Init
<1> QED BY <1>3, <1>5, <1>7, <1>9, <1>10 DEF HandlesInv

-----------------------------------------------------------------------------
(* Theorems                                                                *)

\* The invariant holds of every state that the program reaches.
THEOREM HandlesInvariance == Spec => []HandlesInv
<1>1. Init => HandlesInv
  BY InitStep
<1>2. HandlesInv /\ [Next]_vars => HandlesInv'
  BY NextStep
<1> QED BY <1>1, <1>2, PTL DEF Spec

\* Every counter is the number of handles on it, which have one value, and what a
\* handle or C variable owns is in use; a deleted counter is used only where a last
\* handle is assigned to itself.
THEOREM Counted == Spec => []CountsAreHandles
<1>1. HandlesInv => CountsAreHandles
  <2> SUFFICES ASSUME HandlesInv PROVE CountsAreHandles
    OBVIOUS
  <2>1. \A n \in Counters : \A h, g \in HandlesOn(n) : Value(h) = Value(g)
    BY DEF HandlesInv, RootsApart, Agree, HandlesOn
  <2>2. \A v \in {Value(h) : h \in Handles} \cup {cvariable[x] : x \in CVariables} :
          Usable(heap, v)
    BY DEF HandlesInv, BlocksInv, Roots
  <2> QED BY <2>1, <2>2 DEF HandlesInv, CountInv, FaultInv, CountsAreHandles
<1> QED BY <1>1, HandlesInvariance, PTL

\* A set without two elements has at most one.
LEMMA AtMostOneElement ==
  ASSUME NEW S, \A s, t \in S : s = t
  PROVE  Cardinality(S) <= 1
<1>1. CASE S = {}
  BY <1>1, FS_EmptySet
<1>2. CASE S # {}
  <2>1. PICK s \in S : TRUE BY <1>2
  <2>2. S = {s} BY <2>1
  <2>3. Cardinality({s}) = 1 BY FS_Singleton
  <2> QED BY <2>2, <2>3
<1> QED BY <1>1, <1>2

\* Short of a shared copy, a block has one owner at most and is in use as long as it
\* has one: no order of copies, assignments, sets, gets and destructions frees
\* storage twice or uses it after its end.
THEOREM OwnedByOne == Spec => []OwnedOnce
<1>1. HandlesInv => OwnedOnce
  <2> SUFFICES ASSUME HandlesInv, ~shared PROVE OwnedOnce
    BY DEF OwnedOnce
  <2> USE DEF HandlesInv
  <2>1. fault # "storage"
    BY DEF FaultInv
  <2>2. ASSUME NEW b \in Blocks
        PROVE  Cardinality(Owners(b)) <= 1 /\ (Owners(b) # {} => heap[b].m_live)
    <3> DEFINE C == {m \in Counters : \E h \in HandlesOn(m) : Points(Value(h), b)}
               V == {y \in CVariables : Points(cvariable[y], b)}
               E == {f \in Elements(heap) : Points(Content(heap, f), b)}
    <3>1. \A n, m \in C : n = m
      BY DEF HandlesOn, RootsApart, HandlesApart
    <3>2. \A x, y \in V : x = y
      BY DEF RootsApart, VariablesApart
    <3>3. \A e, f \in E : e = f
      BY DEF ElementsInv
    <3>4. \A n \in C, x \in V : FALSE
      BY DEF HandlesOn, RootsApart, KindsApart
    <3>5. \A n \in C, e \in E : FALSE
      BY DEF HandlesOn, BlocksInv, Roots, Inside
    <3>6. \A x \in V, e \in E : FALSE
      BY DEF BlocksInv, Roots, Inside
    <3>7. (C # {} \/ V # {} \/ E # {}) => heap[b].m_live
      <4>1. C # {} => heap[b].m_live
        BY DEF HandlesOn, BlocksInv, Roots, Usable, Points
      <4>2. V # {} => heap[b].m_live
        BY DEF BlocksInv, Roots, Usable, Points
      <4>3. E # {} => heap[b].m_live
        BY DEF ElementsInv, Usable, Points
      <4> QED BY <4>1, <4>2, <4>3
    <3>8. Owners(b) = {<<"counter", n>> : n \in C} \cup {<<"variable", x>> : x \in V}
                      \cup {<<"element", e>> : e \in E}
      BY DEF Owners
    <3> HIDE DEF C, V, E
    <3>9. \A s, t \in Owners(b) : s = t
      BY <3>1, <3>2, <3>3, <3>4, <3>5, <3>6, <3>8
    <3>10. Owners(b) # {} => C # {} \/ V # {} \/ E # {}
      BY <3>8
    <3> QED BY <3>7, <3>9, <3>10, AtMostOneElement
  <2> QED BY <2>1, <2>2 DEF OwnedOnce, NotShared
<1> QED BY <1>1, HandlesInvariance, PTL
-----------------------------------------------------------------------------
(* What the others show                                                    *)

\* The equation of show, up to a depth.
Shows(hp, f, n) == f = [k \in 0..n |-> [v \in Variants |-> Seen(hp, v, k > 0, f[k - 1])]]

\* What a variant shows down to a depth of 0 is what it shows without its elements.
LEMMA SeenShallow ==
  ASSUME NEW hp, NEW v, NEW p, NEW q
  PROVE  Seen(hp, v, FALSE, p) = Seen(hp, v, FALSE, q)
  BY DEF Seen

\* There is a function that shows each variant down to a given depth, by induction
\* on the depth.
LEMMA ShowsExists ==
  ASSUME NEW hp, NEW n \in Nat
  PROVE  \E f : Shows(hp, f, n)
<1> DEFINE R == {p \in Nat \X Nat : p[1] < p[2]}
           A == {k \in Nat : ~ \E f : Shows(hp, f, k)}
<1> SUFFICES ASSUME A # {} PROVE FALSE
  OBVIOUS
<1>1. PICK m \in A : \A a \in A : <<a, m>> \notin R
  <2>1. IsWellFoundedOn(R, Nat) BY LessIsWellFounded, Zenon DEF R
  <2>2. A \subseteq Nat OBVIOUS
  <2> HIDE DEF R, A
  <2> QED BY <2>1, <2>2, WFMin, Zenon
<1>2. m \in Nat /\ \A k \in Nat : k < m => \E f : Shows(hp, f, k)
  BY <1>1
<1>3. CASE m = 0
  <2>1. PICK f : f = [k \in 0..0 |-> [v \in Variants |-> Seen(hp, v, FALSE, <<>>)]]
    OBVIOUS
  <2>2. \A k \in 0..0 : [v \in Variants |-> Seen(hp, v, FALSE, <<>>)]
                        = [v \in Variants |-> Seen(hp, v, k > 0, f[k - 1])]
    <3> SUFFICES ASSUME NEW k \in 0..0, NEW v \in Variants
                 PROVE  Seen(hp, v, FALSE, <<>>) = Seen(hp, v, k > 0, f[k - 1])
      OBVIOUS
    <3>1. (k > 0) = FALSE OBVIOUS
    <3> QED BY <3>1, SeenShallow
  <2>3. Shows(hp, f, 0)
    BY <2>1, <2>2 DEF Shows
  <2> QED BY <1>1, <1>3, <2>3
<1>4. CASE m > 0
  <2>1. PICK f : Shows(hp, f, m - 1)
    BY <1>2, <1>4
  <2>2. PICK top : top = [v \in Variants |-> Seen(hp, v, TRUE, f[m - 1])]
    OBVIOUS
  <2>3. PICK g : g = [k \in 0..m |-> IF k = m THEN top ELSE f[k]]
    OBVIOUS
  <2>4. ASSUME NEW k \in 0..m
        PROVE  g[k] = [v \in Variants |-> Seen(hp, v, k > 0, g[k - 1])]
    <3>1. CASE k = m
      <4>1. g[k] = top /\ g[k - 1] = f[m - 1] /\ (k > 0) = TRUE
        BY <1>2, <1>4, <2>3, <3>1
      <4> QED BY <2>2, <4>1
    <3>2. CASE k # m /\ k > 0
      <4>1. g[k] = f[k] /\ g[k - 1] = f[k - 1] /\ k \in 0..m - 1
        BY <1>2, <2>3, <3>2
      <4>2. f[k] = [v \in Variants |-> Seen(hp, v, k > 0, f[k - 1])]
        BY <2>1, <4>1 DEF Shows
      <4> QED BY <4>1, <4>2
    <3>3. CASE k # m /\ k = 0
      <4>1. g[k] = f[k] /\ k \in 0..m - 1 /\ (k > 0) = FALSE
        BY <1>2, <2>3, <3>3
      <4>2. f[k] = [v \in Variants |-> Seen(hp, v, k > 0, f[k - 1])]
        BY <2>1, <4>1 DEF Shows
      <4>3. \A v \in Variants : Seen(hp, v, k > 0, f[k - 1]) = Seen(hp, v, k > 0, g[k - 1])
        BY <4>1, SeenShallow
      <4> QED BY <4>1, <4>2, <4>3
    <3> QED BY <3>1, <3>2, <3>3
  <2>5. Shows(hp, g, m)
    <3>1. DOMAIN g = 0..m /\ g = [k \in 0..m |-> g[k]] BY <2>3
    <3> QED BY <2>4, <3>1 DEF Shows
  <2> QED BY <1>1, <2>5
<1> QED BY <1>2, <1>3, <1>4

\* What Show returns satisfies its equation.
LEMMA ShowLevels ==
  ASSUME NEW hp, NEW k \in 0..MaxBlocks
  PROVE  Show(hp)[k] = [v \in Variants |-> Seen(hp, v, k > 0, Show(hp)[k - 1])]
<1>1. Show(hp) = CHOOSE f : Shows(hp, f, MaxBlocks)
  BY DEF Show, Shows
<1>2. \E f : Shows(hp, f, MaxBlocks)
  BY HandlesAssumption, ShowsExists
<1>3. Shows(hp, Show(hp), MaxBlocks)
  BY <1>1, <1>2
<1> QED BY <1>3 DEF Shows

\* The variants that point into a set of blocks, if anywhere.
Into(W) == {v \in Variants : Owning(v) => v.m_v \in W}

\* The depths at which one of them shows something else in another heap.
Differ(hp, new, W) ==
  {k \in 0..MaxBlocks : \E v \in Into(W) : Show(new)[k][v] # Show(hp)[k][v]}

\* If a set of blocks is left alone, and the elements of its blocks point into it
\* themselves, then all that points into it shows what it did.
LEMMA ShowKept ==
  ASSUME NEW hp \in Heaps, NEW new \in Heaps, NEW W \in SUBSET Blocks,
         \A b \in W : new[b] = hp[b],
         \A b \in W, c \in Cells : hp[b].m_values[c] \in Into(W),
         NEW k \in 0..MaxBlocks, NEW v \in Into(W)
  PROVE  Show(new)[k][v] = Show(hp)[k][v]
<1> DEFINE R == {p \in Nat \X Nat : p[1] < p[2]}
           A == Differ(hp, new, W)
<1> SUFFICES ASSUME A # {} PROVE FALSE
  BY DEF Differ
<1>1. PICK m \in A : \A a \in A : <<a, m>> \notin R
  <2>1. IsWellFoundedOn(R, Nat) BY LessIsWellFounded, Zenon DEF R
  <2>2. A \subseteq Nat BY HandlesAssumption DEF Differ
  <2> HIDE DEF R, A
  <2> QED BY <2>1, <2>2, WFMin, Zenon
<1>2. m \in 0..MaxBlocks /\ MaxBlocks \in Nat
  BY <1>1, HandlesAssumption DEF Differ
<1>3. ASSUME m > 0, NEW u \in Into(W)
      PROVE  Show(new)[m - 1][u] = Show(hp)[m - 1][u]
  <2>1. m - 1 \in 0..MaxBlocks /\ m - 1 \in Nat /\ m \in Nat /\ m - 1 < m
    BY <1>2, <1>3
  <2>2. m - 1 \notin A
    BY <1>1, <2>1
  <2> QED BY <2>1, <2>2 DEF Differ
<1>4. PICK u \in Into(W) : Show(new)[m][u] # Show(hp)[m][u]
  BY <1>1 DEF Differ
<1> HIDE DEF A, R
<1>5. u \in Variants /\ (Owning(u) => u.m_v \in W)
  BY DEF Into
<1>6. /\ Show(new)[m][u] = Seen(new, u, m > 0, Show(new)[m - 1])
      /\ Show(hp)[m][u] = Seen(hp, u, m > 0, Show(hp)[m - 1])
  <2>1. /\ Show(new)[m] = [w \in Variants |-> Seen(new, w, m > 0, Show(new)[m - 1])]
        /\ Show(hp)[m] = [w \in Variants |-> Seen(hp, w, m > 0, Show(hp)[m - 1])]
    BY <1>2, ShowLevels
  <2> QED BY <1>5, <2>1
<1>7. Owning(u) => new[u.m_v] = hp[u.m_v]
  BY <1>5
<1>8. ASSUME u.m_type = "matrix", m > 0, NEW c \in Cells
      PROVE  Show(new)[m - 1][new[u.m_v].m_values[c]] = Show(hp)[m - 1][hp[u.m_v].m_values[c]]
  <2>1. u.m_v \in W BY <1>5, <1>8 DEF Owning
  <2>2. PICK e \in Into(W) : e = hp[u.m_v].m_values[c] BY <2>1
  <2>3. e = new[u.m_v].m_values[c] BY <2>1, <2>2
  <2>4. Show(new)[m - 1][e] = Show(hp)[m - 1][e] BY <1>3, <1>8
  <2> QED BY <2>2, <2>3, <2>4
<1>9. Seen(new, u, m > 0, Show(new)[m - 1]) = Seen(hp, u, m > 0, Show(hp)[m - 1])
  <2>1. PICK p, q : p = Show(new)[m - 1] /\ q = Show(hp)[m - 1]
    OBVIOUS
  <2>2. ASSUME u.m_type = "matrix", m > 0, NEW c \in Cells
        PROVE  p[new[u.m_v].m_values[c]] = q[hp[u.m_v].m_values[c]]
    BY <1>8, <2>1, <2>2
  <2>3. u.m_type = "string" => new[u.m_v].m_s = hp[u.m_v].m_s
    BY <1>7 DEF Owning
  <2>4. PICK S : S = IF u.m_type = "matrix" /\ m > 0 THEN Cells ELSE {}
    OBVIOUS
  <2>5. \A c \in S : p[new[u.m_v].m_values[c]] = q[hp[u.m_v].m_values[c]]
    BY <2>2, <2>4
  <2>6. [c \in S |-> p[new[u.m_v].m_values[c]]] = [c \in S |-> q[hp[u.m_v].m_values[c]]]
    BY <2>5, Zenon
  <2>7. (IF u.m_type = "string" THEN new[u.m_v].m_s ELSE "")
        = (IF u.m_type = "string" THEN hp[u.m_v].m_s ELSE "")
    BY <2>3, Zenon
  <2>8. Seen(new, u, m > 0, p) = Seen(hp, u, m > 0, q)
    BY <2>4, <2>6, <2>7, Zenon DEF Seen
  <2> QED BY <2>1, <2>8
<1> QED BY <1>4, <1>6, <1>9

\* The handles and counters of a state.
LEMMA CountersTyped ==
  ASSUME HandlesInv
  PROVE  /\ variable \in [Handles -> {None} \cup [m_count: Counters, m_v: Variants]]
         /\ counts \in [Counters -> 0..Cardinality(Handles)]
  BY Zenon DEF HandlesInv, TypeOK

\* A heap has its blocks.
LEMMA HeapDomain ==
  ASSUME NEW hp \in Heaps
  PROVE  DOMAIN hp = Blocks /\ hp = [b \in Blocks |-> hp[b]]
  BY Zenon DEF Heaps

\* What a handle shows is kept by a step that changes no live blocks but those in D, if
\* the handle does not own one of them and only elements in D do.
LEMMA HandleKept ==
  ASSUME HandlesInv, ~shared, heap' \in Heaps, NEW h \in Handles, Value(h)' = Value(h),
         NEW D, \A b \in Blocks : heap[b].m_live /\ b \notin D => heap'[b] = heap[b],
         \A b \in D : /\ ~Points(Value(h), b)
                      /\ \A e \in Elements(heap) : Points(Content(heap, e), b) => e[1] \in D
  PROVE  Shown(Value(h))' = Shown(Value(h))
<1> DEFINE W == {b \in Blocks : heap[b].m_live /\ b \notin D}
<1>1. heap \in Heaps /\ Value(h) \in Variants /\ Value(h) \in Roots
  BY StateTyped DEF HandlesInv, Roots
<1>2. Value(h) \in Into(W)
  <2> SUFFICES ASSUME Owning(Value(h)) PROVE Value(h).m_v \in W
    BY <1>1 DEF Into
  <2>1. Value(h).m_v \in Blocks /\ Points(Value(h), Value(h).m_v)
    BY <1>1, PointsTyped
  <2>2. heap[Value(h).m_v].m_live
    BY <1>1 DEF HandlesInv, BlocksInv, Usable
  <2> QED BY <2>1, <2>2
<1>3. ASSUME NEW b \in W, NEW c \in Cells
      PROVE  heap[b].m_values[c] \in Into(W)
  <2>1. PICK e : e = <<b, c>>
    OBVIOUS
  <2>2. e \in Elements(heap) /\ Content(heap, e) = heap[b].m_values[c] /\ e[1] = b
    BY <1>1, <2>1, ElementOf
  <2>3. PICK v \in Variants : v = Content(heap, e)
    BY <1>1, <2>2, ContentTyped
  <2>4. ASSUME Owning(v) PROVE v.m_v \in W
    <3>1. v.m_v \in Blocks /\ Points(v, v.m_v)
      BY <2>4, PointsTyped
    <3>2. heap[v.m_v].m_live
      BY <2>2, <2>3, <2>4 DEF HandlesInv, ElementsInv, Usable
    <3>3. v.m_v \notin D
      BY <2>2, <2>3, <3>1
    <3> QED BY <3>1, <3>2, <3>3
  <2> QED BY <2>2, <2>3, <2>4 DEF Into
<1>4. W \in SUBSET Blocks /\ \A b \in W : heap'[b] = heap[b]
  OBVIOUS
<1>5. MaxBlocks \in 0..MaxBlocks
  BY HandlesAssumption
<1> HIDE DEF W
<1>6. PICK new, v : new = heap' /\ v = Value(h)
  OBVIOUS
<1>7. Show(new)[MaxBlocks][v] = Show(heap)[MaxBlocks][v]
  BY <1>1, <1>2, <1>3, <1>4, <1>5, <1>6, ShowKept
<1> QED BY <1>6, <1>7 DEF Shown

\* A step that leaves every block in use alone changes nothing that is shown.
LEMMA NoneTouched ==
  ASSUME HandlesInv, ~shared, heap' \in Heaps, NEW h \in Handles, Value(h)' = Value(h),
         \A b \in Blocks : heap[b].m_live => heap'[b] = heap[b]
  PROVE  Shown(Value(h))' = Shown(Value(h))
<1>1. PICK D : D = {}
  OBVIOUS
<1>2. \A b \in Blocks : heap[b].m_live /\ b \notin D => heap'[b] = heap[b]
  OBVIOUS
<1>3. \A b \in D : /\ ~Points(Value(h), b)
                   /\ \A e \in Elements(heap) : Points(Content(heap, e), b) => e[1] \in D
  BY <1>1
<1> QED BY <1>2, <1>3, HandleKept

\* Nor does one that frees a block no element and no other handle owns.
LEMMA FreeTouches ==
  ASSUME HandlesInv, ~shared, NEW v \in Variants, heap' = Free(heap, v),
         NEW h \in Handles, Value(h)' = Value(h),
         \A b \in Blocks : Points(v, b) => ~Inside(heap, b) /\ ~Points(Value(h), b)
  PROVE  Shown(Value(h))' = Shown(Value(h))
<1> DEFINE D == {b \in Blocks : Points(v, b)}
<1>1. heap \in Heaps
  BY StateTyped DEF HandlesInv
<1>2. heap' \in Heaps /\ \A b \in Blocks : ~Points(v, b) => heap'[b] = heap[b]
  BY <1>1, FreeFacts
<1>3. \A b \in Blocks : heap[b].m_live /\ b \notin D => heap'[b] = heap[b]
  BY <1>2
<1>4. \A b \in D : /\ ~Points(Value(h), b)
                   /\ \A e \in Elements(heap) : Points(Content(heap, e), b) => e[1] \in D
  BY DEF Inside
<1> HIDE DEF D
<1> QED BY <1>2, <1>3, <1>4, HandleKept

\* A constructor from a C variant copies it to a block that was not in use.
LEMMA CopyTouches ==
  ASSUME HandlesInv, ~shared, NEW v, Copyable(heap, v), heap' = CopyBlock(heap, v),
         heap' \in Heaps, NEW h \in Handles, Value(h)' = Value(h)
  PROVE  Shown(Value(h))' = Shown(Value(h))
<1>1. ASSUME NEW b \in Blocks, heap[b].m_live PROVE heap'[b] = heap[b]
  <2>1. heap \in Heaps BY StateTyped DEF HandlesInv
  <2>2. CASE Owning(v)
    <3>1. PICK m : m = Malloc(heap) /\ m \in Available(heap)
      BY <2>2, MallocAvailable DEF Copyable
    <3>2. m # b BY <1>1, <3>1 DEF Available
    <3>3. heap' = [heap EXCEPT ![m] = heap[v.m_v]] BY <2>2, <3>1 DEF CopyBlock
    <3> QED BY <2>1, <3>2, <3>3, HeapDomain
  <2>3. CASE ~Owning(v)
    BY <2>3 DEF CopyBlock
  <2> QED BY <2>2, <2>3
<1> QED BY <1>1, NoneTouched

\* Set, beyond the matrix, the old element and what is not in use, leaves the heap alone.
LEMMA SetTouches ==
  ASSUME HandlesInv, NEW g \in Handles, NEW k \in Handles, NEW c, Set(g, c, k),
         NEW b \in Blocks, heap[b].m_live, ~Points(Element(heap, Value(g), c), b),
         c \in Cells => ~Points(Value(g), b)
  PROVE  heap'[b] = heap[b]
<1>1. heap \in Heaps /\ Value(g) \in Variants /\ Value(k) \in Variants
  BY StateTyped DEF HandlesInv
<1>2. PICK m \in Variants, v \in Variants, old \in Variants :
        m = Value(g) /\ v = Value(k) /\ old = Element(heap, m, c) /\ m.m_type = "matrix"
  BY <1>1, ElementFacts DEF Set
<1>3. CASE Undefined("storage")
  BY <1>3 DEF Undefined
<1>4. CASE ~Undefined("storage")
  <2>1. PICK rest : rest = Free(heap, old)
    OBVIOUS
  <2>2. PICK mid, w : mid = CopyBlock(rest, v) /\ w = CopyValue(rest, v)
    OBVIOUS
  <2>3. Copyable(rest, v) /\ heap' = PutElement(mid, m, c, w)
    BY <1>2, <1>4, <2>1, <2>2 DEF Set
  <2>4. rest \in Heaps /\ rest[b] = heap[b]
    BY <1>1, <1>2, <2>1, FreeFacts
  <2>5. mid[b] = rest[b] /\ DOMAIN mid = Blocks
    <3>1. CASE Owning(v)
      <4>1. PICK n : n = Malloc(rest) /\ n \in Available(rest)
        BY <2>3, <3>1, MallocAvailable DEF Copyable
      <4>2. n # b BY <2>4, <4>1 DEF Available
      <4>3. mid = [rest EXCEPT ![n] = rest[v.m_v]] BY <2>2, <3>1, <4>1 DEF CopyBlock
      <4> QED BY <2>4, <4>2, <4>3, HeapDomain
    <3>2. CASE ~Owning(v)
      BY <2>2, <2>4, <3>2, HeapDomain DEF CopyBlock
    <3> QED BY <3>1, <3>2
  <2>6. CASE c \in Cells
    <3>1. m.m_v # b
      BY <1>2, <2>6 DEF Points, Owning
    <3>2. heap' = [mid EXCEPT ![m.m_v].m_values[c] = w]
      BY <2>3, <2>6 DEF PutElement
    <3> QED BY <2>4, <2>5, <3>1, <3>2
  <2>7. CASE c \notin Cells
    BY <2>3, <2>4, <2>5, <2>7 DEF PutElement
  <2> QED BY <2>6, <2>7
<1> QED BY <1>3, <1>4

\* What set does is seen at most through the handles on the counter of its matrix.
LEMMA SetSeen ==
  ASSUME HandlesInv, ~shared, heap' \in Heaps, NEW g \in Handles, NEW k \in Handles, NEW c,
         Set(g, c, k), NEW h \in Handles, Value(h)' = Value(h),
         c \in Cells => variable[g].m_count # variable[h].m_count
  PROVE  Shown(Value(h))' = Shown(Value(h))
<1> DEFINE old == Element(heap, Value(g), c)
<1>1. /\ Value(g).m_type = "matrix" /\ Value(g) \in Roots /\ Value(h) \in Roots
      /\ Value(g) \in Variants /\ old \in Variants
  BY StateTyped, ElementFacts DEF Set, HandlesInv, Roots
<1>2. /\ c \in Cells => /\ <<Value(g).m_v, c>> \in Elements(heap)
                        /\ old = Content(heap, <<Value(g).m_v, c>>)
      /\ c \notin Cells => old = Empty
      /\ Points(Value(g), Value(g).m_v)
  BY <1>1, ElementFacts
<1>3. CASE c \notin Cells
  <2>1. \A b \in Blocks : heap[b].m_live => heap'[b] = heap[b]
    BY <1>2, <1>3, EmptyFacts, SetTouches
  <2> QED BY <2>1, NoneTouched
<1>4. CASE c \in Cells
  <2>1. PICK p \in Elements(heap) : p = <<Value(g).m_v, c>> /\ old = Content(heap, p)
    BY <1>2, <1>4
  <2>2. PICK D : D = {b \in Blocks : Points(Value(g), b) \/ Points(old, b)}
    OBVIOUS
  <2>3. \A b \in Blocks : heap[b].m_live /\ b \notin D => heap'[b] = heap[b]
    BY <2>2, SetTouches
  <2>4. p[1] \in D
    BY <1>1, <1>2, <2>1, <2>2, PointsTyped
  <2>5. ASSUME NEW b \in D
        PROVE  /\ ~Points(Value(h), b)
               /\ \A e \in Elements(heap) : Points(Content(heap, e), b) => e[1] \in D
    <3>1. CASE Points(Value(g), b)
      <4>1. ~Points(Value(h), b)
        BY <1>4, <2>2, <3>1 DEF HandlesInv, RootsApart, HandlesApart
      <4>2. ~Inside(heap, b)
        BY <1>1, <2>2, <3>1 DEF HandlesInv, BlocksInv
      <4> QED BY <4>1, <4>2 DEF Inside
    <3>2. CASE Points(old, b)
      <4>1. Inside(heap, b) /\ b \in Blocks
        BY <2>1, <2>2, <3>2 DEF Inside
      <4>2. ~Points(Value(h), b)
        BY <1>1, <4>1 DEF HandlesInv, BlocksInv
      <4>3. \A e \in Elements(heap) : Points(Content(heap, e), b) => e = p
        BY <2>1, <3>2, <4>1 DEF HandlesInv, ElementsInv
      <4> QED BY <2>4, <4>2, <4>3
    <3> QED BY <2>2, <3>1, <3>2
  <2> QED BY <2>3, <2>5, HandleKept
<1> QED BY <1>3, <1>4

\* Nothing that was shared is forgotten.
LEMMA SharedStays ==
  ASSUME HandlesInv, [Next]_vars
  PROVE  shared => shared'
<1> SUFFICES ASSUME shared PROVE shared'
  OBVIOUS
<1>1. CASE UNCHANGED vars
  BY <1>1 DEF vars
<1>2. \A f \in Handles : NewNumber(f) \/ NewText(f) \/ NewMatrix(f) \/ Destroy(f) => shared'
  <2>1. \A f \in Handles : NewNumber(f) \/ Destroy(f) => shared'
    BY DEF NewNumber, Destroy
  <2>2. \A f, type, text : NewBlock(f, type, text) => shared'
    BY DEF NewBlock
  <2>3. \A f \in Handles : NewText(f) \/ NewMatrix(f) => shared'
    BY <2>2, Zenon DEF NewText, NewMatrix
  <2> QED BY <2>1, <2>3
<1>3. \A f, g \in Handles : CopyConstruct(f, g) \/ Assign(f, g) => shared'
  <2>1. ASSUME NEW f, NEW g, Assign(f, g) PROVE shared'
    <3>1. CASE Undefined("counter") BY <3>1 DEF Undefined
    <3>2. CASE ~Undefined("counter") BY <2>1, <3>2 DEF Assign
    <3> QED BY <3>1, <3>2
  <2>2. ASSUME NEW f, NEW g, CopyConstruct(f, g) PROVE shared'
    BY <2>2 DEF CopyConstruct
  <2> QED BY <2>1, <2>2
<1>4. \A f, v : ConstructCopy(f, v) => shared'
  BY Zenon DEF ConstructCopy
<1>5. \A f, g \in Handles : \A c : Get(f, g, c) \/ Set(f, c, g) => shared'
  BY <1>3, <1>4, Zenon DEF Get, Set, Undefined
<1>6. \A f, g, k \in Handles : Add(f, g, k) \/ Call(f, g, k) => shared'
  BY <1>2, <1>4 DEF Add, Call
<1>7. \A f \in Handles, x \in CVariables : ToC(x, f) \/ FromC(f, x) => shared'
  BY <1>4, Zenon DEF ToC, FromC
<1>8. \A x \in CVariables : FreeC(x) => shared'
  BY DEF FreeC
<1>9. CASE Next
  BY <1>2, <1>3, <1>5, <1>6, <1>7, <1>8, <1>9 DEF Next
<1> QED BY <1>1, <1>9

\* What each step but a set leaves as it was shown.
LEMMA OthersKept ==
  ASSUME HandlesInv, ~shared, heap' \in Heaps, NEW h \in Handles, Declared(h),
         variable'[h] = variable[h], Next,
         Shown(Value(h))' # Shown(Value(h))
  PROVE  \E g \in Handles, c \in 1..Size + 1, k \in Handles : Set(g, c, k)
<1>1. Value(h)' = Value(h)
  BY DEF Value
<1>2. ASSUME heap' = heap PROVE FALSE
  BY <1>1, <1>2, NoneTouched
<1>3. ASSUME NEW f \in Handles, NewNumber(f) PROVE FALSE
  BY <1>2, <1>3 DEF NewNumber
<1>4. ASSUME NEW f \in Handles, NEW type, NEW text, NewBlock(f, type, text) PROVE FALSE
  <2>1. PICK m : m = Malloc(heap) /\ m \in Available(heap)
    BY <1>4, MallocAvailable DEF NewBlock
  <2>2. heap' = [heap EXCEPT ![m] = Block(text)]
    BY <1>4, <2>1 DEF NewBlock
  <2>3. ASSUME NEW b \in Blocks, heap[b].m_live PROVE heap'[b] = heap[b]
    <3>1. m # b BY <2>1, <2>3 DEF Available
    <3>2. heap \in Heaps BY StateTyped DEF HandlesInv
    <3> QED BY <2>2, <3>1, <3>2, HeapDomain
  <2> QED BY <1>1, <2>3, NoneTouched
<1>5. ASSUME NEW f \in Handles, NEW v, ConstructCopy(f, v) PROVE FALSE
  <2>1. Copyable(heap, v) /\ heap' = CopyBlock(heap, v)
    BY <1>5 DEF ConstructCopy
  <2> QED BY <1>1, <2>1, CopyTouches
<1>6. ASSUME NEW f \in Handles, Declared(f), heap' = HeapWithout(f), Last(f) => f # h
      PROVE  FALSE
  <2>1. CASE ~Last(f)
    BY <1>2, <1>6, <2>1 DEF HeapWithout
  <2>2. CASE Last(f)
    <3>1. PICK v \in Variants : v = Value(f)
      BY StateTyped DEF HandlesInv
    <3>2. \A b \in Blocks : Points(v, b) => ~Inside(heap, b) /\ ~Points(Value(h), b)
      BY <1>6, <2>2, <3>1, LastOwner
    <3>3. heap' = Free(heap, v)
      BY <1>6, <2>2, <3>1 DEF HeapWithout
    <3> QED BY <1>1, <3>1, <3>2, <3>3, FreeTouches
  <2> QED BY <2>1, <2>2
<1>7. \A f \in Handles : variable'[f] = None => f # h
  BY DEF Declared, None
<1>8. ASSUME NEW f \in Handles, Destroy(f) PROVE FALSE
  <2>1. Declared(f) /\ heap' = HeapWithout(f) /\ variable' = [variable EXCEPT ![f] = None]
    BY <1>8 DEF Destroy
  <2>2. variable'[f] = None
    BY <2>1, CountersTyped
  <2> QED BY <1>6, <1>7, <2>1, <2>2
<1>9. ASSUME NEW f \in Handles, NEW g \in Handles, Assign(f, g) PROVE FALSE
  <2>1. CASE Undefined("counter")
    BY <1>2, <2>1 DEF Undefined
  <2>2. CASE ~Undefined("counter")
    <3>1. /\ Declared(f) /\ heap' = HeapWithout(f) /\ Released(f)[variable[g].m_count] > 0
          /\ variable' = [variable EXCEPT ![f] = variable[g]]
      BY <1>9, <2>2 DEF Assign
    <3>2. ASSUME Last(f), f = h PROVE FALSE
      <4>1. variable[g] = variable[h]
        BY <3>1, <3>2, CountersTyped
      <4>2. PICK n \in Counters : n = variable[h].m_count
        BY StateTyped DEF HandlesInv
      <4>3. Released(h)[n] = counts[n] - 1 /\ counts[n] = 1
        BY <3>2, <4>2, CountersTyped DEF Released, Last
      <4> QED BY <3>1, <3>2, <4>1, <4>2, <4>3
    <3> QED BY <1>6, <3>1, <3>2
  <2> QED BY <2>1, <2>2
<1>10. ASSUME NEW x \in CVariables, FreeC(x) PROVE FALSE
  <2>1. PICK v \in Variants : v = cvariable[x] /\ v \in Roots
    BY StateTyped DEF HandlesInv, Roots
  <2>2. heap' = Free(heap, v)
    BY <1>10, <2>1 DEF FreeC
  <2>3. \A b \in Blocks : Points(v, b) => ~Inside(heap, b) /\ ~Points(Value(h), b)
    BY <2>1 DEF HandlesInv, BlocksInv, RootsApart, KindsApart
  <2> QED BY <1>1, <2>1, <2>2, <2>3, FreeTouches
<1>11. ASSUME NEW x \in CVariables, NEW f \in Handles, ToC(x, f) PROVE FALSE
  <2>1. Copyable(heap, Value(f)) /\ heap' = CopyBlock(heap, Value(f))
    BY <1>11 DEF ToC
  <2> QED BY <1>1, <2>1, CopyTouches
<1>12. ASSUME NEW f \in Handles, NEW g \in Handles, CopyConstruct(f, g) PROVE FALSE
  BY <1>2, <1>12 DEF CopyConstruct
<1>13. ASSUME NEW f \in Handles, NEW g \in Handles, NEW c, Get(f, g, c) PROVE FALSE
  <2>1. CASE Undefined("storage")
    BY <1>2, <2>1 DEF Undefined
  <2> QED BY <1>5, <1>12, <1>13, <2>1 DEF Get
<1>14. ASSUME NEW f \in Handles, NewText(f) \/ NewMatrix(f) PROVE FALSE
  BY <1>4, <1>14, Zenon DEF NewText, NewMatrix
<1>15. ASSUME NEW f \in Handles, NEW g \in Handles, NEW k \in Handles,
              Add(f, g, k) \/ Call(f, g, k)
       PROVE  FALSE
  BY <1>3, <1>5, <1>14, <1>15 DEF Add, Call
<1>16. ASSUME NEW f \in Handles, NEW x \in CVariables, FromC(f, x) PROVE FALSE
  BY <1>5, <1>16 DEF FromC
<1> QED
  BY <1>3, <1>8, <1>9, <1>10, <1>11, <1>12, <1>13, <1>14, <1>15, <1>16 DEF Next

\* What a handle shows changes only when it is assigned, or by a set through a handle on
\* its counter: no copy, element that was got or C variant gives a way to change it,
\* whatever sequence of calls came before, short of a shared copy.
THEOREM OthersAsTheyWere == Spec => OthersUnchanged
<1>1. HandlesInv /\ HandlesInv' /\ [Next]_vars =>
        [~shared' =>
           \A h \in Handles :
             Declared(h) /\ variable'[h] = variable[h] /\ Shown(Value(h))' # Shown(Value(h))
               => \E g \in HandlesOn(variable[h].m_count), k \in Handles, c \in Cells :
                    Set(g, c, k)]_vars
  <2> SUFFICES ASSUME HandlesInv, HandlesInv', [Next]_vars, ~shared', NEW h \in Handles,
                      Declared(h), variable'[h] = variable[h], vars' # vars,
                      Shown(Value(h))' # Shown(Value(h))
               PROVE  \E g \in HandlesOn(variable[h].m_count), k \in Handles, c \in Cells :
                        Set(g, c, k)
    OBVIOUS
  <2>1. ~shared /\ Next
    BY SharedStays
  <2>2. heap' \in Heaps
    BY Zenon DEF HandlesInv, TypeOK, Heaps
  <2>3. PICK g \in Handles, c \in 1..Size + 1, k \in Handles : Set(g, c, k)
    BY <2>1, <2>2, OthersKept
  <2>4. Value(h)' = Value(h)
    BY DEF Value
  <2>5. c \in Cells /\ variable[g].m_count = variable[h].m_count
    BY <2>1, <2>2, <2>3, <2>4, SetSeen
  <2> QED BY <2>3, <2>5 DEF HandlesOn
<1> QED BY <1>1, HandlesInvariance, PTL DEF Spec, OthersUnchanged
=============================================================================

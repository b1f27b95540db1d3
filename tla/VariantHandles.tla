--------------------------- MODULE VariantHandles ---------------------------
(***************************************************************************)
(* Who owns what in core_types: the C++ class variant, whose objects count *)
(* the handles on a C variant, over variant_copy, variant_free and the     *)
(* matrix functions that the class uses.                                   *)
(*                                                                         *)
(* A C variant has a type and a datum: a number, or the block of storage   *)
(* of a string or of the elements of a matrix.  A block or counter that    *)
(* was freed is used again once nothing points to it, so that a use after  *)
(* a free is seen: it is undefined, and the model stops there.  Only the   *)
(* elements of a matrix can be freed behind its back: the block of a       *)
(* handle or C variable is its own (CountsAreHandles), so that only uses   *)
(* of elements need the case.                                              *)
(***************************************************************************)
EXTENDS Naturals, FiniteSets

CONSTANTS Handles,     \* the C++ variables of the class variant
          CVariables,  \* the variables of C variants that were got from to_c()
          Size,        \* the number of elements of a matrix
          Texts,       \* the contents of strings
          MaxBlocks    \* bound: blocks in use, leaked or still pointed to

ASSUME HandlesAssumption ==
  IsFiniteSet(Handles) /\ Size \in Nat /\ MaxBlocks \in Nat

VARIABLES
  variable,  \* per handle: its m_count and m_v, or None
  cvariable, \* per C variable: its variant
  counts,    \* the counters *m_count; 0: deleted
  heap,      \* the blocks
  fault,     \* "none", or what was used after its end: a "counter" or "storage"
  shared     \* history: a matrix that owns strings or matrices has been copied

vars == <<variable, cvariable, counts, heap, fault, shared>>

Cells == 1..Size
Blocks == 1..MaxBlocks
Counters == 1..Cardinality(Handles)

Empty == [m_type |-> "empty", m_v |-> 0]
Number == [m_type |-> "int", m_v |-> 0]
Function == [m_type |-> "function", m_v |-> 0]
None == [m_count |-> 0, m_v |-> Empty]

Block(text) == [m_live |-> TRUE, m_s |-> text, m_values |-> [c \in Cells |-> Empty]]
Freed == [Block("") EXCEPT !.m_live = FALSE]

Init ==
  /\ variable = [h \in Handles |-> None]
  /\ cvariable = [x \in CVariables |-> Empty]
  /\ counts = [n \in Counters |-> 0]
  /\ heap = [b \in Blocks |-> Freed]
  /\ fault = "none" /\ shared = FALSE

Declared(h) == variable[h].m_count # 0
Value(h) == variable[h].m_v

-----------------------------------------------------------------------------
(* The C functions, on a heap                                              *)

Owning(v) == v.m_type \in {"string", "matrix"}
Usable(hp, v) == Owning(v) => hp[v.m_v].m_live

\* The elements of the matrices that are not freed.
Elements(hp) == {e \in Blocks \X Cells : hp[e[1]].m_live}
Content(hp, e) == hp[e[1]].m_values[e[2]]

Pointers(hp) == {Value(h) : h \in Handles} \cup {cvariable[x] : x \in CVariables}
                \cup {Content(hp, e) : e \in Elements(hp)}

\* malloc finds a block that is free and that nothing points to.
Available(hp) ==
  {b \in Blocks : ~hp[b].m_live /\ \A v \in Pointers(hp) : Owning(v) => v.m_v # b}
Malloc(hp) == CHOOSE b \in Available(hp) : \A a \in Available(hp) : b <= a

\* variant_free: of a matrix the array only, its elements stay (matrix_free).
Free(hp, v) == IF Owning(v) THEN [hp EXCEPT ![v.m_v] = Freed] ELSE hp

\* variant_copy: a block of its own with the same bytes in it (matrix_copy).
Copyable(hp, v) == Owning(v) => Available(hp) # {}
CopyBlock(hp, v) == IF Owning(v) THEN [hp EXCEPT ![Malloc(hp)] = hp[v.m_v]] ELSE hp
CopyValue(hp, v) == IF Owning(v) THEN [v EXCEPT !.m_v = Malloc(hp)] ELSE v

OwnsBlocks(hp, v) == v.m_type = "matrix" /\ \E c \in Cells : Owning(hp[v.m_v].m_values[c])

\* _matrix_get and _matrix_set, with their check of the bounds.
Element(hp, v, c) == IF c \in Cells THEN hp[v.m_v].m_values[c] ELSE Empty
PutElement(hp, v, c, e) ==
  IF c \in Cells THEN [hp EXCEPT ![v.m_v].m_values[c] = e] ELSE hp

\* The step is undefined: the program may do anything from here on.
Undefined(kind) ==
  /\ fault' = kind
  /\ UNCHANGED <<variable, cvariable, counts, heap, shared>>

-----------------------------------------------------------------------------
(* Constructors and destructor                                             *)

\* A constructor makes a counter of one for its value.
Construct(h, v) ==
  LET n == CHOOSE m \in Counters : counts[m] = 0
  IN  /\ counts' = [counts EXCEPT ![n] = 1]
      /\ variable' = [variable EXCEPT ![h] = [m_count |-> n, m_v |-> v]]

NewNumber(h) ==
  /\ ~Declared(h)
  /\ \E v \in {Empty, Number, Function} : Construct(h, v)
  /\ UNCHANGED <<cvariable, heap, fault, shared>>

NewBlock(h, type, text) ==
  /\ ~Declared(h) /\ Available(heap) # {}
  /\ Construct(h, [m_type |-> type, m_v |-> Malloc(heap)])
  /\ heap' = [heap EXCEPT ![Malloc(heap)] = Block(text)]
  /\ UNCHANGED <<cvariable, fault, shared>>

\* A string or an error.
NewText(h) == \E text \in Texts : NewBlock(h, "string", text)
NewMatrix(h) == NewBlock(h, "matrix", "")

\* Mutant: the constructor takes the C variant as it is.
ConstructUncopied(h, v) ==
  /\ ~Declared(h) /\ Usable(heap, v) /\ Construct(h, v)
  /\ UNCHANGED <<cvariable, heap, fault, shared>>

\* The constructor from a C variant copies it.
ConstructCopy(h, v) ==
  /\ ~Declared(h) /\ Usable(heap, v) /\ Copyable(heap, v)
  /\ Construct(h, CopyValue(heap, v)) /\ heap' = CopyBlock(heap, v)
  /\ shared' = (shared \/ OwnsBlocks(heap, v))
  /\ UNCHANGED <<cvariable, fault>>

\* Mutant: the copy is not counted.
CopyConstructUncounted(h, g) ==
  /\ ~Declared(h) /\ Declared(g)
  /\ variable' = [variable EXCEPT ![h] = variable[g]]
  /\ UNCHANGED <<cvariable, counts, heap, fault, shared>>

\* The copy constructor is one more handle on the same counter.
CopyConstruct(h, g) ==
  /\ ~Declared(h) /\ Declared(g)
  /\ variable' = [variable EXCEPT ![h] = variable[g]]
  /\ counts' = [counts EXCEPT ![variable[g].m_count] = @ + 1]
  /\ UNCHANGED <<cvariable, heap, fault, shared>>

\* release(): one handle less, and with the last one the value goes.
Released(h) == [counts EXCEPT ![variable[h].m_count] = @ - 1]
Last(h) == counts[variable[h].m_count] = 1
HeapWithout(h) == IF Last(h) THEN Free(heap, Value(h)) ELSE heap

Destroy(h) ==
  /\ Declared(h)
  /\ counts' = Released(h) /\ heap' = HeapWithout(h)
  /\ variable' = [variable EXCEPT ![h] = None]
  /\ UNCHANGED <<cvariable, fault, shared>>

-----------------------------------------------------------------------------
(* Operations                                                              *)

\* operator=: the old value is released before the new one is counted.
Assign(h, g) ==
  /\ Declared(h) /\ Declared(g)
  /\ \/ Released(h)[variable[g].m_count] = 0 /\ Undefined("counter")
     \/ /\ Released(h)[variable[g].m_count] > 0
        /\ counts' = [Released(h) EXCEPT ![variable[g].m_count] = @ + 1]
        /\ heap' = HeapWithout(h)
        /\ variable' = [variable EXCEPT ![h] = variable[g]]
        /\ UNCHANGED <<cvariable, fault, shared>>

\* get() copies the element; of anything but a matrix it is another handle.
Get(h, g, c) ==
  /\ ~Declared(h) /\ Declared(g)
  /\ \/ Value(g).m_type # "matrix" /\ CopyConstruct(h, g)
     \/ /\ Value(g).m_type = "matrix"
        /\ LET e == Element(heap, Value(g), c)
           IN  \/ ConstructCopy(h, e)
               \/ ~Usable(heap, e) /\ Undefined("storage")

\* Mutant: the element that was there is freed, but the new one is not a copy.
SetUncopied(h, c, g) ==
  /\ Declared(h) /\ Declared(g) /\ Value(h).m_type = "matrix"
  /\ LET m == Value(h)
         old == Element(heap, m, c)
     IN  /\ Usable(heap, old)
         /\ heap' = PutElement(Free(heap, old), m, c, Value(g))
  /\ UNCHANGED <<variable, cvariable, counts, fault, shared>>

\* set() frees the element that is there and puts a copy of the new one in its
\* place; beyond the bounds of the matrix the copy is lost.
Set(h, c, g) ==
  /\ Declared(h) /\ Declared(g) /\ Value(h).m_type = "matrix"
  /\ LET m == Value(h)
         old == Element(heap, m, c)
         rest == Free(heap, old)
     IN  \/ /\ Usable(heap, old) /\ Copyable(rest, Value(g))
            /\ heap' = PutElement(CopyBlock(rest, Value(g)), m, c,
                                  CopyValue(rest, Value(g)))
            /\ shared' = (shared \/ OwnsBlocks(rest, Value(g)))
            /\ UNCHANGED <<variable, cvariable, counts, fault>>
         \/ ~Usable(heap, old) /\ Undefined("storage")

\* operator+ of two strings: the C variant of the sum is copied and then freed,
\* which leaves one block more.  Other sums and products are NewNumber.
Add(h, g, k) ==
  /\ ~Declared(h) /\ Declared(g) /\ Declared(k)
  /\ Value(g).m_type = "string" /\ Value(k).m_type = "string"
  /\ Cardinality(Available(heap)) > 1 /\ NewText(h)

\* What variant_call gives: a function returns a number, a text or a copy of what
\* it was called with, each for its caller to free; a call of anything else, or with
\* a wrong number of arguments, an error.
variant_call(v) == IF v = Function THEN {"number", "text", "copy"} ELSE {"text"}

\* call(): the C variant that was returned is copied and then freed.
Call(h, g, k) ==
  LET results == variant_call(Value(g))
  IN  /\ ~Declared(h) /\ Declared(g) /\ Declared(k)
      /\ Cardinality(Available(heap)) > 1
      /\ \/ "number" \in results /\ NewNumber(h)
         \/ "text" \in results /\ NewText(h)
         \/ "copy" \in results /\ ConstructCopy(h, Value(k))

\* C variants beside the class: to_c, the constructor from one, variant_free.
ToC(x, h) ==
  LET v == Value(h)
  IN  /\ Declared(h) /\ Owning(v) /\ cvariable[x] = Empty /\ Copyable(heap, v)
      /\ cvariable' = [cvariable EXCEPT ![x] = CopyValue(heap, v)]
      /\ heap' = CopyBlock(heap, v)
      /\ shared' = (shared \/ OwnsBlocks(heap, v))
      /\ UNCHANGED <<variable, counts, fault>>

FromC(h, x) == cvariable[x] # Empty /\ ConstructCopy(h, cvariable[x])

FreeC(x) ==
  /\ cvariable[x] # Empty
  /\ heap' = Free(heap, cvariable[x])
  /\ cvariable' = [cvariable EXCEPT ![x] = Empty]
  /\ UNCHANGED <<variable, counts, fault, shared>>

Next ==
  /\ fault = "none"
  /\ \/ \E h \in Handles :
          \/ NewNumber(h) \/ NewText(h) \/ NewMatrix(h) \/ Destroy(h)
          \/ \E g \in Handles :
               \/ CopyConstruct(h, g) \/ Assign(h, g)
               \/ \E c \in 1..Size + 1 : Get(h, g, c) \/ Set(h, c, g)
               \/ \E k \in Handles : Add(h, g, k) \/ Call(h, g, k)
          \/ \E x \in CVariables : ToC(x, h) \/ FromC(h, x)
     \/ \E x \in CVariables : FreeC(x)

Spec == Init /\ [][Next]_vars

-----------------------------------------------------------------------------
(* Properties                                                              *)

Variants == {Empty, Number, Function} \cup [m_type: {"string", "matrix"}, m_v: Blocks]

TypeOK ==
  /\ variable \in [Handles -> {None} \cup [m_count: Counters, m_v: Variants]]
  /\ cvariable \in [CVariables -> Variants]
  /\ counts \in [Counters -> 0..Cardinality(Handles)]
  /\ heap \in [Blocks -> [m_live: BOOLEAN, m_s: Texts \cup {""},
                          m_values: [Cells -> Variants]]]
  /\ fault \in {"none", "counter", "storage"} /\ shared \in BOOLEAN

HandlesOn(n) == {h \in Handles : variable[h].m_count = n}

\* Each counter is the number of handles on it, which all have the same value, so
\* that it is deleted, and the value freed, with the last of them and not before;
\* a deleted counter is used only where a handle is the last on its counter, as one
\* is that is assigned to itself.
CountsAreHandles ==
  /\ TypeOK
  /\ \A n \in Counters :
       /\ counts[n] = Cardinality(HandlesOn(n))
       /\ \A h, g \in HandlesOn(n) : Value(h) = Value(g)
  /\ \A v \in {Value(h) : h \in Handles} \cup {cvariable[x] : x \in CVariables} :
       Usable(heap, v)
  /\ fault = "counter" => \E h \in Handles : Declared(h) /\ Last(h)

\* Those who will free a block: values with a counter, C variables, and elements
\* of matrices.
Points(v, b) == Owning(v) /\ v.m_v = b
Owners(b) ==
  {<<"counter", n>> : n \in {m \in Counters : \E h \in HandlesOn(m) : Points(Value(h), b)}}
  \cup {<<"variable", x>> : x \in {y \in CVariables : Points(cvariable[y], b)}}
  \cup {<<"element", e>> : e \in {f \in Elements(heap) : Points(Content(heap, f), b)}}

NotShared == \A b \in Blocks : Cardinality(Owners(b)) <= 1

\* As long as no matrix that owns strings or matrices has been copied, no block
\* has two owners and none that is owned is freed, in whatever order values are
\* copied, assigned, set, got and destroyed: nothing is freed twice or used after
\* its end.
OwnedOnce ==
  ~shared =>
    /\ NotShared /\ fault # "storage"
    /\ \A b \in Blocks : Owners(b) # {} => heap[b].m_live

\* variant.h:108 calls variant_copy a "Deep copy of variant": a copy and its
\* original own nothing in common.
CopiesAreDeep == NotShared

\* What a variant shows, to the depth that the heap allows; the elements of a matrix
\* show what show says of them.
Seen(hp, v, deep, show) ==
  [m_type |-> v.m_type,
   m_s |-> IF v.m_type = "string" THEN hp[v.m_v].m_s ELSE "",
   m_values |-> [c \in IF v.m_type = "matrix" /\ deep THEN Cells ELSE {} |->
                   show[hp[v.m_v].m_values[c]]]]
Show(hp) ==
  LET show[k \in 0..MaxBlocks] == [v \in Variants |-> Seen(hp, v, k > 0, show[k - 1])]
  IN  show
Shown(v) == Show(heap)[MaxBlocks][v]

\* What a handle shows changes only when it is assigned, or when an element is
\* set through a handle on the same counter: whatever is done with copies, with
\* elements that were got and with C variants is not seen by others (short of the
\* copies above).
OthersUnchanged ==
  [][~shared' =>
       \A h \in Handles :
         Declared(h) /\ variable'[h] = variable[h] /\ Shown(Value(h))' # Shown(Value(h))
           => \E g \in HandlesOn(variable[h].m_count), k \in Handles, c \in Cells :
                Set(g, c, k)]_vars
=============================================================================

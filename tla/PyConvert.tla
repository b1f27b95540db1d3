------------------------------ MODULE PyConvert ------------------------------
(***************************************************************************)
(* core_python.c: what becomes of a Python object that goes into a C       *)
(* function as a variant, and of a variant that comes out as an object.    *)
(*                                                                         *)
(* num is the number of a bool, an int or a float (in the units of         *)
(* VariantOps), text the characters of a str, items the elements of a list *)
(* and the keys and values of a dict in turn.  A "long" is a number that   *)
(* is no int to Python 2; it stands for every type that is not converted.  *)
(*                                                                         *)
(* The C functions call one another for what is nested.  Here they take    *)
(* the function for the elements as a parameter, and VariantOf, ObjectOf   *)
(* and LeavesOf close the circle, level by level.                          *)
(***************************************************************************)
EXTENDS VariantOps, SequencesExt

CONSTANTS MaxLong,   \* LONG_MAX
          Numerals,  \* the texts that PyInt_FromString takes, and for which numbers
          MaxDepth   \* bound: how deep the elements of a list or a dict nest

ASSUME ConvertAssumption ==
  /\ MaxLong \in Nat /\ MaxLong >= MaxInt /\ MaxDepth \in Nat
  /\ \A s \in DOMAIN Numerals : Numerals[s] \in Int

None == [type |-> "None", num |-> 0, text |-> <<>>, items |-> <<>>]
NULL == [None EXCEPT !.type = "NULL"]
PyNumber(type, n) == [None EXCEPT !.type = type, !.num = n]
PyTrue == PyNumber("bool", 1)
PyString(s) == [None EXCEPT !.type = "str", !.text = s]
PyList(items) == [None EXCEPT !.type = "list", !.items = items]
PyDict(items) == [None EXCEPT !.type = "dict", !.items = items]

\* The keys of a dict are at the odd places of its items.  A list is none.
KeyAt(items, k) == k % 2 = 1 /\ k \in DOMAIN items
Hashable(o) == o.type \notin {"list", "dict"}

\* The objects whose elements are in S, by how deep they nest.
Nested(S) ==
       [type: {"None", "bool", "int", "long", "float", "str"},
        num: Int, text: Seq(Nat), items: {<<>>}]
  \cup {o \in [type: {"list", "dict"}, num: {0}, text: {<<>>}, items: Seq(S)] :
          o.type = "dict" =>
            /\ Len(o.items) % 2 = 0
            /\ \A k \in DOMAIN o.items : KeyAt(o.items, k) => Hashable(o.items[k])}
Object[n \in Nat] == Nested(IF n = 0 THEN {} ELSE Object[n - 1])
Objects == Nested(Object[MaxDepth])

-----------------------------------------------------------------------------
(* To a variant                                                            *)

\* A number that no long holds, at either end.
Huge(s) == s \in DOMAIN Numerals /\ Numerals[s] \notin -MaxLong - 1..MaxLong

\* A str that reads as a number is one, -1 if no long holds it; an int is
\* cut to the width of a C int.  A bool is an int, so that the case for bools
\* is never reached.
FromString(s) == IF s \in DOMAIN Numerals
                 THEN Number("INT", IF Huge(s) THEN -1 ELSE Wrap(Numerals[s]))
                 ELSE Text("STRING", s)

\* What stands in a row: a list's elements, or the object itself.
Row(o) == IF o.type = "list" THEN o.items ELSE <<o>>

\* Mutant: the width is that of the last row.
LastWidth(rows) == IF rows = <<>> THEN 1 ELSE Max({1, Len(Last(rows))})

Width(rows) == Max({1} \cup {Len(rows[i]) : i \in DOMAIN rows})

\* Mutant: column and row are swapped.
ToMatrixSwapped(o, variant) ==
  LET rows == [i \in DOMAIN o.items |-> Row(o.items[i])]
  IN  Build(Len(rows), Width(rows), LAMBDA i, j :
        IF j < Len(rows[i + 1]) THEN variant[rows[i + 1][j + 1]] ELSE variant_empty)

\* Rows that are shorter than the widest one are filled up.
core_python_py_to_matrix(o, variant) ==
  IF o.type = "list"
  THEN LET rows == [i \in DOMAIN o.items |-> Row(o.items[i])]
       IN  Build(Width(rows), Len(rows), LAMBDA i, j :
             IF i < Len(rows[j + 1]) THEN variant[rows[j + 1][i + 1]] ELSE variant_empty)
  ELSE Build(2, Len(o.items) \div 2, LAMBDA i, j : variant[o.items[2 * j + i + 1]])

ToVariant(o, variant) ==
  CASE o.type \in {"int", "bool"} -> Number("INT", Wrap(o.num))
    [] o.type = "str" -> FromString(o.text)
    [] o.type = "float" -> Number("DOUBLE", o.num)
    [] o.type \in {"list", "dict"} ->
         variant_from_matrix(core_python_py_to_matrix(o, variant))
    [] OTHER -> variant_empty

VariantOf[n \in Nat] ==
  [o \in Object[n] |-> ToVariant(o, IF n = 0 THEN <<>> ELSE VariantOf[n - 1])]
core_python_py_to_variant(o) == ToVariant(o, VariantOf[MaxDepth])

\* What an object is made of, in the order in which it is converted.
LeavesIn(o, leaves) == IF o.type \in {"list", "dict"}
                       THEN FlattenSeq([k \in DOMAIN o.items |-> leaves[o.items[k]]])
                       ELSE <<o>>
LeavesOf[n \in Nat] ==
  [o \in Object[n] |-> LeavesIn(o, IF n = 0 THEN <<>> ELSE LeavesOf[n - 1])]

\* What was converted and comes out again nests at most twice as deep.
Leaves(o) == LeavesIn(o, LeavesOf[2 * MaxDepth + 1])

AllLeaves(args) == FlattenSeq([k \in DOMAIN args |-> Leaves(args[k])])

\* Mutant: PyErr_Clear is forgotten.
StrayUncleared(args) ==
  \E k \in DOMAIN AllLeaves(args) :
    LET o == AllLeaves(args)[k]
    IN  o.type = "str" /\ (Huge(o.text) \/ o.text \notin DOMAIN Numerals)

\* PyInt_AsLong sets an exception for a numeral that no long holds, and nothing
\* clears it but PyErr_Clear for a later str that is no numeral.
StrayError(args) ==
  LET all == AllLeaves(args)
  IN  \E k \in DOMAIN all :
        /\ all[k].type = "str" /\ Huge(all[k].text)
        /\ \A j \in k + 1..Len(all) : all[j].type = "str" => all[j].text \in DOMAIN Numerals

-----------------------------------------------------------------------------
(* From a variant                                                          *)

\* A matrix of one row is the list of its elements, any other that of its rows.
core_python_matrix_to_py(m, object) ==
  LET row(j) == PyList([i \in 1..m.m_width |-> object[matrix_get(m, i - 1, j)]])
  IN  IF m.m_height = 1 THEN row(0)
      ELSE PyList([j \in 1..m.m_height |-> row(j - 1)])

\* An empty variant is True, and there is no object for an error or a function.
ToObject(v, object) ==
  CASE v.m_type = "INT" -> PyNumber("int", v.m_n)
    [] v.m_type = "DOUBLE" -> PyNumber("float", v.m_n)
    [] v.m_type = "STRING" -> PyString(v.m_s)
    [] v.m_type = "MATRIX" -> core_python_matrix_to_py(v.m_m, object)
    [] v.m_type = "EMPTY" -> PyTrue
    [] v.m_type = "BOOL" -> PyNumber("bool", IF v.m_n # 0 THEN 1 ELSE 0)
    [] OTHER -> NULL

\* The variants whose elements are in S, by how deep they nest.
Holding(S) == Scalar \cup [m_type: {"MATRIX"}, m_n: {0}, m_s: {<<>>}, m_m: Matrix(S)]
Variant[n \in Nat] == Holding(IF n = 0 THEN {} ELSE Variant[n - 1])

ObjectOf[n \in Nat] ==
  [v \in Variant[n] |-> ToObject(v, IF n = 0 THEN <<>> ELSE ObjectOf[n - 1])]
core_python_variant_to_py(v) == ToObject(v, ObjectOf[MaxDepth])

-----------------------------------------------------------------------------
(* A dict of two columns                                                   *)

\* Keys that Python takes for one.
Numeral(o) == o.type \in {"int", "bool", "float"}
PyUnits(o) == IF o.type = "float" THEN o.num ELSE o.num * Unit
SameKey(p, q) == IF Numeral(p) /\ Numeral(q) THEN PyUnits(p) = PyUnits(q) ELSE p = q

\* A key that is not hashable is refused: PyDict_SetItem sets a TypeError, which is
\* not looked at and not modelled, as no key of a dict converts to such a key.
SetItem(items, key, value) ==
  IF ~Hashable(key) THEN items
  ELSE IF \E k \in DOMAIN items : KeyAt(items, k) /\ SameKey(items[k], key)
  THEN [k \in DOMAIN items |->
          IF KeyAt(items, k - 1) /\ SameKey(items[k - 1], key) THEN value ELSE items[k]]
  ELSE items \o <<key, value>>

\* Mutant: the last row is left out.
DictButLast(vars, vals) ==
  LET item(j) == <<core_python_variant_to_py(matrix_get(vars.m_m, 0, j - 1)),
                   core_python_variant_to_py(matrix_get(vals.m_m, 0, j - 1))>>
  IN  PyDict(FlattenSeq([j \in 1..vars.m_m.m_height - 1 |-> item(j)]))

\* The first columns of two matrices of one height.
core_python_variants_to_py_dict(vars, vals) ==
  LET m1 == vars.m_m
      m2 == vals.m_m
      item(m, j) == core_python_variant_to_py(matrix_get(m, 0, j - 1))
      items[j \in 0..m1.m_height] ==
        IF j = 0 THEN <<>> ELSE SetItem(items[j - 1], item(m1, j), item(m2, j))
  IN  IF vars.m_type = "MATRIX" /\ vals.m_type = "MATRIX" /\ m1.m_height = m2.m_height
      THEN PyDict(items[m1.m_height])
      ELSE NULL
=============================================================================

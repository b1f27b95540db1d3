----------------------------- MODULE VariantOps ------------------------------
(***************************************************************************)
(* What the functions of core_types compute: comparison, arithmetic and    *)
(* conversion of variants, and the edits of matrices.  VariantHandles      *)
(* models the storage behind them.                                         *)
(*                                                                         *)
(* An int is a C int, whose sums and products wrap; a double is a whole    *)
(* number of units, Unit of them to one, and a product of two doubles is   *)
(* rounded; texts are sequences of characters, which are numbers.  The     *)
(* elements of the matrices compared are no matrices themselves.  Doubles  *)
(* that are infinite or no number are left out.                            *)
(***************************************************************************)
EXTENDS Integers, Sequences

CONSTANTS MaxInt,   \* INT_MAX
          Unit,     \* the units of the double 1.0
          Epsilon   \* COMPARE_EPSILON, in units

ASSUME OpsAssumption ==
  MaxInt \in Nat \ {0} /\ Unit \in Nat \ {0} /\ Epsilon \in Nat \ {0}

-----------------------------------------------------------------------------
(* The types                                                               *)

\* m_n is the number of a bool, an int or a double, and the number of parameters
\* of a function; m_s the text of a string or error, and the name of a function.
NoMatrix == [m_width |-> 0, m_height |-> 0, m_values |-> <<>>]
variant_empty == [m_type |-> "EMPTY", m_n |-> 0, m_s |-> <<>>, m_m |-> NoMatrix]

Number(type, n) == [variant_empty EXCEPT !.m_type = type, !.m_n = n]
Text(type, s) == [variant_empty EXCEPT !.m_type = type, !.m_s = s]
variant_from_function(f, n) == [Text("FUNCTION", f) EXCEPT !.m_n = n]
variant_from_matrix(m) == [variant_empty EXCEPT !.m_type = "MATRIX", !.m_m = m]

\* The variants that are no matrices, and the matrices of variants in S.
Scalar == [m_type: {"EMPTY", "BOOL", "INT", "DOUBLE", "STRING", "ERROR", "FUNCTION"},
           m_n: Int, m_s: Seq(Nat), m_m: {NoMatrix}]
Matrix(S) == {m \in [m_width: Nat, m_height: Nat, m_values: Seq(S)] :
                Len(m.m_values) = m.m_width * m.m_height}

-----------------------------------------------------------------------------
(* Conversions                                                             *)

\* An int in the width of a C int.
Wrap(n) == ((n + MaxInt + 1) % (2 * (MaxInt + 1))) - (MaxInt + 1)
IsInt(n) == -MaxInt - 1 <= n /\ n <= MaxInt

Numeric(v) == v.m_type \in {"INT", "DOUBLE"}
Units(v) == IF v.m_type = "INT" THEN v.m_n * Unit ELSE v.m_n

\* The whole part, or what the processor gives for a double that has no int.
Truncated(d) ==
  LET n == IF d >= 0 THEN d \div Unit ELSE -((-d) \div Unit)
  IN  IF IsInt(n) THEN n ELSE -MaxInt - 1

variant_as_int(v) == IF v.m_type = "INT" THEN v.m_n
                     ELSE IF v.m_type = "DOUBLE" THEN Truncated(v.m_n) ELSE 0
variant_as_double(v) == IF Numeric(v) THEN Units(v) ELSE 0
variant_as_string(v) == IF v.m_type = "STRING" THEN v.m_s ELSE <<>>

-----------------------------------------------------------------------------
(* Comparison                                                              *)

Apart(x, y) == IF x <= y THEN y - x ELSE x - y

\* Numbers of which one is a double are equal if closer than Epsilon; others are
\* equal if their types and contents are.  Nothing is equal to an empty variant.
ScalarEqual(a, b) ==
  IF Numeric(a) /\ Numeric(b) /\ (a.m_type = "DOUBLE" \/ b.m_type = "DOUBLE")
  THEN Apart(Units(a), Units(b)) < Epsilon
  ELSE /\ a.m_type = b.m_type
       /\ a.m_type \in {"BOOL", "INT", "STRING", "ERROR", "FUNCTION"}
       /\ a.m_n = b.m_n /\ a.m_s = b.m_s

matrix_compare(a, b) ==
  /\ a.m_width = b.m_width /\ a.m_height = b.m_height
  /\ \A k \in DOMAIN a.m_values : ScalarEqual(a.m_values[k], b.m_values[k])

variant_equal(a, b) ==
  IF a.m_type = "MATRIX" /\ b.m_type = "MATRIX" THEN matrix_compare(a.m_m, b.m_m)
  ELSE ScalarEqual(a, b)

\* strcmp(s, t) < 0: t goes on after s, or has the larger character at the first
\* place where they differ.
TextLess(s, t) ==
  \E k \in 1..Len(t) :
    /\ \A j \in 1..k - 1 : j <= Len(s) /\ s[j] = t[j]
    /\ k <= Len(s) => s[k] < t[k]

variant_less(a, b) ==
  \/ Numeric(a) /\ Numeric(b) /\ Units(a) < Units(b)
  \/ a.m_type = "STRING" /\ b.m_type = "STRING" /\ TextLess(a.m_s, b.m_s)

BothBool(a, b) == a.m_type = "BOOL" /\ b.m_type = "BOOL"
variant_and(a, b) == BothBool(a, b) /\ a.m_n # 0 /\ b.m_n # 0
variant_or(a, b) == BothBool(a, b) /\ (a.m_n # 0 \/ b.m_n # 0)

-----------------------------------------------------------------------------
(* Arithmetic                                                              *)

BothInt(a, b) == a.m_type = "INT" /\ b.m_type = "INT"

variant_add(a, b) ==
  IF BothInt(a, b) THEN Number("INT", Wrap(a.m_n + b.m_n))
  ELSE IF Numeric(a) /\ Numeric(b) THEN Number("DOUBLE", Units(a) + Units(b))
  ELSE IF a.m_type = "STRING" /\ b.m_type = "STRING" THEN Text("STRING", a.m_s \o b.m_s)
  ELSE variant_empty

variant_multiply(a, b) ==
  IF BothInt(a, b) THEN Number("INT", Wrap(a.m_n * b.m_n))
  ELSE IF Numeric(a) /\ Numeric(b)
       THEN Number("DOUBLE", (Units(a) * Units(b)) \div Unit)
  ELSE variant_empty

-----------------------------------------------------------------------------
(* Matrices: column i and row j are counted from 0                         *)

\* Where an element is in the array, and the matrix with given elements.
Index(m, i, j) == j * m.m_width + i + 1
Build(width, height, Value(_, _)) ==
  [m_width |-> width, m_height |-> height,
   m_values |-> [k \in 1..width * height |-> Value((k - 1) % width, (k - 1) \div width)]]

Inside(m, i, j) == i \in 0..m.m_width - 1 /\ j \in 0..m.m_height - 1

\* matrix_get and matrix_set of C do not look at the bounds; those of C++ do.
matrix_get(m, i, j) == m.m_values[Index(m, i, j)]
matrix_set(m, i, j, v) == [m EXCEPT !.m_values[Index(m, i, j)] = v]
matrix_get_safe(m, i, j) == IF Inside(m, i, j) THEN matrix_get(m, i, j) ELSE variant_empty
matrix_set_safe(m, i, j, v) == IF Inside(m, i, j) THEN matrix_set(m, i, j, v) ELSE m

\* Beside the diagonal the elements stay empty.
matrix_identity(n) ==
  Build(n, n, LAMBDA i, j : IF i = j THEN Number("INT", 1) ELSE variant_empty)

matrix_move_rows(m, row1, row2) ==
  Build(m.m_width, m.m_height, LAMBDA i, j :
    matrix_get(m, i, IF j = row1 THEN row2 ELSE IF j = row2 THEN row1 ELSE j))

matrix_get_column(m, col) ==
  Build(1, m.m_height, LAMBDA i, j : matrix_get_safe(m, col, j))

matrix_get_row(m, row) ==
  Build(m.m_width, 1, LAMBDA i, j : matrix_get_safe(m, i, row))

\* Despite its name it copies: nothing goes back into the matrix it takes from.
matrix_swap(to, from) ==
  IF to.m_width = from.m_width /\ to.m_height = from.m_height
  THEN Build(to.m_width, to.m_height, LAMBDA i, j : matrix_get(from, i, j))
  ELSE to

\* As many elements as both rows have.
matrix_replace_row(a, row1, b, row2) ==
  Build(a.m_width, a.m_height, LAMBDA i, j :
    IF j = row1 /\ i < b.m_width THEN matrix_get(b, i, row2) ELSE matrix_get(a, i, j))
=============================================================================

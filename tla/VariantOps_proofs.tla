-------------------------- MODULE VariantOps_proofs --------------------------
(***************************************************************************)
(* What comparison of variants and the edits of matrices guarantee, for    *)
(* all variants and matrices, and for any width, unit and epsilon.         *)
(***************************************************************************)
EXTENDS VariantOps, TLAPS

FlatVariant == Scalar \cup {variant_from_matrix(m) : m \in Matrix(Scalar)}

LEMMA ScalarTypes ==
  ASSUME NEW a \in Scalar
  PROVE  /\ a.m_type \in {"EMPTY", "BOOL", "INT", "DOUBLE", "STRING", "ERROR", "FUNCTION"}
         /\ a.m_n \in Int /\ a.m_s \in Seq(Nat) /\ Units(a) \in Int
  BY OpsAssumption DEF Scalar, Units

LEMMA MatrixVariants ==
  ASSUME NEW m \in Matrix(Scalar)
  PROVE  /\ variant_from_matrix(m).m_type = "MATRIX" /\ variant_from_matrix(m).m_m = m
         /\ ~Numeric(variant_from_matrix(m))
  BY DEF variant_from_matrix, variant_empty, Numeric

-----------------------------------------------------------------------------
(* Equality                                                                *)

LEMMA ApartSymmetric ==
  ASSUME NEW x \in Int, NEW y \in Int
  PROVE  Apart(x, y) = Apart(y, x) /\ Apart(x, y) \in Nat /\ Apart(x, x) = 0
  BY DEF Apart

LEMMA ScalarSymmetric ==
  ASSUME NEW a \in Scalar, NEW b \in Scalar, ScalarEqual(a, b)
  PROVE  ScalarEqual(b, a)
  BY ScalarTypes, ApartSymmetric DEF ScalarEqual

LEMMA MatrixDomain ==
  ASSUME NEW m \in Matrix(Scalar)
  PROVE  /\ m.m_width \in Nat /\ m.m_height \in Nat
         /\ DOMAIN m.m_values = 1..m.m_width * m.m_height
         /\ \A k \in DOMAIN m.m_values : m.m_values[k] \in Scalar
  BY DEF Matrix

LEMMA MatrixSymmetric ==
  ASSUME NEW a \in Matrix(Scalar), NEW b \in Matrix(Scalar), matrix_compare(a, b)
  PROVE  matrix_compare(b, a)
<1>1. DOMAIN a.m_values = DOMAIN b.m_values
  BY MatrixDomain DEF matrix_compare
<1>2. ASSUME NEW k \in DOMAIN b.m_values
      PROVE  ScalarEqual(b.m_values[k], a.m_values[k])
  BY <1>1, MatrixDomain, ScalarSymmetric DEF matrix_compare
<1> QED BY <1>2 DEF matrix_compare

\* variant_equal does not depend on the order of its arguments, whatever types
\* they have: the branches for int with double mirror those for double with int.
THEOREM EqualIsSymmetric ==
  ASSUME NEW a \in FlatVariant, NEW b \in FlatVariant, variant_equal(a, b)
  PROVE  variant_equal(b, a)
<1>1. CASE a.m_type = "MATRIX" /\ b.m_type = "MATRIX"
  <2>1. PICK m \in Matrix(Scalar) : a = variant_from_matrix(m)
    BY <1>1, ScalarTypes DEF FlatVariant
  <2>2. PICK n \in Matrix(Scalar) : b = variant_from_matrix(n)
    BY <1>1, ScalarTypes DEF FlatVariant
  <2>3. matrix_compare(m, n)
    BY <1>1, <2>1, <2>2, MatrixVariants DEF variant_equal
  <2> QED BY <1>1, <2>1, <2>2, <2>3, MatrixSymmetric, MatrixVariants DEF variant_equal
<1>2. CASE ~(a.m_type = "MATRIX" /\ b.m_type = "MATRIX")
  <2>1. ScalarEqual(a, b) BY <1>2 DEF variant_equal
  <2>2. a \in Scalar /\ b \in Scalar
    BY <1>2, <2>1, MatrixVariants DEF FlatVariant, ScalarEqual
  <2> QED BY <1>2, <2>1, <2>2, ScalarSymmetric DEF variant_equal
<1> QED BY <1>1, <1>2

LEMMA ScalarReflexive ==
  ASSUME NEW a \in Scalar
  PROVE  ScalarEqual(a, a) <=> a.m_type # "EMPTY"
<1>1. Apart(Units(a), Units(a)) < Epsilon
  BY OpsAssumption, ScalarTypes, ApartSymmetric
<1> QED BY <1>1, ScalarTypes DEF ScalarEqual, Numeric

\* A matrix equals itself, or a copy of itself, if and only if it has no empty
\* element: variant_equal has no branch for the empty type.
THEOREM EqualToItself ==
  ASSUME NEW m \in Matrix(Scalar)
  PROVE  matrix_compare(m, m) <=> \A k \in DOMAIN m.m_values : m.m_values[k].m_type # "EMPTY"
  BY MatrixDomain, ScalarReflexive DEF matrix_compare

-----------------------------------------------------------------------------
(* Order                                                                   *)

\* The first place where two texts differ orders them.
LEMMA TextLessIsStrict ==
  ASSUME NEW s \in Seq(Nat), NEW t \in Seq(Nat), TextLess(s, t)
  PROVE  ~TextLess(t, s) /\ s # t
<1>1. PICK k \in 1..Len(t) : /\ \A j \in 1..k - 1 : j <= Len(s) /\ s[j] = t[j]
                             /\ k <= Len(s) => s[k] < t[k]
  BY DEF TextLess
<1>2. ASSUME NEW n \in 1..Len(s),
             \A j \in 1..n - 1 : j <= Len(t) /\ t[j] = s[j],
             n <= Len(t) => t[n] < s[n]
      PROVE  FALSE
  <2>1. CASE n < k
    <3>1. n \in 1..k - 1 /\ n <= Len(t) BY <2>1
    <3> QED BY <1>1, <1>2, <3>1
  <2>2. CASE n = k BY <1>1, <1>2, <2>2
  <2>3. CASE n > k
    <3>1. k \in 1..n - 1 /\ k <= Len(s) BY <2>3
    <3> QED BY <1>1, <1>2, <3>1
  <2> QED BY <2>1, <2>2, <2>3
<1>3. ~TextLess(t, s) BY <1>2 DEF TextLess
<1>4. s # t
  <2> SUFFICES ASSUME s = t PROVE FALSE OBVIOUS
  <2> QED BY <1>1
<1> QED BY <1>3, <1>4

LEMMA TextLessIsTransitive ==
  ASSUME NEW s \in Seq(Nat), NEW t \in Seq(Nat), NEW u \in Seq(Nat),
         TextLess(s, t), TextLess(t, u)
  PROVE  TextLess(s, u)
<1>1. PICK k \in 1..Len(t) : /\ \A j \in 1..k - 1 : j <= Len(s) /\ s[j] = t[j]
                             /\ k <= Len(s) => s[k] < t[k]
  BY DEF TextLess
<1>2. PICK n \in 1..Len(u) : /\ \A j \in 1..n - 1 : j <= Len(t) /\ t[j] = u[j]
                             /\ n <= Len(t) => t[n] < u[n]
  BY DEF TextLess
<1>3. CASE n < k
  <2>1. \A j \in 1..n - 1 : j <= Len(s) /\ s[j] = u[j] BY SMTT(30), <1>1, <1>2, <1>3
  <2>2. n <= Len(s) => s[n] < u[n]
    <3>1. n \in 1..k - 1 /\ n <= Len(t) BY <1>3
    <3> QED BY <1>1, <1>2, <3>1
  <2> QED BY <2>1, <2>2 DEF TextLess
<1>4. CASE n = k
  <2>1. \A j \in 1..n - 1 : j <= Len(s) /\ s[j] = u[j] BY <1>1, <1>2, <1>4
  <2>2. n <= Len(s) => s[n] < u[n] BY SMTT(30), <1>1, <1>2, <1>4
  <2> QED BY <2>1, <2>2 DEF TextLess
<1>5. CASE n > k
  <2>1. \A j \in 1..k - 1 : j <= Len(s) /\ s[j] = u[j] BY <1>1, <1>2, <1>5
  <2>2. k \in 1..Len(u) /\ t[k] = u[k] BY <1>2, <1>5
  <2>3. k <= Len(s) => s[k] < u[k] BY <1>1, <2>2
  <2> QED BY <2>1, <2>2, <2>3 DEF TextLess
<1> QED BY <1>3, <1>4, <1>5

\* variant_less orders ints, doubles and strings strictly, also when ints and
\* doubles are mixed: it can be used to sort.
THEOREM LessIsStrictOrder ==
  ASSUME NEW a \in FlatVariant, NEW b \in FlatVariant, NEW c \in FlatVariant, variant_less(a, b)
  PROVE  ~variant_less(b, a) /\ (variant_less(b, c) => variant_less(a, c))
<1>1. ASSUME NEW x \in FlatVariant, Numeric(x) \/ x.m_type = "STRING" PROVE x \in Scalar
  BY <1>1, MatrixVariants DEF FlatVariant
<1>2. a \in Scalar /\ b \in Scalar BY <1>1 DEF variant_less
<1>3. CASE Numeric(a)
  <2>1. Numeric(b) /\ Units(a) < Units(b) BY <1>3 DEF variant_less, Numeric
  <2>2. ~variant_less(b, a) BY <1>2, <1>3, <2>1, ScalarTypes DEF variant_less, Numeric
  <2>3. ASSUME variant_less(b, c) PROVE variant_less(a, c)
    <3>1. Numeric(c) /\ Units(b) < Units(c) BY <2>1, <2>3 DEF variant_less, Numeric
    <3>2. c \in Scalar BY <1>1, <3>1
    <3> QED BY <1>2, <1>3, <2>1, <3>1, <3>2, ScalarTypes DEF variant_less
  <2> QED BY <2>2, <2>3
<1>4. CASE a.m_type = "STRING"
  <2>1. b.m_type = "STRING" /\ TextLess(a.m_s, b.m_s) BY <1>4 DEF variant_less, Numeric
  <2>2. ~variant_less(b, a)
    BY <1>2, <1>4, <2>1, ScalarTypes, TextLessIsStrict DEF variant_less, Numeric
  <2>3. ASSUME variant_less(b, c) PROVE variant_less(a, c)
    <3>1. c.m_type = "STRING" /\ TextLess(b.m_s, c.m_s)
      BY <2>1, <2>3 DEF variant_less, Numeric
    <3>2. c \in Scalar BY <1>1, <3>1
    <3> QED BY <1>2, <1>4, <2>1, <3>1, <3>2, ScalarTypes, TextLessIsTransitive
            DEF variant_less
  <2> QED BY <2>2, <2>3
<1> QED BY <1>3, <1>4 DEF variant_less

\* Of two numbers one is less than the other or they are equal; ints are never
\* both, a double may be: it is equal to whatever is closer than Epsilon.
THEOREM NumbersCompare ==
  ASSUME NEW a \in Scalar, NEW b \in Scalar, Numeric(a), Numeric(b), a.m_s = b.m_s
  PROVE  /\ variant_less(a, b) \/ variant_less(b, a) \/ variant_equal(a, b)
         /\ BothInt(a, b) => ~(variant_less(a, b) /\ variant_equal(a, b))
<1>1. variant_equal(a, b) <=> ScalarEqual(a, b)
  BY DEF variant_equal, Numeric
<1>2. CASE BothInt(a, b)
  <2>1. variant_less(a, b) <=> a.m_n < b.m_n
    <3>1. a.m_n * Unit < b.m_n * Unit <=> a.m_n < b.m_n
      BY OpsAssumption, ScalarTypes
    <3> QED BY <1>2, <3>1 DEF variant_less, Numeric, Units, BothInt
  <2>2. variant_less(b, a) <=> b.m_n < a.m_n
    <3>1. b.m_n * Unit < a.m_n * Unit <=> b.m_n < a.m_n
      BY OpsAssumption, ScalarTypes
    <3> QED BY <1>2, <3>1 DEF variant_less, Numeric, Units, BothInt
  <2>3. ScalarEqual(a, b) <=> a.m_n = b.m_n /\ a.m_s = b.m_s
    BY <1>2 DEF ScalarEqual, BothInt
  <2> QED BY <1>1, <1>2, <2>1, <2>2, <2>3, ScalarTypes
<1>3. CASE ~BothInt(a, b)
  <2>1. Units(a) = Units(b) => ScalarEqual(a, b)
    <3>1. a.m_type = "DOUBLE" \/ b.m_type = "DOUBLE" BY <1>3 DEF BothInt, Numeric
    <3>2. \A x \in Int : Apart(x, x) < Epsilon BY OpsAssumption DEF Apart
    <3>3. Units(a) \in Int BY ScalarTypes
    <3>4. ScalarEqual(a, b) <=> Apart(Units(a), Units(b)) < Epsilon
      BY <3>1 DEF ScalarEqual
    <3> QED BY <3>2, <3>3, <3>4
  <2> QED BY <1>1, <1>3, <2>1, ScalarTypes DEF variant_less
<1> QED BY <1>2, <1>3

-----------------------------------------------------------------------------
(* Width                                                                   *)

\* Sums and products of ints are ints, and exact when they have one.
THEOREM WrapFits ==
  ASSUME NEW n \in Int
  PROVE  IsInt(Wrap(n)) /\ (IsInt(n) => Wrap(n) = n)
<1> DEFINE w == 2 * (MaxInt + 1)
<1>1. w \in Nat \ {0} /\ w = 2 * MaxInt + 2 BY OpsAssumption
<1>2. (n + MaxInt + 1) % w \in 0..w - 1 BY <1>1, OpsAssumption
<1>3. IsInt(Wrap(n))
  BY <1>1, <1>2, OpsAssumption DEF Wrap, IsInt
<1>4. ASSUME IsInt(n) PROVE Wrap(n) = n
  <2>1. n + MaxInt + 1 \in 0..w - 1 BY <1>1, <1>4, OpsAssumption DEF IsInt
  <2>2. (n + MaxInt + 1) % w = n + MaxInt + 1 BY <1>1, <2>1
  <2> QED BY <2>2, OpsAssumption DEF Wrap
<1> QED BY <1>3, <1>4

\* An int that becomes a double and an int again is what it was.
THEOREM IntsSurviveDoubles ==
  ASSUME NEW a \in Scalar, a.m_type = "INT", IsInt(a.m_n)
  PROVE  variant_as_int(Number("DOUBLE", variant_as_double(a))) = a.m_n
<1> DEFINE n == a.m_n
           d == n * Unit
<1>1. variant_as_double(a) = d
  BY DEF variant_as_double, Numeric, Units
<1>2. n \in Int /\ Unit \in Nat \ {0} /\ d \in Int BY ScalarTypes, OpsAssumption
<1>3. variant_as_int(Number("DOUBLE", d)) = Truncated(d)
  BY DEF variant_as_int, Number, variant_empty
<1>4. CASE n >= 0
  <2>1. d >= 0 /\ d \div Unit = n BY <1>2, <1>4
  <2> QED BY <1>1, <1>3, <2>1 DEF Truncated
<1>5. CASE n < 0
  <2>1. d < 0 /\ (-d) = (-n) * Unit BY <1>2, <1>5
  <2>2. ((-n) * Unit) \div Unit = -n BY <1>2, <1>5
  <2>3. -((-d) \div Unit) = n BY <1>2, <2>1, <2>2
  <2>4. ~(d >= 0) BY <1>2, <2>1
  <2> HIDE DEF d
  <2> QED BY <1>1, <1>3, <2>3, <2>4 DEF Truncated
<1> QED BY <1>2, <1>4, <1>5

\* Sums and products of numbers, and the conjunction and disjunction of bools, do
\* not depend on the order, also where an int meets a double and where ints wrap.
THEOREM OperatorsCommute ==
  ASSUME NEW a \in Scalar, NEW b \in Scalar
  PROVE  /\ Numeric(a) /\ Numeric(b) => /\ variant_add(a, b) = variant_add(b, a)
                                        /\ variant_multiply(a, b) = variant_multiply(b, a)
         /\ variant_and(a, b) <=> variant_and(b, a)
         /\ variant_or(a, b) <=> variant_or(b, a)
<1>1. /\ a.m_n + b.m_n = b.m_n + a.m_n /\ a.m_n * b.m_n = b.m_n * a.m_n
      /\ Units(a) + Units(b) = Units(b) + Units(a)
      /\ Units(a) * Units(b) = Units(b) * Units(a)
  BY ScalarTypes
<1>2. Numeric(a) /\ Numeric(b) => variant_add(a, b) = variant_add(b, a)
  BY <1>1, Zenon DEF variant_add, BothInt
<1>3. Numeric(a) /\ Numeric(b) => variant_multiply(a, b) = variant_multiply(b, a)
  BY <1>1, Zenon DEF variant_multiply, BothInt
<1>4. (variant_and(a, b) <=> variant_and(b, a)) /\ (variant_or(a, b) <=> variant_or(b, a))
  BY DEF variant_and, variant_or, BothBool
<1> QED BY <1>2, <1>3, <1>4

-----------------------------------------------------------------------------
(* Matrices                                                                *)

LEMMA Places ==
  ASSUME NEW w \in Nat, NEW h \in Nat, NEW i \in 0..w - 1, NEW j \in 0..h - 1
  PROVE  /\ j * w + i + 1 \in 1..w * h
         /\ (j * w + i) % w = i /\ (j * w + i) \div w = j
<1>1. w \in Nat \ {0} OBVIOUS
<1>2. j * w + w <= h * w
  <2>1. (j + 1) * w <= h * w BY <1>1
  <2> QED BY <2>1
<1>3. j * w \in Nat BY <1>1
<1>4. (j * w + i) \div w = j /\ (j * w + i) % w = i BY <1>1, <1>3
<1> QED BY <1>2, <1>3, <1>4

LEMMA PlacesBack ==
  ASSUME NEW w \in Nat, NEW h \in Nat, NEW k \in 1..w * h
  PROVE  /\ (k - 1) % w \in 0..w - 1 /\ (k - 1) \div w \in 0..h - 1
         /\ ((k - 1) \div w) * w + ((k - 1) % w) + 1 = k
<1>1. w \in Nat \ {0} /\ h \in Nat \ {0} OBVIOUS
<1> DEFINE q == (k - 1) \div w
           r == (k - 1) % w
<1>2. q \in Int /\ r \in 0..w - 1 /\ k - 1 = q * w + r BY <1>1
<1>3. q >= 0
  <2>1. q < 0 => q * w <= -w BY <1>1, <1>2
  <2> QED BY <1>1, <1>2, <2>1
<1>4. q <= h - 1
  <2>1. q >= h => q * w >= h * w BY <1>1, <1>2
  <2> QED BY <1>1, <1>2, <2>1
<1> QED BY <1>2, <1>3, <1>4

\* Where matrix_move_rows takes the elements of a row from.
Source(j, row1, row2) == IF j = row1 THEN row2 ELSE IF j = row2 THEN row1 ELSE j

LEMMA MovedRows ==
  ASSUME NEW m, m.m_width \in Nat, m.m_height \in Nat, NEW row1, NEW row2
  PROVE  /\ matrix_move_rows(m, row1, row2).m_width = m.m_width
         /\ matrix_move_rows(m, row1, row2).m_height = m.m_height
         /\ DOMAIN matrix_move_rows(m, row1, row2).m_values = 1..m.m_width * m.m_height
         /\ \A i \in 0..m.m_width - 1, j \in 0..m.m_height - 1 :
              matrix_get(matrix_move_rows(m, row1, row2), i, j)
                = matrix_get(m, i, Source(j, row1, row2))
<1> DEFINE t == matrix_move_rows(m, row1, row2)
           w == m.m_width
<1>1. /\ t.m_width = m.m_width /\ t.m_height = m.m_height
      /\ t.m_values = [k \in 1..m.m_width * m.m_height |->
                         matrix_get(m, (k - 1) % m.m_width,
                           Source((k - 1) \div m.m_width, row1, row2))]
  BY DEF matrix_move_rows, Build, Source
<1>2. ASSUME NEW i \in 0..w - 1, NEW j \in 0..m.m_height - 1
      PROVE  matrix_get(t, i, j) = matrix_get(m, i, Source(j, row1, row2))
  <2> DEFINE k == j * w + i + 1
  <2>1. k \in 1..w * m.m_height /\ (j * w + i) % w = i /\ (j * w + i) \div w = j
    BY ZenonT(60), Places
  <2>2. k - 1 = j * w + i OBVIOUS
  <2>3. matrix_get(t, i, j) = t.m_values[k] BY <1>1 DEF matrix_get, Index
  <2>4. t.m_values[k] = matrix_get(m, (k - 1) % w, Source((k - 1) \div w, row1, row2))
    BY <1>1, <2>1
  <2> HIDE DEF k, t
  <2> QED BY <2>1, <2>2, <2>3, <2>4
<1> QED BY <1>1, <1>2

\* Two rows moved twice are where they were: matrix_move_rows loses no element.
THEOREM MoveRowsTwice ==
  ASSUME NEW m \in Matrix(Scalar),
         NEW row1 \in 0..m.m_height - 1, NEW row2 \in 0..m.m_height - 1
  PROVE  matrix_move_rows(matrix_move_rows(m, row1, row2), row1, row2) = m
<1> DEFINE t == matrix_move_rows(m, row1, row2)
           u == matrix_move_rows(t, row1, row2)
           w == m.m_width
           h == m.m_height
<1>1. /\ m = [m_width |-> w, m_height |-> h, m_values |-> m.m_values]
      /\ w \in Nat /\ h \in Nat /\ m.m_values = [k \in 1..w * h |-> m.m_values[k]]
  BY MatrixDomain DEF Matrix
<1>2. /\ t.m_width = w /\ t.m_height = h
      /\ \A i \in 0..w - 1, j \in 0..h - 1 :
           matrix_get(t, i, j) = matrix_get(m, i, Source(j, row1, row2))
  BY <1>1, MovedRows
<1>3. \A i \in 0..w - 1, j \in 0..h - 1 :
           matrix_get(u, i, j) = matrix_get(t, i, Source(j, row1, row2))
  BY <1>1, <1>2, MovedRows
<1>4. /\ u = [m_width |-> w, m_height |-> h, m_values |-> u.m_values]
      /\ u.m_values = [k \in 1..w * h |-> u.m_values[k]]
  BY <1>2 DEF matrix_move_rows, Build
<1>5. ASSUME NEW k \in 1..w * h PROVE u.m_values[k] = m.m_values[k]
  <2> DEFINE i == (k - 1) % w
             j == (k - 1) \div w
  <2>1. i \in 0..w - 1 /\ j \in 0..h - 1 /\ j * w + i + 1 = k BY <1>1, PlacesBack
  <2>2. Source(j, row1, row2) \in 0..h - 1
        /\ Source(Source(j, row1, row2), row1, row2) = j
    BY <2>1 DEF Source
  <2>3. matrix_get(u, i, j) = matrix_get(m, i, j)
    <3> HIDE DEF t, u, i, j
    <3> QED BY <1>2, <1>3, <2>1, <2>2
  <2>4. matrix_get(u, i, j) = u.m_values[k] /\ matrix_get(m, i, j) = m.m_values[k]
    <3>1. u.m_width = w BY <1>4
    <3> HIDE DEF t, u, i, j
    <3> QED BY <2>1, <3>1 DEF matrix_get, Index
  <2> QED BY <2>3, <2>4
<1>6. u.m_values = m.m_values
  <2> HIDE DEF u
  <2> QED BY <1>1, <1>4, <1>5
<1> QED BY <1>1, <1>4, <1>6

\* An identity matrix of two rows or more is not equal to itself: beside its
\* diagonal it is empty, and nothing is equal to an empty variant.
THEOREM IdentityUnlikeItself ==
  ASSUME NEW n \in Nat, n >= 2
  PROVE  ~variant_equal(variant_from_matrix(matrix_identity(n)),
                        variant_from_matrix(matrix_identity(n)))
<1> DEFINE m == matrix_identity(n)
<1>1. 0 * n + 1 + 1 \in 1..n * n /\ (0 * n + 1) % n = 1 /\ (0 * n + 1) \div n = 0
  <2>1. 1 \in 0..n - 1 /\ 0 \in 0..n - 1 OBVIOUS
  <2> QED BY <2>1, Places
<1>2. 2 \in 1..n * n /\ (2 - 1) % n = 1 /\ (2 - 1) \div n = 0
  <2>1. 0 * n = 0 OBVIOUS
  <2> QED BY <1>1, <2>1
<1>3. m.m_values = [k \in 1..n * n |-> IF (k - 1) % n = (k - 1) \div n
                                       THEN Number("INT", 1) ELSE variant_empty]
  BY DEF matrix_identity, Build
<1>4. 2 \in DOMAIN m.m_values /\ m.m_values[2] = variant_empty
  <2> HIDE DEF m
  <2> QED BY <1>2, <1>3
<1>5. ~ScalarEqual(m.m_values[2], m.m_values[2])
  <2>1. ~ScalarEqual(variant_empty, variant_empty)
    BY DEF ScalarEqual, variant_empty, Numeric
  <2> HIDE DEF m
  <2> QED BY <1>4, <2>1
<1>6. variant_from_matrix(m).m_type = "MATRIX" /\ variant_from_matrix(m).m_m = m
  <2> HIDE DEF m
  <2> QED BY DEF variant_from_matrix, variant_empty
<1> HIDE DEF m
<1>7. ~variant_equal(variant_from_matrix(m), variant_from_matrix(m))
  BY <1>4, <1>5, <1>6 DEF variant_equal, matrix_compare
<1> QED BY <1>7 DEF m

\* matrix_replace_row takes the elements of the new row that both matrices have,
\* and leaves every other element where it was.
THEOREM ReplaceRowKeepsRest ==
  ASSUME NEW a \in Matrix(Scalar), NEW b \in Matrix(Scalar),
         NEW row1 \in 0..a.m_height - 1, NEW row2 \in 0..b.m_height - 1,
         NEW i \in 0..a.m_width - 1, NEW j \in 0..a.m_height - 1
  PROVE  matrix_get(matrix_replace_row(a, row1, b, row2), i, j) =
           IF j = row1 /\ i < b.m_width THEN matrix_get(b, i, row2)
           ELSE matrix_get(a, i, j)
<1> DEFINE t == matrix_replace_row(a, row1, b, row2)
           w == a.m_width
           k == j * w + i + 1
<1>1. /\ t.m_width = w
      /\ t.m_values = [n \in 1..w * a.m_height |->
           IF (n - 1) \div w = row1 /\ (n - 1) % w < b.m_width
           THEN matrix_get(b, (n - 1) % w, row2)
           ELSE matrix_get(a, (n - 1) % w, (n - 1) \div w)]
  BY DEF matrix_replace_row, Build
<1>2. k \in 1..w * a.m_height /\ (j * w + i) % w = i /\ (j * w + i) \div w = j
  BY ZenonT(60), MatrixDomain, Places
<1>3. k - 1 = j * w + i BY MatrixDomain
<1>4. matrix_get(t, i, j) = t.m_values[k] BY <1>1 DEF matrix_get, Index
<1> HIDE DEF k, t
<1>5. t.m_values[k] = IF (k - 1) \div w = row1 /\ (k - 1) % w < b.m_width
                      THEN matrix_get(b, (k - 1) % w, row2)
                      ELSE matrix_get(a, (k - 1) % w, (k - 1) \div w)
  BY <1>1, <1>2
<1> QED BY <1>2, <1>3, <1>4, <1>5 DEF t

\* matrix_get_row gives a matrix of one row with the elements of the row asked for.
LEMMA RowGot ==
  ASSUME NEW b \in Matrix(Scalar), NEW row \in 0..b.m_height - 1
  PROVE  /\ matrix_get_row(b, row) \in Matrix(Scalar)
         /\ matrix_get_row(b, row).m_width = b.m_width
         /\ matrix_get_row(b, row).m_height = 1
         /\ \A i \in 0..b.m_width - 1 :
              matrix_get(matrix_get_row(b, row), i, 0) = matrix_get(b, i, row)
<1> DEFINE r == matrix_get_row(b, row)
           w == b.m_width
           at(k) == matrix_get_safe(b, (k - 1) % w, row)
<1>1. w \in Nat /\ b.m_height \in Nat /\ w * 1 = w BY MatrixDomain
<1>2. r = [m_width |-> w, m_height |-> 1, m_values |-> [k \in 1..w |-> at(k)]]
  BY <1>1 DEF matrix_get_row, Build
<1>3. ASSUME NEW i \in 0..w - 1
      PROVE  at(i + 1) = matrix_get(b, i, row) /\ matrix_get(b, i, row) \in Scalar
  <2>1. (0 * w + i) % w = i /\ 0 * w = 0 BY <1>1, Places, 0 \in 0..1 - 1
  <2>2. (i + 1 - 1) % w = i BY <1>1, <2>1
  <2>3. Inside(b, i, row) BY DEF Inside
  <2>4. Index(b, i, row) \in DOMAIN b.m_values
    BY <1>1, MatrixDomain, Places DEF Index
  <2>5. b.m_values[Index(b, i, row)] \in Scalar
    BY <2>4, MatrixDomain
  <2> QED BY <2>2, <2>3, <2>5 DEF matrix_get_safe, matrix_get
<1>4. \A k \in 1..w : at(k) \in Scalar
  <2> TAKE k \in 1..w
  <2>1. k - 1 \in 0..w - 1 /\ k - 1 + 1 = k BY <1>1
  <2> HIDE DEF at
  <2> QED BY <1>3, <2>1
<1>5. r \in Matrix(Scalar)
  <2> HIDE DEF at
  <2>1. [k \in 1..w |-> at(k)] \in Seq(Scalar) /\ Len([k \in 1..w |-> at(k)]) = w
    BY <1>1, <1>4
  <2> QED BY <1>1, <1>2, <2>1 DEF Matrix
<1>6. ASSUME NEW i \in 0..w - 1 PROVE matrix_get(r, i, 0) = matrix_get(b, i, row)
  <2>1. Index(r, i, 0) = i + 1 /\ i + 1 \in 1..w
    BY <1>1, <1>2 DEF Index
  <2> HIDE DEF at
  <2> QED BY <1>2, <1>3, <2>1 DEF matrix_get
<1> QED BY <1>2, <1>5, <1>6

\* A row that matrix_get_row takes out of one matrix and matrix_replace_row puts into
\* another is there afterwards.
THEOREM RowIsMoved ==
  ASSUME NEW a \in Matrix(Scalar), NEW b \in Matrix(Scalar),
         NEW row1 \in 0..a.m_height - 1, NEW row2 \in 0..b.m_height - 1,
         NEW i \in 0..a.m_width - 1, i < b.m_width
  PROVE  matrix_get(matrix_replace_row(a, row1, matrix_get_row(b, row2), 0), i, row1)
           = matrix_get(b, i, row2)
<1> DEFINE r == matrix_get_row(b, row2)
<1>1. /\ r \in Matrix(Scalar) /\ r.m_width = b.m_width /\ r.m_height = 1
      /\ matrix_get(r, i, 0) = matrix_get(b, i, row2)
  BY RowGot, MatrixDomain
<1>2. 0 \in 0..r.m_height - 1 BY <1>1
<1> HIDE DEF r
<1>3. matrix_get(matrix_replace_row(a, row1, r, 0), i, row1) = matrix_get(r, i, 0)
  BY <1>1, <1>2, ReplaceRowKeepsRest
<1> QED BY <1>1, <1>3 DEF r

\* matrix_swap makes a matrix of the same size the same, element by element; it
\* swaps nothing.
THEOREM SwapCopies ==
  ASSUME NEW to \in Matrix(Scalar), NEW from \in Matrix(Scalar),
         to.m_width = from.m_width, to.m_height = from.m_height
  PROVE  matrix_swap(to, from) = from
<1> DEFINE t == matrix_swap(to, from)
           w == from.m_width
           h == from.m_height
<1>1. /\ from = [m_width |-> w, m_height |-> h, m_values |-> from.m_values]
      /\ w \in Nat /\ h \in Nat /\ from.m_values = [k \in 1..w * h |-> from.m_values[k]]
  BY MatrixDomain DEF Matrix
<1>2. t = [m_width |-> w, m_height |-> h,
           m_values |-> [k \in 1..w * h |-> matrix_get(from, (k - 1) % w, (k - 1) \div w)]]
  BY DEF matrix_swap, Build
<1>3. ASSUME NEW k \in 1..w * h
      PROVE  matrix_get(from, (k - 1) % w, (k - 1) \div w) = from.m_values[k]
  BY <1>1, PlacesBack DEF matrix_get, Index
<1>4. [k \in 1..w * h |-> matrix_get(from, (k - 1) % w, (k - 1) \div w)] = from.m_values
  BY <1>1, <1>3
<1> QED BY <1>1, <1>2, <1>4

\* What the C++ methods set at a place inside the matrix is what they get there,
\* what was at any other place stays, and no place outside does any harm.
THEOREM SetIsGot ==
  ASSUME NEW m \in Matrix(Scalar), NEW v \in Scalar,
         NEW i \in Int, NEW j \in Int, NEW x \in Int, NEW y \in Int
  PROVE  matrix_get_safe(matrix_set_safe(m, i, j, v), x, y) =
           IF x = i /\ y = j /\ Inside(m, i, j) THEN v ELSE matrix_get_safe(m, x, y)
<1> DEFINE t == matrix_set(m, i, j, v)
<1>1. CASE ~Inside(m, i, j)
  BY <1>1 DEF matrix_set_safe
<1>2. CASE Inside(m, i, j)
  <2>1. matrix_set_safe(m, i, j, v) = t BY <1>2 DEF matrix_set_safe
  <2>2. Index(m, i, j) \in DOMAIN m.m_values
    BY <1>2, MatrixDomain, Places DEF Inside, Index
  <2>3. /\ t.m_width = m.m_width /\ t.m_height = m.m_height
        /\ t.m_values = [m.m_values EXCEPT ![Index(m, i, j)] = v]
    BY DEF matrix_set, Matrix
  <2>4. Inside(t, x, y) <=> Inside(m, x, y) BY <2>3 DEF Inside
  <2>5. CASE ~Inside(m, x, y)
    BY <1>2, <2>1, <2>4, <2>5 DEF matrix_get_safe
  <2>6. CASE Inside(m, x, y)
    <3>1. Index(m, x, y) \in DOMAIN m.m_values
      BY <2>6, MatrixDomain, Places DEF Inside, Index
    <3>2. Index(t, x, y) = Index(m, x, y) BY <2>3 DEF Index
    <3>3. Index(m, x, y) = Index(m, i, j) => x = i /\ y = j
      <4>0. m.m_width \in Nat /\ m.m_height \in Nat BY MatrixDomain
      <4>1. /\ (j * m.m_width + i) % m.m_width = i /\ (j * m.m_width + i) \div m.m_width = j
            /\ (y * m.m_width + x) % m.m_width = x /\ (y * m.m_width + x) \div m.m_width = y
        <5>1. i \in 0..m.m_width - 1 /\ j \in 0..m.m_height - 1 BY <1>2 DEF Inside
        <5>2. x \in 0..m.m_width - 1 /\ y \in 0..m.m_height - 1 BY <2>6 DEF Inside
        <5>3. (j * m.m_width + i) % m.m_width = i /\ (j * m.m_width + i) \div m.m_width = j
          BY ZenonT(60), <4>0, <5>1, Places
        <5>4. (y * m.m_width + x) % m.m_width = x /\ (y * m.m_width + x) \div m.m_width = y
          BY ZenonT(60), <4>0, <5>2, Places
        <5> QED BY <5>3, <5>4
      <4>2. Index(m, x, y) = Index(m, i, j) => y * m.m_width + x = j * m.m_width + i
        <5>1. y * m.m_width + x \in Int /\ j * m.m_width + i \in Int BY MatrixDomain
        <5> QED BY <5>1 DEF Index
      <4> QED BY <4>1, <4>2
    <3>4. matrix_get_safe(t, x, y) = t.m_values[Index(m, x, y)]
      BY <2>4, <2>6, <3>2 DEF matrix_get_safe, matrix_get
    <3>5. matrix_get_safe(m, x, y) = m.m_values[Index(m, x, y)]
      BY <2>6 DEF matrix_get_safe, matrix_get
    <3>6. CASE x = i /\ y = j BY <1>2, <2>1, <2>2, <2>3, <3>4, <3>6
    <3>7. CASE ~(x = i /\ y = j)
      <4>1. t.m_values[Index(m, x, y)] = m.m_values[Index(m, x, y)]
        BY <2>3, <3>1, <3>3, <3>7
      <4> QED BY <2>1, <3>4, <3>5, <3>7, <4>1
    <3> QED BY <3>6, <3>7
  <2> QED BY <2>5, <2>6
<1> QED BY <1>1, <1>2
=============================================================================

----------------------------- MODULE MatrixOps -----------------------------
(***************************************************************************)
(* The kernels of Phase 1.  A caller allocates a result for matrices of    *)
(* one shape and calls kernels with it again and again, as the benchmarks  *)
(* of MatrixOpsTest.cpp do.                                                *)
(*                                                                         *)
(* An array is a function of offsets.  Its elements are abstract: element  *)
(* <<r, c>> of a matrix is its r-th row's c-th entry, wherever the layout  *)
(* puts it.  A sum is the bag of its terms, and a term is the pair of its  *)
(* factors: addition is that of numbers, without rounding.                 *)
(***************************************************************************)
EXTENDS Integers, Bags, FiniteSetsExt

CONSTANT Shapes   \* [rows, inner, given, cols]: a rows x inner matrix, a given x cols one

ASSUME ShapesAssumption == \A s \in Shapes : s \in [rows : Nat, inner : Nat, given : Nat, cols : Nat]

VARIABLES shape,
          result,  \* offset -> sum
          called   \* the kernel called last, "none" after the allocation

matrixVars == <<shape, result, called>>

Garbage == SetToBag({<< >>})   \* some number that is no product
Blank(n) == [k \in 0 .. n - 1 |-> Garbage]

MatrixInit == /\ shape \in Shapes
              /\ result = Blank(shape.rows * shape.cols)
              /\ called = "none"

\* Both layouts; a vector is a matrix of one column.
RowMajor(rows, cols) == [k \in 0 .. rows * cols - 1 |-> <<k \div cols, k % cols>>]
ColMajor(rows, cols) == [k \in 0 .. rows * cols - 1 |-> <<k % rows, k \div rows>>]

\* temp = 0.0, and += term[k] for every k of a loop: each term enters the sum
\* as often as a k brings it.
Sum(term) == [t \in Range(term) |-> Cardinality({k \in DOMAIN term : term[k] = t})]
-----------------------------------------------------------------------------
\* multiply_mv_row_major
MvRowMajor(rows, cols) ==
  LET matrix == RowMajor(rows, cols)
      vector == RowMajor(cols, 1)
  IN  [row \in 0 .. rows - 1 |->
         Sum([col \in 0 .. cols - 1 |-> <<matrix[row * cols + col], vector[col]>>])]

\* dot_product_unrolled_aligned: four partial sums while four columns are
\* left, then one column at a time.
DotProductUnrolled(matrix, row_ptr, vector, cols) ==
  LET starts  == {i \in 0 .. cols - 4 : i % 4 = 0}
      i0      == IF starts = {} THEN 0 ELSE Max(starts) + 4
      term    == [i \in 0 .. cols - 1 |-> <<matrix[row_ptr + i], vector[i]>>]
      sum(l)  == Sum(Restrict(term, {i + l : i \in starts}))
  IN  sum(0) (+) sum(1) (+) sum(2) (+) sum(3) (+) Sum(Restrict(term, i0 .. cols - 1))

MvRowMajorOptimised(rows, cols) ==
  [row \in 0 .. rows - 1 |->
     DotProductUnrolled(RowMajor(rows, cols), row * cols, RowMajor(cols, 1), cols)]

\* The loop nest of multiply_mv_col_major, on what result holds before it.
AddColumns(rows, cols, start) ==
  LET matrix == ColMajor(rows, cols)
      vector == RowMajor(cols, 1)
  IN  [row \in 0 .. rows - 1 |->
         start[row]
         (+) Sum([col \in 0 .. cols - 1 |-> <<matrix[col * rows + row], vector[col]>>])]

\* Mutant: the result is not zeroed first.
MvColMajorAdding(rows, cols, old) == AddColumns(rows, cols, old)

MvColMajor(rows, cols, old) == AddColumns(rows, cols, [row \in 0 .. rows - 1 |-> EmptyBag])

MvColMajorInline(rows, cols, old) == MvColMajor(rows, cols, old)

\* multiply_mm_naive, for matrices that fit
MmNaive(rowsA, colsA, colsB) ==
  LET matrixA == RowMajor(rowsA, colsA)
      matrixB == RowMajor(colsA, colsB)
  IN  [k \in 0 .. rowsA * colsB - 1 |->
         LET rowA == k \div colsB
             colB == k % colsB
         IN  Sum([colA \in 0 .. colsA - 1 |-> <<matrixA[colsA * rowA + colA],
                                                 matrixB[colsB * colA + colB]>>])]

\* One factor from each matrix, the second of which is handed over by columns.
MultiplyElement(matrixA, matrixB, i, j, k, colsA, rowsB) ==
  <<matrixA[colsA * i + k], matrixB[rowsB * j + k]>>

\* multiply_mm_transposed_b, which has the body of multiply_element in place
MmTransposedB(rowsA, colsA, rowsB, colsB) ==
  LET matrixA == RowMajor(rowsA, colsA)
      matrixB_transposed == ColMajor(rowsB, colsB)
  IN  [n \in 0 .. rowsA * colsB - 1 |->
         Sum([k \in 0 .. colsA - 1 |->
                MultiplyElement(matrixA, matrixB_transposed,
                                n \div colsB, n % colsB, k, colsA, rowsB)])]

MmTransposedBInline(rowsA, colsA, rowsB, colsB) == MmTransposedB(rowsA, colsA, rowsB, colsB)
-----------------------------------------------------------------------------
Positive == \A d \in DOMAIN shape : shape[d] > 0
Fitting  == shape.inner = shape.given

\* A kernel that refuses its arguments returns before it touches the result.
CallKernel(kernel, accepts, product) ==
  /\ result' = IF accepts THEN product ELSE result
  /\ called' = kernel
  /\ UNCHANGED shape

MultiplyMv ==
  /\ shape.cols = 1 /\ Fitting
  /\ \/ CallKernel("mv_row_major", Positive, MvRowMajor(shape.rows, shape.inner))
     \/ CallKernel("mv_row_major_optimised", Positive,
                   MvRowMajorOptimised(shape.rows, shape.inner))
     \/ CallKernel("mv_col_major", Positive, MvColMajor(shape.rows, shape.inner, result))
     \/ CallKernel("mv_col_major_inline", Positive,
                   MvColMajorInline(shape.rows, shape.inner, result))

MultiplyMmNaive ==
  CallKernel("mm_naive", Positive /\ Fitting, MmNaive(shape.rows, shape.inner, shape.cols))

\* It checks its arguments, and that is all.
MultiplyMmNaiveInline == CallKernel("mm_naive_inline", Positive, result)

\* The kernels do not look whether the matrices fit; their callers do.
MultiplyMmTransposedB ==
  /\ Fitting
  /\ \/ CallKernel("mm_transposed_b", Positive,
                   MmTransposedB(shape.rows, shape.inner, shape.given, shape.cols))
     \/ CallKernel("mm_transposed_b_inline", Positive,
                   MmTransposedBInline(shape.rows, shape.inner, shape.given, shape.cols))

MatrixNext == MultiplyMv \/ MultiplyMmNaive \/ MultiplyMmNaiveInline \/ MultiplyMmTransposedB

MatrixSpec == MatrixInit /\ [][MatrixNext]_matrixVars
-----------------------------------------------------------------------------
(***************************************************************************)
(* Every kernel but the empty one multiplies: whatever the array held, and *)
(* whatever the shape, each entry is the sum of exactly the products of    *)
(* its row and its column, also in the columns that are left over from     *)
(* groups of four; and a refused call leaves the array as it was allocated.*)
(***************************************************************************)
Product(i, j) == SetToBag({<<<<i, k>>, <<k, j>>>> : k \in 0 .. shape.inner - 1})

Multiplies ==
  IF ~(Positive /\ Fitting) THEN result = Blank(shape.rows * shape.cols)
  ELSE called \notin {"none", "mm_naive_inline"} =>
         \A i \in 0 .. shape.rows - 1, j \in 0 .. shape.cols - 1 :
            result[i * shape.cols + j] = Product(i, j)
=============================================================================

-------------------------------- MODULE Flops ---------------------------------
(***************************************************************************)
(* How many multiplications and additions the flops watchers reckon a      *)
(* kernel does.  The program computes in double; everything here is six    *)
(* times as much, which makes the sixths and halves integers.              *)
(***************************************************************************)
EXTENDS Integers, FiniteSets

fmuls_gemm(m, n, k) == 6 * m * n * k
fadds_gemm(m, n, k) == 6 * m * n * k

fmuls_syrk(k, n) == 3 * k * n * (n + 1)
fadds_syrk(k, n) == 3 * k * n * (n + 1)

\* Slip: one sign wrong.
fadds_trsm_plus(m, n) == 3 * n * m * (m + 1)

fmuls_trsm(m, n) == 3 * n * m * (m + 1)
fadds_trsm(m, n) == 3 * n * m * (m - 1)

\* 1/3 and 1/6 are quotients of ints, so 0; n/6 and n * n/6 are not.
fmuls_potrf(n) == n * (n + 3) * (n + 1 \div 3)
fadds_potrf(n) == n * n * (n - 1 \div 6)

-------------------------------------------------------------------------------
\* FLOPS of the watcher for a kernel on blocks of n x n.
KernelFlops(kernel, n) ==
  CASE kernel = "dgemm"  -> fmuls_gemm(n, n, n) + fadds_gemm(n, n, n)
    [] kernel = "dtrsm"  -> fmuls_trsm(n, n) + fadds_trsm(n, n)
    [] kernel = "dsyrk"  -> fmuls_syrk(n, n) + fadds_syrk(n, n)
    [] kernel = "dpotrf" -> fmuls_potrf(n) + fadds_potrf(n)

-------------------------------------------------------------------------------
(***************************************************************************)
(* What the textbook loops of these operations do on n x n blocks, counted *)
(* one by one: the multiplications and divisions, and the additions.       *)
(***************************************************************************)

\* x of a triangular system with n right-hand sides: row i takes a product
\* with each row below it, and a division.
TrsmMuls(n) == Cardinality({x \in (1 .. n) \X (1 .. n) \X (1 .. n) : x[1] <= x[2]})
TrsmAdds(n) == Cardinality({x \in (1 .. n) \X (1 .. n) \X (1 .. n) : x[1] < x[2]})

\* The upper triangle of c + a * a^T.
SyrkMuls(n) == Cardinality({x \in (1 .. n) \X (1 .. n) \X (1 .. n) : x[1] <= x[2]})

\* Cholesky: u[i,j] = (a[i,j] - sum of u[k,i]*u[k,j] over k < i) / u[i,i], for
\* i <= j, with a square root on the diagonal.
PotrfTriples(n) ==
  Cardinality({x \in (1 .. n) \X (1 .. n) \X (1 .. n) : x[3] < x[1] /\ x[1] <= x[2]})
PotrfEntries(n) == Cardinality({x \in (1 .. n) \X (1 .. n) : x[1] <= x[2]})

===============================================================================

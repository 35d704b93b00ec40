------------------------------- MODULE Kernels --------------------------------
(***************************************************************************)
(* The kernels one after another, in any order and on any parameters a     *)
(* scenario gives them: what each takes out of its list, which blocks it   *)
(* frees, allocates, fills and reaches into, and how the process ends when *)
(* that goes wrong.  What the BLAS computes is left out.                   *)
(*                                                                         *)
(* A cell holds a multiple of 1/Unit.                                      *)
(***************************************************************************)
EXTENDS Params, Flops

CONSTANTS
  DataSections,  \* the data sections: a type and a node for each name
  ParamLists,    \* the lists of names the actions have
  INT_MAX,       \* the greatest int
  SIZE_MAX,      \* the greatest size_t
  Memory,        \* the bytes an allocation gets at most
  BLOCK_SIZE,    \* of kernel_naive_dgemm
  bump,          \* of make_symmetric_positive_definite
  Unit,
  Rolls          \* the sequences the random engine may give from its seed on

ASSUME SizesAssumption ==
  /\ {BLOCK_SIZE, bump, Unit} \subseteq Nat \ {0}
  /\ {INT_MAX, SIZE_MAX, Memory} \subseteq Nat
  /\ INT_MAX <= SIZE_MAX /\ Memory <= SIZE_MAX
  /\ Rolls \subseteq Seq(1 - Unit .. Unit - 1) \ {<<>>}

\* What a node says is a number that fits in an int, or a truth value.
ASSUME DataAssumption ==
  \A data \in DataSections : \A x \in DOMAIN data :
    LET node == data[x].node IN
    /\ node.says = "number"  => node.value \in -INT_MAX - 1 .. INT_MAX
    /\ node.says = "boolean" => node.value \in BOOLEAN

ASSUME ListsAssumption == \A V \in ParamLists : V \in Seq({V[i] : i \in DOMAIN V})

VARIABLES
  dataMap,   \* the parameter each name stands for
  roll,      \* the engine's sequence: each call starts it again from its seed
  fate,      \* "running", or how the process ended
  made,      \* history: made[x]: the call that filled array x last
  sound,     \* history: every call has kept to its contract
  last       \* history: the last call

vars == <<dataMap, roll, fate, made, sound, last>>

-------------------------------------------------------------------------------
\* How many arrays a kernel asks for; each wants an int besides.
KernelNames == {"init_array", "init_blas_bloc", "init_symmetric", "dpotrf",
                "copy", "dtrsm", "dsyrk", "dgemm", "naive_dgemm"}
Takes ==
  [k \in KernelNames |->
     CASE k \in {"copy", "dtrsm", "dsyrk"}   -> 2
       [] k \in {"dgemm", "naive_dgemm"}     -> 3
       [] OTHER                              -> 1]

Args(k, V)  == [i \in 1 .. Takes[k] |-> GetNthParam(dataMap, i - 1, "PK_pdouble", V)]
SizeArg(V)  == GetNthParam(dataMap, 0, "PK_int", V)
Asserted(k, V) == SizeArg(V) # Null /\ \A i \in 1 .. Takes[k] : Args(k, V)[i] # Null

-------------------------------------------------------------------------------
\* The int that has the low bits of v.
Wrap(v) == ((v + INT_MAX + 1) % (2 * (INT_MAX + 1))) - (INT_MAX + 1)

\* A product of ints: on overflow it is undefined, and a build wraps it or
\* computes on in a wider register.
Products(a, b) == {Wrap(a * b), a * b}

\* Slip: the sign of an int is kept in a size_t.
AsSizeSigned(v) == v

\* The conversion to size_t.
AsSize(v) == v % (SIZE_MAX + 1)

\* hwloc_alloc_membind
Alloc(bytes) == IF bytes <= Memory THEN bytes ELSE 0

\* Reaching over so many bytes in a block of `bytes`.
Access(reach, bytes) ==
  IF reach <= bytes THEN "running" ELSE IF bytes = 0 THEN "segfault" ELSE "overrun"

\* distribution(0.0, 1.0) and distribution(-1.0, 1.0)
Roll(i)   == roll[(i % Len(roll)) + 1]
Roll01(i) == (Roll(i) + Unit) \div 2

-------------------------------------------------------------------------------
\* How many cells two nested loops from 0 to n go over.
Square(n) == IF n < 0 THEN 0 ELSE n * n

\* Enough is known of the cells for a matrix of n x n.
Whole(cells, n) == Square(n) <= Cardinality(DOMAIN cells)

\* Slip: i <= j, so that the diagonal is copied onto itself.
MakeSymmetricUnbumped(cells, n) ==
  LET cell(p, i, j) == IF i < j /\ i < n THEN cells[j * n + i] ELSE cells[p]
  IN IF ~ Whole(cells, n) THEN <<>>
     ELSE IF n <= 0 THEN cells
     ELSE [p \in DOMAIN cells |-> cell(p, p \div n, p % n)]

\* The diagonal is bumped, and the lower triangle copied over the upper one.
MakeSymmetric(cells, n) ==
  LET cell(p, i, j) == CASE i = j         -> cells[p] + bump * Unit
                         [] i < j /\ i < n -> cells[j * n + i]
                         [] OTHER         -> cells[p]
  IN IF ~ Whole(cells, n) THEN <<>>
     ELSE IF n <= 0 THEN cells
     ELSE [p \in DOMAIN cells |-> cell(p, p \div n, p % n)]

\* Slips: i++ for i += BLOCK_SIZE, and no `min`.
StartsEverywhere(n)   == 0 .. n - 1
ExtentUnbounded(n, i) == BLOCK_SIZE

\* kernel_naive_dgemm takes a block in each dimension from each of these on,
\* as large as `min` allows, and hands a, b and c themselves to naive_dgemm.
Starts(n)    == {i \in 0 .. n - 1 : i % BLOCK_SIZE = 0}
Extent(n, i) == IF BLOCK_SIZE < n - i THEN BLOCK_SIZE ELSE n - i

\* How often c[i,j] += a[i,k] * b[k,j] is done.
Times(n, i, j, k) ==
  LET Covering(x) == Cardinality({s \in Starts(n) : x < Extent(n, s)}) IN
  Covering(i) * Covering(j) * Covering(k)

\* The steps of the loops over one dimension: a block, and a place in it.
Steps(n) == {step \in Starts(n) \X (0 .. BLOCK_SIZE - 1) : step[2] < Extent(n, step[1])}

\* How many such updates it makes, of whichever cells.
Updates(n) == Cardinality(Steps(n) \X Steps(n) \X Steps(n))

\* How many bytes of its arrays a kernel reaches over: memcpy takes a size_t,
\* the others do nothing to a matrix of less than one row.
Reach(k, n) ==
  CASE k = "copy" -> AsSize(8 * n)
    [] k = "naive_dgemm" /\ n > 0 -> 8 * ((Extent(n, 0) - 1) * n + Extent(n, 0))
    [] OTHER -> 8 * Square(n)

-------------------------------------------------------------------------------
\* What a caller owes: arrays filled for as much as they are used for, and
\* sizes whose bytes are an int and can be had.
Elems(k, n)   == IF k \in {"init_array", "copy"} THEN n ELSE n * n
InitKernels   == {"init_array", "init_blas_bloc", "init_symmetric"}
NotMade       == [kernel |-> "none", elems |-> 0, size |-> 0]
KeepsContract(k, n, args) ==
  /\ n >= 0
  /\ IF k \in InitKernels
     THEN /\ 8 * Elems(k, n) <= Memory
          /\ k # "init_array" => 8 * Elems(k, n) <= INT_MAX
          /\ made[args[1]] = NotMade \/ made[args[1]].elems = Elems(k, n)
     ELSE \A i \in DOMAIN args : made[args[i]].elems >= Elems(k, n)

-------------------------------------------------------------------------------
NoCall == [kernel |-> "none", params |-> <<>>, args |-> <<>>, size |-> 0,
           freed |-> <<0, 0>>, matrix |-> <<>>]

\* main makes the parameters; an exception ends the process.
Init ==
  /\ \E data \in DataSections :
       LET bad == {x \in DOMAIN data : Throws(data[x].type, data[x].node)} IN
       /\ dataMap = [x \in DOMAIN data \ bad |-> CreateParam(data[x].type, data[x].node)]
       /\ fate = IF bad = {} THEN "running" ELSE "uncaught"
       /\ made = [x \in DOMAIN data |-> NotMade]
  /\ roll \in Rolls
  /\ sound = TRUE
  /\ last = NoCall

Calls(k, V) == fate = "running" /\ Asserted(k, V) /\ UNCHANGED roll

Size(V)  == dataMap[SizeArg(V)].value
Block(x) == dataMap[x].value

\* What a call leaves in the history variables.
Note(k, V, freed, matrix) ==
  /\ last' = [kernel |-> k, params |-> V, args |-> Args(k, V), size |-> Size(V),
              freed |-> freed, matrix |-> matrix]
  /\ sound' = (sound /\ KeepsContract(k, Size(V), Args(k, V)))

\* assert(aParam && ...)
FailAssert(k, V) ==
  /\ fate = "running" /\ ~ Asserted(k, V)
  /\ fate' = "assert"
  /\ last' = [NoCall EXCEPT !.kernel = k, !.params = V]
  /\ UNCHANGED <<dataMap, roll, made, sound>>

\* Slip: the block is freed by its number of cells.
RenewFreesCells(k, V, bytes, cells) ==
  LET x   == Args(k, V)[1]
      had == Block(x).bytes
  IN /\ fate' = Access(8 * Cardinality(DOMAIN cells), Alloc(bytes))
     /\ dataMap' = [dataMap EXCEPT ![x].value = [bytes |-> Alloc(bytes), cells |-> cells]]
     /\ made' = [made EXCEPT ![x] =
                   [kernel |-> k, elems |-> Cardinality(DOMAIN cells), size |-> Size(V)]]
     /\ Note(k, V, IF had = 0 THEN <<0, 0>> ELSE <<had, Cardinality(DOMAIN cells)>>,
             IF k = "init_symmetric" THEN cells ELSE <<>>)

\* The array of the call is freed, allocated, filled and stored.
Renew(k, V, bytes, cells) ==
  LET x   == Args(k, V)[1]
      had == Block(x).bytes
  IN /\ fate' = Access(8 * Cardinality(DOMAIN cells), Alloc(bytes))
     /\ dataMap' = [dataMap EXCEPT ![x].value = [bytes |-> Alloc(bytes), cells |-> cells]]
     /\ made' = [made EXCEPT ![x] =
                   [kernel |-> k, elems |-> Cardinality(DOMAIN cells), size |-> Size(V)]]
     /\ Note(k, V, IF had = 0 THEN <<0, 0>> ELSE <<had, bytes>>,
             IF k = "init_symmetric" THEN cells ELSE <<>>)

\* init_array and alloc_init_array: at random unless a bool says otherwise
InitArray(V) ==
  LET randomParam == GetNthParam(dataMap, 0, "PK_bool", V)
      random      == randomParam = Null \/ dataMap[randomParam].value
  IN /\ Calls("init_array", V)
     /\ Renew("init_array", V, AsSize(8 * Size(V)),
              [i \in 0 .. Size(V) - 1 |-> IF random THEN Roll01(i) ELSE i * Unit])

\* Slip: four bytes for a double.
InitBlasBlocHalf(V) ==
  /\ Calls("init_blas_bloc", V)
  /\ \E nElem \in Products(Size(V), Size(V)) : \E bytes \in Products(nElem, 4) :
       Renew("init_blas_bloc", V, AsSize(bytes), [i \in 0 .. nElem - 1 |-> Roll01(i)])

InitBlasBloc(V) ==
  /\ Calls("init_blas_bloc", V)
  /\ \E nElem \in Products(Size(V), Size(V)) : \E bytes \in Products(nElem, 8) :
       Renew("init_blas_bloc", V, AsSize(bytes), [i \in 0 .. nElem - 1 |-> Roll01(i)])

InitDpotrfBlock(V) ==
  /\ Calls("init_symmetric", V)
  /\ \E nElem \in Products(Size(V), Size(V)) : \E bytes \in Products(nElem, 8) :
       Renew("init_symmetric", V, AsSize(bytes),
             MakeSymmetric([i \in 0 .. Square(Size(V)) - 1 |-> Roll(i)], Size(V)))

\* A kernel that works on arrays ends badly if it does on one of them.
Outcomes(k, V) ==
  LET ends == {Access(Reach(k, Size(V)), Block(Args(k, V)[i]).bytes) : i \in 1 .. Takes[k]} IN
  IF ends = {"running"} THEN ends ELSE ends \ {"running"}

\* It leaves unknown cells in the one it writes.
WorkOn(k, V, written) ==
  /\ fate' \in Outcomes(k, V)
  /\ dataMap' = [dataMap EXCEPT ![Args(k, V)[written]].value.cells = <<>>]
  /\ Note(k, V, <<0, 0>>, <<>>)
  /\ UNCHANGED made

CopyArray(V)     == Calls("copy", V) /\ WorkOn("copy", V, 1)
BlasKernel(k, V) == Calls(k, V) /\ WorkOn(k, V, Takes[k])

\* A row's diagonal cell is greater than its n - 1 others taken together, were they
\* all as large as any of them.
Dominant(cells, n) ==
  \A i, j \in 0 .. n - 1 :
    IF i = j THEN cells[i * n + i] > 0
    ELSE \A v \in {cells[i * n + j], -cells[i * n + j]} : (n - 1) * v < cells[i * n + i]
Symmetric(cells, n) == \A i, j \in 0 .. n - 1 : cells[i * n + j] = cells[j * n + i]

\* The runtime prepares the matrix before every round of dpotrf.  LAPACK
\* factorises it if it is surely positive definite; if not, it may fail, and
\* the kernel then ends the process.
Dpotrf(V) ==
  LET x      == Args("dpotrf", V)[1]
      n      == Size(V)
      matrix == MakeSymmetric(Block(x).cells, n)
      sure   == n >= 0 /\ Whole(matrix, n) /\ Symmetric(matrix, n) /\ Dominant(matrix, n)
  IN /\ Calls("dpotrf", V)
     /\ \/ fate' \in Outcomes("dpotrf", V)
        \/ Outcomes("dpotrf", V) = {"running"} /\ ~ sure /\ fate' = "exit"
     /\ dataMap' = [dataMap EXCEPT ![x].value.cells = <<>>]
     /\ Note("dpotrf", V, <<0, 0>>, matrix)
     /\ UNCHANGED made

-------------------------------------------------------------------------------
Next ==
  \E V \in ParamLists :
    \/ \E k \in KernelNames : FailAssert(k, V)
    \/ InitArray(V)
    \/ InitBlasBloc(V)
    \/ InitDpotrfBlock(V)
    \/ CopyArray(V)
    \/ \E k \in {"dgemm", "naive_dgemm", "dtrsm", "dsyrk"} : BlasKernel(k, V)
    \/ Dpotrf(V)

Spec == Init /\ [][Next]_vars

-------------------------------------------------------------------------------
Fates == {"running", "uncaught", "assert", "segfault", "overrun", "exit"}

\* What a parameter of one kind holds.
HasType(P) ==
  /\ P.kind = "PK_int"  => P.value \in -INT_MAX - 1 .. INT_MAX
  /\ P.kind = "PK_bool" => P.value \in BOOLEAN
  /\ P.kind = "PK_pdouble" =>
       LET block == P.value IN
       /\ P = [kind |-> "PK_pdouble", value |-> [bytes |-> block.bytes, cells |-> block.cells]]
       /\ block.bytes \in 0 .. Memory

(* Every parameter keeps the type it was created with, a pointer points to *)
(* memory that can be had, and only a started process makes calls.         *)
TypeOK ==
  /\ fate \in Fates
  /\ \A x \in DOMAIN dataMap : HasType(dataMap[x])
  /\ DOMAIN dataMap \subseteq DOMAIN made
  /\ \A x \in DOMAIN made : made[x].elems \in Nat
  /\ sound \in BOOLEAN
  /\ last.params \in ParamLists \cup {<<>>} /\ last.size \in Int
  /\ fate = "uncaught" => last = NoCall

\* The places on a list that have no number and no boolean.
ArrayPlaces(V) ==
  {i \in DOMAIN V :
     Deref(dataMap, V[i]).kind \notin ParamKinds \ {"PK_pdouble", "PK_unknown"}}

(* A kernel gets its arrays by rank among those the data section declares, *)
(* so a name it does not declare moves the others up.  If the action lists *)
(* as many arrays as the kernel asks for, a kernel that is past its assert *)
(* works on those arrays, each in its place.                               *)
ArgsAsWritten ==
  LET places == ArrayPlaces(last.params) IN
  last.args # <<>> /\ Cardinality(places) = Len(last.args) =>
    \A i \in places :
      last.args[Cardinality({j \in places : j <= i})] = last.params[i]

(* As long as every call keeps to its contract no kernel reaches past the  *)
(* end of a block, or through a null pointer.                              *)
InBounds == sound => fate \notin {"segfault", "overrun"}

\* The parameters that are arrays.
Arrays == {x \in DOMAIN dataMap : dataMap[x].kind = "PK_pdouble"}

(* As long as every call keeps to its contract an array has the block its  *)
(* last init kernel filled, all of it and no more, and a block is freed    *)
(* with the size it was allocated with, whichever kernel allocated it.     *)
FreedWhole ==
  sound =>
    /\ last.freed[1] = last.freed[2]
    /\ fate = "running" => \A x \in Arrays : Block(x).bytes = 8 * made[x].elems

\* The last call got its arrays, and found parameters to be them.
LastCall ==
  last.args # <<>> =>
    \E k \in KernelNames : Asserted(k, last.params) /\ last.args = Args(k, last.params)

(* What holds after each call: the inductive invariant.                    *)
Kept == TypeOK /\ LastCall /\ InBounds /\ FreedWhole

(* A matrix made of random cells for the size dpotrf is given is symmetric *)
(* and, up to a size of `bump`, diagonally dominant when LAPACK gets it,   *)
(* so its factorisation does not end the process.                          *)
Factorable ==
  LET n == last.size
      m == last.matrix
  IN m # <<>> /\ Whole(m, n) =>
       /\ Symmetric(m, n)
       /\ n <= bump /\ sound /\ made[last.args[1]].size = n
            /\ made[last.args[1]].kernel # "init_array"
          => Dominant(m, n) /\ fate # "exit"

\* Cells of n rows between -1 and 1, but for a diagonal that may have been bumped.
InRange(cells, n) ==
  \A i, j \in 0 .. n - 1 :
    i * n + j \in DOMAIN cells =>
      /\ cells[i * n + j] \in Int /\ cells[i * n + j] > -Unit
      /\ i # j => cells[i * n + j] < Unit

\* The cells that are known are the first ones of a block.
Numbered(cells) ==
  IsFiniteSet(DOMAIN cells) /\ DOMAIN cells = 0 .. Cardinality(DOMAIN cells) - 1

\* Those of an array are in range unless init_array filled it.
CellsInRange ==
  \A x \in Arrays :
    /\ Numbered(Block(x).cells)
    /\ made[x].kernel # "init_array" => InRange(Block(x).cells, made[x].size)

(* What makes Factorable inductive.                                        *)
KeptCells == roll \in Rolls /\ CellsInRange /\ Factorable

(* Up to BLOCK_SIZE kernel_naive_dgemm adds each product of c + a * b once *)
(* to its cell.                                                            *)
NaiveWithinBlock ==
  LET n == last.size IN
  last.kernel = "naive_dgemm" /\ n <= BLOCK_SIZE =>
    \A i, j, k \in 0 .. n - 1 : Times(n, i, j, k) = 1

(* Whatever it adds to whichever cell, kernel_naive_dgemm does as many     *)
(* multiplications and additions as the flops watcher of dgemm reckons.    *)
NaiveCounts ==
  last.kernel = "naive_dgemm" /\ last.size >= 0 =>
    12 * Updates(last.size) = KernelFlops("dgemm", last.size)

(* The flops watchers of dtrsm and dsyrk reckon what the textbook loops    *)
(* do: a dsyrk has an addition for each product, as c is added to.         *)
FlopsAsCounted ==
  LET n == last.size IN
  /\ last.kernel = "dtrsm" /\ n >= 0 => KernelFlops("dtrsm", n) = 6 * (TrsmMuls(n) + TrsmAdds(n))
  /\ last.kernel = "dsyrk" /\ n >= 0 => KernelFlops("dsyrk", n) = 12 * SyrkMuls(n)

\* A kernel has returned from arrays that were filled for what it does.
Returned(k) == last.kernel = k /\ sound /\ fate = "running"

(* When kernel_naive_dgemm returns it has computed c = c + a * b, as the   *)
(* comment in naive_dgemm says: each product once.                         *)
NaiveComputesProduct ==
  LET n == last.size IN
  Returned("naive_dgemm") => \A i, j, k \in 0 .. n - 1 : Times(n, i, j, k) = 1

(* The flops watcher of dpotrf reckons for a call that returns what the    *)
(* formulas in the comments below fmuls_potrf and fadds_potrf give, which  *)
(* is what the textbook loops do.                                          *)
FlopsAsCommented ==
  LET n == last.size IN
  Returned("dpotrf") =>
    KernelFlops("dpotrf", n) = 6 * (PotrfEntries(n) + 2 * PotrfTriples(n))

===============================================================================

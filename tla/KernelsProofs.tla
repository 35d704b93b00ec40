---------------------------- MODULE KernelsProofs -----------------------------
(***************************************************************************)
(* Proofs about Kernels: what is kept by every call (Kept), and with it    *)
(* that no kernel leaves its block and that blocks are freed as they were  *)
(* allocated, as long as the calls keep to their contract; that arguments  *)
(* by rank are the ones written; that the block loops of the naive dgemm   *)
(* and the flop formulas count what they should; that dpotrf gets a matrix *)
(* it can factorise.                                                       *)
(***************************************************************************)
EXTENDS Kernels, FiniteSetTheorems, TLAPS

-------------------------------------------------------------------------------
(* Parameters found by kind and rank. *)

\* A cast to a kind is null but for parameters of that kind.
LEMMA CastIsKind ==
  ASSUME NEW map, NEW kind, kind # "PK_unknown", NEW x
  PROVE  IsNull(DynCastOrNull(kind, Deref(map, x)))
           <=> ~ (x \in DOMAIN map /\ map[x].kind = kind)
  <1>1. \A P : IsNull(DynCastOrNull(kind, P)) <=> ~ (P.kind # "PK_unknown" /\ P.kind = kind)
    <2> TAKE P
    <2>1. CASE P.kind # "PK_unknown" /\ P.kind = kind
      BY <2>1, Zenon DEF DynCastOrNull, IsNull, IsA, ClassOf
    <2>2. CASE ~ (P.kind # "PK_unknown" /\ P.kind = kind)
      <3>1. DynCastOrNull(kind, P) = NoParam
        BY <2>2, Zenon DEF DynCastOrNull, IsNull, IsA, ClassOf
      <3> QED
        BY <2>2, <3>1 DEF IsNull, NoParam
    <2> QED
      BY <2>1, <2>2, Zenon
  <1>2. CASE x \in DOMAIN map
    BY <1>1, <1>2, Zenon DEF Deref
  <1>3. CASE x \notin DOMAIN map
    <2>1. NoParam.kind = "PK_unknown"
      BY DEF NoParam
    <2> QED
      BY <1>1, <1>3, <2>1, Zenon DEF Deref
  <1> QED
    BY <1>2, <1>3

\* What getNthParam finds is declared and of the kind asked for.
LEMMA ParamFound ==
  ASSUME NEW N, NEW kind, kind # "PK_unknown", NEW V,
         GetNthParam(dataMap, N, kind, V) # Null
  PROVE  LET x == GetNthParam(dataMap, N, kind, V) IN
         /\ x \in DOMAIN dataMap
         /\ dataMap[x].kind = kind
  <1> DEFINE those == OfKind(dataMap, kind, V)
             nth   == {i \in those : Cardinality({j \in those : j < i}) = N}
             i     == CHOOSE i \in nth : TRUE
  <1>1. nth # {} /\ GetNthParam(dataMap, N, kind, V) = V[i]
    BY DEF GetNthParam
  <1>2. i \in those
    BY <1>1
  <1> HIDE DEF i
  <1>3. ~ IsNull(DynCastOrNull(kind, Deref(dataMap, V[i])))
    BY <1>2 DEF OfKind
  <1>4. V[i] \in DOMAIN dataMap /\ dataMap[V[i]].kind = kind
    BY <1>3, CastIsKind
  <1> QED
    BY <1>1, <1>4

\* It depends on the kinds of the parameters alone.
LEMMA KindsKept ==
  ASSUME DOMAIN dataMap' = DOMAIN dataMap,
         \A x \in DOMAIN dataMap : dataMap'[x].kind = dataMap[x].kind,
         NEW N, NEW kind, kind # "PK_unknown", NEW V
  PROVE  GetNthParam(dataMap', N, kind, V) = GetNthParam(dataMap, N, kind, V)
  <1>1. ASSUME NEW x
        PROVE  IsNull(DynCastOrNull(kind, Deref(dataMap', x)))
                 <=> IsNull(DynCastOrNull(kind, Deref(dataMap, x)))
    BY CastIsKind
  <1>2. OfKind(dataMap', kind, V) = OfKind(dataMap, kind, V)
    BY <1>1 DEF OfKind
  <1> QED
    BY <1>2 DEF GetNthParam

\* How many arrays a kernel takes.
LEMMA TakesType == \A k \in KernelNames : Takes[k] \in 1 .. 3
  BY DEF Takes, KernelNames

\* A kernel that is past its assert has a size and its arrays.
LEMMA CallFacts ==
  ASSUME TypeOK, NEW k \in KernelNames, NEW V, Asserted(k, V)
  PROVE  /\ Size(V) \in Int
         /\ Len(Args(k, V)) = Takes[k] /\ DOMAIN Args(k, V) = 1 .. Takes[k]
         /\ \A i \in 1 .. Takes[k] : Args(k, V)[i] \in Arrays
         /\ Args(k, V)[1] \in Arrays
  <1>1. SizeArg(V) \in DOMAIN dataMap /\ dataMap[SizeArg(V)].kind = "PK_int"
    BY ParamFound DEF Asserted, SizeArg
  <1>2. Size(V) \in Int
    BY <1>1, SizesAssumption DEF Size, TypeOK, HasType
  <1>3. Takes[k] \in 1 .. 3
    BY TakesType
  <1>4. Len(Args(k, V)) = Takes[k] /\ DOMAIN Args(k, V) = 1 .. Takes[k]
    BY <1>3 DEF Args
  <1>5. ASSUME NEW i \in 1 .. Takes[k] PROVE Args(k, V)[i] \in Arrays
    <2>1. Args(k, V)[i] = GetNthParam(dataMap, i - 1, "PK_pdouble", V)
      BY <1>5 DEF Args
    <2>2. Args(k, V)[i] # Null
      BY <1>5 DEF Asserted
    <2> QED
      BY <2>1, <2>2, ParamFound DEF Arrays
  <1> QED
    BY <1>2, <1>3, <1>4, <1>5

-------------------------------------------------------------------------------
(* Blocks and sizes. *)

\* A number that fits in an int is itself after wrapping.
LEMMA WrapOwn ==
  ASSUME NEW v \in Nat, v <= INT_MAX PROVE Wrap(v) = v
  <1>1. \A a \in Nat, b \in Nat : a <= b => a % (b + 1) = a
    OBVIOUS
  <1>2. v + INT_MAX + 1 <= 2 * INT_MAX + 1 /\ 2 * (INT_MAX + 1) = (2 * INT_MAX + 1) + 1
    BY SizesAssumption
  <1>3. (v + INT_MAX + 1) % (2 * (INT_MAX + 1)) = v + INT_MAX + 1
    <2> DEFINE a == v + INT_MAX + 1
               b == 2 * INT_MAX + 1
    <2>1. a \in Nat /\ b \in Nat /\ a <= b
      BY SizesAssumption
    <2> QED
      BY <2>1, <1>1, <1>2, Zenon
  <1> QED
    BY <1>3, SizesAssumption DEF Wrap

\* The products of ints, and their sizes in bytes, are integers.
LEMMA ProductsType ==
  ASSUME NEW a \in Int, NEW b \in Int PROVE Products(a, b) \subseteq Int
  <1>1. a * b \in Int
    OBVIOUS
  <1>2. \A v \in Int : Wrap(v) \in Int
    BY SizesAssumption DEF Wrap
  <1> QED
    BY <1>1, <1>2 DEF Products

\* A product that fits in an int is computed right by any build.
LEMMA ProductsOwn ==
  ASSUME NEW a \in Int, NEW b \in Int, a * b \in 0 .. INT_MAX
  PROVE  Products(a, b) = {a * b}
  <1> DEFINE v == a * b
  <1>1. v \in Nat /\ v <= INT_MAX
    BY SizesAssumption
  <1>2. Products(a, b) = {Wrap(v), v}
    BY DEF Products
  <1> HIDE DEF v
  <1>3. Wrap(v) = v
    BY <1>1, WrapOwn
  <1> QED
    BY <1>2, <1>3 DEF v

\* Converted to size_t a number is not negative.
LEMMA AsSizeType == ASSUME NEW v \in Int PROVE AsSize(v) \in Nat
  BY SizesAssumption DEF AsSize

\* A number that fits in a size_t is itself after the conversion.
LEMMA AsSizeOwn == ASSUME NEW v \in Nat, v <= SIZE_MAX PROVE AsSize(v) = v
  BY SizesAssumption DEF AsSize

\* What is allocated can be had.
LEMMA AllocType == ASSUME NEW bytes \in Nat PROVE Alloc(bytes) \in 0 .. Memory
  BY SizesAssumption DEF Alloc

\* However far a kernel reaches, it goes on or runs out of its block.
LEMMA AccessType ==
  ASSUME NEW reach, NEW bytes
  PROVE  Access(reach, bytes) \in {"running", "segfault", "overrun"}
  BY DEF Access

\* A kernel that stays within its block goes on.
LEMMA AccessFits ==
  ASSUME NEW reach \in Nat, NEW bytes \in Nat, reach <= bytes
  PROVE  Access(reach, bytes) = "running"
  BY DEF Access

\* A matrix has a natural number of cells.
LEMMA SquareType == \A n \in Int : Square(n) \in Nat /\ n * n \in Nat
  <1>1. \A n \in Int : n * n \in Int /\ n * n >= 0
    OBVIOUS
  <1> QED
    BY <1>1 DEF Square

\* The kernels that work on arrays reach over no more than their contract gives them.
LEMMA ReachWithin ==
  ASSUME NEW k \in KernelNames \ InitKernels, NEW n \in Nat, 8 * Elems(k, n) <= Memory
  PROVE  Reach(k, n) \in Nat /\ Reach(k, n) <= 8 * Elems(k, n)
  <1>1. CASE k = "copy"
    BY <1>1, AsSizeOwn, SizesAssumption DEF Reach, Elems
  <1>2. CASE k = "naive_dgemm" /\ n > 0
    <2> DEFINE e == Extent(n, 0)
    <2>1. e \in 1 .. n
      BY <1>2, SizesAssumption DEF Extent
    <2> HIDE DEF e
    <2>2. (e - 1) * n \in Nat /\ (e - 1) * n <= (n - 1) * n
      BY <2>1, <1>2
    <2>3. (n - 1) * n = n * n - n
      BY <1>2
    <2>4. n * n \in Nat
      BY SquareType
    <2>5. (e - 1) * n + e <= n * n
      BY <2>1, <2>2, <2>3, <2>4
    <2>6. Reach(k, n) = 8 * ((e - 1) * n + e) /\ Elems(k, n) = n * n
      BY <1>2 DEF Reach, Elems, e
    <2> QED
      BY <2>1, <2>2, <2>4, <2>5, <2>6
  <1>3. CASE k # "copy" /\ ~ (k = "naive_dgemm" /\ n > 0)
    <2>1. Reach(k, n) = 8 * (n * n)
      BY <1>3 DEF Reach, Square
    <2>2. n * n \in Nat /\ n <= n * n
      OBVIOUS
    <2> QED
      BY <1>3, <2>1, <2>2 DEF Elems, InitKernels
  <1> QED
    BY <1>1, <1>2, <1>3

-------------------------------------------------------------------------------
(* What a call does to the invariant. *)

\* An array that gets another block stays an array, and nothing else changes.
LEMMA BlockChange ==
  ASSUME TypeOK, NEW x \in Arrays, NEW bytes \in 0 .. Memory, NEW cells,
         dataMap' = [dataMap EXCEPT ![x].value = [bytes |-> bytes, cells |-> cells]]
  PROVE  /\ DOMAIN dataMap' = DOMAIN dataMap
         /\ \A y \in DOMAIN dataMap : dataMap'[y].kind = dataMap[y].kind
         /\ \A y \in DOMAIN dataMap' : HasType(dataMap'[y])
         /\ Arrays' = Arrays
         /\ dataMap'[x].value.bytes = bytes
         /\ \A y \in Arrays \ {x} : dataMap'[y] = dataMap[y]
  <1> DEFINE new == [kind |-> "PK_pdouble", value |-> [bytes |-> bytes, cells |-> cells]]
  <1>1. x \in DOMAIN dataMap /\ dataMap[x].kind = "PK_pdouble" /\ HasType(dataMap[x])
    BY DEF Arrays, TypeOK
  <1>2. dataMap[x] = [kind |-> "PK_pdouble",
                      value |-> [bytes |-> dataMap[x].value.bytes, cells |-> dataMap[x].value.cells]]
    BY <1>1 DEF HasType
  <1>3. [dataMap[x] EXCEPT !.value = [bytes |-> bytes, cells |-> cells]] = new
    BY <1>2
  <1>4. DOMAIN dataMap' = DOMAIN dataMap /\ dataMap'[x] = new
    BY <1>1, <1>3
  <1>5. \A y \in DOMAIN dataMap : y # x => dataMap'[y] = dataMap[y]
    OBVIOUS
  <1>6. new.kind = "PK_pdouble" /\ new.value.bytes = bytes /\ HasType(new)
    BY DEF HasType
  <1> HIDE DEF new
  <1>7. \A y \in DOMAIN dataMap : dataMap'[y].kind = dataMap[y].kind
    BY <1>1, <1>4, <1>5, <1>6
  <1>8. \A y \in DOMAIN dataMap' : HasType(dataMap'[y])
    BY <1>4, <1>5, <1>6 DEF TypeOK
  <1>9. Arrays' = Arrays
    BY <1>4, <1>7 DEF Arrays
  <1>10. dataMap'[x].value.bytes = bytes /\ \A y \in Arrays \ {x} : dataMap'[y] = dataMap[y]
    BY <1>4, <1>5, <1>6 DEF Block, Arrays
  <1> QED
    BY <1>4, <1>7, <1>8, <1>9, <1>10

\* The cells of an array become unknown.
LEMMA CellsChange ==
  ASSUME TypeOK, NEW x \in Arrays,
         dataMap' = [dataMap EXCEPT ![x].value.cells = <<>>]
  PROVE  /\ DOMAIN dataMap' = DOMAIN dataMap
         /\ \A y \in DOMAIN dataMap : dataMap'[y].kind = dataMap[y].kind
         /\ \A y \in DOMAIN dataMap' : HasType(dataMap'[y])
         /\ Arrays' = Arrays
         /\ \A y \in Arrays : dataMap'[y].value.bytes = Block(y).bytes
  <1> DEFINE old == dataMap[x].value
  <1>1. x \in DOMAIN dataMap /\ dataMap[x].kind = "PK_pdouble" /\ HasType(dataMap[x])
    BY DEF Arrays, TypeOK
  <1>2. dataMap[x] = [kind |-> "PK_pdouble", value |-> [bytes |-> old.bytes, cells |-> old.cells]]
        /\ old.bytes \in 0 .. Memory
    BY <1>1 DEF HasType
  <1>3. [old EXCEPT !.cells = <<>>] = [bytes |-> old.bytes, cells |-> <<>>]
    BY <1>2
  <1>4. dataMap' = [dataMap EXCEPT ![x].value = [bytes |-> old.bytes, cells |-> <<>>]]
    BY <1>3
  <1>5. Block(x).bytes = old.bytes
    BY DEF Block
  <1>6. old.bytes \in 0 .. Memory
    BY <1>2
  <1> HIDE DEF old
  <1>7. /\ DOMAIN dataMap' = DOMAIN dataMap
        /\ \A y \in DOMAIN dataMap : dataMap'[y].kind = dataMap[y].kind
        /\ \A y \in DOMAIN dataMap' : HasType(dataMap'[y])
        /\ Arrays' = Arrays
        /\ dataMap'[x].value.bytes = old.bytes
        /\ \A y \in Arrays \ {x} : dataMap'[y] = dataMap[y]
    BY <1>4, <1>6, BlockChange
  <1> QED
    BY <1>5, <1>7 DEF Block

\* A call of kernel k leaves the history variables well typed.
LEMMA NoteFacts ==
  ASSUME TypeOK, NEW k \in KernelNames, NEW V \in ParamLists, Asserted(k, V),
         NEW freed, NEW matrix, Note(k, V, freed, matrix),
         DOMAIN dataMap' = DOMAIN dataMap,
         \A y \in DOMAIN dataMap : dataMap'[y].kind = dataMap[y].kind
  PROVE  /\ last'.params \in ParamLists \cup {<<>>} /\ last'.size \in Int
         /\ last'.freed = freed
         /\ sound' \in BOOLEAN
         /\ sound' => sound /\ KeepsContract(k, Size(V), Args(k, V))
         /\ LastCall'
  <1>1. last' = [kernel |-> k, params |-> V, args |-> Args(k, V), size |-> Size(V),
                 freed |-> freed, matrix |-> matrix]
    BY DEF Note
  <1>2. Size(V) \in Int
    BY CallFacts
  <1>3. sound' \in BOOLEAN /\ (sound' => sound /\ KeepsContract(k, Size(V), Args(k, V)))
    BY DEF Note, TypeOK
  <1>4. LastCall'
    <2>1. \A N, kind : kind # "PK_unknown" =>
            GetNthParam(dataMap', N, kind, V) = GetNthParam(dataMap, N, kind, V)
      BY KindsKept
    <2>2. Args(k, V)' = Args(k, V) /\ SizeArg(V)' = SizeArg(V)
      BY <2>1 DEF Args, SizeArg
    <2>3. Asserted(k, V)'
      BY <2>2 DEF Asserted
    <2>4. last'.params = V /\ last'.args = Args(k, V)
      BY <1>1
    <2> QED
      BY <2>2, <2>3, <2>4 DEF LastCall
  <1> QED
    BY <1>1, <1>2, <1>3, <1>4

\* A block that is filled as far as its size says keeps all that is kept.
LEMMA RenewKeeps ==
  ASSUME Kept, NEW k \in InitKernels, NEW V \in ParamLists, Asserted(k, V),
         fate = "running", NEW bytes \in Nat, NEW cells, IsFiniteSet(DOMAIN cells),
         KeepsContract(k, Size(V), Args(k, V)) =>
           /\ Cardinality(DOMAIN cells) = Elems(k, Size(V))
           /\ bytes = 8 * Elems(k, Size(V)),
         Renew(k, V, bytes, cells)
  PROVE  Kept'
  <1> DEFINE x      == Args(k, V)[1]
             had    == Block(x).bytes
             filled == Cardinality(DOMAIN cells)
             elems  == Elems(k, Size(V))
             freed  == IF had = 0 THEN <<0, 0>> ELSE <<had, bytes>>
  <1>1. TypeOK /\ k \in KernelNames
    BY DEF Kept, InitKernels, KernelNames
  <1>2. x \in Arrays /\ Size(V) \in Int
    BY <1>1, CallFacts
  <1>3. /\ fate' = Access(8 * filled, Alloc(bytes))
        /\ dataMap' = [dataMap EXCEPT ![x].value = [bytes |-> Alloc(bytes), cells |-> cells]]
        /\ made' = [made EXCEPT ![x] = [kernel |-> k, elems |-> filled, size |-> Size(V)]]
        /\ Note(k, V, freed, IF k = "init_symmetric" THEN cells ELSE <<>>)
    BY DEF Renew
  <1>4. filled \in Nat
    BY FS_CardinalityType
  <1>5. Alloc(bytes) \in 0 .. Memory
    BY AllocType
  <1> HIDE DEF x, freed, filled
  <1>6. /\ DOMAIN dataMap' = DOMAIN dataMap
        /\ \A y \in DOMAIN dataMap : dataMap'[y].kind = dataMap[y].kind
        /\ \A y \in DOMAIN dataMap' : HasType(dataMap'[y])
        /\ Arrays' = Arrays
        /\ dataMap'[x].value.bytes = Alloc(bytes)
        /\ \A y \in Arrays \ {x} : dataMap'[y] = dataMap[y]
    BY <1>1, <1>2, <1>3, <1>5, BlockChange
  <1>7. /\ last'.params \in ParamLists \cup {<<>>} /\ last'.size \in Int
        /\ last'.freed = freed
        /\ sound' \in BOOLEAN
        /\ sound' => sound /\ KeepsContract(k, Size(V), Args(k, V))
        /\ LastCall'
    BY <1>1, <1>3, <1>6, NoteFacts
  <1>8. fate' \in {"running", "segfault", "overrun"}
    BY <1>3, AccessType
  <1>9. x \in DOMAIN made
    BY <1>1, <1>2 DEF TypeOK, Arrays
  <1>10. /\ DOMAIN made' = DOMAIN made
         /\ made'[x].elems = filled
         /\ \A y \in DOMAIN made : y # x => made'[y] = made[y]
    BY <1>3, <1>9
  <1>11. TypeOK'
    BY <1>1, <1>4, <1>6, <1>7, <1>8, <1>10 DEF TypeOK, Fates
  <1>12. ASSUME sound'
         PROVE  /\ fate' = "running"
                /\ freed[1] = freed[2]
                /\ Alloc(bytes) = 8 * filled
    <2>1. sound /\ KeepsContract(k, Size(V), Args(k, V))
      BY <1>7, <1>12
    <2>2. filled = elems /\ bytes = 8 * elems
      BY <2>1 DEF filled
    <2>3. 8 * elems <= Memory /\ (made[x] = NotMade \/ made[x].elems = elems)
      BY <2>1 DEF KeepsContract, x
    <2>4. Alloc(bytes) = 8 * filled
      BY <2>2, <2>3 DEF Alloc
    <2>5. fate' = "running"
      BY <1>3, <1>4, <2>4, AccessFits
    <2>6. had = 8 * made[x].elems
      BY <1>2, <2>1 DEF Kept, FreedWhole
    <2>7. had = 0 \/ had = bytes
      BY <2>2, <2>3, <2>6 DEF NotMade
    <2> QED
      BY <2>4, <2>5, <2>7 DEF freed
  <1>13. InBounds'
    BY <1>12 DEF InBounds
  <1>14. FreedWhole'
    <2> SUFFICES ASSUME sound'
                 PROVE  /\ last'.freed[1] = last'.freed[2]
                        /\ \A y \in Arrays' : dataMap'[y].value.bytes = 8 * made'[y].elems
      BY DEF FreedWhole, Block
    <2>1. dataMap'[x].value.bytes = 8 * made'[x].elems
      BY <1>6, <1>10, <1>12
    <2>2. ASSUME NEW y \in Arrays \ {x} PROVE dataMap'[y].value.bytes = 8 * made'[y].elems
      <3>1. Block(y).bytes = 8 * made[y].elems
        BY <1>7 DEF Kept, FreedWhole
      <3>2. y \in DOMAIN made
        BY <1>1 DEF TypeOK, Arrays
      <3> QED
        BY <1>6, <1>10, <3>1, <3>2 DEF Block
    <2> QED
      BY <1>6, <1>7, <1>12, <2>1, <2>2
  <1> QED
    BY <1>7, <1>11, <1>13, <1>14 DEF Kept

\* A kernel that works on arrays keeps all that is kept.
LEMMA WorkKeeps ==
  ASSUME Kept, NEW k \in KernelNames \ InitKernels, NEW V \in ParamLists, Asserted(k, V),
         fate = "running", NEW written \in 1 .. Takes[k], NEW matrix,
         fate' \in Outcomes(k, V) \cup {"exit"},
         dataMap' = [dataMap EXCEPT ![Args(k, V)[written]].value.cells = <<>>],
         Note(k, V, <<0, 0>>, matrix), UNCHANGED made
  PROVE  Kept'
  <1>1. TypeOK
    BY DEF Kept
  <1>2. /\ Size(V) \in Int
        /\ DOMAIN Args(k, V) = 1 .. Takes[k]
        /\ \A i \in 1 .. Takes[k] : Args(k, V)[i] \in Arrays
    BY <1>1, CallFacts
  <1>3. /\ DOMAIN dataMap' = DOMAIN dataMap
        /\ \A y \in DOMAIN dataMap : dataMap'[y].kind = dataMap[y].kind
        /\ \A y \in DOMAIN dataMap' : HasType(dataMap'[y])
        /\ Arrays' = Arrays
        /\ \A y \in Arrays : dataMap'[y].value.bytes = Block(y).bytes
    BY <1>1, <1>2, CellsChange
  <1>4. /\ last'.params \in ParamLists \cup {<<>>} /\ last'.size \in Int
        /\ last'.freed = <<0, 0>>
        /\ sound' \in BOOLEAN
        /\ sound' => sound /\ KeepsContract(k, Size(V), Args(k, V))
        /\ LastCall'
    BY <1>1, <1>3, NoteFacts
  <1>5. fate' \in {"running", "segfault", "overrun", "exit"}
    <2>1. Outcomes(k, V) \subseteq {"running", "segfault", "overrun"}
      BY AccessType DEF Outcomes
    <2> QED
      BY <2>1
  <1>6. TypeOK'
    BY <1>1, <1>3, <1>4, <1>5 DEF TypeOK, Fates
  <1>7. ASSUME sound' PROVE Outcomes(k, V) = {"running"}
    <2> DEFINE n == Size(V)
    <2>1. sound /\ KeepsContract(k, n, Args(k, V))
      BY <1>4, <1>7
    <2>2. n \in Nat /\ \A i \in 1 .. Takes[k] : made[Args(k, V)[i]].elems >= Elems(k, n)
      BY <1>2, <2>1 DEF KeepsContract
    <2>3. Elems(k, n) \in Nat
      BY <2>2, SquareType DEF Elems
    <2> HIDE DEF n
    <2>4. ASSUME NEW i \in 1 .. Takes[k]
          PROVE  Access(Reach(k, n), Block(Args(k, V)[i]).bytes) = "running"
      <3> DEFINE x == Args(k, V)[i]
      <3>1. x \in Arrays /\ x \in DOMAIN made
        BY <1>1, <1>2, <2>4 DEF TypeOK, Arrays
      <3>2. Block(x).bytes = 8 * made[x].elems
        BY <2>1, <3>1 DEF Kept, FreedWhole
      <3>3. Block(x).bytes \in 0 .. Memory
        BY <1>1, <3>1 DEF TypeOK, HasType, Arrays, Block
      <3>4. made[x].elems \in Nat /\ made[x].elems >= Elems(k, n)
        BY <1>1, <2>2, <2>4, <3>1 DEF TypeOK
      <3> HIDE DEF x
      <3>5. 8 * Elems(k, n) <= Block(x).bytes /\ 8 * Elems(k, n) <= Memory
        BY <2>3, <3>2, <3>3, <3>4, SizesAssumption
      <3>6. Reach(k, n) \in Nat /\ Reach(k, n) <= 8 * Elems(k, n)
        BY <2>2, <3>5, ReachWithin
      <3>7. Access(Reach(k, n), Block(x).bytes) = "running"
        BY <2>3, <3>3, <3>5, <3>6, AccessFits, SizesAssumption
      <3> QED
        BY <3>7 DEF x
    <2>5. 1 \in 1 .. Takes[k]
      BY TakesType
    <2> QED
      BY <2>4, <2>5 DEF Outcomes, n
  <1>8. InBounds'
    BY <1>7 DEF InBounds
  <1>9. FreedWhole'
    <2> SUFFICES ASSUME sound' PROVE last'.freed[1] = last'.freed[2]
                        /\ \A y \in Arrays' : dataMap'[y].value.bytes = 8 * made'[y].elems
      BY DEF FreedWhole, Block
    <2>1. \A y \in Arrays : Block(y).bytes = 8 * made[y].elems
      BY <1>4 DEF FreedWhole, Kept
    <2> QED
      BY <1>3, <1>4, <2>1
  <1> QED
    BY <1>4, <1>6, <1>8, <1>9 DEF Kept

-------------------------------------------------------------------------------
(* The steps. *)

\* main leaves every parameter with its type, and all arrays null.
LEMMA KeptAtStart == Init => Kept
  <1> SUFFICES ASSUME Init PROVE Kept
    OBVIOUS
  <1> USE DEF Init
  <1> PICK data \in DataSections :
         LET bad == {x \in DOMAIN data : Throws(data[x].type, data[x].node)} IN
         /\ dataMap = [x \in DOMAIN data \ bad |-> CreateParam(data[x].type, data[x].node)]
         /\ fate = IF bad = {} THEN "running" ELSE "uncaught"
         /\ made = [x \in DOMAIN data |-> NotMade]
    OBVIOUS
  <1> DEFINE bad == {x \in DOMAIN data : Throws(data[x].type, data[x].node)}
  <1>1. ASSUME NEW x \in DOMAIN dataMap
        PROVE  /\ HasType(dataMap[x])
               /\ dataMap[x].kind = "PK_pdouble" => dataMap[x].value.bytes = 0
    <2> DEFINE node == data[x].node
               kind == GetParamKind(data[x].type)
    <2>1. x \in DOMAIN data /\ ~ Throws(data[x].type, node)
          /\ dataMap[x] = CreateParam(data[x].type, node)
      BY <1>1
    <2>2. node.says \in Readable(kind)
      BY <2>1 DEF Throws
    <2>3. /\ node.says = "number"  => node.value \in -INT_MAX - 1 .. INT_MAX
          /\ node.says = "boolean" => node.value \in BOOLEAN
      BY <2>1, DataAssumption
    <2>4. dataMap[x] = CASE kind = "PK_unknown" -> NoParam
                         [] kind = "PK_pdouble" -> [kind |-> kind, value |-> nullptr]
                         [] OTHER               -> [kind |-> kind, value |-> node.value]
      BY <2>1 DEF CreateParam
    <2> HIDE DEF node, kind
    <2>5. CASE kind = "PK_unknown"
      BY <2>4, <2>5 DEF NoParam, HasType
    <2>6. CASE kind = "PK_pdouble"
      BY <2>4, <2>6, SizesAssumption DEF nullptr, HasType
    <2>7. CASE kind \notin {"PK_unknown", "PK_pdouble"}
      <3>1. dataMap[x] = [kind |-> kind, value |-> node.value]
        BY <2>4, <2>7
      <3>2. kind = "PK_int" => node.says = "number"
        BY <2>2 DEF Readable
      <3>3. kind = "PK_bool" => node.says = "boolean"
        BY <2>2 DEF Readable
      <3>4. kind # "PK_pdouble"
        BY <2>7
      <3> QED
        BY <2>3, <3>1, <3>2, <3>3, <3>4 DEF HasType
    <2> QED
      BY <2>5, <2>6, <2>7
  <1>2. fate \in {"running", "uncaught"} /\ sound = TRUE /\ last = NoCall
    OBVIOUS
  <1>3. DOMAIN dataMap \subseteq DOMAIN made /\ \A x \in DOMAIN made : made[x].elems = 0
    BY DEF NotMade
  <1>4. last.params = <<>> /\ last.args = <<>> /\ last.size = 0 /\ last.freed = <<0, 0>>
    BY <1>2 DEF NoCall
  <1>5. TypeOK
    BY <1>1, <1>2, <1>3, <1>4 DEF TypeOK, Fates
  <1>6. LastCall
    BY <1>4 DEF LastCall
  <1>7. InBounds
    BY <1>2 DEF InBounds
  <1>8. FreedWhole
    BY <1>1, <1>3, <1>4 DEF FreedWhole, Arrays, Block
  <1> QED
    BY <1>5, <1>6, <1>7, <1>8 DEF Kept

\* An interval from 0 has as many elements as its end says.
LEMMA CountTo ==
  ASSUME NEW n \in Int
  PROVE  /\ IsFiniteSet(0 .. n - 1) /\ Cardinality(0 .. n - 1) \in Nat
         /\ n \in Nat => Cardinality(0 .. n - 1) = n
  BY FS_Interval

\* What init_array keeps.
LEMMA InitArrayKeeps ==
  ASSUME Kept, NEW V \in ParamLists, InitArray(V) PROVE Kept'
  <1> DEFINE n      == Size(V)
             bytes  == AsSize(8 * n)
             random == GetNthParam(dataMap, 0, "PK_bool", V) = Null
                         \/ dataMap[GetNthParam(dataMap, 0, "PK_bool", V)].value
             cells  == [i \in 0 .. n - 1 |-> IF random THEN Roll01(i) ELSE i * Unit]
  <1>1. Calls("init_array", V) /\ Renew("init_array", V, bytes, cells)
    BY DEF InitArray
  <1>2. fate = "running" /\ Asserted("init_array", V)
    BY <1>1 DEF Calls
  <1>3. n \in Int
    BY <1>2, CallFacts DEF Kept, KernelNames
  <1>4. DOMAIN cells = 0 .. n - 1
    OBVIOUS
  <1> HIDE DEF n, cells
  <1>5. bytes \in Nat
    BY <1>3, AsSizeType
  <1>6. IsFiniteSet(DOMAIN cells)
    BY <1>3, <1>4, CountTo
  <1>7. ASSUME KeepsContract("init_array", n, Args("init_array", V))
        PROVE  /\ Cardinality(DOMAIN cells) = Elems("init_array", n)
               /\ bytes = 8 * Elems("init_array", n)
    <2>1. n \in Nat /\ 8 * n <= Memory
      BY <1>3, <1>7 DEF KeepsContract, InitKernels, Elems
    <2>2. Cardinality(DOMAIN cells) = n
      BY <1>4, <2>1, CountTo
    <2>3. 8 * n \in Nat /\ 8 * n <= SIZE_MAX
      BY <2>1, SizesAssumption
    <2>4. bytes = 8 * n
      BY <2>3, AsSizeOwn
    <2> QED
      BY <2>2, <2>4 DEF Elems
  <1> HIDE DEF bytes
  <1> QED
    BY <1>1, <1>2, <1>5, <1>6, <1>7, RenewKeeps DEF n, InitKernels

\* The sizes a kernel on n x n doubles reckons in an int.
LEMMA TileBytes ==
  ASSUME NEW n \in Int, NEW nElem \in Products(n, n), NEW bytes \in Products(nElem, 8)
  PROVE  /\ nElem \in Int /\ bytes \in Int
         /\ n \in Nat /\ 8 * (n * n) <= INT_MAX =>
              nElem = n * n /\ bytes = 8 * (n * n) /\ AsSize(bytes) = bytes
  <1> DEFINE sq == n * n
  <1>1. sq \in Int
    OBVIOUS
  <1>2. nElem \in Int /\ bytes \in Int
    BY ProductsType
  <1>3. ASSUME n \in Nat, 8 * sq <= INT_MAX
        PROVE  nElem = sq /\ bytes = 8 * sq /\ AsSize(bytes) = bytes
    <2>1. sq \in Nat
      BY SquareType
    <2>2. sq \in 0 .. INT_MAX
      BY <1>3, <2>1, SizesAssumption
    <2>3. nElem = sq
      BY <2>2, ProductsOwn
    <2> HIDE DEF sq
    <2>4. sq * 8 \in 0 .. INT_MAX /\ sq * 8 = 8 * sq
      BY <1>3, <2>1, SizesAssumption
    <2>5. Products(sq, 8) = {sq * 8}
      BY <2>1, <2>4, ProductsOwn
    <2>6. bytes = 8 * sq
      BY <2>3, <2>4, <2>5
    <2>7. bytes \in Nat /\ bytes <= SIZE_MAX
      BY <2>1, <2>4, <2>6, SizesAssumption
    <2> QED
      BY <2>3, <2>6, <2>7, AsSizeOwn
  <1> QED
    BY <1>2, <1>3

\* What init_blas_bloc keeps.
LEMMA InitBlasBlocKeeps ==
  ASSUME Kept, NEW V \in ParamLists, InitBlasBloc(V) PROVE Kept'
  <1> DEFINE n == Size(V)
  <1>1. Calls("init_blas_bloc", V)
    BY DEF InitBlasBloc
  <1>2. fate = "running" /\ Asserted("init_blas_bloc", V)
    BY <1>1 DEF Calls
  <1>3. n \in Int
    BY <1>2, CallFacts DEF Kept, KernelNames
  <1>4. PICK nElem \in Products(n, n) : \E bytes \in Products(nElem, 8) :
          Renew("init_blas_bloc", V, AsSize(bytes), [i \in 0 .. nElem - 1 |-> Roll01(i)])
    BY DEF InitBlasBloc
  <1>5. PICK bytes \in Products(nElem, 8) :
          Renew("init_blas_bloc", V, AsSize(bytes), [i \in 0 .. nElem - 1 |-> Roll01(i)])
    BY <1>4
  <1> DEFINE cells == [i \in 0 .. nElem - 1 |-> Roll01(i)]
  <1>6. DOMAIN cells = 0 .. nElem - 1
    OBVIOUS
  <1>7. Renew("init_blas_bloc", V, AsSize(bytes), cells)
    BY <1>5
  <1> HIDE DEF n, cells
  <1>8. nElem \in Int /\ bytes \in Int /\ AsSize(bytes) \in Nat
    BY <1>3, TileBytes, AsSizeType
  <1>9. IsFiniteSet(DOMAIN cells)
    BY <1>6, <1>8, CountTo
  <1>10. ASSUME KeepsContract("init_blas_bloc", n, Args("init_blas_bloc", V))
         PROVE  /\ Cardinality(DOMAIN cells) = Elems("init_blas_bloc", n)
                /\ AsSize(bytes) = 8 * Elems("init_blas_bloc", n)
    <2>1. n \in Nat /\ 8 * (n * n) <= INT_MAX
      BY <1>3, <1>10 DEF KeepsContract, InitKernels, Elems
    <2>2. nElem = n * n /\ AsSize(bytes) = 8 * (n * n) /\ n * n \in Nat
      BY <1>3, <2>1, TileBytes, SquareType
    <2>3. Cardinality(DOMAIN cells) = nElem
      BY <1>6, <1>8, <2>2, CountTo
    <2> QED
      BY <2>2, <2>3 DEF Elems
  <1> QED
    BY <1>2, <1>7, <1>8, <1>9, <1>10, RenewKeeps DEF n, InitKernels

\* make_symmetric_positive_definite keeps the cells' number.
LEMMA SymmetricDomain ==
  ASSUME NEW n \in Int, NEW f, DOMAIN f = 0 .. Square(n) - 1
  PROVE  DOMAIN MakeSymmetric(f, n) = 0 .. Square(n) - 1
  <1>1. Square(n) \in Nat
    BY SquareType
  <1>2. Whole(f, n)
    BY <1>1, CountTo DEF Whole
  <1> QED
    BY <1>2 DEF MakeSymmetric

\* What init_symmetric keeps.
LEMMA InitDpotrfBlockKeeps ==
  ASSUME Kept, NEW V \in ParamLists, InitDpotrfBlock(V) PROVE Kept'
  <1> DEFINE n      == Size(V)
             random == [i \in 0 .. Square(n) - 1 |-> Roll(i)]
             cells  == MakeSymmetric(random, n)
  <1>1. Calls("init_symmetric", V)
    BY DEF InitDpotrfBlock
  <1>2. fate = "running" /\ Asserted("init_symmetric", V)
    BY <1>1 DEF Calls
  <1>3. n \in Int
    BY <1>2, CallFacts DEF Kept, KernelNames
  <1>4. PICK nElem \in Products(n, n) : \E bytes \in Products(nElem, 8) :
          Renew("init_symmetric", V, AsSize(bytes), cells)
    BY DEF InitDpotrfBlock
  <1>5. PICK bytes \in Products(nElem, 8) : Renew("init_symmetric", V, AsSize(bytes), cells)
    BY <1>4
  <1>6. DOMAIN random = 0 .. Square(n) - 1
    OBVIOUS
  <1> HIDE DEF n, random
  <1>7. DOMAIN cells = 0 .. Square(n) - 1
    BY <1>3, <1>6, SymmetricDomain
  <1> HIDE DEF cells
  <1>8. nElem \in Int /\ bytes \in Int /\ AsSize(bytes) \in Nat
    BY <1>3, TileBytes, AsSizeType
  <1>9. Square(n) \in Nat
    BY <1>3, SquareType
  <1>10. IsFiniteSet(DOMAIN cells) /\ Cardinality(DOMAIN cells) = Square(n)
    BY <1>7, <1>9, CountTo
  <1>11. ASSUME KeepsContract("init_symmetric", n, Args("init_symmetric", V))
         PROVE  /\ Cardinality(DOMAIN cells) = Elems("init_symmetric", n)
                /\ AsSize(bytes) = 8 * Elems("init_symmetric", n)
    <2>1. n \in Nat /\ 8 * (n * n) <= INT_MAX
      BY <1>3, <1>11 DEF KeepsContract, InitKernels, Elems
    <2>2. AsSize(bytes) = 8 * (n * n) /\ Square(n) = n * n
      BY <1>3, <2>1, TileBytes DEF Square
    <2> QED
      BY <1>10, <2>2 DEF Elems
  <1> QED
    BY <1>2, <1>5, <1>8, <1>10, <1>11, RenewKeeps DEF n, InitKernels

\* Every step keeps all that is kept.
LEMMA KeptStep == Kept /\ [Next]_vars => Kept'
  <1> SUFFICES ASSUME Kept, [Next]_vars PROVE Kept'
    OBVIOUS
  <1>1. CASE UNCHANGED vars
    <2>1. TypeOK'
      BY <1>1 DEF vars, Kept, TypeOK
    <2>2. LastCall'
      BY <1>1 DEF vars, Kept, LastCall, Asserted, SizeArg, Args
    <2>3. InBounds' /\ FreedWhole'
      BY <1>1 DEF vars, Kept, InBounds, FreedWhole, Arrays, Block
    <2> QED
      BY <2>1, <2>2, <2>3 DEF Kept
  <1>2. ASSUME NEW V \in ParamLists, NEW k \in KernelNames, FailAssert(k, V) PROVE Kept'
    <2>1. /\ fate' = "assert" /\ UNCHANGED <<dataMap, made, sound>>
          /\ last' = [NoCall EXCEPT !.kernel = k, !.params = V]
      BY <1>2 DEF FailAssert
    <2>2. last'.params = V /\ last'.args = <<>> /\ last'.size = 0 /\ last'.freed = <<0, 0>>
      BY <2>1 DEF NoCall
    <2>3. TypeOK'
      BY <2>1, <2>2 DEF Kept, TypeOK, Fates
    <2>4. LastCall' /\ InBounds' /\ FreedWhole'
      BY <2>1, <2>2 DEF LastCall, InBounds, FreedWhole
    <2> QED
      BY <2>3, <2>4 DEF Kept
  <1>3. ASSUME NEW V \in ParamLists, CopyArray(V) PROVE Kept'
    <2>1. fate = "running" /\ Asserted("copy", V) /\ WorkOn("copy", V, 1)
      BY <1>3 DEF CopyArray, Calls
    <2>2. "copy" \in KernelNames \ InitKernels /\ 1 \in 1 .. Takes["copy"]
      BY TakesType DEF KernelNames, InitKernels
    <2> QED
      BY <2>1, <2>2, WorkKeeps DEF WorkOn
  <1>4. ASSUME NEW V \in ParamLists, NEW k \in {"dgemm", "naive_dgemm", "dtrsm", "dsyrk"},
               BlasKernel(k, V)
        PROVE  Kept'
    <2>1. fate = "running" /\ Asserted(k, V) /\ WorkOn(k, V, Takes[k])
      BY <1>4 DEF BlasKernel, Calls
    <2>2. k \in KernelNames \ InitKernels
      BY DEF KernelNames, InitKernels
    <2>3. Takes[k] \in 1 .. Takes[k]
      BY <2>2, TakesType
    <2> QED
      BY <2>1, <2>2, <2>3, WorkKeeps DEF WorkOn
  <1>5. ASSUME NEW V \in ParamLists, Dpotrf(V) PROVE Kept'
    <2>1. "dpotrf" \in KernelNames \ InitKernels /\ 1 \in 1 .. Takes["dpotrf"]
      BY TakesType DEF KernelNames, InitKernels
    <2>2. PICK matrix :
            /\ fate = "running" /\ Asserted("dpotrf", V)
            /\ fate' \in Outcomes("dpotrf", V) \cup {"exit"}
            /\ dataMap' = [dataMap EXCEPT ![Args("dpotrf", V)[1]].value.cells = <<>>]
            /\ Note("dpotrf", V, <<0, 0>>, matrix)
            /\ UNCHANGED made
      BY <1>5 DEF Dpotrf, Calls
    <2> QED
      BY <2>1, <2>2, WorkKeeps
  <1> QED
    BY <1>1, <1>2, <1>3, <1>4, <1>5, InitArrayKeeps, InitBlasBlocKeeps, InitDpotrfBlockKeeps
    DEF Next

-------------------------------------------------------------------------------
(* The theorems. *)

\* For any data sections, parameter lists and sizes of the types, what is kept is
\* kept by every call of every kernel (KernelsBlas.cpp, KernelsBandwidth.cpp).
THEOREM KernelsInvariant == Spec => []Kept
  BY KeptAtStart, KeptStep, PTL DEF Spec

\* Every parameter keeps its type, and no pointer points to more than can be had.
THEOREM TypeCorrect == Spec => []TypeOK
  BY KernelsInvariant, PTL DEF Kept

\* As long as every call keeps to its contract no kernel leaves its block.
THEOREM KernelsInBounds == Spec => []InBounds
  BY KernelsInvariant, PTL DEF Kept

\* As long as every call keeps to its contract a block is freed as it was allocated.
THEOREM BlocksFreedWhole == Spec => []FreedWhole
  BY KernelsInvariant, PTL DEF Kept

\* Up to a block's size the naive dgemm adds each product once (KernelsBlas.cpp:146).
THEOREM NaiveIsRightWithinBlock == Spec => []NaiveWithinBlock
  <1>1. ASSUME NEW n \in Int, n <= BLOCK_SIZE, NEW i \in 0 .. n - 1, NEW j \in 0 .. n - 1,
               NEW k \in 0 .. n - 1
        PROVE  Times(n, i, j, k) = 1
    <2>1. n \in Nat /\ n >= 1 /\ BLOCK_SIZE \in Nat /\ BLOCK_SIZE # 0
      BY <1>1, SizesAssumption
    <2>2. \A s \in 0 .. n - 1 : s % BLOCK_SIZE = s
      BY <1>1, <2>1
    <2>3. Starts(n) = {0}
      BY <1>1, <2>1, <2>2 DEF Starts
    <2>4. Extent(n, 0) = n
      BY <1>1, <2>1 DEF Extent
    <2>5. ASSUME NEW x \in 0 .. n - 1
          PROVE  Cardinality({s \in Starts(n) : x < Extent(n, s)}) = 1
      <3>1. {s \in Starts(n) : x < Extent(n, s)} = {0}
        BY <2>1, <2>3, <2>4
      <3> QED
        BY <3>1, FS_Singleton
    <2> QED
      BY <2>5 DEF Times
  <1>2. TypeOK => NaiveWithinBlock
    BY <1>1 DEF TypeOK, NaiveWithinBlock
  <1> QED
    BY <1>2, TypeCorrect, PTL

-------------------------------------------------------------------------------
(* Arguments by rank. *)

\* The places of the arrays on a list of parameters.
LEMMA PlacesOfArrays ==
  ASSUME NEW V \in ParamLists \cup {<<>>}
  PROVE  LET P == OfKind(dataMap, "PK_pdouble", V) IN
         /\ IsFiniteSet(DOMAIN V) /\ DOMAIN V \subseteq Nat
         /\ P = {i \in DOMAIN V : V[i] \in Arrays}
         /\ P \subseteq ArrayPlaces(V) /\ ArrayPlaces(V) \subseteq DOMAIN V
  <1>1. V \in Seq({V[i] : i \in DOMAIN V})
    <2>1. CASE V = <<>>
      BY <2>1
    <2>2. CASE V \in ParamLists
      BY <2>2, ListsAssumption
    <2> QED
      BY <2>1, <2>2
  <1>2. Len(V) \in Nat /\ DOMAIN V = 1 .. Len(V)
    BY <1>1
  <1>3. IsFiniteSet(DOMAIN V) /\ DOMAIN V \subseteq Nat
    BY <1>2, FS_Interval
  <1>4. OfKind(dataMap, "PK_pdouble", V) = {i \in DOMAIN V : V[i] \in Arrays}
    BY CastIsKind DEF OfKind, Arrays
  <1>5. \A i \in DOMAIN V : V[i] \in Arrays => i \in ArrayPlaces(V)
    BY DEF ArrayPlaces, Deref, Arrays
  <1> QED
    BY <1>3, <1>4, <1>5 DEF ArrayPlaces

\* The rank of an element of a finite set of numbers is one more than the number of
\* those before it, and no two elements have the same.
LEMMA RankIsUnique ==
  ASSUME NEW P, IsFiniteSet(P), P \subseteq Nat, NEW i \in P
  PROVE  LET Before(x) == {j \in P : j < x} IN
         /\ Cardinality(Before(i)) \in Nat
         /\ Cardinality({j \in P : j <= i}) = Cardinality(Before(i)) + 1
         /\ Cardinality(Before(i)) + 1 <= Cardinality(P)
         /\ \A x \in P : Cardinality(Before(x)) = Cardinality(Before(i)) => x = i
  <1> DEFINE Before(x) == {j \in P : j < x}
             Up(x)     == {j \in P : j <= x}
  <1>0. \A x, y \in P :
          /\ x \in Nat /\ y \in Nat
          /\ (x <= y <=> x < y \/ x = y) /\ ~ (x < x) /\ (x < y \/ y < x \/ x = y)
    OBVIOUS
  <1>1. ASSUME NEW x \in P
        PROVE  /\ IsFiniteSet(Before(x)) /\ IsFiniteSet(Up(x)) /\ Cardinality(Before(x)) \in Nat
               /\ Cardinality(Up(x)) = Cardinality(Before(x)) + 1
    <2>1. IsFiniteSet(Before(x)) /\ IsFiniteSet(Up(x))
      BY FS_Subset
    <2>2. Up(x) = Before(x) \cup {x} /\ x \notin Before(x)
      BY <1>0
    <2> HIDE DEF Before, Up
    <2> QED
      BY <2>1, <2>2, FS_AddElement, FS_CardinalityType
  <1>2. Cardinality(Up(i)) <= Cardinality(P)
    BY FS_Subset
  <1>3. ASSUME NEW x \in P, NEW y \in P, x < y
        PROVE  Cardinality(Before(x)) < Cardinality(Before(y))
    <2>1. \A j \in P : j <= x => j < y
      <3> TAKE j \in P
      <3>1. j \in Nat /\ x \in Nat /\ y \in Nat
        BY <1>0
      <3> QED
        BY <1>3, <3>1
    <2>2. Up(x) \subseteq Before(y)
      BY <2>1
    <2> HIDE DEF Before, Up
    <2>3. Cardinality(Up(x)) <= Cardinality(Before(y))
      BY <1>1, <2>2, FS_Subset
    <2> QED
      BY <1>1, <2>3
  <1>4. \A x \in P : Cardinality(Before(x)) = Cardinality(Before(i)) => x = i
    <2> SUFFICES ASSUME NEW x \in P, Cardinality(Before(x)) = Cardinality(Before(i)), x # i
                 PROVE  FALSE
      OBVIOUS
    <2>1. x < i \/ i < x
      BY <1>0
    <2>2. Cardinality(Before(x)) # Cardinality(Before(i))
      <3> DEFINE a == Cardinality(Before(x))
                 b == Cardinality(Before(i))
      <3>1. a \in Nat /\ b \in Nat
        BY <1>1
      <3>2. a < b \/ b < a
        BY <1>3, <2>1
      <3> HIDE DEF a, b
      <3>3. a # b
        BY <3>1, <3>2
      <3> QED
        BY <3>3 DEF a, b
    <2> QED
      BY <2>2
  <1> QED
    BY <1>1, <1>2, <1>4

\* A kernel that is past its assert works on the arrays its action lists, each in its
\* place, if they are as many as it asks for (getNthParam, kernel.hpp:59).
THEOREM ArgumentsAsWritten == Spec => []ArgsAsWritten
  <1>1. ASSUME Kept, last.args # <<>>,
               Cardinality(ArrayPlaces(last.params)) = Len(last.args),
               NEW i \in ArrayPlaces(last.params)
        PROVE  last.args[Cardinality({j \in ArrayPlaces(last.params) : j <= i})] = last.params[i]
    <2> DEFINE V == last.params
               A == ArrayPlaces(V)
               P == OfKind(dataMap, "PK_pdouble", V)
               Before(x) == {j \in P : j < x}
               Nth(N) == {x \in P : Cardinality(Before(x)) = N}
    <2>1. PICK k \in KernelNames : Asserted(k, V) /\ last.args = Args(k, V)
      BY <1>1 DEF Kept, LastCall
    <2>2. V \in ParamLists \cup {<<>>}
      BY <1>1 DEF Kept, TypeOK
    <2>3. Takes[k] \in 1 .. 3 /\ Len(last.args) = Takes[k]
      BY <1>1, <2>1, TakesType, CallFacts DEF Kept
    <2>4. /\ IsFiniteSet(DOMAIN V) /\ DOMAIN V \subseteq Nat
          /\ P \subseteq A /\ A \subseteq DOMAIN V
      BY <2>2, PlacesOfArrays
    <2>5. ASSUME NEW N \in 0 .. Takes[k] - 1
          PROVE  /\ last.args[N + 1] = V[CHOOSE x \in Nth(N) : TRUE]
                 /\ Nth(N) # {}
      <3>1. last.args[N + 1] = GetNthParam(dataMap, N, "PK_pdouble", V)
        BY <2>1, <2>3, <2>5 DEF Args
      <3>2. Args(k, V)[N + 1] # Null
        BY <2>1, <2>3, <2>5 DEF Asserted
      <3> QED
        BY <2>1, <3>1, <3>2 DEF GetNthParam
    <2>6. IsFiniteSet(A) /\ IsFiniteSet(P) /\ P \subseteq Nat
      BY <2>4, FS_Subset
    <2> HIDE DEF V, A, P
    <2>7. Cardinality(P) >= Takes[k]
      <3>1. Takes[k] - 1 \in 0 .. Takes[k] - 1
        BY <2>3
      <3>2. PICK x \in P : Cardinality(Before(x)) = Takes[k] - 1
        BY <2>5, <3>1
      <3>3. Cardinality(Before(x)) + 1 <= Cardinality(P)
        BY <2>6, RankIsUnique
      <3> QED
        BY <2>3, <3>2, <3>3
    <2>8. Cardinality(A) = Takes[k]
      BY <1>1, <2>3 DEF A, V
    <2>9. P = A
      <3>1. Cardinality(P) \in Nat /\ Cardinality(P) <= Cardinality(A)
            /\ (Cardinality(A) = Cardinality(P) => A = P)
        BY <2>4, <2>6, FS_Subset, FS_CardinalityType
      <3> QED
        BY <2>3, <2>7, <2>8, <3>1
    <2>10. i \in P
      BY <2>9 DEF A, V
    <2> DEFINE r == Cardinality({j \in P : j <= i})
               N == Cardinality(Before(i))
    <2>11. N \in Nat /\ r = N + 1 /\ r <= Cardinality(P)
           /\ \A x \in P : Cardinality(Before(x)) = N => x = i
      BY <2>6, <2>10, RankIsUnique
    <2>12. Nth(N) = {i}
      BY <2>10, <2>11
    <2>13. N \in 0 .. Takes[k] - 1
      BY <2>3, <2>8, <2>9, <2>11
    <2>14. last.args[N + 1] = V[CHOOSE x \in Nth(N) : TRUE]
      BY <2>5, <2>13
    <2>15. last.args[r] = V[i]
      BY <2>11, <2>12, <2>14
    <2> QED
      BY <2>9, <2>15 DEF A, V
  <1>2. Kept => ArgsAsWritten
    BY <1>1 DEF ArgsAsWritten
  <1> QED
    BY <1>2, KernelsInvariant, PTL

-------------------------------------------------------------------------------
(* Operations counted. *)

\* Functions f and g take sets S and T to each other, and back.
OneToOne(S, T, f, g) ==
  /\ f \in [S -> T] /\ g \in [T -> S]
  /\ \A x \in S : g[f[x]] = x
  /\ \A y \in T : f[g[y]] = y

\* Such sets have as many elements.
LEMMA SameCount ==
  \A S, T, f, g : IsFiniteSet(S) /\ OneToOne(S, T, f, g) =>
                   IsFiniteSet(T) /\ Cardinality(T) = Cardinality(S)
  <1> SUFFICES ASSUME NEW S, NEW T, NEW f, NEW g, IsFiniteSet(S), OneToOne(S, T, f, g)
               PROVE  IsFiniteSet(T) /\ Cardinality(T) = Cardinality(S)
    OBVIOUS
  <1>1. f \in Bijection(S, T)
    BY DEF OneToOne, Bijection, Injection, Surjection, IsInjective
  <1> QED
    BY <1>1, FS_Bijection DEF ExistsBijection

\* Disjoint sets together have as many elements as both.
LEMMA DisjointCount ==
  ASSUME NEW S, NEW T, IsFiniteSet(S), IsFiniteSet(T), S \cap T = {}
  PROVE  Cardinality(S \cup T) = Cardinality(S) + Cardinality(T)
  <1>1. Cardinality(S \cup T) = Cardinality(S) + Cardinality(T) - Cardinality(S \cap T)
    BY FS_Union
  <1>2. Cardinality(S \cap T) = 0 /\ Cardinality(S) \in Nat /\ Cardinality(T) \in Nat
    BY FS_EmptySet, FS_CardinalityType
  <1> QED
    BY <1>1, <1>2

\* A number is a multiple of another, and what is left of it.
LEMMA Remainder ==
  ASSUME NEW b \in Nat \ {0}, NEW x \in Nat
  PROVE  /\ x % b \in 0 .. b - 1 /\ x - (x % b) \in 0 .. x
         /\ (x - (x % b)) % b = 0
  <1>1. x % b \in 0 .. b - 1 /\ x \div b \in Nat /\ x = b * (x \div b) + (x % b)
    OBVIOUS
  <1> DEFINE q == x \div b
             r == x % b
  <1>2. q \in Nat /\ r \in 0 .. b - 1 /\ x = b * q + r
    BY <1>1
  <1> HIDE DEF q, r
  <1>3. b * q \in Nat
    BY <1>2
  <1>4. \A c \in Nat \ {0}, p \in Nat : (c * p) % c = 0
    OBVIOUS
  <1>5. (b * q) % b = 0
    BY <1>2, <1>4
  <1>6. x - r = b * q
    BY <1>2, <1>3
  <1> QED
    BY <1>2, <1>3, <1>5, <1>6 DEF r

\* A multiple and less than the divisor more leaves just that.
LEMMA RemainderOfSum ==
  ASSUME NEW b \in Nat \ {0}, NEW s \in Nat, NEW i \in 0 .. b - 1, s % b = 0
  PROVE  (s + i) % b = i /\ (s + i) - ((s + i) % b) = s
  <1> DEFINE q == s \div b
             p == (s + i) \div b
             r == (s + i) % b
  <1>1. q \in Nat /\ s = b * q
    OBVIOUS
  <1>2. p \in Nat /\ r \in 0 .. b - 1 /\ s + i = b * p + r
    OBVIOUS
  <1> HIDE DEF q, p, r
  <1>3. b * q \in Nat /\ b * p \in Nat
    BY <1>1, <1>2
  <1>4. \A u, v \in Nat : u + 1 <= v => b * u + b <= b * v
    OBVIOUS
  <1>5. p = q
    <2>1. CASE q + 1 <= p
      BY <1>1, <1>2, <1>3, <1>4, <2>1
    <2>2. CASE p + 1 <= q
      BY <1>1, <1>2, <1>3, <1>4, <2>2
    <2> QED
      BY <1>1, <1>2, <2>1, <2>2
  <1>6. r = i
    BY <1>1, <1>2, <1>3, <1>5
  <1> QED
    BY <1>6 DEF r

\* The triples over a set of n elements.
LEMMA CubeCount ==
  ASSUME NEW S, NEW n \in Nat, IsFiniteSet(S), Cardinality(S) = n
  PROVE  IsFiniteSet(S \X S \X S) /\ Cardinality(S \X S \X S) = (n * n) * n
  <1> DEFINE Cube == S \X S \X S
  <1>1. /\ IsFiniteSet(S \X S) /\ Cardinality(S \X S) = n * n
        /\ IsFiniteSet((S \X S) \X S) /\ Cardinality((S \X S) \X S) = (n * n) * n
    <2>1. IsFiniteSet(S \X S) /\ Cardinality(S \X S) = n * n
      BY FS_Product
    <2> DEFINE T == S \X S
    <2> HIDE DEF T
    <2>2. IsFiniteSet(T) /\ Cardinality(T) = n * n
      BY <2>1 DEF T
    <2>3. IsFiniteSet(T \X S) /\ Cardinality(T \X S) = Cardinality(T) * Cardinality(S)
      BY <2>2, FS_Product
    <2>4. Cardinality(T \X S) = (n * n) * n
      BY <2>2, <2>3, Zenon
    <2> QED
      BY <2>1, <2>3, <2>4 DEF T
  <1> DEFINE T == (S \X S) \X S
             f == [p \in T |-> <<p[1][1], p[1][2], p[2]>>]
             g == [x \in Cube |-> << <<x[1], x[2]>>, x[3]>>]
  <1>2. f \in [T -> Cube] /\ g \in [Cube -> T]
    OBVIOUS
  <1>3. \A p \in T : g[f[p]] = p
    OBVIOUS
  <1>4. \A x \in Cube : f[g[x]] = x
    OBVIOUS
  <1> HIDE DEF T, f, g, Cube
  <1>5. IsFiniteSet(T) /\ Cardinality(T) = (n * n) * n
    BY <1>1 DEF T
  <1>6. OneToOne(T, Cube, f, g)
    BY <1>2, <1>3, <1>4 DEF OneToOne
  <1>7. IsFiniteSet(Cube) /\ Cardinality(Cube) = (n * n) * n
    BY <1>5, <1>6, SameCount, Zenon
  <1> QED
    BY <1>7 DEF Cube

\* The triples of a loop nest: in all, with the first two equal, and in order.
LEMMA Triangles ==
  ASSUME NEW n \in Nat
  PROVE  /\ TrsmMuls(n) \in Int /\ TrsmAdds(n) \in Int
         /\ TrsmMuls(n) + TrsmAdds(n) = (n * n) * n
         /\ TrsmMuls(n) = TrsmAdds(n) + n * n
  <1> DEFINE S    == 1 .. n
             Cube == S \X S \X S
             Le   == {x \in Cube : x[1] <= x[2]}
             Lt   == {x \in Cube : x[1] < x[2]}
             Gt   == {x \in Cube : x[2] < x[1]}
             Eq   == {x \in Cube : x[1] = x[2]}
  <1>1. IsFiniteSet(S) /\ Cardinality(S) = n
    BY FS_Interval
  <1>2. \A a, b \in S : (a <= b <=> a < b \/ a = b) /\ (~ (a <= b) <=> b < a) /\ (a < b => a # b)
    OBVIOUS
  <1> HIDE DEF S
  <1>3. IsFiniteSet(S \X S) /\ Cardinality(S \X S) = n * n
    BY <1>1, FS_Product
  <1>4. IsFiniteSet(Cube) /\ Cardinality(Cube) = (n * n) * n
    BY <1>1, CubeCount
  <1>5. IsFiniteSet(Eq) /\ Cardinality(Eq) = n * n
    <2> DEFINE T == S \X S
               f == [p \in T |-> <<p[1], p[1], p[2]>>]
               g == [x \in Eq |-> <<x[1], x[3]>>]
    <2>1. f \in [T -> Eq] /\ g \in [Eq -> T]
      OBVIOUS
    <2>2. \A p \in T : g[f[p]] = p
      OBVIOUS
    <2>3. \A x \in Eq : f[g[x]] = x
      OBVIOUS
    <2> HIDE DEF T, f, g, Eq
    <2>4. IsFiniteSet(T) /\ Cardinality(T) = n * n
      BY <1>3 DEF T
    <2>5. OneToOne(T, Eq, f, g)
      BY <2>1, <2>2, <2>3 DEF OneToOne
    <2> QED
      BY <2>4, <2>5, SameCount, Zenon
  <1>6. IsFiniteSet(Lt) /\ IsFiniteSet(Gt) /\ IsFiniteSet(Le)
    BY <1>4, FS_Subset
  <1>7. Cardinality(Gt) = Cardinality(Lt)
    <2> DEFINE f == [x \in Lt |-> <<x[2], x[1], x[3]>>]
               g == [x \in Gt |-> <<x[2], x[1], x[3]>>]
    <2>1. f \in [Lt -> Gt] /\ g \in [Gt -> Lt]
      OBVIOUS
    <2>2. \A x \in Lt : g[f[x]] = x
      OBVIOUS
    <2>3. \A x \in Gt : f[g[x]] = x
      OBVIOUS
    <2> HIDE DEF f, g, Lt, Gt
    <2>4. OneToOne(Lt, Gt, f, g)
      BY <2>1, <2>2, <2>3 DEF OneToOne
    <2> QED
      BY <1>6, <2>4, SameCount, Zenon
  <1>8. Cardinality(Cube) = Cardinality(Le) + Cardinality(Gt)
    <2>1. Cube = Le \cup Gt /\ Le \cap Gt = {}
      BY <1>2
    <2> HIDE DEF Cube, Le, Gt
    <2> QED
      BY <1>6, <2>1, DisjointCount
  <1>9. Cardinality(Le) = Cardinality(Lt) + Cardinality(Eq)
    <2>1. Le = Lt \cup Eq /\ Lt \cap Eq = {}
      BY <1>2
    <2> HIDE DEF Le, Lt, Eq
    <2> QED
      BY <1>5, <1>6, <2>1, DisjointCount
  <1>10. TrsmMuls(n) = Cardinality(Le) /\ TrsmAdds(n) = Cardinality(Lt)
    BY DEF TrsmMuls, TrsmAdds, S
  <1> HIDE DEF Le, Lt, Gt, Eq, Cube
  <1>11. Cardinality(Le) \in Nat /\ Cardinality(Lt) \in Nat
    BY <1>6, FS_CardinalityType
  <1> QED
    BY <1>4, <1>5, <1>7, <1>8, <1>9, <1>10, <1>11

\* The formulas of the dtrsm and dsyrk watchers are right for every size
\* (runtime.hpp:209-219).
THEOREM FlopsAreCounted == Spec => []FlopsAsCounted
  <1>1. ASSUME NEW n \in Nat
        PROVE  /\ KernelFlops("dtrsm", n) = 6 * (TrsmMuls(n) + TrsmAdds(n))
               /\ KernelFlops("dsyrk", n) = 12 * SyrkMuls(n)
    <2> DEFINE sq == n * n
               cu == (n * n) * n
    <2>1. sq \in Int /\ cu \in Int
      OBVIOUS
    <2>2. KernelFlops("dtrsm", n) = 6 * cu
      <3>1. KernelFlops("dtrsm", n) = 3 * n * n * (n + 1) + 3 * n * n * (n - 1)
        BY DEF KernelFlops, fmuls_trsm, fadds_trsm
      <3> QED
        BY <3>1
    <2>3. KernelFlops("dsyrk", n) = 6 * cu + 6 * sq
      <3>1. KernelFlops("dsyrk", n) = 3 * n * n * (n + 1) + 3 * n * n * (n + 1)
        BY DEF KernelFlops, fmuls_syrk, fadds_syrk
      <3> QED
        BY <3>1
    <2>4. SyrkMuls(n) = TrsmMuls(n)
      BY DEF SyrkMuls, TrsmMuls
    <2>5. /\ TrsmMuls(n) \in Int /\ TrsmAdds(n) \in Int
          /\ TrsmMuls(n) + TrsmAdds(n) = cu /\ TrsmMuls(n) = TrsmAdds(n) + sq
      BY Triangles
    <2> HIDE DEF sq, cu
    <2>6. 6 * (TrsmMuls(n) + TrsmAdds(n)) = 6 * cu
      BY <2>5
    <2>7. 12 * TrsmMuls(n) = 6 * cu + 6 * sq
      <3>1. \A a, b, c, d \in Int : a + b = c /\ a = b + d => 12 * a = 6 * c + 6 * d
        OBVIOUS
      <3> QED
        BY <2>1, <2>5, <3>1
    <2> QED
      BY <2>2, <2>3, <2>4, <2>6, <2>7
  <1>2. TypeOK => FlopsAsCounted
    <2> SUFFICES ASSUME TypeOK PROVE FlopsAsCounted
      OBVIOUS
    <2>1. last.size \in Int
      BY DEF TypeOK
    <2> QED
      BY <1>1, <2>1 DEF FlopsAsCounted
  <1> QED
    BY <1>2, TypeCorrect, PTL

\* In each dimension the loops over the blocks take as many steps as one loop from 0 to n.
LEMMA StepsOfBlocks ==
  ASSUME NEW n \in Nat
  PROVE  IsFiniteSet(Steps(n)) /\ Cardinality(Steps(n)) = n
  <1> DEFINE b    == BLOCK_SIZE
             S    == 0 .. n - 1
             f    == [x \in S |-> <<x - (x % b), x % b>>]
             g    == [step \in Steps(n) |-> step[1] + step[2]]
  <1>1. b \in Nat \ {0}
    BY SizesAssumption
  <1>2. IsFiniteSet(S) /\ Cardinality(S) = n
    BY CountTo
  <1>3. \A step \in Steps(n) :
          /\ step[1] \in 0 .. n - 1 /\ step[1] % b = 0 /\ step[2] \in 0 .. b - 1
          /\ step[1] + step[2] \in S /\ step = <<step[1], step[2]>>
    BY <1>1 DEF Steps, Starts, Extent
  <1>4. ASSUME NEW x \in S
        PROVE  /\ <<x - (x % b), x % b>> \in Steps(n)
               /\ (x - (x % b)) + (x % b) = x
    <2>1. x % b \in 0 .. b - 1 /\ x - (x % b) \in 0 .. x /\ (x - (x % b)) % b = 0
      <3>1. x \in Nat
        OBVIOUS
      <3> HIDE DEF b
      <3> QED
        BY <1>1, <3>1, Remainder
    <2> DEFINE r == x % b
               s == x - r
    <2>2. r \in 0 .. b - 1 /\ s \in 0 .. n - 1 /\ s % b = 0 /\ s + r = x /\ x < n
      BY <2>1
    <2> HIDE DEF r, s
    <2>3. s \in Starts(n) /\ r < Extent(n, s)
      BY <1>1, <2>2 DEF Starts, Extent
    <2>4. <<s, r>> \in Steps(n)
      BY <2>2, <2>3 DEF Steps
    <2> QED
      BY <2>2, <2>4 DEF s, r
  <1>5. f \in [S -> Steps(n)] /\ g \in [Steps(n) -> S]
    BY <1>3, <1>4
  <1>6. \A x \in S : g[f[x]] = x
    BY <1>4, <1>5
  <1>7. ASSUME NEW step \in Steps(n) PROVE f[g[step]] = step
    <2> DEFINE s == step[1]
               i == step[2]
    <2>1. s \in Nat /\ i \in 0 .. b - 1 /\ s % b = 0 /\ s + i \in S /\ step = <<s, i>>
      BY <1>1, <1>3
    <2>2. g[step] = s + i
      OBVIOUS
    <2> HIDE DEF s, i
    <2>3. (s + i) % b = i /\ (s + i) - ((s + i) % b) = s
      BY <1>1, <2>1, RemainderOfSum
    <2> QED
      BY <2>1, <2>2, <2>3
  <1> HIDE DEF f, g, S
  <1>8. OneToOne(S, Steps(n), f, g)
    BY <1>5, <1>6, <1>7 DEF OneToOne
  <1> QED
    BY <1>2, <1>8, SameCount, Zenon

\* For every size and block size the naive dgemm does as many operations as the
\* watcher of dgemm reckons (KernelsBlas.cpp:122, runtime.hpp:200).
THEOREM NaiveUpdatesAreCounted == Spec => []NaiveCounts
  <1>1. ASSUME NEW n \in Nat PROVE 12 * Updates(n) = KernelFlops("dgemm", n)
    <2> DEFINE cu == (n * n) * n
    <2>1. cu \in Int
      OBVIOUS
    <2>2. Updates(n) = cu
      <3> DEFINE S == Steps(n)
      <3>1. IsFiniteSet(S) /\ Cardinality(S) = n
        BY StepsOfBlocks
      <3> HIDE DEF S
      <3>2. Cardinality(S \X S \X S) = cu
        BY <3>1, CubeCount
      <3> QED
        BY <3>2 DEF Updates, S
    <2>3. KernelFlops("dgemm", n) = 12 * cu
      BY DEF KernelFlops, fmuls_gemm, fadds_gemm
    <2> QED
      BY <2>2, <2>3
  <1>2. TypeOK => NaiveCounts
    <2> SUFFICES ASSUME TypeOK, last.size >= 0
                 PROVE  12 * Updates(last.size) = KernelFlops("dgemm", last.size)
      BY DEF NaiveCounts
    <2>1. last.size \in Nat
      BY DEF TypeOK
    <2> QED
      BY <1>1, <2>1
  <1> QED
    BY <1>2, TypeCorrect, PTL

-------------------------------------------------------------------------------
(* The matrix of dpotrf can be factorised (Factorable): what is known of   *)
(* the cells of an array stays between -1 and 1 but for a diagonal that    *)
(* may have been bumped (CellsInRange), so bumping it makes it dominate    *)
(* its row.                                                                *)

\* The row and the column of a cell.
LEMMA RowAndColumn ==
  ASSUME NEW n \in Nat \ {0}, NEW i \in 0 .. n - 1, NEW j \in 0 .. n - 1
  PROVE  /\ i * n + j \in 0 .. (n * n) - 1
         /\ (i * n + j) \div n = i /\ (i * n + j) % n = j
  <1>1. \A a, b \in Nat : a + 1 <= b => a * n + n <= b * n
    OBVIOUS
  <1>2. i * n \in Nat /\ i * n + n <= n * n /\ n * n \in Nat
    <2>1. i \in Nat /\ i + 1 <= n
      OBVIOUS
    <2>2. i * n + n <= n * n
      BY <1>1, <2>1
    <2> QED
      BY <2>1, <2>2
  <1>3. i * n + j \in 0 .. (n * n) - 1
    BY <1>2
  <1> DEFINE p == (i * n + j) \div n
             r == (i * n + j) % n
  <1>4. p \in Nat /\ r \in 0 .. n - 1 /\ i * n + j = p * n + r
    BY <1>3
  <1> HIDE DEF p, r
  <1>5. p * n \in Nat
    BY <1>4
  <1>6. p = i
    <2>1. CASE p + 1 <= i
      BY <1>1, <1>2, <1>4, <1>5, <2>1
    <2>2. CASE i + 1 <= p
      BY <1>1, <1>2, <1>4, <1>5, <2>2
    <2> QED
      BY <1>4, <2>1, <2>2
  <1>7. r = j
    BY <1>2, <1>4, <1>6
  <1> QED
    BY <1>3, <1>6, <1>7 DEF p, r

\* What is known of a block is its first cells, whose number is `count`.
Known(cells, count) == count \in Nat /\ DOMAIN cells = 0 .. count - 1

\* make_symmetric_positive_definite cell by cell: the diagonal is bumped, the upper
\* triangle is the lower one.
LEMMA MadeSymmetric ==
  ASSUME NEW n \in Nat \ {0}, NEW cells, NEW count, Known(cells, count), Whole(cells, n)
  PROVE  LET m == MakeSymmetric(cells, n) IN
         /\ n * n \in Nat /\ n * n <= count /\ DOMAIN m = DOMAIN cells
         /\ \A i, j \in 0 .. n - 1 :
              /\ i * n + j \in DOMAIN cells
              /\ m[i * n + j] = IF i = j THEN cells[i * n + j] + bump * Unit
                                ELSE IF i < j THEN cells[j * n + i]
                                ELSE cells[i * n + j]
  <1> DEFINE m == MakeSymmetric(cells, n)
             cell(p, i, j) == CASE i = j          -> cells[p] + bump * Unit
                                [] i < j /\ i < n -> cells[j * n + i]
                                [] OTHER          -> cells[p]
  <1>1. n * n \in Nat /\ n * n <= count
    <2>1. Cardinality(DOMAIN cells) = count
      BY CountTo DEF Known
    <2>2. Square(n) = n * n /\ n * n \in Nat
      BY SquareType DEF Square
    <2> QED
      BY <2>1, <2>2 DEF Whole
  <1>2. m = [p \in DOMAIN cells |-> cell(p, p \div n, p % n)]
    BY DEF MakeSymmetric
  <1>3. DOMAIN m = DOMAIN cells
    BY <1>2
  <1>4. ASSUME NEW i \in 0 .. n - 1, NEW j \in 0 .. n - 1
        PROVE  /\ i * n + j \in DOMAIN cells
               /\ m[i * n + j] = IF i = j THEN cells[i * n + j] + bump * Unit
                                 ELSE IF i < j THEN cells[j * n + i]
                                 ELSE cells[i * n + j]
    <2> DEFINE p == i * n + j
    <2>1. p \in 0 .. (n * n) - 1 /\ p \div n = i /\ p % n = j
      BY RowAndColumn
    <2> HIDE DEF p
    <2>2. p \in DOMAIN cells
      BY <1>1, <2>1 DEF Known
    <2>3. m[p] = cell(p, i, j)
      BY <1>2, <2>1, <2>2
    <2>4. cell(p, i, j) = IF i = j THEN cells[p] + bump * Unit
                          ELSE IF i < j THEN cells[j * n + i]
                          ELSE cells[p]
      <3>1. i < n
        OBVIOUS
      <3>2. i < j => i # j
        OBVIOUS
      <3> QED
        BY <3>1, <3>2
    <2> QED
      BY <2>2, <2>3, <2>4 DEF p
  <1> QED
    BY <1>1, <1>3, <1>4

\* The matrix is symmetric.
LEMMA IsSymmetric ==
  ASSUME NEW n \in Int, NEW cells, NEW count, Known(cells, count), Whole(cells, n)
  PROVE  Symmetric(MakeSymmetric(cells, n), n)
  <1>1. CASE n <= 0
    BY <1>1 DEF Symmetric
  <1>2. CASE n > 0
    <2> DEFINE m == MakeSymmetric(cells, n)
    <2>1. \A i, j \in 0 .. n - 1 :
            m[i * n + j] = IF i = j THEN cells[i * n + j] + bump * Unit
                           ELSE IF i < j THEN cells[j * n + i]
                           ELSE cells[i * n + j]
      BY <1>2, MadeSymmetric
    <2> HIDE DEF m
    <2>2. ASSUME NEW i \in 0 .. n - 1, NEW j \in 0 .. n - 1
          PROVE  m[i * n + j] = m[j * n + i]
      <3>1. i < j \/ j < i \/ i = j
        OBVIOUS
      <3>2. ~ (i < j /\ j < i) /\ (i < j => i # j) /\ (j < i => i # j)
        OBVIOUS
      <3> QED
        BY <2>1, <3>1, <3>2
    <2> QED
      BY <2>2 DEF Symmetric, m
  <1> QED
    BY <1>1, <1>2

\* Its cells are in range again, and up to a size of `bump` it is dominated by its
\* diagonal.
LEMMA IsDominant ==
  ASSUME NEW n \in Int, NEW cells, NEW count, Known(cells, count), Whole(cells, n),
         InRange(cells, n)
  PROVE  /\ InRange(MakeSymmetric(cells, n), n)
         /\ n <= bump => Dominant(MakeSymmetric(cells, n), n)
  <1>1. CASE n <= 0
    BY <1>1 DEF InRange, Dominant
  <1>2. CASE n > 0
    <2> DEFINE m == MakeSymmetric(cells, n)
    <2>0. /\ DOMAIN m = DOMAIN cells
          /\ \A i, j \in 0 .. n - 1 :
            /\ i * n + j \in DOMAIN cells
            /\ m[i * n + j] = IF i = j THEN cells[i * n + j] + bump * Unit
                              ELSE IF i < j THEN cells[j * n + i]
                              ELSE cells[i * n + j]
      BY <1>2, MadeSymmetric
    <2> HIDE DEF m
    <2>1. bump \in Nat \ {0} /\ Unit \in Nat \ {0} /\ bump * Unit \in Nat
      BY SizesAssumption
    <2>2. ASSUME NEW i \in 0 .. n - 1, NEW j \in 0 .. n - 1
          PROVE  /\ m[i * n + j] \in Int /\ m[i * n + j] > -Unit
                 /\ i # j => m[i * n + j] < Unit
                 /\ i = j => m[i * n + j] > bump * Unit - Unit
      <3> DEFINE p == i * n + j
                 q == j * n + i
      <3>1. /\ cells[p] \in Int /\ cells[p] > -Unit /\ (i # j => cells[p] < Unit)
            /\ cells[q] \in Int /\ cells[q] > -Unit /\ (i # j => cells[q] < Unit)
        BY <2>0 DEF InRange
      <3>2. m[p] = IF i = j THEN cells[p] + bump * Unit
                   ELSE IF i < j THEN cells[q] ELSE cells[p]
        BY <2>0
      <3> HIDE DEF p, q
      <3>3. CASE i = j
        <4>1. m[p] = cells[p] + bump * Unit
          BY <3>2, <3>3
        <4> DEFINE top == bump * Unit
        <4> HIDE DEF top
        <4>2. top \in Nat /\ m[p] = cells[p] + top
          BY <2>1, <4>1 DEF top
        <4>3. m[p] \in Int /\ m[p] > -Unit /\ m[p] > top - Unit
          BY <2>1, <3>1, <4>2
        <4> QED
          BY <3>3, <4>3 DEF p, top
      <3>4. CASE i # j
        <4>1. m[p] \in {cells[p], cells[q]}
          BY <3>2, <3>4
        <4> QED
          BY <3>1, <3>4, <4>1 DEF p
      <3> QED
        BY <3>3, <3>4
    <2>3. InRange(m, n)
      BY <2>0, <2>2 DEF InRange
    <2>4. ASSUME n <= bump, NEW i \in 0 .. n - 1, NEW j \in 0 .. n - 1
          PROVE  IF i = j THEN m[i * n + i] > 0
                 ELSE \A v \in {m[i * n + j], -m[i * n + j]} : (n - 1) * v < m[i * n + i]
      <3> DEFINE d == m[i * n + i]
                 c == m[i * n + j]
                 top == bump * Unit - Unit
      <3>1. d \in Int /\ d > top
        BY <2>2
      <3>2. i # j => c \in Int /\ -Unit < c /\ c < Unit
        BY <2>2
      <3>3. top \in Int /\ top >= 0
        <4>1. \A a, b \in Nat \ {0} : a * b \in Int /\ a * b >= b
          OBVIOUS
        <4> QED
          BY <2>1, <4>1
      <3>4. (n - 1) * Unit <= top
        <4>1. \A a, b, u \in Nat \ {0} : a <= b => (a - 1) * u <= b * u - u
          OBVIOUS
        <4> QED
          BY <1>2, <2>1, <2>4, <4>1
      <3> HIDE DEF d, c, top
      <3>5. ASSUME NEW v \in Int, v < Unit PROVE (n - 1) * v < d
        <4>1. \A a \in Nat : \A w, u \in Int :
                w < u => a * w <= a * u /\ a * w \in Int /\ a * u \in Int
          OBVIOUS
        <4>2. n - 1 \in Nat /\ Unit \in Int
          BY <1>2, <2>1
        <4>3. (n - 1) * v <= (n - 1) * Unit /\ (n - 1) * v \in Int /\ (n - 1) * Unit \in Int
          BY <3>5, <4>1, <4>2
        <4> QED
          BY <3>1, <3>3, <3>4, <4>3
      <3>6. i # j => \A v \in {c, -c} : v \in Int /\ v < Unit
        BY <2>1, <3>2
      <3>7. d > 0
        BY <3>1, <3>3
      <3> QED
        BY <3>5, <3>6, <3>7 DEF d, c
    <2> QED
      BY <2>3, <2>4 DEF Dominant, m
  <1> QED
    BY <1>1, <1>2

\* The first cells of a block, and how many they are.
LEMMA NumberedIsKnown ==
  ASSUME NEW cells
  PROVE  /\ Numbered(cells) => Known(cells, Cardinality(DOMAIN cells))
         /\ \A count : Known(cells, count) => Numbered(cells)
  <1>1. Numbered(cells) => Known(cells, Cardinality(DOMAIN cells))
    BY FS_CardinalityType DEF Numbered, Known
  <1>2. ASSUME NEW count, Known(cells, count) PROVE Numbered(cells)
    <2>1. IsFiniteSet(0 .. count - 1) /\ Cardinality(0 .. count - 1) = count
      <3>1. count \in Int /\ count \in Nat
        BY <1>2 DEF Known
      <3> QED
        BY <3>1, CountTo
    <2> QED
      BY <1>2, <2>1 DEF Numbered, Known
  <1> QED
    BY <1>1, <1>2

\* Cells numbered from 0, to any number.
LEMMA NumberedTo ==
  ASSUME NEW n \in Int, NEW cells, DOMAIN cells = 0 .. n - 1 PROVE Numbered(cells)
  <1>1. CASE n >= 0
    <2>1. Known(cells, n)
      BY <1>1 DEF Known
    <2> QED
      BY <2>1, NumberedIsKnown
  <1>2. CASE n < 0
    <2>1. Known(cells, 0)
      BY <1>2 DEF Known
    <2> QED
      BY <2>1, NumberedIsKnown
  <1> QED
    BY <1>1, <1>2

\* Of no cells everything is known.
LEMMA NoCells ==
  ASSUME NEW n PROVE Numbered(<<>>) /\ InRange(<<>>, n)
  <1>1. DOMAIN <<>> = {} /\ 0 .. 0 - 1 = {}
    OBVIOUS
  <1>2. IsFiniteSet({}) /\ Cardinality({}) = 0
    BY FS_EmptySet
  <1> QED
    BY <1>1, <1>2 DEF Numbered, InRange

-------------------------------------------------------------------------------
(* What a call does to the cells. *)

\* The block of an array is replaced.
LEMMA BlockBecomes ==
  ASSUME TypeOK, NEW x \in Arrays, NEW block,
         dataMap' = [dataMap EXCEPT ![x].value = block]
  PROVE  dataMap'[x].value = block /\ \A y \in Arrays \ {x} : dataMap'[y] = dataMap[y]
  <1>1. x \in DOMAIN dataMap /\ dataMap[x].kind = "PK_pdouble" /\ HasType(dataMap[x])
    BY DEF Arrays, TypeOK
  <1> DEFINE old == dataMap[x].value
  <1>2. dataMap[x] = [kind |-> "PK_pdouble", value |-> [bytes |-> old.bytes, cells |-> old.cells]]
    BY <1>1 DEF HasType
  <1>3. dataMap'[x] = [dataMap[x] EXCEPT !.value = block]
    BY <1>1
  <1> HIDE DEF old
  <1>4. dataMap'[x].value = block
    BY <1>2, <1>3
  <1>5. \A y \in DOMAIN dataMap : y # x => dataMap'[y] = dataMap[y]
    OBVIOUS
  <1> QED
    BY <1>4, <1>5 DEF Arrays

\* A call of kernel k leaves its size, its arrays and its matrix behind.
LEMMA NoteLeaves ==
  ASSUME NEW k, NEW V, NEW freed, NEW matrix, Note(k, V, freed, matrix)
  PROVE  /\ last'.size = Size(V) /\ last'.args = Args(k, V) /\ last'.matrix = matrix
         /\ sound' => KeepsContract(k, Size(V), Args(k, V))
  BY DEF Note

\* An init kernel fills its array with cells in range, and makes a matrix for dpotrf.
LEMMA RenewKeepsCells ==
  ASSUME Kept, KeptCells, NEW k \in InitKernels, NEW V \in ParamLists, Asserted(k, V),
         NEW bytes \in Nat, NEW cells, Numbered(cells),
         k # "init_array" => InRange(cells, Size(V)),
         k = "init_symmetric" => /\ Symmetric(cells, Size(V))
                                 /\ Size(V) <= bump => Dominant(cells, Size(V)),
         Renew(k, V, bytes, cells), UNCHANGED roll
  PROVE  KeptCells'
  <1> DEFINE x      == Args(k, V)[1]
             freed  == IF Block(x).bytes = 0 THEN <<0, 0>> ELSE <<Block(x).bytes, bytes>>
             matrix == IF k = "init_symmetric" THEN cells ELSE <<>>
             block  == [bytes |-> Alloc(bytes), cells |-> cells]
             call   == [kernel |-> k, elems |-> Cardinality(DOMAIN cells), size |-> Size(V)]
  <1>1. TypeOK /\ k \in KernelNames
    BY DEF Kept, InitKernels, KernelNames
  <1>2. x \in Arrays
    BY <1>1, CallFacts
  <1>3. /\ fate' = Access(8 * Cardinality(DOMAIN cells), Alloc(bytes))
        /\ dataMap' = [dataMap EXCEPT ![x].value = block]
        /\ made' = [made EXCEPT ![x] = call]
        /\ Note(k, V, freed, matrix)
    BY DEF Renew
  <1>4. Alloc(bytes) \in 0 .. Memory
    BY AllocType
  <1> HIDE DEF x, freed
  <1>5. Arrays' = Arrays
    BY <1>1, <1>2, <1>3, <1>4, BlockChange
  <1>6. dataMap'[x].value = block /\ \A y \in Arrays \ {x} : dataMap'[y] = dataMap[y]
    BY <1>1, <1>2, <1>3, BlockBecomes
  <1>7. made'[x] = call /\ \A y \in Arrays \ {x} : made'[y] = made[y]
    BY <1>1, <1>2, <1>3 DEF TypeOK, Arrays
  <1>8. CellsInRange'
    <2> SUFFICES ASSUME NEW y \in Arrays
                 PROVE  /\ Numbered(dataMap'[y].value.cells)
                        /\ made'[y].kernel # "init_array" =>
                             InRange(dataMap'[y].value.cells, made'[y].size)
      BY <1>5 DEF CellsInRange, Block
    <2>1. CASE y = x
      <3>1. dataMap'[y].value.cells = cells /\ made'[y].kernel = k /\ made'[y].size = Size(V)
        BY <1>6, <1>7, <2>1
      <3> QED
        BY <3>1
    <2>2. CASE y # x
      <3>1. dataMap'[y] = dataMap[y] /\ made'[y] = made[y]
        BY <1>6, <1>7, <2>2
      <3> QED
        BY <3>1 DEF KeptCells, CellsInRange, Block
    <2> QED
      BY <2>1, <2>2
  <1>9. Factorable'
    <2>1. last'.size = Size(V) /\ last'.matrix = matrix
      BY <1>3, NoteLeaves
    <2>2. fate' # "exit"
      BY <1>3, AccessType
    <2>3. matrix # <<>> => k = "init_symmetric" /\ matrix = cells
      OBVIOUS
    <2> QED
      BY <2>1, <2>2, <2>3 DEF Factorable
  <1> QED
    BY <1>8, <1>9 DEF KeptCells

\* A kernel that works on arrays leaves unknown cells in the one it writes; dpotrf's
\* matrix is as good as the cells it is made of.
LEMMA WorkKeepsCells ==
  ASSUME Kept, KeptCells, NEW k \in KernelNames \ InitKernels, NEW V \in ParamLists,
         Asserted(k, V), NEW written \in 1 .. Takes[k], NEW matrix,
         dataMap' = [dataMap EXCEPT ![Args(k, V)[written]].value.cells = <<>>],
         Note(k, V, <<0, 0>>, matrix), UNCHANGED <<made, roll>>,
         Factorable'
  PROVE  KeptCells'
  <1> DEFINE x   == Args(k, V)[written]
             old == dataMap[x].value
  <1>1. TypeOK
    BY DEF Kept
  <1>2. x \in Arrays
    BY <1>1, CallFacts
  <1> HIDE DEF x
  <1>3. Arrays' = Arrays
    BY <1>1, <1>2, CellsChange DEF x
  <1>4. dataMap' = [dataMap EXCEPT ![x].value = [old EXCEPT !.cells = <<>>]]
    BY DEF x
  <1>5. /\ dataMap'[x].value = [old EXCEPT !.cells = <<>>]
        /\ \A y \in Arrays \ {x} : dataMap'[y] = dataMap[y]
    BY <1>1, <1>2, <1>4, BlockBecomes
  <1>6. old = [bytes |-> old.bytes, cells |-> old.cells]
    <2>1. dataMap[x].kind = "PK_pdouble" /\ HasType(dataMap[x])
      BY <1>1, <1>2 DEF Arrays, TypeOK
    <2>2. dataMap[x] = [kind |-> "PK_pdouble",
                        value |-> [bytes |-> old.bytes, cells |-> old.cells]]
      BY <2>1 DEF HasType
    <2> QED
      BY <2>2
  <1> HIDE DEF old
  <1>7. dataMap'[x].value.cells = <<>>
    BY <1>5, <1>6
  <1>8. CellsInRange'
    <2> SUFFICES ASSUME NEW y \in Arrays
                 PROVE  /\ Numbered(dataMap'[y].value.cells)
                        /\ made[y].kernel # "init_array" =>
                             InRange(dataMap'[y].value.cells, made[y].size)
      BY <1>3 DEF CellsInRange, Block
    <2>1. CASE y = x
      BY <1>7, <2>1, NoCells
    <2>2. CASE y # x
      BY <1>5, <2>2 DEF KeptCells, CellsInRange, Block
    <2> QED
      BY <2>1, <2>2
  <1> QED
    BY <1>8 DEF KeptCells

\* A call that makes no matrix has none that could fail.
LEMMA NoMatrix == ASSUME last'.matrix = <<>> PROVE Factorable'
  BY DEF Factorable

\* What the random engine gives.
LEMMA RollInRange ==
  ASSUME roll \in Rolls, NEW i \in Nat
  PROVE  /\ Roll(i) \in Int /\ Roll(i) > -Unit /\ Roll(i) < Unit
         /\ Roll01(i) \in Int /\ Roll01(i) > -Unit /\ Roll01(i) < Unit
  <1>1. roll \in Seq(1 - Unit .. Unit - 1) /\ roll # <<>>
    BY SizesAssumption
  <1>2. Len(roll) \in Nat \ {0} /\ \A j \in 1 .. Len(roll) : roll[j] \in 1 - Unit .. Unit - 1
    <2>1. \A T : \A q \in Seq(T) :
            q # <<>> => Len(q) \in Nat \ {0} /\ \A j \in 1 .. Len(q) : q[j] \in T
      OBVIOUS
    <2> QED
      BY <1>1, <2>1, Zenon
  <1>3. (i % Len(roll)) + 1 \in 1 .. Len(roll)
    BY <1>2
  <1>4. Roll(i) \in 1 - Unit .. Unit - 1
    BY <1>2, <1>3 DEF Roll
  <1>5. Unit \in Nat \ {0}
    BY SizesAssumption
  <1>6. \A r \in 1 - Unit .. Unit - 1 :
          (r + Unit) \div 2 \in Int /\ (r + Unit) \div 2 >= 0 /\ (r + Unit) \div 2 < Unit
    BY <1>5
  <1> QED
    BY <1>4, <1>5, <1>6 DEF Roll01

-------------------------------------------------------------------------------
(* The steps. *)

\* What init_array does to the cells.
LEMMA InitArrayKeepsCells ==
  ASSUME Kept, KeptCells, NEW V \in ParamLists, InitArray(V) PROVE KeptCells'
  <1> DEFINE n      == Size(V)
             random == GetNthParam(dataMap, 0, "PK_bool", V) = Null
                         \/ dataMap[GetNthParam(dataMap, 0, "PK_bool", V)].value
             cells  == [i \in 0 .. n - 1 |-> IF random THEN Roll01(i) ELSE i * Unit]
  <1>1. Calls("init_array", V) /\ Renew("init_array", V, AsSize(8 * n), cells)
    BY DEF InitArray
  <1>2. Asserted("init_array", V) /\ UNCHANGED roll
    BY <1>1 DEF Calls
  <1>3. n \in Int
    BY <1>2, CallFacts DEF Kept, KernelNames
  <1>4. DOMAIN cells = 0 .. n - 1
    OBVIOUS
  <1> HIDE DEF n, cells
  <1>5. Numbered(cells)
    BY <1>3, <1>4, NumberedTo
  <1>6. AsSize(8 * n) \in Nat
    BY <1>3, AsSizeType
  <1> QED
    BY <1>1, <1>2, <1>5, <1>6, RenewKeepsCells DEF InitKernels

\* What init_blas_bloc does to the cells.
LEMMA InitBlasBlocKeepsCells ==
  ASSUME Kept, KeptCells, NEW V \in ParamLists, InitBlasBloc(V) PROVE KeptCells'
  <1> DEFINE n == Size(V)
  <1>1. Calls("init_blas_bloc", V)
    BY DEF InitBlasBloc
  <1>2. Asserted("init_blas_bloc", V) /\ UNCHANGED roll
    BY <1>1 DEF Calls
  <1>3. n \in Int
    BY <1>2, CallFacts DEF Kept, KernelNames
  <1>4. PICK nElem \in Products(n, n) : \E bytes \in Products(nElem, 8) :
          Renew("init_blas_bloc", V, AsSize(bytes), [i \in 0 .. nElem - 1 |-> Roll01(i)])
    BY DEF InitBlasBloc
  <1>5. PICK bytes \in Products(nElem, 8) :
          Renew("init_blas_bloc", V, AsSize(bytes), [i \in 0 .. nElem - 1 |-> Roll01(i)])
    BY <1>4
  <1> DEFINE cells == [i \in 0 .. nElem - 1 |-> Roll01(i)]
  <1>6. Renew("init_blas_bloc", V, AsSize(bytes), cells)
    BY <1>5
  <1>7. nElem \in Int /\ bytes \in Int /\ AsSize(bytes) \in Nat
    BY <1>3, TileBytes, AsSizeType
  <1>8. DOMAIN cells = 0 .. nElem - 1 /\ \A p \in 0 .. nElem - 1 : cells[p] = Roll01(p)
    OBVIOUS
  <1> HIDE DEF n, cells
  <1>9. Numbered(cells)
    BY <1>7, <1>8, NumberedTo
  <1>10. \A p \in DOMAIN cells : cells[p] \in Int /\ cells[p] > -Unit /\ cells[p] < Unit
    <2>1. \A p \in 0 .. nElem - 1 : p \in Nat
      BY <1>7
    <2> QED
      BY <1>8, <2>1, RollInRange DEF KeptCells
  <1>11. InRange(cells, n)
    BY <1>10 DEF InRange
  <1> QED
    BY <1>2, <1>6, <1>7, <1>9, <1>11, RenewKeepsCells DEF n, InitKernels

\* What init_symmetric does to the cells.
LEMMA InitDpotrfBlockKeepsCells ==
  ASSUME Kept, KeptCells, NEW V \in ParamLists, InitDpotrfBlock(V) PROVE KeptCells'
  <1> DEFINE n      == Size(V)
             random == [i \in 0 .. Square(n) - 1 |-> Roll(i)]
             cells  == MakeSymmetric(random, n)
  <1>1. Calls("init_symmetric", V)
    BY DEF InitDpotrfBlock
  <1>2. Asserted("init_symmetric", V) /\ UNCHANGED roll
    BY <1>1 DEF Calls
  <1>3. n \in Int
    BY <1>2, CallFacts DEF Kept, KernelNames
  <1>4. PICK nElem \in Products(n, n) : \E bytes \in Products(nElem, 8) :
          Renew("init_symmetric", V, AsSize(bytes), cells)
    BY DEF InitDpotrfBlock
  <1>5. PICK bytes \in Products(nElem, 8) : Renew("init_symmetric", V, AsSize(bytes), cells)
    BY <1>4
  <1>6. AsSize(bytes) \in Nat
    BY <1>3, TileBytes, AsSizeType
  <1>7. DOMAIN random = 0 .. Square(n) - 1 /\ \A p \in 0 .. Square(n) - 1 : random[p] = Roll(p)
    OBVIOUS
  <1> HIDE DEF n, random
  <1>8. Square(n) \in Nat
    BY <1>3, SquareType
  <1>9. Known(random, Square(n))
    BY <1>7, <1>8 DEF Known
  <1>10. Whole(random, n)
    BY <1>7, <1>8, CountTo DEF Whole
  <1>11. InRange(random, n)
    <2>1. \A p \in DOMAIN random : random[p] \in Int /\ random[p] > -Unit /\ random[p] < Unit
      <3>1. \A p \in 0 .. Square(n) - 1 : p \in Nat
        BY <1>8
      <3> QED
        BY <1>7, <3>1, RollInRange DEF KeptCells
    <2> QED
      BY <2>1 DEF InRange
  <1>12. DOMAIN cells = 0 .. Square(n) - 1
    BY <1>3, <1>7, SymmetricDomain
  <1>13. Symmetric(cells, n) /\ InRange(cells, n) /\ (n <= bump => Dominant(cells, n))
    BY <1>3, <1>9, <1>10, <1>11, IsSymmetric, IsDominant
  <1> HIDE DEF cells
  <1>14. Numbered(cells)
    BY <1>8, <1>12, NumberedTo
  <1> QED
    BY <1>2, <1>5, <1>6, <1>13, <1>14, RenewKeepsCells DEF n, InitKernels

\* What dpotrf does to the cells: a matrix as it should be does not end the process.
LEMMA DpotrfKeepsCells ==
  ASSUME Kept, KeptCells, NEW V \in ParamLists, Dpotrf(V) PROVE KeptCells'
  <1> DEFINE x      == Args("dpotrf", V)[1]
             n      == Size(V)
             cells  == Block(x).cells
             count  == Cardinality(DOMAIN cells)
             matrix == MakeSymmetric(cells, n)
             sure   == n >= 0 /\ Whole(matrix, n) /\ Symmetric(matrix, n) /\ Dominant(matrix, n)
  <1>1. /\ Asserted("dpotrf", V) /\ UNCHANGED <<made, roll>>
        /\ \/ fate' \in Outcomes("dpotrf", V)
           \/ ~ sure /\ fate' = "exit"
        /\ dataMap' = [dataMap EXCEPT ![x].value.cells = <<>>]
        /\ Note("dpotrf", V, <<0, 0>>, matrix)
    BY DEF Dpotrf, Calls
  <1>2. "dpotrf" \in KernelNames \ InitKernels /\ 1 \in 1 .. Takes["dpotrf"]
    BY TakesType DEF KernelNames, InitKernels
  <1>3. x \in Arrays /\ n \in Int
    BY <1>1, <1>2, CallFacts DEF Kept
  <1>4. Numbered(cells) /\ (made[x].kernel # "init_array" => InRange(cells, made[x].size))
    BY <1>3 DEF KeptCells, CellsInRange
  <1>5. Known(cells, count)
    BY <1>4, NumberedIsKnown
  <1>6. /\ last'.size = n /\ last'.args[1] = x /\ last'.matrix = matrix
        /\ sound' => n >= 0
    BY <1>1, NoteLeaves DEF KeepsContract
  <1>7. matrix # <<>> => Whole(cells, n)
    BY DEF MakeSymmetric
  <1> HIDE DEF x, n, cells, count, matrix
  <1>8. fate' \in Outcomes("dpotrf", V) => fate' # "exit"
    <2>1. Outcomes("dpotrf", V) \subseteq {"running", "segfault", "overrun"}
      BY AccessType DEF Outcomes
    <2> QED
      BY <2>1
  <1>9. ASSUME matrix # <<>>, Whole(matrix, n) PROVE Symmetric(matrix, n)
    BY <1>3, <1>5, <1>7, <1>9, IsSymmetric DEF matrix
  <1>10. ASSUME matrix # <<>>, Whole(matrix, n), n <= bump, sound', made[x].size = n,
                made[x].kernel # "init_array"
         PROVE  Dominant(matrix, n) /\ fate' # "exit"
    <2>1. Dominant(matrix, n)
      BY <1>3, <1>4, <1>5, <1>7, <1>10, IsDominant DEF matrix
    <2>2. sure
      BY <1>6, <1>9, <1>10, <2>1
    <2> QED
      BY <1>1, <1>8, <2>1, <2>2
  <1>11. Factorable'
    BY <1>1, <1>6, <1>9, <1>10 DEF Factorable
  <1> QED
    BY <1>1, <1>2, <1>11, WorkKeepsCells DEF x

\* Every step keeps the cells in range and dpotrf's matrix fit for it.
LEMMA KeptCellsStep == Kept /\ KeptCells /\ [Next]_vars => KeptCells'
  <1> SUFFICES ASSUME Kept, KeptCells, [Next]_vars PROVE KeptCells'
    OBVIOUS
  <1>1. CASE UNCHANGED vars
    BY <1>1 DEF vars, KeptCells, CellsInRange, Factorable, Arrays, Block
  <1>2. ASSUME NEW V \in ParamLists, NEW k \in KernelNames, FailAssert(k, V) PROVE KeptCells'
    <2>1. /\ UNCHANGED <<dataMap, roll, made>>
          /\ last' = [NoCall EXCEPT !.kernel = k, !.params = V]
      BY <1>2 DEF FailAssert
    <2>2. last'.matrix = <<>>
      BY <2>1 DEF NoCall
    <2> QED
      BY <2>1, <2>2, NoMatrix DEF KeptCells, CellsInRange, Arrays, Block
  <1>3. ASSUME NEW V \in ParamLists, NEW k \in KernelNames \ InitKernels,
               NEW written \in 1 .. Takes[k], Calls(k, V), WorkOn(k, V, written)
        PROVE  KeptCells'
    <2>1. /\ Asserted(k, V) /\ UNCHANGED <<made, roll>>
          /\ dataMap' = [dataMap EXCEPT ![Args(k, V)[written]].value.cells = <<>>]
          /\ Note(k, V, <<0, 0>>, <<>>)
      BY <1>3 DEF Calls, WorkOn
    <2>2. Factorable'
      BY <2>1, NoteLeaves, NoMatrix
    <2> QED
      BY <2>1, <2>2, WorkKeepsCells
  <1>4. ASSUME NEW V \in ParamLists, CopyArray(V) PROVE KeptCells'
    <2>1. "copy" \in KernelNames \ InitKernels /\ 1 \in 1 .. Takes["copy"]
      BY TakesType DEF KernelNames, InitKernels
    <2> QED
      BY <1>3, <1>4, <2>1 DEF CopyArray
  <1>5. ASSUME NEW V \in ParamLists, NEW k \in {"dgemm", "naive_dgemm", "dtrsm", "dsyrk"},
               BlasKernel(k, V)
        PROVE  KeptCells'
    <2>1. k \in KernelNames \ InitKernels
      BY DEF KernelNames, InitKernels
    <2>2. Takes[k] \in 1 .. Takes[k]
      BY <2>1, TakesType
    <2> QED
      BY <1>3, <1>5, <2>1, <2>2 DEF BlasKernel
  <1> QED
    BY <1>1, <1>2, <1>4, <1>5, InitArrayKeepsCells, InitBlasBlocKeepsCells,
       InitDpotrfBlockKeepsCells, DpotrfKeepsCells DEF Next

\* At the start nothing is known of any array's cells.
LEMMA KeptCellsAtStart == Init => KeptCells
  <1> SUFFICES ASSUME Init PROVE KeptCells
    OBVIOUS
  <1>1. roll \in Rolls /\ last.matrix = <<>>
    BY DEF Init, NoCall
  <1>2. Factorable
    BY <1>1 DEF Factorable
  <1>3. ASSUME NEW x \in Arrays PROVE Block(x).cells = <<>>
    <2>1. PICK name, node : dataMap[x] = CreateParam(name, node)
      BY <1>3 DEF Init, Arrays
    <2>2. dataMap[x].kind = "PK_pdouble"
      BY DEF Arrays
    <2> DEFINE kind == GetParamKind(name)
    <2>3. dataMap[x] = CASE kind = "PK_unknown" -> NoParam
                         [] kind = "PK_pdouble" -> [kind |-> kind, value |-> nullptr]
                         [] OTHER               -> [kind |-> kind, value |-> node.value]
      BY <2>1 DEF CreateParam
    <2> HIDE DEF kind
    <2>4. kind = "PK_pdouble"
      BY <2>2, <2>3 DEF NoParam
    <2> QED
      BY <2>3, <2>4 DEF nullptr, Block
  <1>4. CellsInRange
    BY <1>3, NoCells DEF CellsInRange
  <1> QED
    BY <1>1, <1>2, <1>4 DEF KeptCells

\* Whatever is called before: the matrix of a dpotrf is symmetric, and one that was made
\* at random for its size, up to 128, is dominated by its diagonal and does not end the
\* process (make_symmetric_positive_definite, KernelsBlas.cpp:16).
THEOREM MatrixIsFactorable == Spec => []Factorable
  <1>1. Spec => []KeptCells
    BY KernelsInvariant, KeptCellsAtStart, KeptCellsStep, PTL DEF Spec
  <1>2. KeptCells => Factorable
    BY DEF KeptCells
  <1> QED
    BY <1>1, <1>2, PTL

===============================================================================

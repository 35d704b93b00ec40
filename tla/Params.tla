-------------------------------- MODULE Params --------------------------------
(***************************************************************************)
(* Parameters of kernels: how main makes them of the data section of a     *)
(* scenario, and how a kernel picks its own out of the list it is given,   *)
(* by type and rank.                                                       *)
(*                                                                         *)
(* A pointer to a Param is the name it has in dataMap, or Null.  A node of *)
(* the scenario file is a record of what is written there (a "number", a   *)
(* "boolean", some "text", or "nothing") and the value.                    *)
(***************************************************************************)
EXTENDS Integers, Sequences, FiniteSets, SequencesExt

Null == "null"

ParamKinds == {"PK_int", "PK_bool", "PK_double", "PK_float", "PK_pdouble", "PK_unknown"}

-------------------------------------------------------------------------------
\* StringSwitch: the first case that matches gives the result.
NoResult == "none"

Match(result, str, s, value) == IF result = NoResult /\ s = str THEN value ELSE result
Default(result, value)       == IF result = NoResult THEN value ELSE result

KindCases == << <<"int", "PK_int">>, <<"double", "PK_double">>, <<"double*", "PK_pdouble">>,
                <<"float", "PK_float">>, <<"bool", "PK_bool">> >>

GetParamKind(name) ==
  Default(FoldLeft(LAMBDA result, case : Match(result, name, case[1], case[2]),
                   NoResult, KindCases),
          "PK_unknown")

-------------------------------------------------------------------------------
\* What a node must say for value.as<T>() not to throw.
Readable(kind) ==
  CASE kind = "PK_bool" -> {"boolean"}
    [] kind \in {"PK_int", "PK_double", "PK_float"} -> {"number"}
    [] OTHER -> {"number", "boolean", "text", "nothing"}

\* A block of memory: its bytes and what is known of its cells.  The null
\* pointer has none.
nullptr == [bytes |-> 0, cells |-> <<>>]

\* No parameter, for a type that is not known: no Param has this kind.
NoParam   == [kind |-> "PK_unknown"]
IsNull(P) == P.kind = "PK_unknown"

\* An exception of yaml-cpp, which nobody catches.
Throws(name, node) == node.says \notin Readable(GetParamKind(name))

CreateParam(name, node) ==
  LET kind == GetParamKind(name) IN
  CASE kind = "PK_unknown" -> NoParam
    [] kind = "PK_pdouble" -> [kind |-> kind, value |-> nullptr]
    [] OTHER               -> [kind |-> kind, value |-> node.value]

-------------------------------------------------------------------------------
\* dataMap[name]: a name that is not there is put there, as a null pointer.
Deref(dataMap, name) == IF name \in DOMAIN dataMap THEN dataMap[name] ELSE NoParam

ClassOf(kind, P) == P.kind = kind

\* isa<ParamImpl<T>>: it asserts that P is not null, which its only caller,
\* below, sees to.
IsA(kind, P) == ClassOf(kind, P)

\* The operands of && are in order, so isa is asked of no null pointer.
DynCastOrNull(kind, P) == IF ~ IsNull(P) /\ IsA(kind, P) THEN P ELSE NoParam

\* The places on the list V that have a parameter of one kind.
OfKind(dataMap, kind, V) ==
  {i \in DOMAIN V : ~ IsNull(DynCastOrNull(kind, Deref(dataMap, V[i])))}

\* Slip: the loop goes on past the match.
GetNthParamLast(dataMap, N, kind, V) ==
  LET those == OfKind(dataMap, kind, V) IN
  IF N < Cardinality(those) THEN V[CHOOSE i \in those : \A j \in those : j <= i] ELSE Null

\* getNthParam<N, T>(V): counted among those of its kind only.
GetNthParam(dataMap, N, kind, V) ==
  LET those == OfKind(dataMap, kind, V)
      nth   == {i \in those : Cardinality({j \in those : j < i}) = N}
  IN IF nth = {} THEN Null ELSE V[CHOOSE i \in nth : TRUE]

===============================================================================

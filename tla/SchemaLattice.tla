---------------------------- MODULE SchemaLattice ---------------------------
(***************************************************************************)
(* The order of table structures and the join that merges the structures   *)
(* of sharded tables (pkg/schemacmp).  a <= b when every row of a table    *)
(* like a may be stored in one like b; the join of several structures is   *)
(* the structure of the table that takes the rows of all of them.          *)
(*                                                                         *)
(* A lattice value is [kind, v], and an error is one of kind "error".  A   *)
(* tuple is indexed by the names of its parts.  Which error is returned    *)
(* is left out.  The attributes that must be equal and that nothing else   *)
(* looks at (character set and collation, the remaining flags, the         *)
(* generated expression, the bits for row IDs) are one part each, fixed.   *)
(***************************************************************************)
EXTENDS Integers, Sequences, SequencesExt, FiniteSets

CONSTANTS
    TableInfos,     \* structures of the sharded tables
    MaxShards       \* bound on the tables that are merged

Incompatible == 2
Failure == [kind |-> "error", v |-> <<>>]

Fails(x) == x.kind = "error"

Val(kind, v) == [kind |-> kind, v |-> v]

Sign(n) == CASE n < 0 -> -1 [] n = 0 -> 0 [] OTHER -> 1

-----------------------------------------------------------------------------
(* The lattices without parts.                                             *)

BoolCompare(a, b) == CASE a = b -> 0 [] a /\ ~b -> 1 [] OTHER -> -1
BoolJoin(a, b) == a \/ b

\* Singleton, and EqualitySingleton over the columns of an index.
SingletonCompare(a, b) == IF a = b THEN 0 ELSE Incompatible
EqualityCompare(a, b) == IF a = b THEN 0 ELSE Incompatible

\* Byte, and Int, Int64 and Uint.
ByteCompare(a, b) == Sign(a - b)
ByteJoin(a, b) == IF a >= b THEN a ELSE b
IntCompare(a, b) == Sign(a - b)
IntJoin(a, b) == IF a >= b THEN a ELSE b

\* The numbers MySQL has for the types.
TypeNum == [Tiny |-> 1, Short |-> 2, Long |-> 3, Longlong |-> 8, Int24 |-> 9,
            TinyBlob |-> 249, MediumBlob |-> 250, LongBlob |-> 251, Blob |-> 252,
            NewDecimal |-> 246, Enum |-> 247, Varchar |-> 15, Date |-> 10]
IsInteger(t) == t \in {"Tiny", "Short", "Long", "Longlong", "Int24"}
IsBlob(t) == t \in {"TinyBlob", "MediumBlob", "LongBlob", "Blob"}

\* Mutant: the types are in the order of their numbers.
MutCompareMySQLIntegerType(a, b) == Sign(TypeNum[a] - TypeNum[b])

compareMySQLIntegerType(a, b) ==
    CASE a = b -> 0
      [] a # b /\ a = "Int24" -> IF TypeNum[b] <= TypeNum.Short THEN 1 ELSE -1
      [] a # b /\ b = "Int24" -> IF TypeNum[a] <= TypeNum.Short THEN -1 ELSE 1
      [] OTHER -> Sign(TypeNum[a] - TypeNum[b])

\* Mutant: only one of the two sides is looked at for a Blob.
MutCompareMySQLBlobType(a, b) ==
    CASE a = b -> 0
      [] a # b /\ a = "Blob" -> IF b = "TinyBlob" THEN 1 ELSE -1
      [] OTHER -> Sign(TypeNum[a] - TypeNum[b])

compareMySQLBlobType(a, b) ==
    CASE a = b -> 0
      [] a # b /\ a = "Blob" -> IF b = "TinyBlob" THEN 1 ELSE -1
      [] a # b /\ b = "Blob" -> IF a = "TinyBlob" THEN -1 ELSE 1
      [] OTHER -> Sign(TypeNum[a] - TypeNum[b])

FieldTpCompare(a, b) ==
    CASE a = b -> 0
      [] a # b /\ IsInteger(a) /\ IsInteger(b) -> compareMySQLIntegerType(a, b)
      [] a # b /\ IsBlob(a) /\ IsBlob(b) -> compareMySQLBlobType(a, b)
      [] OTHER -> Incompatible

StringListCompare(a, b) ==
    IF IsPrefix(a, b) \/ IsPrefix(b, a) THEN Sign(Len(a) - Len(b)) ELSE Incompatible

-----------------------------------------------------------------------------
(* Tuples, optional values and maps.                                       *)

\* CombineCompareResult over all the parts.
CombineCompareResult(results) ==
    CASE Incompatible \in results \/ {-1, 1} \subseteq results -> Incompatible
      [] results \subseteq {0} -> 0
      [] OTHER -> CHOOSE r \in results : r \in {-1, 1}

\* columnMap and indexMap against a column or an index that is not there.
hasDefault(typ) == typ.v.defVal.v # <<>>
ColumnCompareWithNil(col) == IF hasDefault(col.v.typ) THEN 1 ELSE Incompatible
IndexCompareWithNil == -1
CompareWithNil(kind, x) == IF kind = "columns" THEN ColumnCompareWithNil(x) ELSE IndexCompareWithNil
Negative(r) == IF r = Incompatible THEN r ELSE -r

RECURSIVE Compare(_, _)

TupleCompare(a, b) ==
    IF DOMAIN a # DOMAIN b THEN Incompatible
    ELSE CombineCompareResult({Compare(a[f], b[f]) : f \in DOMAIN a})

MaybeCompare(a, b) ==
    CASE a = <<>> \/ b = <<>> -> Sign(Len(a) - Len(b))
      [] OTHER -> Compare(a[1], b[1])

\* latticeMap.Compare over the keys that iter visits.
MapCompare(kind, a, b) ==
    CombineCompareResult(
        {Compare(a[k], b[k]) : k \in DOMAIN a \cap DOMAIN b}
        \cup {CompareWithNil(kind, a[k]) : k \in DOMAIN a \ DOMAIN b}
        \cup {Negative(CompareWithNil(kind, b[k])) : k \in DOMAIN b \ DOMAIN a})

\* Compare of every lattice.
Compare(a, b) ==
    IF a.kind # b.kind THEN Incompatible
    ELSE CASE a.kind = "bool" -> BoolCompare(a.v, b.v)
           [] a.kind = "singleton" -> SingletonCompare(a.v, b.v)
           [] a.kind = "equality" -> EqualityCompare(a.v, b.v)
           [] a.kind = "byte" -> ByteCompare(a.v, b.v)
           [] a.kind = "int" -> IntCompare(a.v, b.v)
           [] a.kind = "fieldTp" -> FieldTpCompare(a.v, b.v)
           [] a.kind = "list" -> StringListCompare(a.v, b.v)
           [] a.kind = "maybe" -> MaybeCompare(a.v, b.v)
           [] a.kind \in {"tuple", "typ"} -> TupleCompare(a.v, b.v)
           [] a.kind \in {"columns", "indices"} -> MapCompare(a.kind, a.v, b.v)

-----------------------------------------------------------------------------
(* The attributes of a column's type.                                      *)

\* The key flags of a column, so encoded that fewer keys are more: a primary
\* key is bit 6, a unique key bit 5 and any other key bit 4 of the complement.
encodeAntiKeys(keys) ==
    255 - (IF "pri" \in keys THEN 64 ELSE 0) - (IF "uni" \in keys THEN 32 ELSE 0)
        - (IF "mul" \in keys THEN 16 ELSE 0)
notPartOfKeys == 255

encodeFieldType(ft, keys) ==
    LET length == IF ft.tp = "NewDecimal" THEN "singleton" ELSE "int"
    IN Val("typ", [tp |-> Val("fieldTp", ft.tp),
                   flen |-> Val(length, ft.flen),
                   dec |-> Val(length, ft.dec),
                   fixed |-> Val("singleton", ft.fixed),
                   null |-> Val("bool", ~ft.notNull),
                   antiKeys |-> Val("byte", encodeAntiKeys(keys)),
                   defVal |-> Val("maybe", IF "auto" \in ft.flags \/ "nodefault" \notin ft.flags
                                           THEN <<Val("singleton", ft.flags)>> ELSE <<>>),
                   elems |-> Val("list", ft.elems)])

inAutoIncrement(typ) == hasDefault(typ) /\ "auto" \in typ.v.defVal.v[1].v

\* setFlagForMissingColumn, and whether the column had no default value.
hadNoDefault(typ) == ~hasDefault(typ) \/ "nodefault" \in typ.v.defVal.v[1].v

setFlagForMissingColumn(typ) ==
    LET flags == IF hasDefault(typ) THEN typ.v.defVal.v[1].v ELSE {}
    IN [typ EXCEPT !.v.antiKeys = Val("byte", notPartOfKeys),
                   !.v.defVal = Val("maybe", <<Val("singleton", flags \ {"nodefault"})>>)]

getStandardDefaultValue(typ) ==
    CASE IsInteger(typ.v.tp.v) \/ typ.v.tp.v = "NewDecimal" -> "0"
      [] typ.v.tp.v = "Date" -> "0000-00-00"
      [] typ.v.tp.v = "Enum" -> typ.v.elems.v[1]
      [] OTHER -> ""

-----------------------------------------------------------------------------
(* The join.                                                               *)

RECURSIVE Join(_, _)

\* The join by the order, where one of the two is the join or there is none.
Larger(a, b) ==
    LET c == Compare(a, b)
    IN IF c = Incompatible THEN Failure ELSE IF c < 0 THEN b ELSE a

TupleJoin(a, b) ==
    LET join == [f \in DOMAIN a.v |-> Join(a.v[f], b.v[f])]
    IN IF \E f \in DOMAIN join : Fails(join[f]) THEN Failure ELSE Val(a.kind, join)

\* typ.Join: a column that counts up must be part of a key.
TypeJoin(a, b) ==
    LET join == TupleJoin(a, b)
    IN IF ~Fails(join) /\ inAutoIncrement(join) /\ join.v.antiKeys.v = notPartOfKeys
       THEN Failure ELSE join

MaybeJoin(a, b) ==
    CASE a.v = <<>> -> b
      [] a.v # <<>> /\ b.v = <<>> -> a
      [] OTHER -> LET join == Join(a.v[1], b.v[1])
                  IN IF Fails(join) THEN Failure ELSE Val("maybe", <<join>>)

\* Mutant: the column stays without a default value.
MutColumnJoinWithNil(col) == [col EXCEPT !.v.typ.v.antiKeys = Val("byte", notPartOfKeys)]

\* columnMap.JoinWithNil: rows of the other table get a default value.
ColumnJoinWithNil(col) ==
    LET typ == setFlagForMissingColumn(col.v.typ)
        filled == [col EXCEPT !.v.typ = typ]
    IN IF hadNoDefault(col.v.typ) /\ ~typ.v.null.v
       THEN [filled EXCEPT !.v.default = Val("maybe", <<Val("singleton", getStandardDefaultValue(typ))>>)]
       ELSE filled

\* latticeMap.Join of the columns: one column without a join is an error.
ColumnsJoin(a, b) ==
    LET join == [k \in DOMAIN a.v \cup DOMAIN b.v |->
                    IF k \notin DOMAIN b.v THEN ColumnJoinWithNil(a.v[k])
                    ELSE IF k \notin DOMAIN a.v THEN ColumnJoinWithNil(b.v[k])
                    ELSE Join(a.v[k], b.v[k])]
    IN IF \E k \in DOMAIN join : Fails(join[k]) THEN Failure ELSE Val("columns", join)

\* And of the indices: one that is not in both, or is not the same, is dropped.
IndicesJoin(a, b) ==
    LET both == {k \in DOMAIN a.v \cap DOMAIN b.v : ~Fails(Join(a.v[k], b.v[k]))}
    IN Val("indices", [k \in both |-> Join(a.v[k], b.v[k])])

Join(a, b) ==
    IF a.kind # b.kind THEN Failure
    ELSE CASE a.kind = "bool" -> Val("bool", BoolJoin(a.v, b.v))
           [] a.kind = "byte" -> Val("byte", ByteJoin(a.v, b.v))
           [] a.kind = "int" -> Val("int", IntJoin(a.v, b.v))
           [] a.kind \in {"singleton", "equality", "fieldTp", "list"} -> Larger(a, b)
           [] a.kind = "maybe" -> MaybeJoin(a, b)
           [] a.kind = "tuple" -> TupleJoin(a, b)
           [] a.kind = "typ" -> TypeJoin(a, b)
           [] a.kind = "columns" -> ColumnsJoin(a, b)
           [] a.kind = "indices" -> IndicesJoin(a, b)

-----------------------------------------------------------------------------
(* Tables.                                                                 *)

\* What MySQL says of the keys of a column, as the loop of Table.Join has it.
KeyFlags(c, indices) ==
    {f \in {"pri", "uni", "mul"} :
        \E k \in DOMAIN indices :
            LET cols == indices[k].cols IN
            CASE cols = <<>> -> FALSE
              [] cols # <<>> /\ indices[k].primary -> f = "pri" /\ c \in Range(cols)
              [] cols # <<>> /\ ~indices[k].primary /\ indices[k].unique /\ Len(cols) = 1 ->
                    f = "uni" /\ c = cols[1]
              [] OTHER -> f = "mul" /\ c = cols[1]}

encodeColumnInfo(ci, keys) ==
    Val("tuple", [default |-> Val("maybe", IF ci.default = <<>> THEN <<>>
                                           ELSE <<Val("singleton", ci.default[1])>>),
                  typ |-> encodeFieldType(ci, keys)])

encodeIndexInfo(ii) ==
    Val("tuple", [cols |-> Val("equality", ii.cols),
                  notUnique |-> Val("bool", ~ii.unique),
                  notPrimary |-> Val("bool", ~ii.primary)])

\* Encode.  The primary key that is the row's handle has no index of its own,
\* only the flag of its column.
AllIndices(ti) ==
    IF ti.handle = <<>> THEN ti.indices
    ELSE [k \in DOMAIN ti.indices \cup {"primary"} |->
            IF k \in DOMAIN ti.indices THEN ti.indices[k]
            ELSE [cols |-> ti.handle, unique |-> TRUE, primary |-> TRUE]]

Encode(ti) ==
    LET indices == AllIndices(ti)
    IN Val("tuple", [columns |-> Val("columns", [c \in DOMAIN ti.columns |->
                                    encodeColumnInfo(ti.columns[c], KeyFlags(c, indices))]),
                     indices |-> Val("indices", [k \in DOMAIN indices |-> encodeIndexInfo(indices[k])]),
                     autoIncID |-> Val("int", ti.autoIncID),
                     fixed |-> Val("singleton", ti.fixed)])

JoinedIndices(t) ==
    [k \in DOMAIN t.v.indices.v |->
        LET i == t.v.indices.v[k].v
        IN [cols |-> i.cols.v, unique |-> ~i.notUnique.v, primary |-> ~i.notPrimary.v]]

\* Table.Join: the key flags of the columns follow from the joined indices.
FixKeyFlags(t, keys) ==
    IF \E c \in DOMAIN keys : keys[c] = {} /\ inAutoIncrement(t.v.columns.v[c].v.typ)
    THEN Failure
    ELSE [t EXCEPT !.v.columns.v =
            [c \in DOMAIN @ |-> [@[c] EXCEPT !.v.typ.v.antiKeys = Val("byte", encodeAntiKeys(keys[c]))]]]

JoinedTable(t) ==
    IF Fails(t) THEN Failure
    ELSE FixKeyFlags(t, [c \in DOMAIN t.v.columns.v |-> KeyFlags(c, JoinedIndices(t))])

TableJoin(a, b) == JoinedTable(Join(a, b))

VARIABLES
    shards,     \* the structures merged so far
    joined      \* their join

latticeVars == <<shards, joined>>

LatticeInit ==
    \E ti \in TableInfos : shards = <<ti>> /\ joined = Encode(ti)

\* A shard is joined into the table; one that does not fit is not.
JoinShard ==
    /\ Len(shards) < MaxShards
    /\ \E ti \in TableInfos :
        LET t == TableJoin(joined, Encode(ti))
        IN ~Fails(t) /\ joined' = t /\ shards' = Append(shards, ti)

LatticeNext == JoinShard

-----------------------------------------------------------------------------
\* A table with two unique keys on one column.
TwoUniqueKeys(ti) ==
    \E j, k \in DOMAIN ti.indices :
        j # k /\ ti.indices[j].cols = ti.indices[k].cols /\ ti.indices[j].unique /\ ti.indices[k].unique

\* The join is an upper bound of every table joined into it, as the comment of
\* Lattice.Join says: the merged table takes the rows of all the shards.  This
\* fails for a table with two unique keys on one column, of which the join
\* keeps one: the flags then say that the column has more keys than before.
JoinIsBound ==
    \A i \in DOMAIN shards :
        ~TwoUniqueKeys(shards[i]) => Compare(joined, Encode(shards[i])) \in {0, 1}

\* The bytes of an integer, or of the length of a blob.
Width == [Tiny |-> 1, Short |-> 2, Int24 |-> 3, Long |-> 4, Longlong |-> 8,
          TinyBlob |-> 1, Blob |-> 2, MediumBlob |-> 3, LongBlob |-> 4,
          NewDecimal |-> 0, Enum |-> 0, Varchar |-> 0, Date |-> 0]

\* The merged table holds the rows of every shard: its types are as wide, a
\* column that the shard does not have may be null or has a default value, and
\* what is unique in the merged table is unique in the shard.
JoinHoldsRows ==
    \A i \in DOMAIN shards :
        LET ti == shards[i] IN
        /\ \A c \in DOMAIN joined.v.columns.v :
            LET col == joined.v.columns.v[c]
                typ == col.v.typ.v
            IN IF c \in DOMAIN ti.columns
               THEN /\ Width[typ.tp.v] >= Width[ti.columns[c].tp] /\ typ.flen.v >= ti.columns[c].flen
                    /\ ti.columns[c].notNull \/ typ.null.v
                    /\ IsPrefix(ti.columns[c].elems, typ.elems.v)
               ELSE typ.null.v \/ col.v.default.v # <<>>
        /\ \A k \in DOMAIN JoinedIndices(joined) :
            JoinedIndices(joined)[k].unique =>
                k \in DOMAIN AllIndices(ti) /\ AllIndices(ti)[k].unique
                /\ AllIndices(ti)[k].cols = JoinedIndices(joined)[k].cols

\* The order in which two shards come does not matter, and one that comes again
\* changes nothing.
JoinStable ==
    /\ \A i \in DOMAIN shards : TableJoin(joined, Encode(shards[i])) = joined
    /\ Len(shards) = 2 => TableJoin(Encode(shards[2]), Encode(shards[1])) = joined
=============================================================================

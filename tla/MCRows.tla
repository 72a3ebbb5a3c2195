------------------------------- MODULE MCRows -------------------------------
(* Schemas, and the rows that are written to them. *)
EXTENDS RowJourney

U8 == [k |-> "fix", w |-> 1]
U16 == [k |-> "fix", w |-> 2]
TimeT == [k |-> "time", w |-> 1]
Fsb == [k |-> "fsb", w |-> 2]
Bool == [k |-> "bool", w |-> 1]
Str == [k |-> "var"]
StructOf(fs) == [k |-> "struct", fs |-> fs]
ListOf(e) == [k |-> "list", e |-> e]
FslOf(n, e) == [k |-> "fsl", n |-> n, e |-> e]
MapOf(key, item) == [k |-> "map", key |-> key, item |-> item]
SparseOf(fs) == [k |-> "sparse", fs |-> fs]
DenseOf(fs) == [k |-> "dense", fs |-> fs]
DictOf(e) == [k |-> "dict", e |-> e, ordered |-> FALSE]

T(schema, rows, browser) == [schema |-> schema, rows |-> rows, browser |-> browser]
N == <<>>
V(x) == <<x>>
A == V(<<0>>)
B == V(<<3>>)
S == V(<<3, 1>>)
E == V(<<>>)

MCTables == {
  T(<<U8, Str, Bool>>, {<<A, S, V(<<1>>)>>, <<N, E, A>>, <<B, N, N>>, <<N, N, N>>}, TRUE),
  T(<<U16, TimeT>>, {<<V(<<0, 3>>), A>>, <<N, B>>}, TRUE),
  T(<<Fsb, U8, U8, U8>>, {<<V(<<1, 2>>), A, N, B>>, <<N, N, N, N>>}, FALSE),
  T(<<StructOf(<<Str, U8, ListOf(U8)>>)>>,
    {<<V(<<S, N, V(<<A, B>>)>>)>>, <<N>>, <<V(<<N, B, V(<<>>)>>)>>}, TRUE),
  T(<<ListOf(U8), U8>>,
    {<<V(<<A, B, A>>), N>>, <<V(<<A, N, B>>), B>>, <<V(<<N, N>>), A>>, <<V(<<>>), A>>,
     <<N, N>>}, TRUE),
  T(<<ListOf(U8)>>, {<<V(<<A, A, A, A>>)>>, <<V(<<A, B, A>>)>>}, FALSE),
  T(<<ListOf(Bool)>>, {<<V(<<V(<<1>>), A, V(<<1>>)>>)>>, <<V(<<N, V(<<1>>)>>)>>}, TRUE),
  T(<<ListOf(Str)>>, {<<V(<<S, N, E>>)>>, <<V(<<S, S>>)>>, <<V(<<N>>)>>}, TRUE),
  T(<<ListOf(ListOf(U8))>>, {<<V(<<V(<<A, B>>), N, V(<<>>)>>)>>, <<V(<<V(<<B>>), V(<<N>>)>>)>>}, TRUE),
  T(<<ListOf(StructOf(<<U8, Str>>))>>,
    {<<V(<<V(<<A, S>>), N, V(<<N, E>>)>>)>>, <<V(<<>>)>>, <<V(<<V(<<B, N>>)>>)>>}, TRUE),
  T(<<FslOf(2, U8), FslOf(3, Str)>>,
    {<<V(<<A, B>>), V(<<S, N, E>>)>>, <<N, N>>, <<V(<<N, B>>), V(<<N, N, N>>)>>}, TRUE),
  T(<<MapOf(U8, Str)>>,
    {<<V(<<<<<<0>>, S>>, <<<<3>>, N>>>>)>>, <<V(<<>>)>>, <<N>>,
     <<V(<<<<<<1>>, E>>, <<<<2>>, S>>, <<<<0>>, N>>>>)>>}, TRUE),
  T(<<ListOf(SparseOf(<<U8, Str>>)), DenseOf(<<U8, Str>>)>>,
    {<<V(<<V(<<0, <<3>>>>), V(<<1, <<2>>>>)>>), V(<<1, <<1>>>>)>>,
     <<V(<<N, V(<<1, <<>>>>)>>), V(<<0, <<1>>>>)>>, <<N, N>>}, FALSE),
  T(<<DictOf(Str), U8>>, {<<S, A>>, <<E, N>>, <<N, B>>}, FALSE)
}
=============================================================================

----------------------------- MODULE MCDatasets ------------------------------
(***************************************************************************)
(* Small instances of Datasets for TLC.                                    *)
(***************************************************************************)
EXTENDS Datasets, MCNumbers, TLC

C(decl, v) == [decl |-> decl, val |-> v]

\* A double and a null in one field, two fields that order their rows differently, and
\* no row.
MCQueries == {[names |-> <<"p">>, rows |-> <<<<Real(40)>>, <<Null>>>>],
              [names |-> <<"p", "q">>, rows |-> <<<<Int64(1), Int64(2)>>, <<Int64(2), Int64(1)>>>>],
              [names |-> <<"p">>, rows |-> <<>>]}

MCTypeLists == {<<>>, <<"Real">>}

\* One field and two, so that a Dataset without types gets rows of both sizes; a double
\* that is almost equal to the one of the query, in a Real and in a Variant; a NaN.
MCGivenRows == {<<C("Real", Real(32))>>, <<C("Variant", Real(32))>>, <<C("Int", Int64(2)), C("Real", Real(NaN))>>}

MCNewCells == {C("Variant", Int64(1))}

\* Two integers, one that no double has, and the double that it is rounded to.
MCGreatQueries == {[names |-> <<"p">>, rows |-> <<<<Int64(9)>>, <<Real(32)>>, <<Int64(7)>>>>]}

MCSortKeys == {<<1>>, <<1, 2>>, <<2, 1>>}

Symmetry == Permutations(Sets)
=============================================================================

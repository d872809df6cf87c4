---------------------------- MODULE MCTypedRows ------------------------------
(***************************************************************************)
(* Small instances of TypedRows for TLC.                                   *)
(***************************************************************************)
EXTENDS TypedRows

\* Besides the two Variants that the parameters are at first: typed and half
\* typed rows of the same width, and one that is wider.
MCLayouts == {<<"Int", "Variant">>, <<"Real", "Text">>, <<"Int", "Int", "Int">>}
=============================================================================

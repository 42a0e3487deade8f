------------------------------- MODULE MCDred -------------------------------
(***************************************************************************)
(* Instances of Dred.  The candidate edges hold the shapes the fixture of  *)
(* architecture.md section 4.4 and the tests name: a mutually recursive    *)
(* pair, two ways into it, and a callee behind it.                         *)
(***************************************************************************)
EXTENDS Dred

CONSTANTS main, a, b, c

MCSymbol == {main, a, b, c}

MCCallEdge ==
  {<<main, a>>, <<main, b>>, <<a, b>>, <<b, a>>, <<b, c>>}

\* A binary, and the library it may be before, with an export more or less.
MCGrowingShapes == {{main, a, b, c}, {a, b, c}, {b, c}}

\* A library with two exported functions, one of which may be deleted.
MCLibraryShapes == {{a, b, c}, {b, c}}
=============================================================================

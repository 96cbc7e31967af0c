------------------------------ MODULE MCFunctions ------------------------------
(***************************************************************************)
(* RunFunctions with few names of io specs.                                *)
(***************************************************************************)
EXTENDS RunFunctions

\* Names as users write them, also with slashes at the ends, doubled slashes, no
\* volume, no path below the volume and the name of a run in the path.
FewNames ==
  { <<"v">>, <<"v", "x">>, <<"", "v", "x">>, <<"v", "x", "">>, <<"v", "", "x">>,
    <<"v", "x", "y">>, <<"w", "x">>, <<"v", "one">>, <<"v", "two">>, Blank, <<"", "", "v">> }

FewOverrides == {Blank, <<"", "o">>}

FewPrefixes == {Blank, <<"p">>}
================================================================================

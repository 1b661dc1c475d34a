-------------------------- MODULE MCScalarOpTables --------------------------
(***************************************************************************)
(* ScalarOpTables with a new operation put before the two in use.          *)
(***************************************************************************)
EXTENDS ScalarOpTables

MCOrders == {<<"mov", "cmp">>, <<"cmp", "mov">>, <<"mov", "add", "cmp">>}
=============================================================================

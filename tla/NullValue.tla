----------------------------- MODULE NullValue ------------------------------
(***************************************************************************)
(* Python's None, which is also the NULL of a column.                      *)
(***************************************************************************)
CONSTANT None
=============================================================================

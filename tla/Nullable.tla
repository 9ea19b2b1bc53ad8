------------------------------ MODULE Nullable ------------------------------
(***************************************************************************)
(* A column of a row that may be empty.                                    *)
(***************************************************************************)

CONSTANT None  \* the column is null, or the row does not exist

=============================================================================

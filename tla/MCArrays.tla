------------------------------ MODULE MCArrays ------------------------------
(* Model values for ArrayProperties, in the .cfg: arrays of up to five        *)
(* elements, where an index two beyond the capacity looks sparse.             *)
EXTENDS ArrayProperties
=============================================================================

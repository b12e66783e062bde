--------------------------- MODULE MCLocalStorage ---------------------------
(* LocalStorage for TLC.                                                   *)
EXTENDS LocalStorage

=============================================================================

-------------------------------- MODULE Doc --------------------------------
(***************************************************************************)
(* One entry point answers one input: the input is kept in `doc` with the  *)
(* answer, and the properties of the modules that extend this one compare  *)
(* the answers of functions that the code expects to agree.                *)
(***************************************************************************)
VARIABLE doc

Unread == doc = [topic |-> "none"]
Blank == doc.topic = "none"
Enter(d) == doc' = d
=============================================================================

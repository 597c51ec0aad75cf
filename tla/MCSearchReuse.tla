---------------------------- MODULE MCSearchReuse ----------------------------
(* A small instance of SearchReuse; see SearchReuse.cfg. *)
EXTENDS SearchReuse
=============================================================================

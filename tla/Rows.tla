-------------------------------- MODULE Rows --------------------------------
(* What the components that work on database rows share.                   *)

CONSTANT None   \* SQL NULL

(* A session, a request or a worker between two pieces of work.            *)
Idle == [idle |-> TRUE]

(* A flush writes a column only if its value differs from the one loaded.  *)
Written(now, loaded, new) == IF new = loaded THEN now ELSE new
WrittenRow(now, loaded, new) ==
  [f \in DOMAIN now |-> Written(now[f], loaded[f], new[f])]
=============================================================================

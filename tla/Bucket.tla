------------------------------- MODULE Bucket -------------------------------
(* The bucket of services/s3.js, that Media and Images share: the keys of   *)
(* the objects in it.  Putting and deleting an object are atomic.           *)

CONSTANT None          \* SQL NULL

VARIABLE objects

Store(k) == objects' = objects \cup {k}

Remove(k) == objects' = objects \ {k}

=============================================================================

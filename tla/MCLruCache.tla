----------------------------- MODULE MCLruCache -----------------------------
(* LruCache for model checking.  The bodies: empty (they fill the LruCache  *)
(* before the budget), over half the budget (two of them need an eviction), *)
(* and too large for the budget and for a file.                             *)
EXTENDS LruCache

MCSizes == {0, max_capacity_bytes - 1, max_capacity_bytes + 1, max_file_size_bytes + 1}
=============================================================================

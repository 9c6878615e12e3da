-------------------------------- MODULE Dict --------------------------------
(* Python dictionaries and redis hashes as functions over their keys.      *)
EXTENDS Integers

\* What redis answers for a field or a key that does not exist.
Nil == -1

\* d with the entry k: v.
Put(d, k, v) == [i \in DOMAIN d \cup {k} |-> IF i = k THEN v ELSE d[i]]

\* d without the entry of k.
Pop(d, k) == [i \in DOMAIN d \ {k} |-> d[i]]
============================================================================

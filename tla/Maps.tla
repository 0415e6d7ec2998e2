-------------------------------- MODULE Maps --------------------------------
(***************************************************************************)
(* std::unordered_map as a function: its DOMAIN is the set of keys that    *)
(* are present.                                                            *)
(***************************************************************************)
EXTENDS Functions

\* The map with no entry.
EmptyMap == [x \in {} |-> x]

\* m[k] = v: inserts k, or overwrites its value.
Put(m, k, v) == [x \in DOMAIN m \cup {k} |-> IF x = k THEN v ELSE m[x]]

\* m.erase(k): a no-op when k is absent.
Erase(m, k) == Restrict(m, DOMAIN m \ {k})

\* m.emplace(k, v): inserts only when k is absent.
TryEmplace(m, k, v) == IF k \in DOMAIN m THEN m ELSE Put(m, k, v)

\* n's entries put into m one after another.
PutAll(m, n) == [x \in DOMAIN m \cup DOMAIN n |-> IF x \in DOMAIN n THEN n[x] ELSE m[x]]

=============================================================================

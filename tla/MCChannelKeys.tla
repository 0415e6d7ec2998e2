---------------------------- MODULE MCChannelKeys ----------------------------
(***************************************************************************)
(* Small instances of ChannelKeys: two threads at once, or one thread with *)
(* restarts and failures.                                                  *)
(***************************************************************************)
EXTENDS ChannelKeys, TLC

CONSTANTS t1, t2, m1, m2

Case(threads, joinCount, faults, restarts, masters) ==
    [threads |-> threads, joins |-> joinCount, faults |-> faults,
     failures |-> IF faults = {} THEN 0 ELSE 1, crashes |-> restarts, master |-> masters]

\* Two threads at once, nothing fails.
Racing == {Case({t1, t2}, 3, {}, 0, <<m1, m1>>)}

\* Calls one at a time: one failure of any kind, a restart, or both, with the
\* same storage secret after the restart, another one, or none.
Failing ==
    {Case({t1}, 3, {f}, 0, <<m1, m1>>) : f \in {"lookup", "random", "drop"}}
    \cup {Case({t1}, 2, {f}, 1, <<m1, m1>>) : f \in {"redis", "sweep", "ttl"}}
    \cup {Case({t1}, 2, {}, 1, <<m1, m>>) : m \in {m2, NoMaster}}
    \cup {Case({t1}, 3, {}, 1, <<m1, m1>>)}

\* The users are alike.
Alike == Permutations(Users)

MCConfigs == Racing \cup Failing

=============================================================================

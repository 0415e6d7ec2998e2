-------------------------- MODULE MCSessionLifecycle --------------------------
(* Two connections, of one user or of two, with and without a limit of one  *)
(* session per user.                                                        *)
EXTENDS SessionLifecycle, TLC

CONSTANTS k1, k2, u1, u2, h1, t1

MCConns == {k1, k2}
MCUsers == {u1, u2}

\* AUTH and another command on a pool of one, AUTH alone on a pool of two.
MCConfigs == {[workers |-> 1, limit |-> 0, commands |-> 2],
              [workers |-> 2, limit |-> 1, commands |-> 1]}

=============================================================================

------------------------------ MODULE MCOutbound ------------------------------
(* One connection under pressure, two that share the queue, and logins.     *)
EXTENDS Outbound, TLC

CONSTANTS k1, k2

MCConns == {k1, k2}

\* What a load has unless it says otherwise.
Plain(pushes, kinds) == [conns |-> {k1}, opened |-> {}, pushes |-> pushes, kinds |-> kinds,
                         timers |-> {}, budget |-> FALSE]

Pressed == Plain(4, {"reliable"})
Acked   == [Plain(4, {"reliable", "ok"}) EXCEPT !.budget = TRUE]
Mixed   == [Plain(3, {"reliable", "plain", "typing", "drop"}) EXCEPT !.budget = TRUE]
Shared  == [Plain(1, {"reliable"}) EXCEPT !.conns = MCConns]
Logins  == [Plain(2, {"reliable", "ok", "failed"}) EXCEPT !.timers = Timers]

MCLoads == {Pressed, Acked, Mixed, Shared, Logins}

Chat     == {Plain(3, {"plain"})}

=============================================================================

-------------------------------- MODULE MCHubs --------------------------------
(* One hub with an owner, an administrator and a third user who is a member *)
(* or holds an invite, and a second hub that may be created.                *)
EXTENDS Hubs

CONSTANTS h1, h2, c1, c2, c3, u1, u2, u3, l1, l2, l3

Call(op, by) == [op |-> op, by |-> by, hub |-> h1, ch |-> c1, who |-> by, role |-> "USER",
                 name |-> "", seed |-> "", type |-> "text", link |-> NoLink]

MCCommands ==
    {[Call("create_hub", u2) EXCEPT !.name = n] : n \in {"den"}}
    \cup {Call("delete_hub", u) : u \in {u1, u2}}
    \cup {Call("leave", u) : u \in {u1, u3}}
    \cup {[Call("kick", p[1]) EXCEPT !.who = p[2]] : p \in {<<u2, u3>>, <<u1, u2>>, <<u2, u1>>}}
    \cup {[Call("set_role", u1) EXCEPT !.who = p[1], !.role = p[2]] : p \in {<<u2, "USER">>, <<u3, "ADMIN">>}}
    \cup {[Call("update_hub", u2) EXCEPT !.name = "home2", !.seed = "Max"]}
    \cup {[Call("join", u3) EXCEPT !.link = l1]}
    \cup {[Call("create_channel", u2) EXCEPT !.name = n, !.ch = c3] : n \in {"lounge", "music"}}
    \cup {Call("remove_channel", u1)}
    \cup {[Call("rename_channel", u2) EXCEPT !.name = "lounge"]}
    \cup {Call("select", u3), Call("invite", u2), Call("sync", u2)}

AllOps == {c.op : c \in MCCommands}

\* The third user is a member, or holds the link to become one.
Outsider == [u \in {u2} |-> "ADMIN"]
Insider  == [u \in {u2, u3} |-> IF u = u2 THEN "ADMIN" ELSE "USER"]

Home == [hub |-> h1, channel |-> c1, owner |-> u1, roles |-> Insider, warm |-> TRUE, links |-> {l1},
         workers |-> 1, commands |-> 3, ops |-> AllOps, drops |-> 0, losses |-> 0, time |-> FALSE]

\* With and without the hub in the caches.
Everywhere(x) == {[x EXCEPT !.roles = r, !.warm = b] : r \in {Outsider, Insider}, b \in BOOLEAN}

OneThread  == Everywhere(Home)
TwoThreads == {x \in Everywhere([Home EXCEPT !.workers = 2, !.commands = 2]) : x.warm <=> x.roles = Insider}
Faulty     == Everywhere([Home EXCEPT !.commands = 2, !.drops = 1, !.losses = 1, !.time = TRUE])

\* Two commands side by side, and one more that meets what they left behind.
ThenOneMore == {[Home EXCEPT !.workers = 2, !.ops = o] :
                   o \in {{"kick", "set_role"}, {"remove_channel", "rename_channel"}}}

MCConfigs == OneThread \cup TwoThreads \cup Faulty \cup ThenOneMore

=============================================================================

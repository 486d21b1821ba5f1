----------------------------- MODULE MCRequests -----------------------------
(***************************************************************************)
(* Instances of Requests for TLC: one worker with every item key, and two  *)
(* workers with a few keys that meet on the server.                        *)
(***************************************************************************)
EXTENDS RequestsRefinement

Key(key, ps) == {[key |-> key, p |-> p] : p \in ps}

\* A query with one placeholder; a name no query has.
Queries == [q \in {"query"} |-> 1]

\* Keys that take a name to filter by, and whether the name is there.
Named == {<<>>, <<"name">>}

EveryItem ==
    [key: keys, p: Named] \union
    UNION
    { UNION {Key(k, {<<"deep">>, <<"shallow">>, <<"no such mode">>}) : k \in
          {"pg.namespace.discovery", "pg.table.discovery"}},
      Key("pg.index.discovery", {<<"", "schema", "table">>, <<"shallow", "schema">>}),
      Key("pg.checkpoint_time_ratio", {<<"all">>, <<"write">>}),
      UNION {Key(k, {<<"query", "x">>, <<"query", "", "x">>}) : k \in QueryKeys},
      UNION {Key(k, {<<"db", "user", "", "true">>, <<"", "", "host">>, <<"", "", "address">>,
                     <<"db", "", "", "maybe">>, <<"", "", "", "maybe">>}) : k \in
          {"pg.backends.count", "pg.queries.longest"}} }

\* A deep discovery, and a count of the connections the others hold.
FewItems ==
    {[key |-> "pg.namespace.discovery", p |-> <<>>], [key |-> "pg.backends.ratio", p |-> <<>>]}

CountItems == {[key |-> "pg.backends.count", p |-> <<>>]}
=============================================================================

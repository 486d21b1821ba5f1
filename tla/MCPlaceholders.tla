--------------------------- MODULE MCPlaceholders ---------------------------
(***************************************************************************)
(* An instance of Placeholders for TLC: two databases, users and clients   *)
(* in every combination, and every subset of the filters.                  *)
(***************************************************************************)
EXTENDS Placeholders

MCOids      == {"16384", "16385", "10", "11"}
MCAddresses == {"10.0.0.1", "::1"}
MCHolesIn   == [q \in {"a", "query"} |-> 1]

Databases == {[datid |-> "16384", datname |-> "shop"], [datid |-> "16385", datname |-> "blog"]}
Users     == {[usesysid |-> "10", usename |-> "alice"], [usesysid |-> "11", usename |-> "bob"]}
\* No host name is known to the server when log_hostname is off.
Clients   == {[client_addr |-> "10.0.0.1", client_hostname |-> "web"],
              [client_addr |-> "::1", client_hostname |-> "unknown"]}

MCBackends ==
    {[datid |-> d.datid, datname |-> d.datname, usesysid |-> u.usesysid,
      usename |-> u.usename, client_addr |-> c.client_addr,
      client_hostname |-> c.client_hostname, waiting |-> w] :
        d \in Databases, u \in Users, c \in Clients, w \in {"true", "false"}}

ClauseRequests ==
    {[key |-> k, p |-> <<d, u, c, w>>] :
        k \in ClauseKeys, d \in {"", "16384", "shop", "nowhere"},
        u \in {"", "11", "bob", "16384"}, c \in {"", "10.0.0.1", "web"},
        w \in {"", "true", "false", "maybe"}}

Short == {<<>>, <<"shop">>, <<"", "bob">>}

QueryRequests ==
    {[key |-> "pg.query.string", p |-> p] :
        p \in UNION {[1 .. n -> {"", "a", "b"}] : n \in 0 .. 4}}
    \union {[key |-> k, p |-> <<"query", "", "a">>] : k \in QueryKeys}

MCRequestsOf == ClauseRequests \union QueryRequests
                \union {[key |-> "pg.backends.count", p |-> p] : p \in Short}
=============================================================================

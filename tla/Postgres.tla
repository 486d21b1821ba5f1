------------------------------ MODULE Postgres ------------------------------
(***************************************************************************)
(* The PostgreSQL server the agent's workers query, as far as the module   *)
(* can tell: which connections it accepts, which of them are still alive,  *)
(* what pg_stat_activity counts, its version and its databases.            *)
(*                                                                         *)
(* Nothing under src/ implements it; it is external, modelled from how the *)
(* code uses libpq.  PQfinish sends a Terminate message and returns: the   *)
(* server process of the session goes away later, and until then occupies  *)
(* a slot and is listed in pg_stat_activity.                               *)
(***************************************************************************)
EXTENDS Integers

CONSTANTS Workers,          \* the agent's worker processes
          Databases,        \* the databases that may ever be connectable
          Versions,         \* the server versions, as server_version_num
          MaxConnections    \* max_connections

\* server_version_num has at most six digits.
Newest == 999999

ASSUME PostgresAssumption ==
    /\ Versions \subseteq Nat \ {0} /\ Versions # {}
    /\ \A v \in Versions : v <= Newest
    /\ MaxConnections \in Nat \ {0}

VARIABLES up,               \* the server accepts connections
          server,           \* its version
          dbs,              \* the databases the monitoring role may connect to
          apps,             \* sessions of applications
          sessions,         \* sessions[w]: live sessions of worker w
          exiting,          \* server processes of finished sessions, not yet gone
          slots             \* server processes altogether

serverVars == <<up, server, dbs, apps, sessions, exiting, slots>>

PostgresTypeOK ==
    /\ up \in BOOLEAN
    /\ server \in Versions
    /\ dbs \subseteq Databases
    /\ apps \in Nat
    /\ sessions \in [Workers -> Nat]
    /\ exiting \in Nat
    /\ slots \in Int

PostgresInit ==
    /\ up = TRUE
    /\ server \in Versions
    /\ dbs = Databases
    /\ apps = 0
    /\ sessions = [w \in Workers |-> 0]
    /\ exiting = 0
    /\ slots = 0

-----------------------------------------------------------------------------
(***************************************************************************)
(* What libpq makes the server do for a worker.                            *)
(***************************************************************************)
\* PQconnectdb, successful.
Accept(w) ==
    /\ up /\ slots < MaxConnections
    /\ sessions' = [sessions EXCEPT ![w] = @ + 1]
    /\ slots' = slots + 1
    /\ UNCHANGED <<up, server, dbs, apps, exiting>>

\* PQfinish on a live session; one the server has lost is only closed locally.
Hangup(w) ==
    /\ IF sessions[w] > 0
       THEN /\ sessions' = [sessions EXCEPT ![w] = @ - 1]
            /\ exiting' = exiting + 1
       ELSE UNCHANGED <<sessions, exiting>>
    /\ UNCHANGED <<up, server, dbs, apps, slots>>

\* Whether a text that needs a version of the window parses on this server.
Parses(window) == window.since <= server /\ server < window.before

-----------------------------------------------------------------------------
(***************************************************************************)
(* What happens on the server by itself.                                   *)
(***************************************************************************)
BackendExit ==
    /\ exiting > 0
    /\ exiting' = exiting - 1
    /\ slots' = slots - 1
    /\ UNCHANGED <<up, server, dbs, apps, sessions>>

AppConnect ==
    /\ up /\ slots < MaxConnections
    /\ apps' = apps + 1
    /\ slots' = slots + 1
    /\ UNCHANGED <<up, server, dbs, sessions, exiting>>

AppDisconnect ==
    /\ apps > 0
    /\ apps' = apps - 1
    /\ slots' = slots - 1
    /\ UNCHANGED <<up, server, dbs, sessions, exiting>>

\* A shutdown or a crash: every session is lost.
Crash ==
    /\ up
    /\ up' = FALSE
    /\ apps' = 0 /\ exiting' = 0 /\ slots' = 0
    /\ sessions' = [w \in Workers |-> 0]
    /\ UNCHANGED <<server, dbs>>

\* The server may come back upgraded, never downgraded.
Restart ==
    /\ ~up
    /\ up' = TRUE
    /\ server' \in {v \in Versions : v >= server}
    /\ UNCHANGED <<dbs, apps, sessions, exiting, slots>>

\* Databases are created, dropped, and CONNECT is granted or revoked.
ChangeDatabases ==
    /\ up
    /\ dbs' \in (SUBSET Databases) \ {dbs}
    /\ UNCHANGED <<up, server, apps, sessions, exiting, slots>>

PostgresNext ==
    \/ BackendExit
    \/ AppConnect
    \/ AppDisconnect
    \/ Crash
    \/ Restart
    \/ ChangeDatabases
=============================================================================

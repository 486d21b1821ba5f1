---------------------------- MODULE Placeholders ----------------------------
(***************************************************************************)
(* Which string reaches which placeholder.  build_activity_clause writes   *)
(* a filter per given parameter and numbers its placeholders as it goes,   *)
(* PG_QUERY leaves the numbering to the user's text; both append the       *)
(* strings to a NULL-terminated array that drops the empty ones.  One      *)
(* action is one iteration of the loop of either.                          *)
(*                                                                         *)
(* ItemKeys only counts the strings; here they are compared with what the  *)
(* server holds.                                                           *)
(***************************************************************************)
EXTENDS ItemKeys

CONSTANTS NULL,
          Oids,         \* the strings made of digits only
          Requests,     \* the requests there may be: [key, p]
          Backends      \* the rows of pg_stat_activity

\* The keys whose handlers build a clause.
ClauseKeys == {"pg.backends.count", "pg.queries.longest"}

ASSUME RequestsAssumption ==
    Requests \subseteq [key : ClauseKeys \union QueryKeys, p : Seq(STRING)]

ASSUME NullAssumption == NULL \notin STRING

Columns == {"datid", "datname", "usesysid", "usename", "client_addr", "client_hostname",
            "waiting"}

\* A session has an OID and a name for its database and its user, the two told apart.
ASSUME BackendsAssumption ==
    \A b \in Backends : /\ DOMAIN b = Columns
                        /\ b.datid \in Oids /\ b.usesysid \in Oids
                        /\ {b.datname, b.usename} \intersect Oids = {}
                        /\ b.client_addr \in Addresses
                        /\ b.client_hostname \notin Addresses

VARIABLES
    pc,         \* "idle", "loop", "sent" or "refused"
    request,
    i,          \* the loop's i, as an index of request.p
    params,     \* the array: <<>> while the pointer is NULL
    clause,     \* the conditions written so far: [column, hole] or [column, value]
    pgi

vars == <<pc, request, i, params, clause, pgi>>

Init ==
    /\ pc = "idle"
    /\ request \in Requests
    /\ i = 1 /\ params = <<>> /\ clause = <<>> /\ pgi = 0

-----------------------------------------------------------------------------
is_oid(str) == str \in Oids

\* The cells before the first NULL.
param_len(array) ==
    IF array = <<>> THEN 0
    ELSE CHOOSE n \in 0 .. Len(array) :
            /\ n = Len(array) \/ array[n + 1] = NULL
            /\ \A k \in 1 .. n : array[k] # NULL

\* Seeded faults: empty strings are appended; the terminator is not written again.
AppendAny(array, s) == SubSeq(array, 1, param_len(array)) \o <<s, NULL>>
AppendBare(array, s) ==
    IF strisnull(s) THEN array ELSE SubSeq(array, 1, param_len(array)) \o <<s>>

\* The new string takes the place of the terminator.
param_append(array, s) ==
    IF strisnull(s) THEN array
    ELSE SubSeq(array, 1, param_len(array)) \o <<s, NULL>>

-----------------------------------------------------------------------------
Receive ==
    /\ pc \in {"idle", "sent", "refused"}
    /\ request' \in Requests
    /\ i' = IF request'.key \in ClauseKeys THEN 1 ELSE 2
    /\ params' = <<>> /\ clause' = <<>> /\ pgi' = 0
    /\ pc' = IF request'.key \in QueryKeys /\ strisnull(get_rparam(request'.p, 1))
             THEN "refused" ELSE "loop"

Building == pc = "loop" /\ request.key \in ClauseKeys
param    == get_rparam(request.p, i)

Skip ==
    /\ Building /\ i <= 4 /\ strisnull(param)
    /\ i' = i + 1
    /\ UNCHANGED <<pc, request, params, clause, pgi>>

FilterColumn(k, str) ==
    CASE k = 1 -> IF is_oid(str) THEN "datid" ELSE "datname"
      [] k = 2 -> IF is_oid(str) THEN "usesysid" ELSE "usename"
      [] k = 3 -> IF is_valid_ip(str) THEN "client_addr" ELSE "client_hostname"

\* Seeded fault: a placeholder is numbered by the position of the parameter.
HoleByPosition(k) == k
NextHole(k) == pgi + 1

Filter ==
    /\ Building /\ i <= 3 /\ ~strisnull(param)
    /\ params' = param_append(params, param)
    /\ clause' = Append(clause, [column |-> FilterColumn(i, param), hole |-> NextHole(i)])
    /\ pgi' = pgi + 1
    /\ i' = i + 1
    /\ UNCHANGED <<pc, request>>

Waiting ==
    /\ Building /\ i = 4 /\ param \in {"true", "false"}
    /\ clause' = Append(clause, [column |-> "waiting", value |-> param])
    /\ i' = i + 1
    /\ UNCHANGED <<pc, request, params, pgi>>

RefuseWaiting ==
    /\ Building /\ i = 4 /\ param \notin {"", "true", "false"}
    /\ pc' = "refused"
    /\ UNCHANGED <<request, i, params, clause, pgi>>

QueryParam ==
    /\ pc = "loop" /\ request.key \in QueryKeys /\ i <= Len(request.p)
    /\ params' = param_append(params, param)
    /\ i' = i + 1
    /\ UNCHANGED <<pc, request, clause, pgi>>

\* pg_exec hands libpq param_len(params) strings of the array.
Send ==
    /\ pc = "loop"
    /\ i > IF request.key \in ClauseKeys THEN 4 ELSE Len(request.p)
    /\ pc' = "sent"
    /\ UNCHANGED <<request, i, params, clause, pgi>>

Next == Receive \/ Skip \/ Filter \/ Waiting \/ RefuseWaiting \/ QueryParam \/ Send

Spec == Init /\ [][Next]_vars

-----------------------------------------------------------------------------
\* param_append keeps the array terminated where the strings end and nowhere before, so
\* that param_len counts exactly them and param_free frees them all.
ArrayTerminated ==
    params # <<>> => /\ params[Len(params)] = NULL
                     /\ \A k \in 1 .. Len(params) - 1 : params[k] \notin {NULL, ""}

ParamsTypeOK ==
    /\ pc \in {"idle", "loop", "sent", "refused"}
    /\ request \in Requests
    /\ i \in 1 .. Len(request.p) + 5
    /\ \A k \in DOMAIN params : params[k] = NULL \/ params[k] \in STRING
    /\ ArrayTerminated
    /\ pgi \in 0 .. 3
    /\ \A k \in DOMAIN clause :
          \/ clause[k] \in [column : Columns, hole : 1 .. pgi]
          \/ clause[k] \in [column : {"waiting"}, value : {"true", "false"}]

\* The strings bound to $1, $2, ...
Bound == SubSeq(params, 1, param_len(params))

\* What the server finds: a row for which every condition holds.
Holds(condition, b) ==
    b[condition.column] = IF condition.column = "waiting" THEN condition.value
                          ELSE Bound[condition.hole]

Found == {b \in Backends : \A k \in DOMAIN clause : Holds(clause[k], b)}

\* What was asked for: database and user by OID or name, client by address or host.
Asked ==
    LET given(k) == get_rparam(request.p, k)
    IN  {b \in Backends :
            /\ given(1) \in {"", b.datid, b.datname}
            /\ given(2) \in {"", b.usesysid, b.usename}
            /\ given(3) \in {"", b.client_addr, b.client_hostname}
            /\ given(4) \in {"", b.waiting}}

\* Whichever of the filters are given, each is compared with its own string and with
\* the column its form calls for: the sessions found are those asked for.
FindsWhatIsAsked ==
    pc = "sent" /\ request.key \in ClauseKeys =>
        /\ \A k \in DOMAIN clause :
              clause[k].column # "waiting" => clause[k].hole \in DOMAIN Bound
        /\ Found = Asked

\* PG_QUERY binds $k to the k-th string of the key that is not empty: an empty one in
\* the middle moves the rest down, and none is lost, repeated or reordered.
QueryParamsInOrder ==
    pc = "sent" /\ request.key \in QueryKeys =>
        LET places == {k \in 2 .. Len(request.p) : ~strisnull(request.p[k])}
        IN  \E place \in [DOMAIN Bound -> places] :
               /\ \A k \in DOMAIN Bound : Bound[k] = request.p[place[k]]
               /\ \A k, l \in DOMAIN Bound : k < l => place[k] < place[l]
               /\ \A q \in places : \E k \in DOMAIN Bound : place[k] = q

\* The scripts of ItemKeys, which only count, bind as many strings as the loops append,
\* and refuse the same requests.
ScriptAgrees ==
    pc \in {"sent", "refused"} =>
        LET script == Handler(request.key, request.p)
            binds  == {k \in DOMAIN script : script[k].call = "param_append"}
        IN  /\ pc = "refused" <=> \E k \in DOMAIN script : script[k].call = "set_err_result"
            /\ \A k \in binds : script[k].n = Len(Bound)
            /\ binds = {} => Bound = <<>>
=============================================================================

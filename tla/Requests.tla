------------------------------ MODULE Requests ------------------------------
(***************************************************************************)
(* The life of an item request in each worker process of the agent: the    *)
(* handler's script (ItemKeys) run against the server (Postgres), one      *)
(* action per libpq call that can block or fail, with every allocation the *)
(* request makes and every pointer it keeps across a call.                 *)
(*                                                                         *)
(* pc     idle   no request            call  at the next step of the script*)
(*        exec   connected, a statement is about to run                    *)
(*        out    at the "out:" label of the routine that connected         *)
(*        loop   at the head of pg_get_discovery_wide's loop               *)
(*        next   at the clean-up that ends an iteration of that loop       *)
(*        done   the handler has returned to the agent                     *)
(***************************************************************************)
EXTENDS ItemKeys, Postgres

CONSTANTS
    Items,      \* the requests the agent may be sent: [key, p]
    Silent      \* the workers whose libpq calls may never return

ASSUME ItemsAssumption == Items \subseteq [key: keys, p: Seq(STRING)]

VARIABLES
    pc,
    script,     \* the steps left; the first one is being run
    ret,        \* return code of the routine being run, then of the handler
    answer,     \* messages and values put into the AGENT_RESULT
    conn, res,  \* the routine's PGconn and PGresult pointers
    params,     \* the handler's PGparams pointer, and the strings in the array
    handles,    \* PGconn objects allocated and not finished
    heap,       \* blocks the request at hand has allocated and not freed
    version,    \* what pg_version returned, 0 before
    todo, db,   \* databases pg_get_discovery_wide has still to visit; the one it visits
    found,      \* databases whose rows are in its JSON buffer
    reply,      \* the number the last statement returned
    seen,       \* history: apps and slots when a counting statement ran
    steady      \* history: databases connectable throughout the request

requestVars == <<pc, script, ret, answer, conn, res, params, handles, heap, version,
                 todo, db, found, reply, seen>>
vars == <<serverVars, requestVars, steady>>

SYSINFO_RET_OK   == "SYSINFO_RET_OK"
SYSINFO_RET_FAIL == "SYSINFO_RET_FAIL"

Labels   == {"idle", "call", "exec", "out", "loop", "next", "done"}
Pointers == {"NULL", "live", "dangling"}
Blocks   == {"params", "PGresult", "json", "databases", "connstring", "strdup"}
NoBlocks == [b \in Blocks |-> 0]
NoParams == [ptr |-> "NULL", n |-> 0]
Empty    == [msgs |-> 0, values |-> 0]
NoDb     == "no database"

\* A worker that visits no database is told from one that does.
ASSUME NoDbAssumption == NoDb \notin Databases

TypeOK ==
    /\ PostgresTypeOK
    /\ pc \in [Workers -> Labels]
    /\ script \in [Workers -> Seq(Steps)]
    /\ ret \in [Workers -> {SYSINFO_RET_OK, SYSINFO_RET_FAIL}]
    /\ answer \in [Workers -> [msgs: Nat, values: Nat]]
    /\ conn \in [Workers -> Pointers]
    /\ res \in [Workers -> Pointers]
    /\ params \in [Workers -> [ptr: Pointers, n: Nat]]
    /\ handles \in [Workers -> Nat]
    /\ heap \in [Workers -> [Blocks -> Nat]]
    /\ version \in [Workers -> Versions \union {0}]
    /\ todo \in [Workers -> SUBSET Databases]
    /\ db \in [Workers -> Databases \union {NoDb}]
    /\ found \in [Workers -> SUBSET Databases]
    /\ reply \in [Workers -> Int]
    /\ seen \in [Workers -> [apps: Nat, slots: Int]]
    /\ steady \in [Workers -> SUBSET Databases]

Init ==
    /\ PostgresInit
    /\ pc = [w \in Workers |-> "idle"]
    /\ script = [w \in Workers |-> <<>>]
    /\ ret = [w \in Workers |-> SYSINFO_RET_FAIL]
    /\ answer = [w \in Workers |-> Empty]
    /\ conn = [w \in Workers |-> "NULL"]
    /\ res = [w \in Workers |-> "NULL"]
    /\ params = [w \in Workers |-> NoParams]
    /\ handles = [w \in Workers |-> 0]
    /\ heap = [w \in Workers |-> NoBlocks]
    /\ version = [w \in Workers |-> 0]
    /\ todo = [w \in Workers |-> {}]
    /\ db = [w \in Workers |-> NoDb]
    /\ found = [w \in Workers |-> {}]
    /\ reply = [w \in Workers |-> 0]
    /\ seen = [w \in Workers |-> [apps |-> 0, slots |-> 0]]
    /\ steady = [w \in Workers |-> {}]

-----------------------------------------------------------------------------
Current(w) == Head(script[w])
Calling(w, calls) == script[w] # <<>> /\ Current(w).call \in calls

Goto(w, label)   == pc' = [pc EXCEPT ![w] = label]
Return(w, code)  == ret' = [ret EXCEPT ![w] = code]
Message(w)       == answer' = [answer EXCEPT ![w].msgs = @ + 1]
SetResult(w)     == answer' = [answer EXCEPT ![w].values = @ + 1]
NextStep(w)      == script' = [script EXCEPT ![w] = Tail(@)]

\* set_err_result: a message in the result and a failure.
set_err_result(w) == Message(w) /\ Return(w, SYSINFO_RET_FAIL)

\* h[b] with n blocks more or fewer.
Malloc(h, b, n) == [h EXCEPT ![b] = @ + n]
Free(h, b, n)   == [h EXCEPT ![b] = @ - n]

\* zbx_free accepts NULL, and resets the pointer it frees.
zbx_free(h, b)  == IF h[b] = 0 THEN h ELSE Free(h, b, 1)

Live(pointer) == IF pointer = "live" THEN 1 ELSE 0

-----------------------------------------------------------------------------
(***************************************************************************)
(* The agent hands a request to an idle worker, and takes its answer.      *)
(***************************************************************************)
Receive(w, item) ==
    /\ pc[w] = "idle"
    /\ Goto(w, "call")
    /\ script' = [script EXCEPT ![w] = Handler(item.key, item.p)]
    /\ Return(w, SYSINFO_RET_FAIL)
    /\ answer' = [answer EXCEPT ![w] = Empty]
    /\ params' = [params EXCEPT ![w] = NoParams]
    /\ heap' = [heap EXCEPT ![w] = NoBlocks]
    /\ version' = [version EXCEPT ![w] = 0]
    /\ todo' = [todo EXCEPT ![w] = {}]
    /\ db' = [db EXCEPT ![w] = NoDb]
    /\ found' = [found EXCEPT ![w] = {}]
    /\ reply' = [reply EXCEPT ![w] = 0]
    /\ steady' = [steady EXCEPT ![w] = dbs]
    /\ UNCHANGED <<serverVars, conn, res, handles, seen>>

Deliver(w) ==
    /\ pc[w] = "done"
    /\ Goto(w, "idle")
    /\ script' = [script EXCEPT ![w] = <<>>]
    /\ UNCHANGED <<serverVars, ret, answer, conn, res, params, handles, heap, version,
                   todo, db, found, reply, seen, steady>>

-----------------------------------------------------------------------------
(***************************************************************************)
(* Steps that need no server.                                              *)
(***************************************************************************)
RejectRequest(w) ==
    /\ pc[w] = "call" /\ Calling(w, {"set_err_result"})
    /\ set_err_result(w)
    /\ Goto(w, "done")
    /\ UNCHANGED <<serverVars, script, conn, res, params, handles, heap, version,
                   todo, db, found, reply, seen, steady>>

ModuleVersion(w) ==
    /\ pc[w] = "call" /\ Calling(w, {"MODVER"})
    /\ SetResult(w) /\ Return(w, SYSINFO_RET_OK)
    /\ Goto(w, "done")
    /\ UNCHANGED <<serverVars, script, conn, res, params, handles, heap, version,
                   todo, db, found, reply, seen, steady>>

\* The first string allocates the array; an empty one leaves even NULL alone.
param_append(w) ==
    /\ pc[w] = "call" /\ Calling(w, {"param_append"})
    /\ LET n == Current(w).n
       IN  IF n = 0 THEN UNCHANGED <<params, heap>>
           ELSE /\ params' = [params EXCEPT ![w] = [ptr |-> "live", n |-> @.n + n]]
                /\ heap' = [heap EXCEPT ![w] =
                               Malloc(@, "params", 1 - Live(params[w].ptr))]
    /\ NextStep(w)
    /\ UNCHANGED <<serverVars, pc, ret, answer, conn, res, handles, version,
                   todo, db, found, reply, seen, steady>>

-----------------------------------------------------------------------------
(***************************************************************************)
(* Connecting.  On failure pg_connect has finished the handle itself and   *)
(* returns NULL; the caller jumps to its "out:" label.                     *)
(***************************************************************************)
pg_connect_ok(w) ==
    /\ Accept(w)
    /\ conn' = [conn EXCEPT ![w] = "live"]
    /\ handles' = [handles EXCEPT ![w] = @ + 1]

\* Seeded fault: a connection that finds no slot is waited for.
AwaitsSlot(w) ==
    /\ up /\ slots < MaxConnections
    /\ conn' = [conn EXCEPT ![w] = "NULL"]
    /\ UNCHANGED <<serverVars, handles>>

pg_connect_fails(w) ==
    /\ conn' = [conn EXCEPT ![w] = "NULL"]
    /\ UNCHANGED <<serverVars, handles>>

\* The routines that connect with pg_connect_request: ret starts as a failure.
Connect(w) ==
    /\ pc[w] = "call" /\ Calling(w, PgCalls)
    /\ Return(w, SYSINFO_RET_FAIL)
    /\ \/ pg_connect_ok(w) /\ Goto(w, "exec") /\ UNCHANGED answer
       \/ pg_connect_fails(w) /\ Message(w) /\ Goto(w, "out")
    /\ UNCHANGED <<script, res, params, heap, version, todo, db, found, reply, seen, steady>>

\* PG_CONNECT passes no result to set_err_result: failing to connect is its answer 0.
PgConnect(w) ==
    /\ pc[w] = "call" /\ Calling(w, {"PG_CONNECT"})
    /\ \/ pg_connect_ok(w) /\ reply' = [reply EXCEPT ![w] = 1]
       \/ pg_connect_fails(w) /\ reply' = [reply EXCEPT ![w] = 0]
    /\ SetResult(w) /\ Return(w, SYSINFO_RET_OK)
    /\ Goto(w, "out")
    /\ UNCHANGED <<script, res, params, heap, version, todo, db, found, seen, steady>>

-----------------------------------------------------------------------------
(***************************************************************************)
(* Executing.  pg_exec runs the statement and frees the parameters it was  *)
(* given, through its own copy of the pointer.                             *)
(***************************************************************************)
SelfConnecting == {"PG_SETTING", "PG_STAT_ALL_INDEXES"}

\* The routines a handler passes its params to; pg_version and pg_get_databases pass NULL.
TakesParams == {"pg_get_result", "pg_get_discovery", "pg_get_discovery_wide"}

\* Seeded fault: 9.2 itself counted as older than 9.2.
Before92OrEqual(v) == v <= V9_2
Before92(v) == v < V9_2

\* The text chosen, by the version the handler has read.
Window(w) ==
    IF version[w] # 0 /\ Before92(version[w]) THEN Current(w).stmt.old
    ELSE Current(w).stmt.new

BoundParams(w) == IF Calling(w, TakesParams) THEN params[w].n ELSE Current(w).n

\* The server may answer the statement; it may also fail any statement.
Answerable(w) ==
    /\ sessions[w] > 0
    /\ Parses(Window(w))
    /\ BoundParams(w) \in Current(w).stmt.holes

Passed(w) == Calling(w, TakesParams) /\ params[w].ptr # "NULL"

\* Seeded faults: pg_exec leaves the parameters to its caller; param_free does not
\* look whether there are any.
ParamsKept(w) == heap[w]
FreedBlindly(w) == Free(heap[w], "params", 1)

ParamsFreed(w) == IF Passed(w) THEN Free(heap[w], "params", 1) ELSE heap[w]

\* The PGresult allocated, the parameters freed, and n blocks b allocated on top.
pg_exec(w, b, n) ==
    /\ res' = [res EXCEPT ![w] = "live"]
    /\ params' = [params EXCEPT ![w].ptr = IF Passed(w) THEN "dangling" ELSE @]
    /\ heap' = [heap EXCEPT ![w] = Malloc(Malloc(ParamsFreed(w), "PGresult", 1), b, n)]

QueryFails(w) ==
    /\ pc[w] = "exec"
    /\ pg_exec(w, "PGresult", 0)
    /\ set_err_result(w)
    /\ Goto(w, "out")
    /\ UNCHANGED <<serverVars, script, conn, handles, version, todo, db, found, reply,
                   seen, steady>>

\* PG_SETTING only logs that no row came back.
NoRows(w) ==
    /\ pc[w] = "exec" /\ Answerable(w)
    /\ \/ Calling(w, {"pg_get_result", "PG_SETTING", "PG_STAT_ALL_INDEXES"})
          /\ Current(w).stmt.asks \in {"other", "user"}
       \/ Calling(w, {"pg_get_databases"}) /\ dbs = {}
    /\ pg_exec(w, "PGresult", 0)
    /\ IF Calling(w, {"PG_SETTING"}) THEN UNCHANGED <<answer, ret>> ELSE set_err_result(w)
    /\ Goto(w, "out")
    /\ UNCHANGED <<serverVars, script, conn, handles, version, todo, db, found, reply,
                   seen, steady>>

\* Seeded fault: the query lacks its "pid != pg_backend_pid()".
FiguresWithSelf(question) ==
    CASE question = "version"  -> {server}
      [] question = "backends" -> {slots}
      [] question = "filtered" -> 0 .. slots
      [] question = "free"     -> {MaxConnections - slots}
      [] OTHER                 -> {0}

\* A count leaves out the session that asks, and those its filters do not match.
AllBackends == slots - 1
MatchingBackends == 0 .. AllBackends

\* pg.backends.free has no +1 for the asking session, which is one of those used.
FreeBackends == MaxConnections - slots

Figures(question) ==
    CASE question = "version"  -> {server}
      [] question = "backends" -> {AllBackends}
      [] question = "filtered" -> MatchingBackends
      [] question = "free"     -> {FreeBackends}
      [] OTHER                 -> {0}

\* pg_scalar: the first column of the first row.
ScalarRow(w) ==
    /\ pc[w] = "exec" /\ Answerable(w)
    /\ Calling(w, {"pg_version", "pg_get_result"})
    /\ pg_exec(w, "PGresult", 0)
    /\ \E n \in Figures(Current(w).stmt.asks) : reply' = [reply EXCEPT ![w] = n]
    /\ seen' = IF Current(w).stmt.asks \in {"backends", "filtered", "free"}
               THEN [seen EXCEPT ![w] = [apps |-> apps, slots |-> slots]] ELSE seen
    /\ Return(w, SYSINFO_RET_OK)
    /\ Goto(w, "out")
    /\ UNCHANGED <<serverVars, script, answer, conn, handles, version, todo, db, found,
                   steady>>

DatabaseRows(w) ==
    /\ pc[w] = "exec" /\ Answerable(w)
    /\ Calling(w, {"pg_get_databases"}) /\ dbs # {}
    /\ pg_exec(w, "databases", 1)
    /\ todo' = [todo EXCEPT ![w] = dbs]
    /\ Return(w, SYSINFO_RET_OK)
    /\ Goto(w, "out")
    /\ UNCHANGED <<serverVars, script, answer, conn, handles, version, db, found, reply,
                   seen, steady>>

\* Any number of rows is an answer, the empty list included.
DiscoveryRows(w) ==
    /\ pc[w] = "exec" /\ Answerable(w)
    /\ Calling(w, {"pg_get_discovery"})
    /\ pg_exec(w, "json", 0)
    /\ SetResult(w) /\ Return(w, SYSINFO_RET_OK)
    /\ Goto(w, "out")
    /\ UNCHANGED <<serverVars, script, conn, handles, version, todo, db, found, reply,
                   seen, steady>>

\* Copies of the row that nobody frees: PG_STAT_ALL_INDEXES's buffer; PG_SETTING's
\* type, and its value too unless the value becomes the string of the result.
CopiedRow(w) ==
    /\ pc[w] = "exec" /\ Answerable(w)
    /\ Calling(w, SelfConnecting)
    /\ \E copies \in IF Calling(w, {"PG_SETTING"}) THEN {1, 2} ELSE {1} :
           pg_exec(w, "strdup", copies)
    /\ SetResult(w) /\ Return(w, SYSINFO_RET_OK)
    /\ Goto(w, "out")
    /\ UNCHANGED <<serverVars, script, conn, handles, version, todo, db, found, reply,
                   seen, steady>>

-----------------------------------------------------------------------------
(***************************************************************************)
(* The "out:" label.  PQclear and PQfinish accept NULL.                    *)
(***************************************************************************)
PQfinish(w) ==
    /\ handles' = [handles EXCEPT ![w] = @ - Live(conn[w])]
    /\ IF conn[w] = "live" THEN Hangup(w) ELSE UNCHANGED serverVars

\* Seeded fault: the connection is left open.
NoPQfinish(w) == UNCHANGED <<handles, serverVars>>
FinishAtOut(w) == PQfinish(w)

\* Seeded fault: a failed pg_version or pg_get_databases does not end the handler.
ContinuesAnyway(w) == Calling(w, {"pg_version", "pg_get_databases"})

\* pg_version's 0 and pg_get_databases's NULL end the handler, as every failure does.
Continues(w) == ret[w] = SYSINFO_RET_OK /\ Calling(w, {"pg_version", "pg_get_databases"})

\* The routine returns: its pointers go out of scope.
Close(w) ==
    /\ pc[w] = "out" /\ Calling(w, PgCalls \union {"PG_CONNECT"})
    /\ FinishAtOut(w)
    /\ conn' = [conn EXCEPT ![w] = "NULL"]
    /\ heap' = [heap EXCEPT ![w] = Free(@, "PGresult", Live(res[w]))]
    /\ res' = [res EXCEPT ![w] = "NULL"]
    /\ IF Continues(w)
       THEN Goto(w, "call") /\ NextStep(w)
       ELSE Goto(w, "done") /\ UNCHANGED script
    /\ version' = IF Calling(w, {"pg_version"}) /\ ret[w] = SYSINFO_RET_OK
                  THEN [version EXCEPT ![w] = reply[w]] ELSE version
    /\ IF Calling(w, {"pg_get_result"}) /\ ret[w] = SYSINFO_RET_OK
       THEN SetResult(w) ELSE UNCHANGED answer
    /\ UNCHANGED <<ret, params, todo, db, found, reply, seen, steady>>

-----------------------------------------------------------------------------
(***************************************************************************)
(* pg_get_discovery_wide, once it has the list of databases.               *)
(***************************************************************************)
WideBegin(w) ==
    /\ pc[w] = "call" /\ Calling(w, {"pg_get_discovery_wide"})
    /\ heap' = [heap EXCEPT ![w] = Malloc(@, "json", 1)]
    /\ Return(w, SYSINFO_RET_FAIL)
    /\ Goto(w, "loop")
    /\ UNCHANGED <<serverVars, script, answer, conn, res, params, handles, version, todo,
                   db, found, reply, seen, steady>>

\* Seeded fault: a database that cannot be connected to is passed over.
PassOver(w) == UNCHANGED answer /\ Goto(w, "loop")
GiveUp(w) == Message(w) /\ Goto(w, "out")

\* Seeded fault: the loop does not advance.
Stay(w, d) == UNCHANGED todo
Advance(w, d) == todo' = [todo EXCEPT ![w] = @ \ {d}]

\* The list has no order the code relies on: the next database is any one left.
WideConnect(w) ==
    /\ pc[w] = "loop"
    /\ heap' = [heap EXCEPT ![w] = Malloc(@, "connstring", 1)]
    /\ \E d \in todo[w] :
          /\ Advance(w, d)
          /\ db' = [db EXCEPT ![w] = d]
          /\ \/ /\ d \in dbs
                /\ pg_connect_ok(w)
                /\ Goto(w, "exec") /\ UNCHANGED answer
             \/ pg_connect_fails(w) /\ GiveUp(w)
    /\ UNCHANGED <<script, ret, res, params, version, found, reply, seen, steady>>

WideRows(w) ==
    /\ pc[w] = "exec" /\ Answerable(w)
    /\ Calling(w, {"pg_get_discovery_wide"})
    /\ pg_exec(w, "json", 0)
    /\ found' = [found EXCEPT ![w] = @ \union {db[w]}]
    /\ Goto(w, "next")
    /\ UNCHANGED <<serverVars, script, ret, answer, conn, handles, version, todo, db,
                   reply, seen, steady>>

\* Seeded fault: conn is not reset after the PQfinish of an iteration.
KeepConn(w) == conn' = [conn EXCEPT ![w] = "dangling"]
ResetConn(w) == conn' = [conn EXCEPT ![w] = "NULL"]

\* conn is reset to keep "out:" from finishing it again; res is not.
WideNext(w) ==
    /\ pc[w] = "next"
    /\ heap' = [heap EXCEPT ![w] = Free(Free(@, "connstring", 1), "PGresult", Live(res[w]))]
    /\ res' = [res EXCEPT ![w] = "dangling"]
    /\ PQfinish(w) /\ ResetConn(w)
    /\ Goto(w, "loop")
    /\ UNCHANGED <<script, ret, answer, params, version, todo, db, found, reply, seen,
                   steady>>

WideFinish(w) ==
    /\ pc[w] = "loop" /\ todo[w] = {}
    /\ SetResult(w) /\ Return(w, SYSINFO_RET_OK)
    /\ heap' = [heap EXCEPT ![w] = Free(@, "json", 1)]
    /\ Goto(w, "out")
    /\ UNCHANGED <<serverVars, script, conn, res, params, handles, version, todo, db,
                   found, reply, seen, steady>>

\* Neither the PGresult nor the JSON buffer is freed here.  zbx_free accepts NULL.
WideClose(w) ==
    /\ pc[w] = "out" /\ Calling(w, {"pg_get_discovery_wide"})
    /\ heap' = [heap EXCEPT ![w] = zbx_free(zbx_free(@, "connstring"), "databases")]
    /\ FinishAtOut(w)
    /\ conn' = [conn EXCEPT ![w] = "NULL"]
    /\ res' = [res EXCEPT ![w] = "NULL"]
    /\ Goto(w, "done")
    /\ UNCHANGED <<script, ret, answer, params, version, todo, db, found, reply, seen,
                   steady>>

-----------------------------------------------------------------------------
Work(w) ==
    \/ Deliver(w)
    \/ RejectRequest(w)
    \/ ModuleVersion(w)
    \/ param_append(w)
    \/ Connect(w)
    \/ PgConnect(w)
    \/ QueryFails(w)
    \/ NoRows(w)
    \/ ScalarRow(w)
    \/ DatabaseRows(w)
    \/ DiscoveryRows(w)
    \/ CopiedRow(w)
    \/ Close(w)
    \/ WideBegin(w)
    \/ WideConnect(w)
    \/ WideRows(w)
    \/ WideNext(w)
    \/ WideFinish(w)
    \/ WideClose(w)

\* What the server does by itself, and the databases it takes away meanwhile.
Environment ==
    /\ PostgresNext
    /\ steady' = [w \in Workers |-> steady[w] \intersect dbs']
    /\ UNCHANGED requestVars

Next ==
    \/ \E w \in Workers : Work(w) \/ \E item \in Items : Receive(w, item)
    \/ Environment

Spec == Init /\ [][Next]_vars

\* The agent keeps running its workers, and every libpq call returns, but those of the
\* Silent workers: no call is given a timeout, and zbx_module_item_timeout drops the
\* agent's.  Where such a worker stops it keeps what it has.
FairSpec == Spec /\ \A w \in Workers \ Silent : WF_vars(Work(w))

-----------------------------------------------------------------------------
(***************************************************************************)
(* Safety.                                                                 *)
(***************************************************************************)
\* A worker has at most one PGconn at a time, none between two routines, and never
\* a server session without one: PQfinish is reached once on every path.
OneConnection ==
    \A w \in Workers :
        /\ handles[w] = (IF pc[w] \in {"exec", "out", "next"} THEN Live(conn[w]) ELSE 0)
        /\ sessions[w] <= handles[w]

\* No routine uses or frees what has been freed: the connection and the parameters a
\* statement is sent with, the result and the connection at a clean-up.
PointersSafe ==
    \A w \in Workers :
        /\ pc[w] = "exec" => conn[w] = "live" /\ params[w].ptr # "dangling"
        /\ pc[w] = "next" => conn[w] = "live" /\ res[w] = "live"
        /\ pc[w] = "out" => conn[w] # "dangling"
        /\ pc[w] = "out" /\ Calling(w, PgCalls) => res[w] # "dangling"

\* What a finished request leaves allocated.  A success returns every block but the
\* copies of PG_SETTING and PG_STAT_ALL_INDEXES; a failure also leaves parameters no
\* statement was sent with, and in pg_get_discovery_wide the JSON and the result.
LeakLedger ==
    \A w \in Workers : pc[w] = "done" =>
        /\ heap[w]["databases"] = 0 /\ heap[w]["connstring"] = 0
        /\ heap[w]["strdup"] > 0 => ret[w] = SYSINFO_RET_OK /\ Calling(w, SelfConnecting)
        /\ heap[w]["params"] > 0 => ret[w] = SYSINFO_RET_FAIL
        /\ heap[w]["json"] + heap[w]["PGresult"] > 0 =>
              ret[w] = SYSINFO_RET_FAIL /\ Calling(w, {"pg_get_discovery_wide"})

\* The agent gets one value and no message, or one message and no value.  Only a
\* setting the server does not know fails without a message.
AnswerWellFormed ==
    \A w \in Workers : pc[w] = "done" =>
        IF ret[w] = SYSINFO_RET_OK
        THEN answer[w] = [msgs |-> 0, values |-> 1]
        ELSE /\ answer[w].values = 0
             /\ answer[w].msgs = 1 \/ (answer[w].msgs = 0 /\ Calling(w, {"PG_SETTING"}))

\* A deep discovery that succeeds lists every database that was connectable from the
\* request to the answer: one that cannot be read fails it, none is passed over.
WideComplete ==
    \A w \in Workers :
        pc[w] = "done" /\ ret[w] = SYSINFO_RET_OK /\ Calling(w, {"pg_get_discovery_wide"})
            => steady[w] \subseteq found[w]

\* Every statement a handler writes is sent with as many parameters as it has
\* placeholders.  A query of the user may have more, or fewer, than the key gives.
BindMatches ==
    \A w \in Workers :
        pc[w] = "exec" /\ Current(w).stmt.asks # "user" =>
            BoundParams(w) \in Current(w).stmt.holes

\* If either text of a statement parses on the server, the text sent does, whatever
\* columns its filters add: only a server replaced by a newer one after pg_version
\* asked it, over another connection, gets the wrong one.
StatementFitsVersion ==
    \A w \in Workers :
        pc[w] = "exec" /\ version[w] \in {0, server} =>
            (Parses(Current(w).stmt.old) \/ Parses(Current(w).stmt.new) => Parses(Window(w)))

\* w has just been told the answer to a counting question.
Counted(w, question) ==
    /\ pc[w] = "out" /\ ret[w] = SYSINFO_RET_OK /\ Calling(w, {"pg_get_result"})
    /\ Current(w).stmt.asks = question

\* A count of all backends never misses an application, whatever the other workers and
\* the server do between the connection and the statement; and it is exact when no other
\* monitoring session exists, open or going away: the asking session is not in it.  With
\* filters it may miss any, and when no other monitoring session exists counts
\* applications only.  The free backends never include one that an application, or the
\* asking session, holds.
CountsApplications ==
    \A w \in Workers :
        /\ Counted(w, "backends") =>
              /\ reply[w] >= seen[w].apps
              /\ seen[w].slots = seen[w].apps + 1 => reply[w] = seen[w].apps
        /\ Counted(w, "filtered") /\ seen[w].slots = seen[w].apps + 1 =>
              reply[w] \in 0 .. seen[w].apps
        /\ Counted(w, "free") => reply[w] \in 0 .. MaxConnections - seen[w].apps - 1

-----------------------------------------------------------------------------
(***************************************************************************)
(* The inductive invariant behind TypeOK, OneConnection and PointersSafe.  *)
(***************************************************************************)
LabelInv(w) ==
    /\ pc[w] # "idle" => WellFormed(script[w])
    /\ pc[w] = "exec" => Current(w).call \in PgCalls \union {"pg_get_discovery_wide"}
    /\ pc[w] = "out" =>
          Current(w).call \in PgCalls \union {"pg_get_discovery_wide", "PG_CONNECT"}
    /\ pc[w] \in {"loop", "next"} => Current(w).call = "pg_get_discovery_wide"
    /\ pc[w] = "exec" /\ Current(w).call = "pg_get_discovery_wide" => db[w] \in Databases
    /\ pc[w] = "out" /\ Current(w).call = "pg_version" /\ ret[w] = SYSINFO_RET_OK =>
          reply[w] \in Versions

ConnInv(w) ==
    /\ pc[w] \in {"exec", "next"} => conn[w] = "live"
    /\ pc[w] = "out" => conn[w] \in {"NULL", "live"}
    /\ pc[w] \in {"idle", "call", "loop", "done"} => conn[w] = "NULL"
    /\ handles[w] = Live(conn[w])
    /\ sessions[w] <= handles[w]

ParamsInv(w) ==
    /\ params[w].ptr = "live" => heap[w]["params"] > 0
    /\ params[w].ptr = "dangling" =>
          /\ pc[w] \in {"idle", "out", "done"}
          /\ pc[w] = "out" => Current(w).call \in {"pg_get_result", "pg_get_discovery"}
    /\ pc[w] # "idle" /\ Deep(script[w]) => params[w].ptr = "NULL"

BlocksInv(w) ==
    /\ res[w] = "live" => heap[w]["PGresult"] > 0
    /\ pc[w] \in {"idle", "call", "done"} => res[w] = "NULL"
    /\ pc[w] = "out" /\ Current(w).call # "pg_get_discovery_wide" => res[w] # "dangling"
    /\ pc[w] = "next" => res[w] = "live"
    /\ pc[w] \in {"loop", "next"} => heap[w]["json"] > 0
    /\ pc[w] = "next" => heap[w]["connstring"] > 0
    /\ pc[w] = "exec" /\ Current(w).call = "pg_get_discovery_wide" =>
          heap[w]["json"] > 0 /\ heap[w]["connstring"] > 0

IInv ==
    /\ TypeOK
    /\ \A w \in Workers : LabelInv(w) /\ ConnInv(w) /\ ParamsInv(w) /\ BlocksInv(w)

-----------------------------------------------------------------------------
(***************************************************************************)
(* Liveness: every request whose own calls return is answered, however the *)
(* server behaves, and even if the other workers have stopped for good     *)
(* with the connections they hold and the server has no slot left.         *)
(***************************************************************************)
EveryRequestAnswered ==
    \A w \in Workers \ Silent : pc[w] = "call" ~> pc[w] = "done"

-----------------------------------------------------------------------------
(***************************************************************************)
(* What the change log says, and the code does not do.                     *)
(***************************************************************************)
\* ChangeLog, v1.0.0: "Monitoring connections are no longer counted when monitoring
\* backend connection counts".
MonitoringNotCounted ==
    \A w \in Workers :
        Counted(w, "backends") => reply[w] = seen[w].apps
=============================================================================

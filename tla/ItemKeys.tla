------------------------------ MODULE ItemKeys ------------------------------
(***************************************************************************)
(* What each item key of the module does, as a pure function: the request  *)
(* handler of the key, applied to the user parameters of the request,      *)
(* yields its script, the calls that touch memory, a connection or the     *)
(* answer, in the order the handler makes them.                            *)
(*                                                                         *)
(* p holds the parameters after the connection string and the database     *)
(* (PARAM_FIRST onwards); "" is a missing or an empty one.  The text of a  *)
(* statement is abstracted to what the properties tell apart: the numbers  *)
(* of parameters it accepts, the server versions it parses on, and the     *)
(* question it asks.                                                       *)
(***************************************************************************)
EXTENDS Naturals, FiniteSets, Sequences

CONSTANTS
    Addresses,  \* the strings that are IPv4 or IPv6 addresses
    HolesIn     \* HolesIn[q]: how many placeholders the text has that q is or names

ASSUME HolesAssumption == \A q \in DOMAIN HolesIn : HolesIn[q] \in Nat

AR_STRING == "AR_STRING"
AR_UINT64 == "AR_UINT64"
AR_DOUBLE == "AR_DOUBLE"
NoType    == "none"

strisnull(s) == s = ""

\* Zabbix's accessor (NULL beyond the last parameter); i counts from PARAM_FIRST.
get_rparam(p, i) == IF i \in DOMAIN p THEN p[i] ELSE ""

-----------------------------------------------------------------------------
(***************************************************************************)
(* Statements.  A text parses from the release that brought the last of    *)
(* its columns to the one that dropped the first of them, as far as        *)
(* releases 9.0 to 9.6 go.  old is the text sent to a server known to be   *)
(* older than 9.2, new the one sent otherwise; a handler that never asks   *)
(* for the version has one text.                                           *)
(***************************************************************************)
\* server_version_num, which has at most six digits.
V9_1   == 90100
V9_2   == 90200
V9_4   == 90400
V9_6   == 90600
Beyond == 1000000

Windows    == [since: Nat, before: Nat]
Since(v)   == [since |-> v, before |-> Beyond]
AnyVersion == Since(0)

\* "user" for a text the module did not write.
Questions == {"other", "user", "version", "databases", "backends", "filtered", "free"}
Statements == [asks: Questions, holes: SUBSET Nat, old: Windows, new: Windows]

OneText(question, holes, window) ==
    [asks |-> question, holes |-> holes, old |-> window, new |-> window]

\* A fixed text with placeholders $1 .. $n, over columns of the window.
SqlOn(n, window) == OneText("other", {n}, window)
Sql(n)           == SqlOn(n, AnyVersion)
Asking(question) == OneText(question, {0}, AnyVersion)

\* The first parameter is a text or names one; what is neither the server refuses.
UserSql(p) ==
    OneText("user", {HolesIn[q] : q \in {get_rparam(p, 1)} \intersect DOMAIN HolesIn},
            AnyVersion)

\* pid/state replace procpid/current_query in pg_stat_activity at 9.2; the window is
\* that of the columns the filters add.
PgStatActivity(question, n, window) ==
    [asks |-> question, holes |-> {n},
     old |-> [window EXCEPT !.before = V9_2], new |-> [window EXCEPT !.since = V9_2]]

-----------------------------------------------------------------------------
(***************************************************************************)
(* Steps of a script.  n is the number of strings a param_append or a      *)
(* param_new of the step adds.                                             *)
(***************************************************************************)
PgCalls == {"pg_version", "pg_get_result", "pg_get_discovery", "pg_get_databases",
            "PG_SETTING", "PG_STAT_ALL_INDEXES"}
Calls   == PgCalls \union {"set_err_result", "MODVER", "PG_CONNECT", "param_append",
                           "pg_get_discovery_wide"}
Types   == {AR_STRING, AR_UINT64, AR_DOUBLE, NoType}
Steps   == [call: Calls, type: Types, stmt: Statements, n: Nat]

Step(call, type, stmt, n) == [call |-> call, type |-> type, stmt |-> stmt, n |-> n]

Reject         == Step("set_err_result", NoType, Sql(0), 0)
Bind(n)        == Step("param_append", NoType, Sql(0), n)
pg_version     == Step("pg_version", NoType, Asking("version"), 0)
Get(type, sql) == Step("pg_get_result", type, sql, 0)
Discover(sql)  == Step("pg_get_discovery", AR_STRING, sql, 0)

-----------------------------------------------------------------------------
(***************************************************************************)
(* The shapes most handlers share.                                         *)
(***************************************************************************)
param_new(s) == IF strisnull(s) THEN 0 ELSE 1

\* Seeded fault: the parameter is not handed to libpq.
FilteredUnbound(p, type, window) ==
    <<Bind(0), Get(type, SqlOn(param_new(get_rparam(p, 1)), window))>>

\* The sum over all objects, or the figure of the object the key names.
FilteredOn(p, type, window) ==
    LET name == get_rparam(p, 1)
    IN  <<Bind(param_new(name)),
          Get(type, IF strisnull(name) THEN SqlOn(0, window) ELSE SqlOn(1, window))>>

Filtered(p, type) == FilteredOn(p, type, AnyVersion)

Required(p, call) ==
    IF strisnull(get_rparam(p, 1)) THEN <<Reject>>
    ELSE <<Bind(param_new(get_rparam(p, 1))), call>>

FixedOn(type, window) == <<Get(type, SqlOn(0, window))>>
Fixed(type)           == FixedOn(type, AnyVersion)

pg_get_percentage(colFilter, filter) ==
    <<Bind(param_new(filter)), Get(AR_DOUBLE, IF strisnull(colFilter) THEN Sql(0) ELSE Sql(1))>>

Ratio(p, column) ==
    IF strisnull(get_rparam(p, 1)) THEN pg_get_percentage("", "")
    ELSE pg_get_percentage(column, get_rparam(p, 1))

\* pg_get_discovery_wide starts with pg_get_databases; NULL from it ends the request.
pg_get_discovery_wide(stmt) ==
    <<Step("pg_get_databases", NoType, Asking("databases"), 0),
      Step("pg_get_discovery_wide", AR_STRING, stmt, 0)>>

DiscoverByMode(p) ==
    LET mode == get_rparam(p, 1)
    IN  IF mode \in {"", "deep"} THEN pg_get_discovery_wide(Sql(0))
        ELSE IF mode = "shallow" THEN <<Discover(Sql(0))>>
        ELSE <<Reject>>

-----------------------------------------------------------------------------
(***************************************************************************)
(* libzbxpgsql.c, pg_server.c, pg_setting.c and pg_query.c                 *)
(***************************************************************************)
MODVER         == <<Step("MODVER", AR_STRING, Sql(0), 0)>>
PG_CONNECT     == <<Step("PG_CONNECT", AR_UINT64, Sql(0), 0)>>
PG_VERSION     == Fixed(AR_STRING)
PG_STARTTIME   == Fixed(AR_STRING)
PG_UPTIME      == Fixed(AR_UINT64)

PG_PREPARED_XACTS_COUNT(p) == Filtered(p, AR_UINT64)
PG_PREPARED_XACTS_RATIO    == Fixed(AR_DOUBLE)
PG_PREPARED_XACTS_AGE(p)   == Filtered(p, AR_UINT64)

PG_SETTING_DISCOVERY == <<Discover(Sql(0))>>

\* PG_SETTING connects by itself and builds its parameter when it executes.
PG_SETTING(p) ==
    IF strisnull(get_rparam(p, 1)) THEN <<Reject>>
    ELSE <<Step("PG_SETTING", NoType, Sql(1), param_new(get_rparam(p, 1)))>>

\* The first parameter is a query or the name of one (NamedQueries); the rest are bound.
PG_QUERY(key, p) ==
    IF strisnull(get_rparam(p, 1)) THEN <<Reject>>
    ELSE <<Bind(Cardinality({i \in 2 .. Len(p) : ~strisnull(p[i])})),
           CASE key = "pg.query.string"    -> Get(AR_STRING, UserSql(p))
             [] key = "pg.query.integer"   -> Get(AR_UINT64, UserSql(p))
             [] key = "pg.query.double"    -> Get(AR_DOUBLE, UserSql(p))
             [] key = "pg.query.discovery" -> Discover(UserSql(p))
             [] OTHER                      -> Reject>>

-----------------------------------------------------------------------------
(***************************************************************************)
(* pg_backends.c                                                           *)
(***************************************************************************)
\* database, user and client, each with one string and one placeholder when given.
GivenFilters(p) == {i \in 1 .. 3 : ~strisnull(get_rparam(p, i))}

ClauseParams(p) == Bind(Cardinality(GivenFilters(p)))

is_valid_ip(str) == str \in Addresses

\* client_hostname came with 9.1, which the code says, and waiting went with 9.6.
FilterColumns(p) ==
    LET client == get_rparam(p, 3)
    IN  [since  |-> IF strisnull(client) \/ is_valid_ip(client) THEN 0 ELSE V9_1,
         before |-> IF strisnull(get_rparam(p, 4)) THEN Beyond ELSE V9_6]

\* A count with a filter is not one of all backends.
CountAsks(p) ==
    IF \A i \in 1 .. 4 : strisnull(get_rparam(p, i)) THEN "backends" ELSE "filtered"

ActivitySql(p, question) ==
    PgStatActivity(question, Cardinality(GivenFilters(p)), FilterColumns(p))

\* Non-zero on success: <waiting>, looked at after the strings have been appended.
build_activity_clause(p) == get_rparam(p, 4) \in {"", "true", "false"}

PG_BACKENDS_COUNT(p) ==
    <<pg_version, ClauseParams(p),
      IF build_activity_clause(p) THEN Get(AR_UINT64, ActivitySql(p, CountAsks(p)))
      ELSE Reject>>

PG_BACKENDS_RATIO == <<pg_version, Get(AR_DOUBLE, PgStatActivity("backends", 0, AnyVersion))>>

PG_BACKENDS_FREE == <<Get(AR_DOUBLE, Asking("free"))>>

PG_QUERIES_LONGEST(p) ==
    IF build_activity_clause(p)
    THEN <<ClauseParams(p), pg_version, Get(AR_DOUBLE, ActivitySql(p, "other"))>>
    ELSE <<ClauseParams(p), Reject>>

-----------------------------------------------------------------------------
(***************************************************************************)
(* pg_bgwriter.c, pg_database.c, pg_namespace.c and pg_tablespace.c        *)
(***************************************************************************)
\* The column of a statistic, as it came to its view; no handler here looks at the version.
PG_STAT_BGWRITER(key) ==
    CASE key \in {"pg.checkpoint_write_time", "pg.checkpoint_sync_time"} ->
             FixedOn(AR_DOUBLE, Since(V9_2))
      [] key = "pg.stats_reset"           -> FixedOn(AR_STRING, Since(V9_1))
      [] key = "pg.buffers_backend_fsync" -> FixedOn(AR_UINT64, Since(V9_1))
      [] OTHER                            -> Fixed(AR_UINT64)

PG_BG_STATS_RESET_INTERVAL == FixedOn(AR_UINT64, Since(V9_1))
PG_BG_AVG_INTERVAL         == FixedOn(AR_DOUBLE, Since(V9_1))

PG_BG_TIME_RATIO(p) ==
    IF get_rparam(p, 1) \in {"", "all", "write", "sync"}
    THEN FixedOn(AR_DOUBLE, Since(V9_2)) ELSE <<Reject>>

PG_DB_DISCOVERY == <<Discover(Sql(0))>>

PG_STAT_DATABASE(key, p) ==
    CASE key = "pg.db.stats_reset" -> Required(p, Get(AR_STRING, SqlOn(1, Since(V9_1))))
      [] key \in {"pg.db.blk_read_time", "pg.db.blk_write_time"} ->
             FilteredOn(p, AR_DOUBLE, Since(V9_2))
      [] key \in {"pg.db.temp_files", "pg.db.temp_bytes", "pg.db.deadlocks"} ->
             FilteredOn(p, AR_UINT64, Since(V9_2))
      [] key = "pg.db.conflicts" -> FilteredOn(p, AR_UINT64, Since(V9_1))
      [] OTHER -> Filtered(p, AR_UINT64)

PG_DB_BLKS_RATIO(p) == Ratio(p, "datname")
PG_DB_SIZE(p)       == Filtered(p, AR_UINT64)
PG_DB_XID_AGE(p)    == Filtered(p, AR_UINT64)

PG_NAMESPACE_DISCOVERY(p) == DiscoverByMode(p)
PG_NAMESPACE_SIZE(p)      == Required(p, Get(AR_UINT64, Sql(1)))

\* The location column came with 9.2; the shorter text parses everywhere.
PG_TABLESPACE_DISCOVERY ==
    <<pg_version, Discover([Sql(0) EXCEPT !.new = Since(V9_2)])>>

PG_TABLESPACE_SIZE(p) == Required(p, Get(AR_UINT64, Sql(1)))

-----------------------------------------------------------------------------
(***************************************************************************)
(* pg_table.c and pg_index.c                                               *)
(***************************************************************************)
PG_TABLE_DISCOVERY(p)          == DiscoverByMode(p)
PG_TABLE_CHILDREN_DISCOVERY(p) == Required(p, Discover(Sql(1)))

LastKeys == {"pg.table.last_vacuum", "pg.table.last_autovacuum",
             "pg.table.last_analyze", "pg.table.last_autoanalyze"}

VacuumKeys == {"pg.table.vacuum_count", "pg.table.autovacuum_count",
               "pg.table.analyze_count", "pg.table.autoanalyze_count"}

PG_STAT_ALL_TABLES(key, p) ==
    CASE key \in LastKeys  -> Required(p, Get(AR_STRING, Sql(1)))
      [] key \in VacuumKeys -> FilteredOn(p, AR_UINT64, Since(V9_1))
      [] key = "pg.table.n_mod_since_analyze" -> FilteredOn(p, AR_UINT64, Since(V9_4))
      [] OTHER -> Filtered(p, AR_UINT64)

PG_TABLE_IDX_SCAN_RATIO(p)   == Ratio(p, "relname")
PG_STATIO_ALL_TABLES(p)      == Filtered(p, AR_UINT64)
PG_TABLE_HEAP_BLKS_RATIO(p)  == Ratio(p, "relname")
PG_TABLE_IDX_BLKS_RATIO(p)   == Ratio(p, "relname")
PG_TABLE_TOAST_BLKS_RATIO(p) == Ratio(p, "relname")
PG_TABLE_TIDX_BLKS_RATIO(p)  == Ratio(p, "relname")
PG_TABLE_SIZE(p)             == Filtered(p, AR_UINT64)
PG_TABLE_ROWS(p)             == Filtered(p, AR_UINT64)
PG_TABLE_CHILDREN(p)         == Required(p, Get(AR_UINT64, Sql(1)))
PG_TABLE_CHILDREN_SIZE(p)    == Required(p, Get(AR_UINT64, Sql(1)))
PG_TABLE_CHILDREN_ROWS(p)    == Required(p, Get(AR_UINT64, Sql(1)))

\* The filters by schema and table are written into the text, not bound.
PG_INDEX_DISCOVERY(p) == DiscoverByMode(p)

\* PG_STAT_ALL_INDEXES connects by itself, as PG_SETTING does.
PG_STAT_ALL_INDEXES(p) ==
    LET index == get_rparam(p, 1)
    IN  <<Step("PG_STAT_ALL_INDEXES", AR_UINT64,
               IF strisnull(index) THEN Sql(0) ELSE Sql(1), param_new(index))>>

PG_STATIO_ALL_INDEXES(p)   == Filtered(p, AR_UINT64)
PG_INDEX_IDX_BLKS_RATIO(p) == Ratio(p, "indexrelname")
PG_INDEX_SIZE(p)           == Filtered(p, AR_UINT64)
PG_INDEX_ROWS(p)           == Filtered(p, AR_UINT64)

-----------------------------------------------------------------------------
(***************************************************************************)
(* The table of keys and their handlers; the handlers that serve several   *)
(* keys come first.                                                        *)
(***************************************************************************)
BgwriterKeys == {"pg.checkpoints_timed", "pg.checkpoints_req", "pg.checkpoint_write_time",
                 "pg.checkpoint_sync_time", "pg.buffers_checkpoint", "pg.buffers_clean",
                 "pg.maxwritten_clean", "pg.buffers_backend", "pg.buffers_backend_fsync",
                 "pg.buffers_alloc", "pg.stats_reset"}

DatabaseStatKeys ==
    {"pg.db.numbackends", "pg.db.xact_commit", "pg.db.xact_rollback", "pg.db.blks_read",
     "pg.db.blks_hit", "pg.db.tup_returned", "pg.db.tup_fetched", "pg.db.tup_inserted",
     "pg.db.tup_updated", "pg.db.tup_deleted", "pg.db.conflicts", "pg.db.temp_files",
     "pg.db.temp_bytes", "pg.db.deadlocks", "pg.db.blk_read_time", "pg.db.blk_write_time",
     "pg.db.stats_reset"}

TableStatKeys ==
    {"pg.table.seq_scan", "pg.table.seq_tup_read", "pg.table.idx_scan",
     "pg.table.idx_tup_fetch", "pg.table.n_tup_ins", "pg.table.n_tup_upd",
     "pg.table.n_tup_del", "pg.table.n_tup_hot_upd", "pg.table.n_live_tup",
     "pg.table.n_dead_tup", "pg.table.n_mod_since_analyze"} \union VacuumKeys \union LastKeys

TableIOKeys == {"pg.table.heap_blks_read", "pg.table.heap_blks_hit", "pg.table.idx_blks_read",
                "pg.table.idx_blks_hit", "pg.table.toast_blks_read", "pg.table.toast_blks_hit",
                "pg.table.tidx_blks_read", "pg.table.tidx_blks_hit"}

IndexStatKeys == {"pg.index.idx_scan", "pg.index.idx_tup_read", "pg.index.idx_tup_fetch"}
IndexIOKeys   == {"pg.index.idx_blks_read", "pg.index.idx_blks_hit"}
QueryKeys     == {"pg.query.string", "pg.query.integer", "pg.query.double",
                  "pg.query.discovery"}

ServerScript(key, p) ==
    CASE key \in QueryKeys                   -> PG_QUERY(key, p)
      [] key \in BgwriterKeys                -> PG_STAT_BGWRITER(key)
      [] key = "pg.modver"                   -> MODVER
      [] key = "pg.connect"                  -> PG_CONNECT
      [] key = "pg.version"                  -> PG_VERSION
      [] key = "pg.starttime"                -> PG_STARTTIME
      [] key = "pg.uptime"                   -> PG_UPTIME
      [] key = "pg.prepared_xacts_count"     -> PG_PREPARED_XACTS_COUNT(p)
      [] key = "pg.prepared_xacts_ratio"     -> PG_PREPARED_XACTS_RATIO
      [] key = "pg.prepared_xacts_age"       -> PG_PREPARED_XACTS_AGE(p)
      [] key = "pg.setting"                  -> PG_SETTING(p)
      [] key = "pg.setting.discovery"        -> PG_SETTING_DISCOVERY
      [] key = "pg.backends.count"           -> PG_BACKENDS_COUNT(p)
      [] key = "pg.backends.free"            -> PG_BACKENDS_FREE
      [] key = "pg.backends.ratio"           -> PG_BACKENDS_RATIO
      [] key = "pg.queries.longest"          -> PG_QUERIES_LONGEST(p)
      [] key = "pg.checkpoint_avg_interval"  -> PG_BG_AVG_INTERVAL
      [] key = "pg.checkpoint_time_ratio"    -> PG_BG_TIME_RATIO(p)
      [] key = "pg.stats_reset_interval"     -> PG_BG_STATS_RESET_INTERVAL

ServerKeys == {"pg.modver", "pg.connect", "pg.version", "pg.starttime", "pg.uptime",
               "pg.prepared_xacts_count", "pg.prepared_xacts_ratio", "pg.prepared_xacts_age",
               "pg.setting", "pg.setting.discovery", "pg.backends.count", "pg.backends.free",
               "pg.backends.ratio", "pg.queries.longest", "pg.checkpoint_avg_interval",
               "pg.checkpoint_time_ratio", "pg.stats_reset_interval"} \union QueryKeys \union
               BgwriterKeys

AssetScript(key, p) ==
    CASE key \in DatabaseStatKeys            -> PG_STAT_DATABASE(key, p)
      [] key \in TableStatKeys               -> PG_STAT_ALL_TABLES(key, p)
      [] key \in TableIOKeys                 -> PG_STATIO_ALL_TABLES(p)
      [] key \in IndexStatKeys               -> PG_STAT_ALL_INDEXES(p)
      [] key \in IndexIOKeys                 -> PG_STATIO_ALL_INDEXES(p)
      [] key = "pg.db.discovery"             -> PG_DB_DISCOVERY
      [] key = "pg.namespace.discovery"      -> PG_NAMESPACE_DISCOVERY(p)
      [] key = "pg.schema.discovery"         -> PG_NAMESPACE_DISCOVERY(p)
      [] key = "pg.tablespace.discovery"     -> PG_TABLESPACE_DISCOVERY
      [] key = "pg.table.discovery"          -> PG_TABLE_DISCOVERY(p)
      [] key = "pg.table.children.discovery" -> PG_TABLE_CHILDREN_DISCOVERY(p)
      [] key = "pg.index.discovery"          -> PG_INDEX_DISCOVERY(p)
      [] key = "pg.db.size"                  -> PG_DB_SIZE(p)
      [] key = "pg.table.size"               -> PG_TABLE_SIZE(p)
      [] key = "pg.table.rows"               -> PG_TABLE_ROWS(p)
      [] key = "pg.table.children"           -> PG_TABLE_CHILDREN(p)
      [] key = "pg.table.children.size"      -> PG_TABLE_CHILDREN_SIZE(p)
      [] key = "pg.table.children.rows"      -> PG_TABLE_CHILDREN_ROWS(p)
      [] key = "pg.index.size"               -> PG_INDEX_SIZE(p)
      [] key = "pg.index.rows"               -> PG_INDEX_ROWS(p)
      [] key = "pg.tablespace.size"          -> PG_TABLESPACE_SIZE(p)
      [] key = "pg.namespace.size"           -> PG_NAMESPACE_SIZE(p)
      [] key = "pg.schema.size"              -> PG_NAMESPACE_SIZE(p)
      [] key = "pg.db.blks_ratio"            -> PG_DB_BLKS_RATIO(p)
      [] key = "pg.db.xid_age"               -> PG_DB_XID_AGE(p)
      [] key = "pg.table.idx_scan_ratio"     -> PG_TABLE_IDX_SCAN_RATIO(p)
      [] key = "pg.table.heap_blks_ratio"    -> PG_TABLE_HEAP_BLKS_RATIO(p)
      [] key = "pg.table.idx_blks_ratio"     -> PG_TABLE_IDX_BLKS_RATIO(p)
      [] key = "pg.table.toast_blks_ratio"   -> PG_TABLE_TOAST_BLKS_RATIO(p)
      [] key = "pg.table.tidx_blks_ratio"    -> PG_TABLE_TIDX_BLKS_RATIO(p)
      [] key = "pg.index.idx_blks_ratio"     -> PG_INDEX_IDX_BLKS_RATIO(p)

AssetKeys == {"pg.db.discovery", "pg.namespace.discovery", "pg.schema.discovery",
              "pg.tablespace.discovery", "pg.table.discovery", "pg.table.children.discovery",
              "pg.index.discovery", "pg.db.size", "pg.table.size", "pg.table.rows",
              "pg.table.children", "pg.table.children.size", "pg.table.children.rows",
              "pg.index.size", "pg.index.rows", "pg.tablespace.size", "pg.namespace.size",
              "pg.schema.size", "pg.db.blks_ratio", "pg.db.xid_age", "pg.table.idx_scan_ratio",
              "pg.table.heap_blks_ratio", "pg.table.idx_blks_ratio",
              "pg.table.toast_blks_ratio", "pg.table.tidx_blks_ratio",
              "pg.index.idx_blks_ratio"}
             \union DatabaseStatKeys \union TableStatKeys \union TableIOKeys
             \union IndexStatKeys \union IndexIOKeys

keys == ServerKeys \union AssetKeys

Handler(key, p) == IF key \in ServerKeys THEN ServerScript(key, p) ELSE AssetScript(key, p)

-----------------------------------------------------------------------------
(***************************************************************************)
(* The shape of a script.                                                  *)
(***************************************************************************)
Deep(s) == \E i \in DOMAIN s : s[i].call = "pg_get_discovery_wide"

\* A step that leads to another one is not the last, what pg_version returns is a
\* version, and nothing is bound before a deep discovery: pg_exec would free it in the
\* first of many databases.
WellFormed(s) ==
    /\ s # <<>>
    /\ \A i \in DOMAIN s :
          s[i].call \in {"pg_version", "pg_get_databases", "param_append"} => i < Len(s)
    /\ \A i \in DOMAIN s : s[i].call = "pg_version" => s[i] = pg_version
    /\ Deep(s) => \A i \in DOMAIN s : s[i].call # "param_append"
=============================================================================

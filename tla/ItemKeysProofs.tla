--------------------------- MODULE ItemKeysProofs ---------------------------
(***************************************************************************)
(* Every key's handler yields a script of the shape the workers rely on,   *)
(* whatever the user parameters.                                           *)
(***************************************************************************)
EXTENDS ItemKeys, FiniteSetTheorems, TLAPS

-----------------------------------------------------------------------------
(***************************************************************************)
(* Scripts of one, two and three steps.                                    *)
(***************************************************************************)
Leading == {"pg_version", "pg_get_databases", "param_append"}

\* A step that may end a script.
Ending(s) == s \in Steps /\ s.call \notin Leading

Script(s) == s \in Seq(Steps) /\ WellFormed(s)

\* A script of one step that leads to no other.
LEMMA OneStep ==
    ASSUME NEW a, Ending(a)
    PROVE  Script(<<a>>)
<1>1. <<a>> \in Seq(Steps)
    BY DEF Ending
<1>2. WellFormed(<<a>>)
    BY DEF Ending, Leading, WellFormed, Deep
<1> QED BY <1>1, <1>2 DEF Script

\* A script of two steps, not the binding of parameters and a deep discovery.
LEMMA TwoSteps ==
    ASSUME NEW a \in Steps, NEW b, Ending(b),
           a.call = "pg_version" => a = pg_version,
           a.call = "param_append" => b.call # "pg_get_discovery_wide"
    PROVE  Script(<<a, b>>)
<1>1. <<a, b>> \in Seq(Steps)
    BY DEF Ending
<1>2. WellFormed(<<a, b>>)
    <2>1. \A i \in DOMAIN <<a, b>> : i = 1 \/ i = 2
        OBVIOUS
    <2>2. \A i \in DOMAIN <<a, b>> :
             <<a, b>>[i].call \in {"pg_version", "pg_get_databases", "param_append"}
                 => i < Len(<<a, b>>)
        BY <2>1 DEF Ending, Leading
    <2>3. Deep(<<a, b>>) => \A i \in DOMAIN <<a, b>> : <<a, b>>[i].call # "param_append"
        BY <2>1 DEF Ending, Leading, Deep
    <2>4. \A i \in DOMAIN <<a, b>> :
             <<a, b>>[i].call = "pg_version" => <<a, b>>[i] = pg_version
        BY <2>1 DEF Ending, Leading
    <2> QED BY <2>2, <2>3, <2>4 DEF WellFormed
<1> QED BY <1>1, <1>2 DEF Script

\* A script of three steps without a deep discovery.
LEMMA ThreeSteps ==
    ASSUME NEW a \in Steps, NEW b \in Steps, NEW c, Ending(c),
           a.call = "pg_version" => a = pg_version, b.call = "pg_version" => b = pg_version,
           a.call # "pg_get_discovery_wide", b.call # "pg_get_discovery_wide",
           c.call # "pg_get_discovery_wide"
    PROVE  Script(<<a, b, c>>)
<1>1. <<a, b, c>> \in Seq(Steps)
    BY DEF Ending
<1>2. WellFormed(<<a, b, c>>)
    <2>1. \A i \in DOMAIN <<a, b, c>> : i = 1 \/ i = 2 \/ i = 3
        OBVIOUS
    <2>2. \A i \in DOMAIN <<a, b, c>> :
             <<a, b, c>>[i].call \in {"pg_version", "pg_get_databases", "param_append"}
                 => i < Len(<<a, b, c>>)
        BY <2>1 DEF Ending, Leading
    <2>3. ~ Deep(<<a, b, c>>)
        BY <2>1 DEF Deep
    <2>4. \A i \in DOMAIN <<a, b, c>> :
             <<a, b, c>>[i].call = "pg_version" => <<a, b, c>>[i] = pg_version
        BY <2>1 DEF Ending, Leading
    <2> QED BY <2>2, <2>3, <2>4 DEF WellFormed
<1> QED BY <1>1, <1>2 DEF Script

-----------------------------------------------------------------------------
(***************************************************************************)
(* The steps scripts are made of.                                          *)
(***************************************************************************)
LEMMA WindowType ==
    /\ {V9_1, V9_2, V9_4, V9_6} \subseteq Nat
    /\ AnyVersion \in Windows
    /\ \A v \in Nat : Since(v) \in Windows
    /\ \A p : FilterColumns(p) \in Windows
BY DEF AnyVersion, Since, Windows, FilterColumns, Beyond, V9_1, V9_2, V9_4, V9_6

\* The ways a handler writes a statement all give one.
LEMMA StatementType ==
    /\ \A n \in Nat : Sql(n) \in Statements
    /\ \A n \in Nat, window \in Windows : SqlOn(n, window) \in Statements
    /\ \A q \in Questions : Asking(q) \in Statements
    /\ \A q \in Questions, n \in Nat, window \in Windows :
          PgStatActivity(q, n, window) \in Statements
    /\ \A p \in Seq(STRING) : UserSql(p) \in Statements
<1>1. \A q \in Questions, holes \in SUBSET Nat, window \in Windows :
         OneText(q, holes, window) \in Statements
    BY DEF OneText, Statements
<1>2. \A n \in Nat : {n} \in SUBSET Nat
    OBVIOUS
<1>3. \A n \in Nat, window \in Windows : SqlOn(n, window) \in Statements
    BY <1>1, <1>2 DEF SqlOn, Questions
<1>4. \A q \in Questions : Asking(q) \in Statements
    BY <1>1, WindowType DEF Asking
<1>5. ASSUME NEW q \in Questions, NEW n \in Nat, NEW window \in Windows
      PROVE  PgStatActivity(q, n, window) \in Statements
    <2>1. /\ [window EXCEPT !.before = V9_2] \in Windows
          /\ [window EXCEPT !.since = V9_2] \in Windows
        BY WindowType DEF Windows
    <2> QED BY <2>1 DEF PgStatActivity, Statements
<1>6. ASSUME NEW p \in Seq(STRING)
      PROVE  UserSql(p) \in Statements
    <2>1. {HolesIn[q] : q \in {get_rparam(p, 1)} \intersect DOMAIN HolesIn} \in SUBSET Nat
        BY HolesAssumption
    <2> QED BY <2>1, <1>1, WindowType DEF UserSql, Questions
<1> QED BY <1>3, <1>4, <1>5, <1>6, WindowType DEF Sql

\* A statement whose result is the request's answer can end a script.
LEMMA EndingSteps ==
    /\ Ending(Reject) /\ Reject.call = "set_err_result"
    /\ \A type \in Types, sql \in Statements :
          Ending(Get(type, sql)) /\ Get(type, sql).call = "pg_get_result"
    /\ \A sql \in Statements :
          Ending(Discover(sql)) /\ Discover(sql).call = "pg_get_discovery"
    /\ \A call \in Calls \ Leading, type \in Types, sql \in Statements, n \in Nat :
          Ending(Step(call, type, sql, n)) /\ Step(call, type, sql, n).call = call
BY StatementType
   DEF Ending, Reject, Get, Discover, Step, Steps, Calls, PgCalls, Types, Leading, AR_STRING

\* The steps built by Bind and pg_version are steps, and do no more than lead on.
LEMMA LeadingSteps ==
    /\ \A n \in Nat : Bind(n) \in Steps /\ Bind(n).call = "param_append"
    /\ pg_version \in Steps /\ pg_version.call = "pg_version"
BY StatementType
   DEF Bind, pg_version, Step, Steps, Calls, PgCalls, Types, Questions

\* param_new (libzbxpgsql.h) appends at most one string.
LEMMA param_newType == \A s : param_new(s) \in Nat
BY DEF param_new

\* At most three filters, so their number is a number.
LEMMA GivenFiltersType == \A p : Cardinality(GivenFilters(p)) \in Nat
<1> SUFFICES ASSUME NEW p PROVE Cardinality(GivenFilters(p)) \in Nat
    OBVIOUS
<1>1. IsFiniteSet(1 .. 3)
    <2>1. 1 \in Int /\ 3 \in Int
        OBVIOUS
    <2> QED BY <2>1, FS_Interval, Zenon
<1>2. GivenFilters(p) \in SUBSET (1 .. 3)
    BY DEF GivenFilters
<1>3. IsFiniteSet(GivenFilters(p))
    BY <1>1, <1>2, FS_Subset
<1> QED BY <1>3, FS_CardinalityType

\* The parameters of a query are among the parameters of the request.
LEMMA QueryParamsType ==
    ASSUME NEW p \in Seq(STRING)
    PROVE  Cardinality({i \in 2 .. Len(p) : ~strisnull(p[i])}) \in Nat
<1> DEFINE given == {i \in 2 .. Len(p) : ~strisnull(p[i])}
<1>1. IsFiniteSet(2 .. Len(p))
    BY FS_Interval
<1>2. given \in SUBSET (2 .. Len(p))
    OBVIOUS
<1>3. IsFiniteSet(given)
    BY <1>1, <1>2, FS_Subset
<1> QED BY <1>3, FS_CardinalityType

-----------------------------------------------------------------------------
(***************************************************************************)
(* The shapes most handlers share.                                         *)
(***************************************************************************)
LEMMA FixedScript ==
    ASSUME NEW type \in Types, NEW window \in Windows
    PROVE  Script(FixedOn(type, window)) /\ Script(Fixed(type))
BY StatementType, WindowType, EndingSteps, OneStep DEF Fixed, FixedOn

\* Binding and then sending one statement is a script: most handlers do so.
LEMMA BoundScript ==
    ASSUME NEW n \in Nat, NEW b, Ending(b), b.call # "pg_get_discovery_wide"
    PROVE  Script(<<Bind(n), b>>)
BY LeadingSteps, TwoSteps

\* A handler that refuses its parameters at once has a script.
LEMMA RejectScript == Script(<<Reject>>)
BY EndingSteps, OneStep

\* A discovery on the connected database is a script of one step.
LEMMA DiscoverScript == Script(<<Discover(Sql(0))>>)
BY StatementType, EndingSteps, OneStep

\* The handlers that filter by an optional name (PG_DB_SIZE and its like).
LEMMA FilteredScript ==
    ASSUME NEW p, NEW type \in Types, NEW window \in Windows
    PROVE  Script(FilteredOn(p, type, window))
<1> DEFINE name == get_rparam(p, 1)
           sql == IF strisnull(name) THEN SqlOn(0, window) ELSE SqlOn(1, window)
<1>1. sql \in Statements
    BY StatementType
<1>2. Ending(Get(type, sql)) /\ Get(type, sql).call # "pg_get_discovery_wide"
    BY <1>1, EndingSteps
<1>3. Script(<<Bind(param_new(name)), Get(type, sql)>>)
    BY <1>2, param_newType, BoundScript
<1> QED BY <1>3 DEF FilteredOn

\* Most of them look at columns every version has.
LEMMA FilteredAnywhere ==
    ASSUME NEW p, NEW type \in Types
    PROVE  Script(Filtered(p, type))
BY FilteredScript, WindowType DEF Filtered

\* The handlers that demand a name (PG_TABLE_CHILDREN and its like).
LEMMA RequiredScript ==
    ASSUME NEW p, NEW b, Ending(b), b.call # "pg_get_discovery_wide"
    PROVE  Script(Required(p, b))
BY RejectScript, BoundScript, param_newType DEF Required

\* pg_get_percentage binds its filter and sends one statement.
LEMMA PercentageScript ==
    ASSUME NEW column, NEW filter
    PROVE  Script(pg_get_percentage(column, filter))
<1> DEFINE sql == IF strisnull(column) THEN Sql(0) ELSE Sql(1)
<1>1. sql \in Statements
    BY StatementType
<1>2. Ending(Get(AR_DOUBLE, sql)) /\ Get(AR_DOUBLE, sql).call # "pg_get_discovery_wide"
    BY <1>1, EndingSteps DEF Types
<1>3. Script(<<Bind(param_new(filter)), Get(AR_DOUBLE, sql)>>)
    BY <1>2, param_newType, BoundScript
<1> QED BY <1>3 DEF pg_get_percentage

\* The ratios of pg_database.c, pg_table.c and pg_index.c.
LEMMA RatioScript ==
    ASSUME NEW p, NEW column
    PROVE  Script(Ratio(p, column))
BY PercentageScript DEF Ratio

\* pg_get_discovery_wide: the list of databases, then the walk over them.
LEMMA WideScript == Script(pg_get_discovery_wide(Sql(0)))
<1> DEFINE list == Step("pg_get_databases", NoType, Asking("databases"), 0)
           wide == Step("pg_get_discovery_wide", AR_STRING, Sql(0), 0)
<1>1. list \in Steps /\ list.call = "pg_get_databases"
    BY StatementType DEF Step, Steps, Calls, PgCalls, Types, Questions
<1>2. Ending(wide)
    BY StatementType, EndingSteps DEF Calls, Leading, Types
<1>3. Script(<<list, wide>>)
    BY <1>1, <1>2, TwoSteps
<1> QED BY <1>3 DEF pg_get_discovery_wide

\* The discoveries with a mode parameter: deep, shallow or refused.
LEMMA DiscoverByModeScript ==
    ASSUME NEW p
    PROVE  Script(DiscoverByMode(p))
BY WideScript, DiscoverScript, RejectScript DEF DiscoverByMode

-----------------------------------------------------------------------------
(***************************************************************************)
(* The handlers, file by file.                                             *)
(***************************************************************************)
LEMMA TypesOfValues == AR_STRING \in Types /\ AR_UINT64 \in Types /\ AR_DOUBLE \in Types
BY DEF Types

\* A value of a fixed kind for a fixed text with at most one placeholder.
LEMMA GetEnds ==
    ASSUME NEW type \in {AR_STRING, AR_UINT64, AR_DOUBLE}, NEW sql \in Statements
    PROVE  Ending(Get(type, sql)) /\ Get(type, sql).call # "pg_get_discovery_wide"
BY EndingSteps, TypesOfValues

\* The handlers of libzbxpgsql.c and pg_server.c have scripts.
LEMMA ServerHandlers ==
    ASSUME NEW p
    PROVE  /\ Script(MODVER) /\ Script(PG_CONNECT) /\ Script(PG_VERSION)
           /\ Script(PG_STARTTIME) /\ Script(PG_UPTIME)
           /\ Script(PG_PREPARED_XACTS_COUNT(p)) /\ Script(PG_PREPARED_XACTS_RATIO)
           /\ Script(PG_PREPARED_XACTS_AGE(p)) /\ Script(PG_SETTING_DISCOVERY)
<1>1. Script(MODVER) /\ Script(PG_CONNECT)
    BY StatementType, EndingSteps, OneStep DEF MODVER, PG_CONNECT, Types, Calls, Leading
<1>2. /\ Script(PG_VERSION) /\ Script(PG_STARTTIME) /\ Script(PG_UPTIME)
      /\ Script(PG_PREPARED_XACTS_RATIO)
    BY FixedScript, WindowType, TypesOfValues
       DEF PG_VERSION, PG_STARTTIME, PG_UPTIME, PG_PREPARED_XACTS_RATIO
<1>3. Script(PG_PREPARED_XACTS_COUNT(p)) /\ Script(PG_PREPARED_XACTS_AGE(p))
    BY FilteredAnywhere, TypesOfValues DEF PG_PREPARED_XACTS_COUNT, PG_PREPARED_XACTS_AGE
<1>4. Script(PG_SETTING_DISCOVERY)
    BY DiscoverScript DEF PG_SETTING_DISCOVERY
<1> QED BY <1>1, <1>2, <1>3, <1>4

\* The handlers of pg_setting.c have scripts.
LEMMA SettingHandler ==
    ASSUME NEW p
    PROVE  Script(PG_SETTING(p))
<1> DEFINE n == param_new(get_rparam(p, 1))
           step == Step("PG_SETTING", NoType, Sql(1), n)
<1>1. Ending(step)
    BY param_newType, StatementType, EndingSteps DEF Calls, PgCalls, Leading, Types
<1>2. Script(<<step>>)
    BY <1>1, OneStep
<1> QED BY <1>2, RejectScript DEF PG_SETTING

\* The handler of pg_query.c has a script for each of its keys.
LEMMA QueryHandler ==
    ASSUME NEW key \in QueryKeys, NEW p \in Seq(STRING)
    PROVE  Script(PG_QUERY(key, p))
<1> DEFINE n == Cardinality({i \in 2 .. Len(p) : ~strisnull(p[i])})
<1>1. n \in Nat /\ UserSql(p) \in Statements
    BY QueryParamsType, StatementType
<1> HIDE DEF n
<1>2. Script(<<Bind(n), Get(AR_STRING, UserSql(p))>>)
    BY <1>1, GetEnds, BoundScript
<1>3. Script(<<Bind(n), Get(AR_UINT64, UserSql(p))>>)
    BY <1>1, GetEnds, BoundScript
<1>4. Script(<<Bind(n), Get(AR_DOUBLE, UserSql(p))>>)
    BY <1>1, GetEnds, BoundScript
<1>5. Script(<<Bind(n), Discover(UserSql(p))>>)
    BY <1>1, EndingSteps, BoundScript
<1> QED BY <1>2, <1>3, <1>4, <1>5, RejectScript DEF PG_QUERY, QueryKeys, n

\* The handlers of pg_backends.c have scripts, whether or not the clause is refused.
LEMMA BackendHandlers ==
    ASSUME NEW p
    PROVE  /\ Script(PG_BACKENDS_COUNT(p)) /\ Script(PG_BACKENDS_RATIO)
           /\ Script(PG_BACKENDS_FREE) /\ Script(PG_QUERIES_LONGEST(p))
<1> DEFINE n == Cardinality(GivenFilters(p))
           count == Get(AR_UINT64, PgStatActivity(CountAsks(p), n, FilterColumns(p)))
           longest == Get(AR_DOUBLE, PgStatActivity("other", n, FilterColumns(p)))
           ratio == Get(AR_DOUBLE, PgStatActivity("backends", 0, AnyVersion))
<1>1. n \in Nat
    BY GivenFiltersType
<1> HIDE DEF n
<1>2. /\ Ending(count) /\ count.call # "pg_get_discovery_wide"
      /\ Ending(longest) /\ longest.call # "pg_get_discovery_wide"
      /\ Ending(ratio) /\ ratio.call # "pg_get_discovery_wide"
      /\ Ending(Reject) /\ Reject.call # "pg_get_discovery_wide"
    <2>1. CountAsks(p) \in Questions /\ "other" \in Questions /\ "backends" \in Questions
        BY DEF CountAsks, Questions
    <2>2. /\ PgStatActivity(CountAsks(p), n, FilterColumns(p)) \in Statements
          /\ PgStatActivity("other", n, FilterColumns(p)) \in Statements
          /\ PgStatActivity("backends", 0, AnyVersion) \in Statements
        BY <1>1, <2>1, StatementType, WindowType
    <2> QED BY <2>2, GetEnds, EndingSteps
<1>3. /\ ClauseParams(p) \in Steps /\ ClauseParams(p).call = "param_append"
      /\ pg_version \in Steps /\ pg_version.call = "pg_version"
    BY <1>1, LeadingSteps DEF ClauseParams, n
<1> HIDE DEF count, longest, ratio
<1>4. Script(<<pg_version, ClauseParams(p), count>>)
    BY <1>2, <1>3, ThreeSteps
<1>5. Script(<<pg_version, ClauseParams(p), Reject>>)
    BY <1>2, <1>3, ThreeSteps
<1>6. Script(<<ClauseParams(p), pg_version, longest>>)
    BY <1>2, <1>3, ThreeSteps
<1>7. Script(<<ClauseParams(p), Reject>>)
    BY <1>2, <1>3, TwoSteps
<1>8. Script(<<pg_version, ratio>>)
    BY <1>2, <1>3, TwoSteps
<1>9. Script(<<Get(AR_DOUBLE, Asking("free"))>>)
    BY StatementType, GetEnds, OneStep DEF Questions
<1> QED BY <1>4, <1>5, <1>6, <1>7, <1>8, <1>9
        DEF PG_BACKENDS_COUNT, PG_BACKENDS_RATIO, PG_BACKENDS_FREE, PG_QUERIES_LONGEST,
            ActivitySql, n, count, longest, ratio

\* The handlers of pg_bgwriter.c have scripts.
LEMMA BgwriterHandlers ==
    ASSUME NEW key, NEW p
    PROVE  /\ Script(PG_STAT_BGWRITER(key)) /\ Script(PG_BG_STATS_RESET_INTERVAL)
           /\ Script(PG_BG_AVG_INTERVAL) /\ Script(PG_BG_TIME_RATIO(p))
<1>1. /\ Script(FixedOn(AR_DOUBLE, Since(V9_2))) /\ Script(FixedOn(AR_DOUBLE, Since(V9_1)))
      /\ Script(FixedOn(AR_STRING, Since(V9_1))) /\ Script(FixedOn(AR_UINT64, Since(V9_1)))
      /\ Script(Fixed(AR_UINT64))
    BY FixedScript, WindowType, TypesOfValues
<1>2. Script(PG_STAT_BGWRITER(key))
    BY <1>1 DEF PG_STAT_BGWRITER
<1>3. Script(PG_BG_STATS_RESET_INTERVAL) /\ Script(PG_BG_AVG_INTERVAL)
    BY <1>1 DEF PG_BG_STATS_RESET_INTERVAL, PG_BG_AVG_INTERVAL
<1>4. Script(PG_BG_TIME_RATIO(p))
    <2>1. CASE get_rparam(p, 1) \in {"", "all", "write", "sync"}
        BY <1>1, <2>1 DEF PG_BG_TIME_RATIO
    <2>2. CASE get_rparam(p, 1) \notin {"", "all", "write", "sync"}
        BY <2>2, RejectScript DEF PG_BG_TIME_RATIO
    <2> QED BY <2>1, <2>2
<1> QED BY <1>2, <1>3, <1>4

\* The handlers of pg_database.c have scripts.
LEMMA DatabaseHandlers ==
    ASSUME NEW key, NEW p
    PROVE  /\ Script(PG_DB_DISCOVERY) /\ Script(PG_STAT_DATABASE(key, p))
           /\ Script(PG_DB_BLKS_RATIO(p)) /\ Script(PG_DB_SIZE(p))
           /\ Script(PG_DB_XID_AGE(p))
<1>1. Script(Required(p, Get(AR_STRING, SqlOn(1, Since(V9_1)))))
    BY StatementType, WindowType, GetEnds, RequiredScript
<1>2. /\ Script(FilteredOn(p, AR_DOUBLE, Since(V9_2))) /\ Script(Filtered(p, AR_UINT64))
      /\ Script(FilteredOn(p, AR_UINT64, Since(V9_2)))
      /\ Script(FilteredOn(p, AR_UINT64, Since(V9_1)))
    BY FilteredScript, FilteredAnywhere, WindowType, TypesOfValues
<1>3. Script(PG_STAT_DATABASE(key, p))
    BY <1>1, <1>2 DEF PG_STAT_DATABASE
<1> QED BY <1>2, <1>3, DiscoverScript, RatioScript
        DEF PG_DB_DISCOVERY, PG_DB_BLKS_RATIO, PG_DB_SIZE, PG_DB_XID_AGE

\* The handlers of pg_namespace.c and pg_tablespace.c have scripts.
LEMMA SpaceHandlers ==
    ASSUME NEW p
    PROVE  /\ Script(PG_NAMESPACE_DISCOVERY(p)) /\ Script(PG_NAMESPACE_SIZE(p))
           /\ Script(PG_TABLESPACE_DISCOVERY) /\ Script(PG_TABLESPACE_SIZE(p))
<1>1. Script(Required(p, Get(AR_UINT64, Sql(1))))
    BY StatementType, GetEnds, RequiredScript
<1> DEFINE sql == [Sql(0) EXCEPT !.new = Since(V9_2)]
<1>2. sql \in Statements
    BY StatementType, WindowType DEF Statements
<1> HIDE DEF sql
<1>3. Script(<<pg_version, Discover(sql)>>)
    BY <1>2, LeadingSteps, EndingSteps, TwoSteps
<1>4. Script(PG_TABLESPACE_DISCOVERY)
    BY <1>3 DEF PG_TABLESPACE_DISCOVERY, sql
<1> QED BY <1>1, <1>4, DiscoverByModeScript
        DEF PG_NAMESPACE_DISCOVERY, PG_NAMESPACE_SIZE, PG_TABLESPACE_SIZE

\* The handlers of pg_table.c have scripts.
LEMMA TableHandlers ==
    ASSUME NEW key, NEW p
    PROVE  /\ Script(PG_TABLE_DISCOVERY(p)) /\ Script(PG_TABLE_CHILDREN_DISCOVERY(p))
           /\ Script(PG_STAT_ALL_TABLES(key, p)) /\ Script(PG_TABLE_IDX_SCAN_RATIO(p))
           /\ Script(PG_STATIO_ALL_TABLES(p)) /\ Script(PG_TABLE_HEAP_BLKS_RATIO(p))
           /\ Script(PG_TABLE_IDX_BLKS_RATIO(p)) /\ Script(PG_TABLE_TOAST_BLKS_RATIO(p))
           /\ Script(PG_TABLE_TIDX_BLKS_RATIO(p)) /\ Script(PG_TABLE_SIZE(p))
           /\ Script(PG_TABLE_ROWS(p)) /\ Script(PG_TABLE_CHILDREN(p))
           /\ Script(PG_TABLE_CHILDREN_SIZE(p)) /\ Script(PG_TABLE_CHILDREN_ROWS(p))
<1>1. Script(Required(p, Get(AR_STRING, Sql(1)))) /\ Script(Required(p, Get(AR_UINT64, Sql(1))))
    BY StatementType, GetEnds, RequiredScript
<1>2. Script(Required(p, Discover(Sql(1))))
    BY StatementType, EndingSteps, RequiredScript
<1>3. /\ Script(Filtered(p, AR_UINT64)) /\ Script(FilteredOn(p, AR_UINT64, Since(V9_1)))
      /\ Script(FilteredOn(p, AR_UINT64, Since(V9_4)))
    BY FilteredScript, FilteredAnywhere, WindowType, TypesOfValues
<1>4. Script(PG_STAT_ALL_TABLES(key, p))
    BY <1>1, <1>3 DEF PG_STAT_ALL_TABLES
<1> QED BY <1>1, <1>2, <1>3, <1>4, RatioScript, DiscoverByModeScript
        DEF PG_TABLE_DISCOVERY, PG_TABLE_CHILDREN_DISCOVERY, PG_TABLE_IDX_SCAN_RATIO,
            PG_STATIO_ALL_TABLES, PG_TABLE_HEAP_BLKS_RATIO, PG_TABLE_IDX_BLKS_RATIO,
            PG_TABLE_TOAST_BLKS_RATIO, PG_TABLE_TIDX_BLKS_RATIO, PG_TABLE_SIZE,
            PG_TABLE_ROWS, PG_TABLE_CHILDREN, PG_TABLE_CHILDREN_SIZE, PG_TABLE_CHILDREN_ROWS

\* The handlers of pg_index.c have scripts.
LEMMA IndexHandlers ==
    ASSUME NEW p
    PROVE  /\ Script(PG_INDEX_DISCOVERY(p)) /\ Script(PG_STAT_ALL_INDEXES(p))
           /\ Script(PG_STATIO_ALL_INDEXES(p)) /\ Script(PG_INDEX_IDX_BLKS_RATIO(p))
           /\ Script(PG_INDEX_SIZE(p)) /\ Script(PG_INDEX_ROWS(p))
<1> DEFINE index == get_rparam(p, 1)
           sql == IF strisnull(index) THEN Sql(0) ELSE Sql(1)
           step == Step("PG_STAT_ALL_INDEXES", AR_UINT64, sql, param_new(index))
<1>1. sql \in Statements /\ param_new(index) \in Nat
    BY StatementType, param_newType
<1>2. Ending(step)
    BY <1>1, EndingSteps DEF Calls, PgCalls, Leading, Types
<1>3. Script(<<step>>)
    BY <1>2, OneStep
<1>4. Script(PG_STAT_ALL_INDEXES(p))
    BY <1>3 DEF PG_STAT_ALL_INDEXES
<1> QED BY <1>4, FilteredAnywhere, RatioScript, DiscoverByModeScript, TypesOfValues
        DEF PG_INDEX_DISCOVERY, PG_STATIO_ALL_INDEXES, PG_INDEX_IDX_BLKS_RATIO,
            PG_INDEX_SIZE, PG_INDEX_ROWS

-----------------------------------------------------------------------------
(***************************************************************************)
(* The table of keys.                                                      *)
(***************************************************************************)
LEMMA ServerScripts ==
    ASSUME NEW key \in ServerKeys, NEW p \in Seq(STRING)
    PROVE  Script(ServerScript(key, p))
BY QueryHandler, ServerHandlers, SettingHandler, BackendHandlers, BgwriterHandlers
   DEF ServerScript, ServerKeys

\* The keys of the second half of keys[], all together.
LEMMA AssetScripts ==
    ASSUME NEW key \in AssetKeys, NEW p \in Seq(STRING)
    PROVE  Script(AssetScript(key, p))
BY DatabaseHandlers, SpaceHandlers, TableHandlers, IndexHandlers DEF AssetScript, AssetKeys

\* Whatever the key and its parameters, the handler (keys[], libzbxpgsql.c) runs a
\* non-empty list of steps in which no call that leads to another is the last, and
\* binds no parameter before a deep discovery.
THEOREM HandlersWellFormed ==
    ASSUME NEW key \in keys, NEW p \in Seq(STRING)
    PROVE  Handler(key, p) \in Seq(Steps) /\ WellFormed(Handler(key, p))
<1>1. Script(Handler(key, p))
    BY ServerScripts, AssetScripts DEF Handler, keys
<1> QED BY <1>1 DEF Script
=============================================================================

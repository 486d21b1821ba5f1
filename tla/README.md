# libzbxpgsql, specified in TLA+

libzbxpgsql is a module of the Zabbix agent: a shared library whose functions the
agent's worker processes call to answer items about a PostgreSQL server. Each
call connects, sends one or more statements, turns the answer into a value or an
error, and cleans up by hand, in C, with `goto out`. The specifications here say
what such a request does to its connections, its memory and its answer when the
server, the other workers and the applications do what they like meanwhile; how
its strings reach their buffers and placeholders; how a figure of the server
becomes the agent's number and an alarm; how the module starts and its named
queries are built and searched; and what of that is checked by TLC and what is
proved by TLAPS.

## The system

| Component | Source | State | Operations |
|---|---|---|---|
| Item keys and handlers | `libzbxpgsql.c` (`keys[]`), `pg_server.c`, `pg_setting.c`, `pg_query.c`, `pg_backends.c`, `pg_bgwriter.c`, `pg_database.c`, `pg_namespace.c`, `pg_tablespace.c`, `pg_table.c`, `pg_index.c` | none between requests | one handler per key: look at the parameters, choose a text, bind strings, call one of the routines below |
| Requests | `libzbxpgsql.c` (`pg_exec`, `pg_scalar`, `pg_get_result`, `pg_get_percentage`, `pg_version`, `set_err_result`), `pg_connect.c`, `pg_params.c`, `pg_discovery.c`, and the handlers that connect by themselves (`PG_SETTING`, `PG_STAT_ALL_INDEXES`, `PG_CONNECT`) | per request: `conn`, `res`, `params`, the database list, the JSON buffer, the return code, the `AGENT_RESULT` | connect, execute, read rows, clean up at `out:` |
| PostgreSQL | external (libpq) | sessions, slots, version, databases | accept, answer, fail, crash, restart, upgrade |
| Named queries | `pg_config.c` | `query_keys`, `query_values`, `query_count` | load the file once; look a name up |
| Values | `libzbxpgsql.c` (`pg_get_result`, `pg_get_percentage`), `pg_setting.c`, `pg_index.c`, the ratio keys | none in the agent; the figures of the server | convert a text by `strtoull`, `strtod` or `atoi`; divide one sum by another |
| Parameters and placeholders | `pg_params.c`, `pg_backends.c` (`build_activity_clause`), `pg_query.c`, `libzbxpgsql.c` (`is_oid`, `is_valid_ip`) | per request: the array, the clause, the number of the next placeholder | append a string, write a condition |
| String buffers | `pg_connect.c`, `pg_discovery.c`, `libzbxpgsql.c` (`strcat2`) | per request: two blocks and the pointers into them | `build_connstring`, the list of databases and the walk over it |
| Start-up, logging | `libzbxpgsql.c` (`zbx_module_init`), `libzbxpgsql.h` (`zabbix_log`), `pg_config.c` (`init_config`) | four function pointers, the handle of `dlopen` | look the agent's functions up, log, load the configuration |
| Template | `templates/Template_PostgreSQL_Server_3.0.xml` | the Zabbix server's: the last values of an item, the state of each trigger | evaluate a trigger when a value arrives |
| Build, packaging, sample configuration | `configure.ac`, `m4/`, `conf/` | none | none |

**Interactions.** The agent hands a request to a worker process, which calls the
handler and takes the result back; a worker serves one request at a time, and
workers share nothing in memory. They meet on the server: every connection takes
one of `max_connections` slots, and `pg_stat_activity` lists all of them, the
worker's own and those of requests that have already closed theirs but whose
server process is not gone yet. A handler is itself a sequence of connections:
`pg_version` opens and closes one before the statement whose text depends on it,
and `pg_get_discovery_wide` opens one to list the databases and one more for each.
The named queries are loaded before the agent forks and are read-only afterwards,
by the last step of `zbx_module_init`. What a worker answers goes to the Zabbix
server, whose triggers see a figure only as it was at the polls that succeeded.

**What is hard about it.**

- *Partial failure.* Any connection or statement can fail, the n-th of a deep
  discovery included. What is closed, what is freed, what is in the result?
- *Pointers across iterations.* `pg_get_discovery_wide` finishes `conn` inside the
  loop and at `out:`, and leaves `res` dangling; `pg_exec` frees an array its
  caller keeps a pointer to.
- *Stale answers.* The version and the list of databases were true over another
  connection, a moment ago. The server may have been upgraded, the database dropped.
- *Observing oneself.* Counting backends over a connection that is a backend.
- *Limits.* Slots run out between two connections of the same request.
- *Loops.* The walk over the databases, the insertion sort and the binary search
  must end, and stay inside their arrays; the walk is bounded by a second
  terminator that an earlier routine has to leave there.
- *Order of strings.* Placeholders are numbered when the text is built, strings are
  bound by position, and empty ones disappear on the way.
- *Widths and forms of numbers.* A bigint read into an int, a real printed in E
  notation, a negative number in an unsigned result, SQL's NULL and its division.
- *No timer.* `zbx_module_item_timeout` ignores the agent's timeout: a libpq call
  that never returns keeps its worker and its slot.
- *Sampling.* A figure can leap over both limits of a trigger between two polls.
- *A logger not found yet.* The module reports failures through a function whose
  lookup may be what failed.

**What makes each part correct.**

- Handlers: the number of bound strings matches the text sent, and of two texts the
  one is sent that the server asked understands.
- Requests: at most one connection at a time and none left behind; nothing freed
  is used; what remains allocated is known exactly; one answer, a value or a
  message; a deep discovery lists every database or fails; a count of backends
  never misses an application; every request is answered.
- String buffers: nothing outside a block is touched; libpq is given the options, a
  blank and the database; each database is visited whole and once.
- Placeholders: every condition is compared with its own string.
- Values: the agent reports the server's figure; a counter never runs back; a ratio
  is a share, and the ratio of all is between those of each.
- Start-up: no function is called that was not found; a refusal is reported; the log
  has what the agent's level asks for.
- Template: an alarm comes when its text says so, and is true.
- Named queries: the array is sorted and without holes, the search finds exactly
  what the file names, both routines end, a bad file stops the agent.

## Modules

| Module | Models |
|---|---|
| `ItemKeys` | every key of `keys[]` and its handler, as a pure function from the request's parameters to a *script*: the sequence of calls that touch memory, a connection or the answer |
| `Postgres` | the server (external): slots, sessions, exit of a session's process, applications, crash, restart with upgrade, databases that come and go |
| `Requests` | each worker running the script of its request, one action per libpq call, with the pointers it keeps and the blocks it allocates |
| `ItemService` | abstract: one request, one connection and one answer at a time per worker |
| `DatabaseWalk` | abstract: a walker is given a set of databases, visits each once, and is complete when none is left |
| `RequestsRefinement` | the mappings under which `Requests` implements both |
| `CStrings` | NUL-terminated strings in blocks, `strcat2`, the pieces of a connection string |
| `DatabaseList` | the list of databases in its block, the walk over it and the connection strings built from it; shown to implement `DatabaseWalk` too |
| `Placeholders` | `build_activity_clause` and `PG_QUERY` with the strings themselves; extends `ItemKeys`, whose counts it checks |
| `NamedQueries` | loading and searching the table of named queries, one action per loop iteration |
| `Startup` | `zbx_module_init` and the `zabbix_log` macro, composed with `NamedQueries` |
| `Values` | what the server prints for a figure and what C reads from it: operators, and the actions of a figure and a poll |
| `Alarms` | composes `Values` with a server that stops and starts and the template's triggers |
| `Ratios` | the ratio queries as the server evaluates them, over counters that move |
| `MCRequests`, `MCDatabaseList`, `MCPlaceholders`, `MCAlarms` | instances for TLC |
| `ItemKeysProofs` | theorems: the shape of every handler's script |
| `RequestsProofs`, `AnswersProofs` | theorems about requests, each part resting on the one before: connections and pointers; what is sent; what is answered, what is left behind, and the two refinements |
| `DatabaseListProofs` | theorems: the list, the walk and the connection strings, and the refinement |
| `PlaceholdersProofs` | theorems: which string reaches which placeholder, and that the scripts count right |
| `StartupProofs` | theorems: the table of named queries and its search; the start of the module |
| `RatiosProofs` | theorems: what a sum over the assets is, and the ratios |
| `AlarmsProofs` | theorems: what is printed reads back as the number it was; the values received, and the alarms |

### How they correspond to the code

**`ItemKeys`.** A handler's early returns and choices depend only on the
parameters of the request, so a handler is an operator that yields its calls in
order. `set_err_result` in a script is a refused request; `param_append` carries
the number of strings it adds (none for an empty one); a call of `pg_get_result`,
`pg_get_discovery` and the like carries its statement. A statement is reduced to
what the properties tell apart: the numbers of parameters it accepts (`holes`),
the releases on which the text for servers before 9.2 and the one for later servers
parse (`old`, `new`), and the question it asks. `Filtered`, `Required`, `Ratio` and
`DiscoverByMode` are the shapes most handlers share.

*Releases.* A window goes from the release that brought the last of the text's columns
to the one that dropped the first of them, between 9.0 and 9.6. Most columns are
older. The handlers ask for the version only for `pid` and `state` of
`pg_stat_activity` and the location of a tablespace (9.2); nothing guards
`client_hostname`, `vacuum_count` and its kin, `conflicts`, `stats_reset` and
`buffers_backend_fsync` (9.1), the times of checkpoints and blocks, `temp_files`,
`temp_bytes` and `deadlocks` (9.2), `n_mod_since_analyze` (9.4), or `waiting` (gone in
9.6). These windows are in the scripts (`FixedOn`, `FilteredOn`, `FilterColumns`), and on
a server outside of one `QueryFails` is all that can happen to the statement.

*Queries of the user.* The text of `pg.query.*` is the user's, given or named; the
constant `HolesIn` says how many placeholders each text has, and what is not in its domain
is no statement. The key's parameters may be too few, and empty ones are dropped, so a
text may have more placeholders than strings are bound: the statement then fails.
`Addresses` are the strings that `inet_pton` accepts.

**`Requests`.** `pc[w]` is where worker `w` stands: `call` (at the next step of
its script), `exec` (connected, about to send), `out` (at `out:`), `loop` and
`next` (the head of `pg_get_discovery_wide`'s loop and the clean-up that ends an
iteration), `done`, `idle`. The routines share their actions:

| Action | Code |
|---|---|
| `Connect` | `pg_connect_request` in `pg_scalar`, `pg_get_discovery`, `pg_get_databases`, `PG_SETTING`, `PG_STAT_ALL_INDEXES` |
| `PgConnect` | `PG_CONNECT`, which turns a failure into the value 0 |
| `QueryFails`, `NoRows` | `pg_exec` and the checks of its result |
| `ScalarRow`, `DatabaseRows`, `DiscoveryRows`, `CopiedRow` | `pg_exec` and what each routine does with its rows |
| `Close` | `out:`, and what the caller does with the return code |
| `WideBegin` ... `WideClose` | `pg_get_discovery_wide` |
| `RejectRequest`, `ModuleVersion`, `param_append` | steps without a server |
| `Receive`, `Deliver` | the agent |

The code between two libpq calls is sequential and touches only the worker's own
memory, so it is one step with the call that precedes it. `heap[w]` counts blocks
by kind, and `conn`, `res` and `params` are `NULL`, `live` or `dangling`: a
pointer that was freed and not reset is `dangling`, whatever its value. Three
variables are history, read by properties only: `found` (databases whose rows are
in the JSON), `seen` (what the server held when a count ran) and `steady`
(databases connectable throughout the request).

**`Postgres`.** `PQfinish` returns before the server process is gone: the session
moves to `exiting` and keeps its slot until `BackendExit`. A crash drops every
session; a worker notices at its next statement, which fails. Any connection and
any statement may also fail for no modelled reason.

*Counts.* `Figures` is what the server may answer to a question. `AllBackends` leaves out
the asking session and nobody else; with filters the answer is any number of the sessions
left (`MatchingBackends`; `Placeholders` says which they are); `FreeBackends` has the
asking session among those used, for the query of `pg.backends.free` has no "+1" in spite
of the comment at `pg_backends.c:251`.

**`NamedQueries`.** A name is a number and `strcmp` its order; a query is the
position of its entry in the file, so that a query stored under another's name is
told apart. `Shift` and `Compare` are one iteration each of `add_named_query` and
`get_query_by_name`; `ReadFile` is `config_read_file`. `uninit_config` changes nothing. libconfig refuses two settings of the same name in
one group, so entries have distinct names.

**`CStrings` and `DatabaseList`.** A text is the sequence of its characters, each
reduced to the word it belongs to (`options`, `blank`, `dbname=`, a database), so
that lengths, order and completeness are kept and spelling is not. A block has
`Slack` foreign cells behind it: a write past the end shows. `Measure` and `Copy`
are one iteration each of the two loops of `pg_get_databases`, `AppendPiece` one
call of `strcat2` in `build_connstring`, `Visit` and `Advance` the head of
`pg_get_discovery_wide`'s loop. Rows arrive in any order.

**`DatabaseWalk`** has two implementations. In `Requests` the list is a set and the
mapping follows each worker's deep discovery through connections, failures and
clean-up; in `DatabaseList` the list is a block of characters, and what is left to
visit is read from the cells behind `db`. One covers what the other abstracts.

**`Placeholders`.** The scripts of `ItemKeys` count strings; here `params` is the
array itself, `NULL` cells included, and `clause` the conditions with the
placeholders they name. `is_oid` and `is_valid_ip` are memberships. What is found is
the rows of `pg_stat_activity` for which every condition holds, what is asked for
follows from the key's parameters alone.

**`Values`.** A figure is counted in hundredths; the server prints it by its SQL type,
a `real` of too many digits in E notation without trailing zeros; `strtoull`,
`strtol` and `atoi` read digits up to the first other character and saturate or keep
low bits as C does on a machine of `IntBits` and `LongBits`. `Answer` is the
conversion each handler picks: `pg_get_int`, `pg_get_dbl`, or its own.
`StartOver` also makes the figure NULL, as a sum over no rows is.

**`Alarms`.** One item is watched in a behaviour, chosen at the start, for no trigger
reads two. `ReceiveValue` is a poll that succeeds, with the evaluation of the item's
triggers that follows it; polls that fail change nothing. A trigger expression that
reads its own last state (`{TRIGGER.VALUE}`) is an operator of that state. Items
without a trigger are there for their conversion.

**`Startup`.** The agent exports any subset of the names the module looks up
(`agent`). Each step of `zbx_module_init` is an action; a message is written or not
by the two ways of asking for the level that the macro combines, and written through
a pointer that is NULL it is a crash. `ReadConfig` is a step of `NamedQueries`.
Afterwards handlers log (`MODVER`, `PG_QUERY`, `set_err_result`), and the agent's
level may be changed at run time. `handle` is what `dlopen` returned: a start refused for
want of `__zbx_zabbix_log` returns without `dlclose` (`libzbxpgsql.c:211-215`).

**`Ratios`.** A column that an asset does not have is NULL; `Sum`, `Plus` and `Over` are
SQL's. Hits and misses count up, assets come, go, gain and lose columns.

## What is checked

| Run | Question | Instance |
|---|---|---|
| `items` | is every handler right, alone, whatever the server does? does it implement the service and the walk, and always answer? | 1 worker, every key with and without a name, every mode and filter that changes a script; 2 databases; versions 9.0, 9.2 and 9.6; 2 slots |
| `workers` | does it stay right when workers compete, and one of them hangs? | 2 workers, one of them silent; a deep discovery and a count; 1 database; 2 slots |
| `database_list` | is every string whole and inside its block? | 3 databases with names of 1 and 2 characters, in any order; options absent, empty or of 2 characters; every `dbname` |
| `placeholders` | does every placeholder get its own string? | 16 backends (2 databases, 2 users, 2 clients); every subset of the filters in OID, name, address and host form; up to 3 parameters of `pg.query.*`, empty ones among them |
| `startup` | does every agent start it right, with every file? is the table right? | all 64 sets of exported names, 2 log levels, 5 names, up to 4 entries in any order, strings or not, six shapes of file |
| `alarms` | does the number arrive, and does the alarm? | 11 items, one per type, conversion and trigger; figures on both sides of every boundary |
| `ratios` | are the ratios shares, NULLs included? | 3 assets, counters up to 2 |
| `count_monitoring`, `rows_e_notation`, `index_counter`, `prepared_alarm`, `xid_alarm` | do comments, change log and template describe the code? (they do not; see below) | one key each, or `alarms` with one property |

Properties of `Requests`:

- `OneConnection`: at most one `PGconn` per worker, none between routines, and never a
  server session without one: every path to `out:` finishes the connection once.
- `PointersSafe`: what is used or freed at each label has not been freed.
- `LeakLedger`: exactly which blocks a finished request may leave. A success leaves
  only the copies of `PG_SETTING` and `PG_STAT_ALL_INDEXES`; a failure also the
  parameters no statement was sent with, and in a deep discovery the JSON buffer
  and the last result.
- `AnswerWellFormed`: a value and no message or a message and no value; only an
  unknown setting fails without one.
- `WideComplete`: a deep discovery that succeeds has rows of every database
  connectable from its start to its end.
- `BindMatches`: as many strings are bound as the text has placeholders, for every text
  the module writes. A query of the user may have more or fewer.
- `StatementFitsVersion`: if either text of a statement parses on the server, the one
  sent does, unless the server was upgraded since the version was asked; no filter
  makes the choice go wrong. A statement with one text is sent whatever the release, and
  fails where a column is missing: the property does not say that it parses. 9.2 itself
  is in the instance, being the boundary.
- `CountsApplications`: a count of all backends never misses an application, and is
  exact when no other monitoring session exists; a filtered one may miss any, and when
  no other monitoring session exists counts applications only; the free backends leave
  out every application and the session that asks.
- `ImplementsService`, `ImplementsWalk`: refinement.
- `EveryRequestAnswered`: liveness, for the workers whose own libpq calls return.

Properties of the other modules:

- `DatabaseList`: `StaysInBlock` (types; no cell outside a block read or written),
  `ConnectsAsMeant` (libpq reads the options, a blank and the database),
  `VisitsEveryDatabase`, `ImplementsWalk` (with its fairness: the walk ends).
- `Placeholders`: `ParamsTypeOK` (with the array terminated where its strings end, and nowhere
  before), `FindsWhatIsAsked` (the sessions found are those
  asked for, whichever filters are given), `QueryParamsInOrder`, `ScriptAgrees` (the
  counts in `ItemKeys` are right).
- `NamedQueries`: `TableSorted` (sorted, without holes, each name with its own query),
  `SearchSound` (never an empty slot in the window, never the name outside it),
  `LookupCorrect`, `StartsOnGoodConfigOnly`, `LookupReturns`.
- `Startup`: `StartTypeOK` (with `TypeOK` of `NamedQueries`, and `HandleOK`: the handle is
  open from `dlopen` to the last lookup and closed afterwards, or left open by the one
  refusal that does not close it), `NeverCallsNull` (by the
  start, or by a handler of a module that serves), `RefusalReported`, `LogsAtLevel`
  (either symbol gives the same log), `StartEnds`.
- `Values` and `Alarms`: `ReportsFigure` (outside three stated exceptions the agent
  reports the figure), `NeverRunsBack` (no width, form or fraction makes a counter
  jump back), `XidsWatched` (a value above the warning leaves an alarm on, however the
  age leaps, but for one of exactly the critical limit that finds the trigger for near
  exhaustion off; see `xid_alarm`), `AlarmsAreTrue` (a restart or an unreachable server
  was one).
- `Ratios`: `RatioIsShare`, `TotalBetween` (the ratio of all is between the smallest
  and the largest), `HitsRaiseMissesLower`.

**Bounds, and why they are enough.** Scripts are data, and `items` runs all of
them. Two databases give a first iteration, one that follows another and a failure
in either; a third repeats the second. One worker suffices for what concerns its
own memory, the server being arbitrary. The versions are one before every window, the
boundary 9.2, and one after every window has closed or opened; the other workers are to it what
`AppConnect`, `BackendExit` and a refused connection already are, and `workers`
checks this with two. `max_connections` bounds the applications; with two slots a
request can be the only session, share the server, or be refused. Four entries
make the search take every branch with windows of four, three, two and one, and give the
insertion empty slots, larger names and smaller ones to pass.
Three names in the list give a first, a middle and a last, and three foreign cells
behind a block are more than one iteration could overrun it by.
`Values` scales the machine down: `int` has 4 bits, `long` 10, a `real` prints two
significant digits, and transaction IDs are exhausted near half of `long`, with
limits of 500 and 510 for the template's 2137 and 2146 millions. The figures are those
on both sides of each boundary (`MCFigures`); between them nothing changes. Counters
up to 2 make every order of two ratios possible, three assets a total that is
neither one's own.
Every count in the model is bounded by these constants; no state constraint is used.

**Fairness.** `FairSpec` of `Requests` assumes weak fairness of each worker outside
`Silent`: the agent keeps its worker running, and its libpq calls return. The code
sets no timer of its own (`zbx_module_item_timeout` ignores the agent's), so the
second is an assumption on libpq and the network, and a worker for which it fails
may stand still for ever, at any step and with whatever it holds; `workers` has
one, and shows that the other answers all the same, with an error if there is no slot
left. No fairness is assumed of the server, the applications or the agent's requests.
`DatabaseList` assumes that its loops run and its calls return; `NamedQueries` and
`Startup` that `zbx_module_init` and a search, once called, run to their end. The
agent need never look anything up. `Values`, `Alarms`, `Placeholders` and `Ratios`
promise nothing eventually and assume nothing.

**Deadlock** is checked in every run; nothing in the system waits on anything.

### What comments and change log say, and the code does not

- `count_monitoring`: `ChangeLog:10` says monitoring connections are not counted;
  only the asking session is left out. The one `pg_version` has just closed is
  counted if its process is still exiting.
- `rows_e_notation`: the conversion of E notation (`libzbxpgsql.c:407`) looks for a
  point as the second character; a round mantissa has none, and `1e+06` rows are
  reported as 1.
- `index_counter`: a statistic of an index goes through `atoi` and is wrong beyond
  `int` (`pg_index.c:201`).
- `prepared_alarm`: no trigger covers prepared transactions at or above the critical
  limit unless the one for near exhaustion was on before; a leap over both limits is
  silent.
- `xid_alarm`: one trigger on the age of transaction IDs turns on strictly below the
  critical limit (template, line 5756), the other strictly above it (5744). An age that
  leaps to the limit itself, or comes back to it from above with the first trigger off,
  has no alarm, where the text of the first promises one for less than 10 million IDs
  left (5761).

More were met while modelling, and need no run. The comment of `params`
(`pg_backends.c:154`, `292`) has it freed in `pg_exec`; a refused `<waiting>`, or a
connection that fails, means `pg_exec` is not reached and nobody frees it, as
`LeakLedger` has it. `pg_backends.c:281` says that `pg.queries.longest` needs 9.2, and the
handler has a text for older servers, as `ChangeLog:22` announces; the fixes of
`ChangeLog:49` for servers before 9.2 do not reach the statistics without such a text
(above). `PG_SETTING` fails without a
message when the setting does not exist (`pg_setting.c:116`), though `ChangeLog:9`
announces messages for failed requests; `AnswerWellFormed` names this exception. The
comment at `pg_backends.c:251` explains a +1 the query does not have. A negative integer
setting is read as unsigned (`pg_setting.c:126`), the exception `Negative` of
`ReportsFigure`. `pg_namespace.c:94` calls the schema of `pg.namespace.size` optional,
and the handler refuses to do without (`:111`).

## What is proved

Every theorem is about the specifications that the runs check, for all values of the
constants that satisfy the assumptions of their modules:

| Assumption | Says |
|---|---|
| `PostgresAssumption` | versions are positive and have at most six digits, and there is one; there is at least one slot |
| `HolesAssumption` | a query of the user has a number of placeholders |
| `ItemsAssumption` | requests have a key of `keys[]` and a sequence of strings |
| `NoDbAssumption` (`Requests`, `DatabaseList`) | "no database" is none of the databases |
| `NamesAssumption`, `CharactersAssumption` (`DatabaseList`) | a name has at least one character, and no character is a terminator |
| `BoundsAssumption`, `NullAssumption`, `SlackAssumption` | lengths are naturals; NULL is no text; a block has foreign cells behind it |
| `RequestsAssumption`, `NullAssumption` (`Placeholders`) | requests have a key of one of the two loops and a sequence of strings; NULL is no string |
| `BackendsAssumption` | OIDs are not taken for names, nor addresses for hosts |
| `NamesAssumption` (`NamedQueries`), `LevelsAssumption` | names are numbers ordered as `strcmp` orders them; log levels are the agent's |
| `RatiosAssumption` | there are finitely many assets, and counters have a bound; NULL is neither a number nor a fraction |
| `ValuesAssumption` | an `int` has at least one bit and no more than a `long`; a `real` prints at least one digit; figures are integers, 0 among them; NULL is no number |
| `FiguresAssumption` | whatever is counted fits 64 bits, rounded or not |
| `AlarmsAssumption` | the limits are naturals, the warnings below the critical ones; `pg.connect` is 0 or 1 |

No theorem assumes a number of workers or databases, a size of the file, a length of a
name, a number of parameters of a query, a kind of agent, a number of assets, a width of
C's types or a number of digits. In particular the small machine on which `alarms` checks
the conversions is one of those the theorems are about, and so are 32 and 64 bits, with
the template's limits.

| Theorem | Module | States |
|---|---|---|
| `HandlersWellFormed` | `ItemKeysProofs` | every handler's script is well formed, whatever its parameters |
| `InductiveInvariant` | `RequestsProofs` | `Spec => []IInv` |
| `TypeCorrect`, `OneConnectionAlways`, `PointersSafeAlways` | `RequestsProofs` | `[]TypeOK` (as counts are naturals, nothing is freed or closed more often than it was obtained), `[]OneConnection`, `[]PointersSafe` |
| `HandlersSound` | `RequestsProofs` | what a handler binds is what its statement takes, and it asks for the version before a text that depends on it |
| `SentInvariant` | `RequestsProofs` | `Spec => []SentInv` |
| `BindMatchesAlways`, `StatementFitsVersionAlways`, `CountsApplicationsAlways` | `RequestsProofs` | the three properties of what is sent and counted |
| `ServedInvariant` | `AnswersProofs` | `Spec => []ServedInv` |
| `AnswerWellFormedAlways`, `LeakLedgerAlways`, `WideCompleteAlways` | `AnswersProofs` | the three properties of a finished request |
| `ImplementsItemService`, `ImplementsDatabaseWalk` | `AnswersProofs` | `Spec => Service!Spec`, `Spec => Walk!Spec` |
| `InductiveInvariant` | `DatabaseListProofs` | `Spec => []ListInv` |
| `StaysInBlockAlways`, `ConnectsAsMeantAlways`, `VisitsEveryDatabaseAlways`, `ImplementsDatabaseWalk` | `DatabaseListProofs` | the three properties, and `Spec => Walk!Spec` |
| `PlaceholderInvariant` | `PlaceholdersProofs` | `Spec => []PInv` |
| `TypeCorrect`, `FindsWhatIsAskedAlways`, `QueryParamsInOrderAlways`, `ScriptAgreesAlways` | `PlaceholdersProofs` | the four properties |
| `InductiveInvariant` | `StartupProofs` | `Spec => []Inv` |
| `TypeCorrect`, `TableSortedAlways`, `SearchSoundAlways`, `LookupCorrectAlways`, `StartsOnGoodConfig` | `StartupProofs` | the properties of the table and the search |
| `StartsNamedQueries`, `StartInvariant` | `StartupProofs` | `StartSpec => Spec` of `NamedQueries`; `StartSpec => []StartInv` |
| `StartTypeCorrect`, `NeverCallsNullAlways`, `RefusalReportedAlways`, `LogsAtLevelAlways`, `ServesNamedQueries` | `StartupProofs` | the properties of the start; those of the table hold in the agent that serves |
| `RatiosAreShares`, `AllIsBetween`, `HitsRaise` | `RatiosProofs` | `[]RatioIsShare`, `[]TotalBetween`, and the action property `HitsRaiseMissesLower` |
| `AlarmsInvariant` | `AlarmsProofs` | `AlarmSpec => []AlarmInv` |
| `AlarmTypes`, `FiguresReported`, `CountersNeverRunBack` | `AlarmsProofs` | `[]AlarmTypeOK`, `[]ReportsFigure`, and the action property `NeverRunsBack` |
| `XidsAlwaysWatched`, `AlarmsTellTheTruth` | `AlarmsProofs` | the action property `XidsWatched`, and `[]AlarmsAreTrue` |

### The argument

Hardly any property is inductive by itself. Each proof but that of the ratios, whose types
suffice, has an invariant that is, one
lemma per action that says the action keeps it, and a theorem that reads the property
off. The inductive invariants were first checked by TLC on the instances of the runs;
being proved, they are not among the properties the runs check.

**Connections and pointers (`IInv`).** A block can be freed only because it was allocated
on the path that led here, so `IInv` adds, for each worker, what each label knows:
`LabelInv` (which routine can be there, and that what is left of the script is well
formed), `ConnInv` (the pointer, the handle and the session agree), `ParamsInv` and
`BlocksInv` (a live pointer has its block; where each may dangle). `WellFormed` is what
the labels need to know of a script: it is not empty, a call that only leads to the next
is not the last, and a deep discovery binds no parameters. The last matters: `pg_exec`
frees the parameters, so a bound deep discovery would send the second database what the
first had freed. It is a property of the handlers, proved key by key, and preserved as
the script shortens (`RestOfScript`); `OneWorkerSteps` reduces each step to the worker
that moves.

**Statements (`SentInv`).** That a statement gets its parameters is a property of the whole
script, not of a label: `Fits` says that a statement gets what is bound already, or what the
one `param_append` before it binds, and that its text has that many placeholders, unless it is the user's;
`AsksFirst` that a text chosen by version comes after a call of `pg_version`; `Tidy` and
`Plain` that a script that binds leads to no routine that would free the strings and go
on. Each handler's script has these (`HandlersSound`), and they
survive each step. For `CountsApplications`, `SlotsInv` counts: every slot is an
application's, an exiting process's or a worker's whose session lives, so one worker's
session is one slot among the others whatever their number.

**Answers (`ServedInv`).** `AnswerInv` is what the `AGENT_RESULT` holds at each label,
`HeapInv` the exact number of blocks of each kind, `WideInv` that every steady database is
still on the list, is the current one, or has its rows in the JSON. `LeakLedger` and
`AnswerWellFormed` are the two read at `done`, `WideComplete` the third.

**Refinements.** A lemma says which change of a worker's phase each action can make
(`PhaseSteps`), and which change of its walk (`WalkStep`); a second one that such a change
of one worker, with the others standing still, is a step of the abstract specification
(`WalkLifts`). `ServedInv` is needed for the walk: what is listed is not empty, and what
is visited is on the list.

**The list of databases (`ListInv`).** The block is described by where each name ends: an
offset for each row, with the cells between two offsets a name and a terminator. These
offsets are sums of lengths; the invariant carries them as an existential, extended by
`Measure` one name at a time and kept by `Copy`, and no sum has to be defined. While copying, the part not copied yet still fits into
what was measured; on the walk, the pointer is at the start of a name or at the second
terminator, and `VisitsEveryDatabase` is kept as it is. That there is a row at all had to
be carried along, or the walk might start in a block of one cell. For `Walk!Spec`,
`BlockIsSet` reads the block from the pointer on as the set of databases left.

**Placeholders (`PInv`).** The array is an abstract sequence of non-empty strings and its
terminator (`Terminated`), and `param_len` finds the length of that sequence. Before the
`j`-th parameter the conditions written leave in exactly the sessions that the parameters
before it leave in (`ClauseAt`), with as many placeholders as strings and as many strings
as filters; a condition written earlier does not see a string appended later
(`OldConditions`). For a query, the strings come from increasing places that leave out
empty parameters only (`QueryAt`). `ScriptAgrees` ties these loops to the counts in
`ItemKeys`, so that `BindMatchesAlways` speaks of the strings themselves.

**The table (`Inv`) and the start (`StartInv`).** During an insertion the filled slots are
all but one hole, and everything above the hole is larger than the name to be inserted
(`ContentsInv`); between insertions the hole is gone and the slots are the entries read so
far, so sortedness comes from `Holds` alone. The search keeps the name inside its window
whenever the table has it. The start adds which pointers have been looked up at each
stage (`PointersInv`); as each of its steps is a step of `NamedQueries` or a stutter, all
that is proved of the table holds of the agent.

**Induction over data.** The library's induction theorems take an operator as a parameter,
which no installed prover can instantiate. What `Ratios` sums and `Values` prints is
therefore proved by least counterexample, which is first-order: the set of the numbers
(`LeastNumber`), or of the subsets of a finite set (`LeastSubset`), for which a statement
fails is a set like any other, and by well-foundedness it has a least member unless it is
empty. `Induct`, `StrongInduct` and `Recursion` (a function defined from its smaller
arguments exists) follow from it. That a recursive function satisfies its own definition
is one of the things proved (`TensIs`, `DigitsAre`), as is that a fold does (`NumberIs`,
`NumberExists`, `NumberUnique`).

**Ratios.** A sum takes the rows with a number and is NULL if there is none; `TotalStep`
says what one more row adds. `TotalWeighted` is the induction the rest stands on: if `k`
times one column is at most `m` times the other in every row, so it is for the sums. For
`AllIsBetween` suppose that every asset's own ratio is above that of all: weighted with
the sums `P` and `R` of the two columns, each row then has `P * rest < R * part`, or is
empty, and adding the rows up gives `P * R < R * P`. An asset with a NULL has the ratio
0, which is above nothing, so that all rows have numbers or the case is settled. The upper
bound adds up the rows that have both columns; those that lack one only make the
second sum larger (`TotalOfFewer`). `HitsRaise` compares a sum before and after one of its
columns grew (`TotalRaised`).

**Figures.** The heart of `ReportsFigure` is that reading undoes printing, for every number
and every width. `DigitsSay`: the digits of a number read as the number, and the first is not
0. `DecimalReads`: so does a text with no, one or two decimals. `ScientificReads`: a mantissa without its trailing zeros, times the power of ten in the
exponent, is the number the server rounded to (`ZerosCount`). `InRange`: `strtoull`, `strtol`
and `atoi` do not saturate below their limits. The limits are powers of two, of which
arithmetic knows nothing for an exponent that is not a constant; `Twos` has them as the
number of the subsets of a set, which a new element doubles. `AnswerMeans` composes these,
item by item, outside the three stated exceptions.

**Alarms (`AlarmInv`).** A trigger reads values received, and the properties speak of
figures, so the invariant ties the two: `AnswerOfAsked` (the answer is what the handler makes
of the figure at the last poll; `ReportsFigure` follows), `LastIsAnswer` (the newest value
kept is that answer), `Grown` (the figure of a counter that has not started over is not
below the one asked last; needed for `NeverRunsBack` together with `AnswerMeans`), and the
types, by which no value a trigger compares is negative. `AlarmsAreTrue` is then kept by
each step (`AlarmsNext`), for only `ReceiveValue` moves a trigger, and it evaluates it on
the values that it leaves; `XidsWatched` is what that evaluation gives (`XidsReceived`).

### Only model-checked

- *Liveness, fairness and `ENABLED`*, outside the prover's reach: `EveryRequestAnswered`,
  `LookupReturns`, `StartEnds`, and the fairness that `ImplementsService` and the two
  `ImplementsWalk` ask for beyond the `Spec` that is proved of them.
- *The disagreements* below "What comments and change log say": a counterexample is what TLC
  is for.

Every invariant and every action property that a passing run checks is a theorem.

## Not modelled

- SQL: texts are reduced as described; what a query computes is the server's business,
  the ratios excepted. The text that `PG_INDEX_DISCOVERY` puts together, and the
  fixed buffers (`MAX_STRING_LEN`) that `zbx_snprintf` cuts texts to, are left out.
- What releases before 9.0 lacked and releases after 9.6 changed (the columns that
  `pg_stat_bgwriter` lost in 17, for one): the windows do not record it.
- A database or user whose name is made of digits: the filter takes it for an OID,
  and `BackendsAssumption` excludes it.
- The ratios of the background writer: they divide durations, not counts.
- Out of memory: `zbx_malloc` ends the agent.
- The template's other triggers (each compares one value with a limit), its items,
  graphs and discovery rules: data for the Zabbix server.
- Build and packaging: no run-time behaviour.

## Plan

Order, most important behaviour first:

1. *Done:* `ItemKeys`, `Postgres`, `Requests`; the runs `items` and `workers`; the
   inductive invariant and the theorems on types, connections and pointers.
2. *Done:* `ItemService` and the refinement, checked; `NamedQueries`, checked.
3. *Done:* `CStrings`, `DatabaseList` and `DatabaseWalk`; `Placeholders`; `Values`,
   `Ratios` and `Alarms`; `Startup`; workers that hang. Checked.
4. *Done:* proofs about requests: what is sent, what is answered and left behind, and the
   refinements of `ItemService` and `DatabaseWalk`.
5. *Done:* proofs about the table and the start, for any file and any agent.
6. *Done:* proofs about the list of databases, for names of any length, and about
   placeholders, for any strings and sessions.
7. *Done:* proofs about ratios, for any assets and counters, and about conversions and
   alarms, for any figures, widths and limits.
8. Left: names made of digits, a case of its own in `Placeholders`; the fixed buffers, once
   a statement's length matters.

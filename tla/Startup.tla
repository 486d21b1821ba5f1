------------------------------ MODULE Startup ------------------------------
(***************************************************************************)
(* zbx_module_init, and the zabbix_log macro the module has from then on.  *)
(* The module calls the agent through four pointers it looks up by name;   *)
(* which names there are depends on the agent's version.  The last step of *)
(* the start is NamedQueries, whose failures are logged and refuse it.     *)
(***************************************************************************)
EXTENDS NamedQueries

CONSTANT Levels     \* the values of DebugLevel tried

\* log.h of the agent; INFORMATION is written at every level.
LOG_LEVEL_EMPTY == 0
LOG_LEVEL_ERR == 2
LOG_LEVEL_DEBUG == 4
LOG_LEVEL_INFORMATION == 127

ASSUME LevelsAssumption == Levels \subseteq LOG_LEVEL_EMPTY .. 5 /\ Levels # {}

VARIABLES
    agent,      \* the names the agent exports; "dlopen" stands for the agent itself
    env,        \* PGCONFIGFILE: unset or of a length that "fits", or "too long"
    level,      \* the agent's log level
    stage,      \* the next statement of zbx_module_init, or what became of it
    handle,     \* "NULL", "open" or "closed"
    real_zabbix_check_log_level, real_zbx_log_level, real_zabbix_log, zbx_snprintf,
    last        \* history: the last message, where it went and at which level

agentVars == <<agent, env, level>>
pointers  == <<real_zabbix_check_log_level, real_zbx_log_level, real_zabbix_log, zbx_snprintf>>
startVars == <<agentVars, stage, handle, pointers, last>>
allVars   == <<vars, startVars>>

Symbols == {"dlopen", "zabbix_check_log_level", "zbx_log_level", "__zbx_zabbix_log",
            "zbx_snprintf", "__zbx_zbx_snprintf"}

Stages == {"dlopen", "levels", "logger", "snprintf", "path", "announce", "config",
           "serving", "refused", "crash"}

NoPointer == "NULL"

StartInit ==
    /\ Init
    /\ agent \in SUBSET Symbols
    /\ env \in {"fits", "too long"}
    /\ level \in Levels
    /\ stage = "dlopen" /\ handle = "NULL"
    /\ real_zabbix_check_log_level = NoPointer /\ real_zbx_log_level = NoPointer
    /\ real_zabbix_log = NoPointer /\ zbx_snprintf = NoPointer
    /\ last = [to |-> "nowhere", level |-> LOG_LEVEL_EMPTY, written |-> FALSE, at |-> 0]

-----------------------------------------------------------------------------
(***************************************************************************)
(* Logging.                                                                *)
(***************************************************************************)
Found(pointer) == pointer # NoPointer

\* The agent's own rule, which zabbix_check_log_level applies.
Loggable(lv) == lv = LOG_LEVEL_INFORMATION \/ (lv <= level /\ lv # LOG_LEVEL_EMPTY)

\* Seeded fault: INFORMATION is a level like the others.
ByNumber(lv) == lv > level \/ lv = LOG_LEVEL_EMPTY
BeyondLevel(lv) == lv # LOG_LEVEL_INFORMATION /\ (lv > level \/ lv = LOG_LEVEL_EMPTY)

Written(lv) ==
    /\ Found(real_zabbix_check_log_level) => Loggable(lv)
    /\ Found(real_zbx_log_level) => ~BeyondLevel(lv)

Message(to, lv, written) == last' = [to |-> to, level |-> lv, written |-> written, at |-> level]

\* A message is written through real_zabbix_log; then the start goes on at next.
zabbix_log(lv, next) ==
    /\ Message("log", lv, Written(lv))
    /\ stage' = IF Written(lv) /\ ~Found(real_zabbix_log) THEN "crash" ELSE next

stderr(next) == Message("stderr", LOG_LEVEL_EMPTY, TRUE) /\ stage' = next

-----------------------------------------------------------------------------
(***************************************************************************)
(* zbx_module_init.                                                        *)
(***************************************************************************)
dlsym(name) == IF name \in agent THEN name ELSE NoPointer

Dlopen ==
    /\ stage = "dlopen"
    /\ IF "dlopen" \in agent THEN /\ handle' = "open" /\ stage' = "levels"
                                  /\ UNCHANGED last
                             ELSE /\ stderr("refused") /\ UNCHANGED handle
    /\ UNCHANGED <<vars, agentVars, pointers>>

\* Without either the module goes on, and logs everything.
FindLevels ==
    /\ stage = "levels"
    /\ real_zabbix_check_log_level' = dlsym("zabbix_check_log_level")
    /\ real_zbx_log_level' = dlsym("zbx_log_level")
    /\ IF agent \intersect {"zabbix_check_log_level", "zbx_log_level"} = {}
       THEN stderr("logger") ELSE stage' = "logger" /\ UNCHANGED last
    /\ UNCHANGED <<vars, agentVars, handle, real_zabbix_log, zbx_snprintf>>

NoLogger == stderr("refused")

FindLogger ==
    /\ stage = "logger"
    /\ real_zabbix_log' = dlsym("__zbx_zabbix_log")
    /\ IF "__zbx_zabbix_log" \in agent THEN stage' = "snprintf" /\ UNCHANGED last
                                       ELSE NoLogger
    /\ UNCHANGED <<vars, agentVars, handle, real_zabbix_check_log_level, real_zbx_log_level,
                   zbx_snprintf>>

\* Seeded fault: a module without zbx_snprintf starts all the same.
StartAnyway == "path"
NoSnprintf == "refused"

Dlclosed == "closed"

FindSnprintf ==
    /\ stage = "snprintf"
    /\ zbx_snprintf' = IF "zbx_snprintf" \in agent THEN "zbx_snprintf"
                       ELSE dlsym("__zbx_zbx_snprintf")
    /\ IF Found(zbx_snprintf') THEN stage' = "path" /\ UNCHANGED last
                               ELSE zabbix_log(LOG_LEVEL_ERR, NoSnprintf)
    /\ handle' = Dlclosed
    /\ UNCHANGED <<vars, agentVars, real_zabbix_check_log_level, real_zbx_log_level,
                   real_zabbix_log>>

getPGCONFIGFILE ==
    /\ stage = "path"
    /\ IF env = "too long" THEN zabbix_log(LOG_LEVEL_ERR, "announce")
                           ELSE stage' = "announce" /\ UNCHANGED last
    /\ UNCHANGED <<vars, agentVars, handle, pointers>>

init_config ==
    /\ stage = "announce"
    /\ zabbix_log(LOG_LEVEL_INFORMATION, "config")
    /\ UNCHANGED <<vars, agentVars, handle, pointers>>

\* Seeded fault: a configuration that is refused is not reported.
RefusedSilently == stage' = "refused" /\ UNCHANGED last
ConfigRefused == zabbix_log(LOG_LEVEL_ERR, "refused")

\* read_config, one step of NamedQueries at a time; no file can be opened by a path that
\* is NULL.
ReadConfig ==
    /\ stage = "config"
    /\ Run
    /\ pc = "file" /\ env = "too long" => root' = <<"error">>
    /\ CASE pc' = "refused" -> ConfigRefused
         [] pc' = "ready"   -> stage' = "serving" /\ UNCHANGED last
         [] OTHER           -> UNCHANGED <<stage, last>>
    /\ UNCHANGED <<agentVars, handle, pointers>>

-----------------------------------------------------------------------------
(***************************************************************************)
(* Afterwards: handlers log as they enter, and build texts with            *)
(* zbx_snprintf; the agent's level may be changed while it runs.           *)
(***************************************************************************)
PG_QUERY ==
    /\ stage = "serving" /\ pc \in {"ready", "returned"}
    /\ Lookup
    /\ zabbix_log(LOG_LEVEL_DEBUG, "serving")
    /\ UNCHANGED <<agentVars, handle, pointers>>

Search ==
    /\ stage = "serving" /\ Run
    /\ UNCHANGED startVars

MODVER ==
    /\ stage = "serving" /\ pc \in {"ready", "returned"}
    /\ zabbix_log(LOG_LEVEL_DEBUG, IF Found(zbx_snprintf) THEN "serving" ELSE "crash")
    /\ UNCHANGED <<vars, agentVars, handle, pointers>>

set_err_result ==
    /\ stage = "serving" /\ pc = "returned"
    /\ zabbix_log(LOG_LEVEL_ERR, "serving")
    /\ UNCHANGED <<vars, agentVars, handle, pointers>>

ChangeLevel ==
    /\ stage = "serving"
    /\ level' \in Levels
    /\ UNCHANGED <<vars, agent, env, stage, handle, pointers, last>>

zbx_module_init ==
    \/ Dlopen \/ FindLevels \/ FindLogger \/ FindSnprintf
    \/ getPGCONFIGFILE \/ init_config \/ ReadConfig

StartNext ==
    \/ zbx_module_init \/ PG_QUERY \/ Search \/ MODVER \/ set_err_result
    \/ ChangeLevel
    \/ stage \in {"refused", "crash"} /\ UNCHANGED allVars

StartSpec == StartInit /\ [][StartNext]_allVars

\* The agent calls zbx_module_init once and waits for it; a search runs to its end.
FairStartSpec == StartSpec /\ WF_allVars(zbx_module_init \/ Search)

-----------------------------------------------------------------------------
\* The handle is open from dlopen to the last lookup; a start refused for want of
\* __zbx_zabbix_log returns without dlclose.
HandleOK ==
    handle = IF stage = "dlopen" \/ "dlopen" \notin agent THEN "NULL"
             ELSE IF stage \in {"levels", "logger", "snprintf"} \/ "__zbx_zabbix_log" \notin agent
             THEN "open" ELSE "closed"

StartTypeOK ==
    /\ TypeOK
    /\ agent \subseteq Symbols /\ env \in {"fits", "too long"} /\ level \in Levels
    /\ stage \in Stages
    /\ HandleOK
    /\ {real_zabbix_check_log_level, real_zbx_log_level, real_zabbix_log, zbx_snprintf}
           \subseteq agent \union {NoPointer}
    /\ last \in [to : {"nowhere", "stderr", "log"}, written : BOOLEAN, at : Levels \union {0},
                 level : {LOG_LEVEL_EMPTY, LOG_LEVEL_ERR, LOG_LEVEL_DEBUG,
                          LOG_LEVEL_INFORMATION}]

\* Whatever the agent exports, no pointer is called that was not found: neither by the
\* start's own messages, in the order of its lookups, nor by any handler of a module that
\* serves.
NeverCallsNull == stage # "crash"

\* A start that is refused has just said so, on stderr before the logger is found and in
\* the log after it, unless the agent's level silences errors.
RefusalReported ==
    stage = "refused" =>
        \/ last.to = "stderr"
        \/ /\ last.to = "log" /\ last.level = LOG_LEVEL_ERR
           /\ last.written \/ last.at < LOG_LEVEL_ERR

\* ZBX-10889 replaced one symbol by the other: with either of them the module's log has
\* the messages the agent's level of the moment asks for, and with neither it has all.
LogsAtLevel ==
    last.to = "log" =>
        LET agrees == last.level = LOG_LEVEL_INFORMATION \/ last.level <= last.at
        IN  last.written <=> \/ agrees
                             \/ ~Found(real_zabbix_check_log_level) /\ ~Found(real_zbx_log_level)

\* zbx_module_init returns.
StartEnds == <>(stage \in {"serving", "refused"})
=============================================================================

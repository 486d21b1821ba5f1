---------------------------- MODULE NamedQueries ----------------------------
(***************************************************************************)
(* The named queries of the configuration file (pg_config.c): loaded once, *)
(* before the agent forks its workers, into two parallel arrays kept       *)
(* sorted by name, and then looked up by binary search for pg.query.*.     *)
(*                                                                         *)
(* A name is a natural number, strcmp its order.  NULL is an empty slot.   *)
(* A query is the position of its entry in the file, so that a query held  *)
(* under another entry's name is told apart.                               *)
(***************************************************************************)
EXTENDS Integers, Sequences

CONSTANTS Names,        \* names an entry or a request may have
          MaxEntries    \* bound on the entries of a configuration

ASSUME NamesAssumption == Names \subseteq Nat /\ MaxEntries \in Nat

NULL == -1

VARIABLES
    root,           \* the settings at the top level of the file, in order
    entries,        \* the elements of the "queries" group: [name, string]
    pc,
    setting,        \* read_config's i
    entry,          \* read_config_queries's i, from 1
    slot,           \* add_named_query's i
    query_count, query_keys, query_values,
    key, bottom, top, found     \* get_query_by_name's argument, locals and result

fileVars  == <<root, entries>>
tableVars == <<query_count, query_keys, query_values>>
searchVars == <<key, bottom, top, found>>
vars == <<fileVars, pc, setting, entry, slot, tableVars, searchVars>>

\* libconfig refuses two elements of one name in a group.
Groups ==
    {g \in UNION {[1 .. n -> [name: Names, string: BOOLEAN]] : n \in 0 .. MaxEntries} :
        \A i, j \in DOMAIN g : g[i].name = g[j].name => i = j}

\* What config_read_file may find; "error" stands for a file it cannot read or parse,
\* "scalar" for a setting named queries that is not a group, "other" for any other name.
Roots == {<<"error">>, <<>>, <<"queries">>, <<"scalar">>, <<"queries", "other">>,
          <<"other", "queries">>}

Init ==
    /\ root = <<>> /\ entries = <<>>
    /\ pc = "file" /\ setting = 1 /\ entry = 1 /\ slot = 0
    /\ query_count = 0 /\ query_keys = <<>> /\ query_values = <<>>
    /\ key = NULL /\ bottom = 0 /\ top = -1 /\ found = NULL

-----------------------------------------------------------------------------
(***************************************************************************)
(* Loading.  A failure anywhere makes zbx_module_init return               *)
(* ZBX_MODULE_FAIL, and the agent does not start ("refused").              *)
(***************************************************************************)
ReadFile ==
    /\ pc = "file"
    /\ root' \in Roots
    /\ entries' \in IF \E i \in DOMAIN root' : root'[i] = "queries" THEN Groups ELSE {<<>>}
    /\ pc' = "settings"
    /\ UNCHANGED <<setting, entry, slot, tableVars, searchVars>>

ReadSetting ==
    /\ pc = "settings" /\ setting <= Len(root)
    /\ IF root[setting] = "queries"
       THEN /\ pc' = "entries" /\ entry' = 1
            /\ query_count' = Len(entries)
            /\ query_keys' = [i \in 0 .. Len(entries) |-> NULL]
            /\ query_values' = [i \in 0 .. Len(entries) |-> NULL]
       ELSE /\ pc' = "refused"
            /\ UNCHANGED <<entry, tableVars>>
    /\ UNCHANGED <<fileVars, setting, slot, searchVars>>

ConfigRead ==
    /\ pc = "settings" /\ setting > Len(root)
    /\ pc' = "ready"
    /\ UNCHANGED <<fileVars, setting, entry, slot, tableVars, searchVars>>

\* Seeded fault: the type of an element is not looked at.
AnyElement(e) == TRUE
IsString(e) == e.string

ReadEntry ==
    /\ pc = "entries"
    /\ IF entry > query_count
       THEN pc' = "settings" /\ setting' = setting + 1 /\ UNCHANGED slot
       ELSE /\ UNCHANGED setting
            /\ IF IsString(entries[entry])
               THEN pc' = "shift" /\ slot' = query_count - 1
               ELSE pc' = "refused" /\ UNCHANGED slot
    /\ UNCHANGED <<fileVars, entry, tableVars, searchVars>>

\* Seeded fault: the order reversed.
ShiftsDown(name, other) == other = NULL \/ name > other
Shifts(name, other) == other = NULL \/ name < other

\* Seeded fault: the loop does not count down.
SameSlot(i) == i
SlotBelow(i) == i - 1

\* One round of the loop of add_named_query.
Shift ==
    /\ pc = "shift"
    /\ slot >= 0 /\ Shifts(entries[entry].name, query_keys[slot])
    /\ query_keys' = [query_keys EXCEPT ![slot + 1] = query_keys[slot], ![slot] = NULL]
    /\ query_values' = [query_values EXCEPT ![slot + 1] = query_values[slot], ![slot] = NULL]
    /\ slot' = SlotBelow(slot)
    /\ UNCHANGED <<fileVars, pc, setting, entry, query_count, searchVars>>

\* Seeded fault: the query is left in the slot of the last shift.
PutBeside(array, i, x) == [array EXCEPT ![IF i = -1 THEN 0 ELSE i] = x]
Put(array, i, x) == [array EXCEPT ![i + 1] = x]

Insert ==
    /\ pc = "shift"
    /\ ~(slot >= 0 /\ Shifts(entries[entry].name, query_keys[slot]))
    /\ query_keys' = [query_keys EXCEPT ![slot + 1] = entries[entry].name]
    /\ query_values' = Put(query_values, slot, entry)
    /\ entry' = entry + 1
    /\ pc' = "entries"
    /\ UNCHANGED <<fileVars, setting, slot, query_count, searchVars>>

-----------------------------------------------------------------------------
(***************************************************************************)
(* Looking a query up.                                                     *)
(***************************************************************************)
Lookup ==
    /\ pc \in {"ready", "returned"}
    /\ key' \in Names
    /\ bottom' = 0 /\ top' = query_count - 1 /\ found' = NULL
    /\ pc' = "search"
    /\ UNCHANGED <<fileVars, setting, entry, slot, tableVars>>

mid == (bottom + top) \div 2

\* Seeded faults: the window keeps the element just compared; it loses the next one;
\* it grows downwards.
KeepMiddle(m) == m
SkipOne(m) == m + 2
BelowMiddle(m) == m - 1
Above(m) == m + 1

Compare ==
    /\ pc = "search" /\ bottom <= top
    /\ CASE query_keys[mid] = key -> /\ found' = query_values[mid]
                                     /\ pc' = "returned"
                                     /\ UNCHANGED <<bottom, top>>
         [] query_keys[mid] > key -> top' = mid - 1 /\ UNCHANGED <<bottom, found, pc>>
         [] query_keys[mid] < key -> bottom' = Above(mid) /\ UNCHANGED <<top, found, pc>>
    /\ UNCHANGED <<fileVars, setting, entry, slot, tableVars, key>>

NotFound ==
    /\ pc = "search" /\ bottom > top
    /\ pc' = "returned"
    /\ UNCHANGED <<fileVars, setting, entry, slot, tableVars, searchVars>>

Run == ReadFile \/ ReadSetting \/ ConfigRead \/ ReadEntry \/ Shift \/ Insert \/ Compare \/ NotFound

\* An agent whose module refused to start does nothing more.
Next == Run \/ Lookup \/ (pc = "refused" /\ UNCHANGED vars)

Spec == Init /\ [][Next]_vars

-----------------------------------------------------------------------------
TypeOK ==
    /\ root \in Roots /\ entries \in Groups
    /\ pc \in {"file", "settings", "entries", "shift", "ready", "search", "returned",
               "refused"}
    /\ setting \in Nat /\ entry \in 1 .. Len(entries) + 1
    /\ query_count \in 0 .. Len(entries)
    /\ slot \in -1 .. Len(entries)
    /\ key \in Names \union {NULL}
    /\ found \in DOMAIN entries \union {NULL}
    /\ bottom \in Nat /\ top \in Int
    /\ query_keys = <<>> \/ query_keys \in [0 .. query_count -> Names \union {NULL}]
    /\ query_values = <<>> \/ query_values \in [0 .. query_count -> Nat \union {NULL}]

\* Between two insertions the first slots hold the entries read so far, in the order
\* of their names and each with its own query, and the rest are empty.
TableSorted ==
    pc \in {"entries", "ready", "search", "returned"} /\ query_keys # <<>> =>
        LET filled == 0 .. (entry - 2)
        IN  /\ \A i \in 0 .. query_count : query_keys[i] = NULL <=> i \notin filled
            /\ \A i, j \in filled : i < j => query_keys[i] < query_keys[j]
            /\ \A i \in filled : /\ query_values[i] \in 1 .. (entry - 1)
                                 /\ entries[query_values[i]].name = query_keys[i]

\* The search never compares with an empty slot, and a name that has a query never
\* leaves the window it is looked for in.
SearchSound ==
    pc = "search" =>
        /\ bottom >= 0 /\ top < query_count
        /\ \A i \in bottom .. top : query_keys[i] # NULL
        /\ \A i \in 0 .. query_count - 1 :
              query_keys[i] = key => i \in bottom .. top

\* A lookup returns the query the file gives the name, and NULL exactly when there is
\* none; the caller then runs the name itself as SQL.
LookupCorrect ==
    pc = "returned" =>
        LET named == {i \in DOMAIN entries : query_count > 0 /\ entries[i].name = key}
        IN  IF named = {} THEN found = NULL ELSE found \in named

\* libzbxpgsql.conf: "Syntax errors in the config file will prevent Zabbix from starting."
\* The module starts only on a file whose every setting and query is accepted.
StartsOnGoodConfigOnly ==
    pc \in {"ready", "search", "returned"} =>
        /\ root \in {<<>>, <<"queries">>}
        /\ root = <<"queries">> => \A i \in DOMAIN entries : entries[i].string

\* Every lookup returns.
LookupReturns == pc = "search" ~> pc = "returned"
=============================================================================

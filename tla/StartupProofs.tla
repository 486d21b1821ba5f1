--------------------------- MODULE StartupProofs ----------------------------
(***************************************************************************)
(* The start of the module and its query table, for an agent that exports  *)
(* any of the symbols, at any log level, with a configuration of any size  *)
(* and any names. First what the two arrays of pg_config.c hold while they *)
(* are filled and searched: while an entry is inserted the array has a     *)
(* hole that moves down; everything above the hole has a greater name than *)
(* the entry. Then the start: with the lookups that follow it, it is a     *)
(* behaviour of NamedQueries, so what holds of the table there holds here  *)
(* too.                                                                    *)
(***************************************************************************)
EXTENDS Startup, SequenceTheorems, TLAPS

Loaded ==
    /\ query_count = Len(entries)
    /\ query_keys \in [0 .. query_count -> Names \union {NULL}]
    /\ query_values \in [0 .. query_count -> Nat \union {NULL}]

NotLoaded == query_count = 0 /\ query_keys = <<>> /\ query_values = <<>> /\ entry = 1

\* The slots filled hold the first entry - 1 entries, all of them, in order.
Holds(filled) ==
    /\ \A i \in 0 .. query_count : query_keys[i] = NULL <=> i \notin filled
    /\ \A i, j \in filled : i < j => query_keys[i] < query_keys[j]
    /\ \A i \in filled : /\ query_values[i] \in 1 .. (entry - 1)
                         /\ entries[query_values[i]].name = query_keys[i]
    /\ \A e \in 1 .. (entry - 1) : \E i \in filled : query_values[i] = e

Hole == IF slot + 1 < entry - 1 THEN slot + 1 ELSE entry - 1

\* Every setting passed is the group of queries; only a loaded table has one behind it.
SettingsInv ==
    /\ setting >= 1
    /\ pc = "file" => setting = 1
    /\ pc # "refused" => \A i \in 1 .. setting - 1 : root[i] = "queries"
    /\ pc \in {"entries", "shift"} =>
          setting = 1 /\ setting <= Len(root) /\ root[1] = "queries"
    /\ pc \in {"settings", "ready", "search", "returned"} =>
          setting <= Len(root) + 1 /\ (setting = 1 <=> NotLoaded)
    /\ pc \in {"ready", "search", "returned"} => setting = Len(root) + 1

LoadInv ==
    /\ NotLoaded \/ Loaded
    /\ pc = "file" => NotLoaded /\ entries = <<>>
    /\ pc \in {"entries", "shift"} => Loaded
    /\ Loaded /\ pc \in {"settings", "ready", "search", "returned"} => entry = query_count + 1

\* Between insertions the filled slots are the first; during one there is the hole.
ContentsInv ==
    /\ Loaded /\ pc \notin {"shift", "refused"} => Holds(0 .. (entry - 2))
    /\ pc = "shift" =>
          /\ entry <= query_count /\ slot < query_count
          /\ Holds((0 .. (entry - 1)) \ {Hole})
          /\ \A i \in Hole + 1 .. entry - 1 : query_keys[i] > entries[entry].name

\* Every entry read so far was a string.
StringsInv ==
    /\ pc # "refused" => \A i \in 1 .. entry - 1 : entries[i].string
    /\ pc = "shift" => entries[entry].string

SearchInv ==
    /\ SearchSound /\ LookupCorrect
    /\ pc \in {"search", "returned"} => key \in Names
    /\ pc = "search" => found = NULL

Inv == TypeOK /\ SettingsInv /\ LoadInv /\ ContentsInv /\ StringsInv /\ SearchInv

-----------------------------------------------------------------------------
(***************************************************************************)
(* The data: groups of queries, roots, and the tables' types.              *)
(***************************************************************************)

\* A group is a sequence of elements no two of which have one name.
LEMMA GroupType ==
    ASSUME NEW g \in Groups
    PROVE  /\ Len(g) \in Nat /\ DOMAIN g = 1 .. Len(g)
           /\ \A i \in 1 .. Len(g) : g[i].name \in Names /\ g[i].string \in BOOLEAN
           /\ \A i, j \in 1 .. Len(g) : g[i].name = g[j].name => i = j
<1>1. PICK n \in 0 .. MaxEntries : g \in [1 .. n -> [name : Names, string : BOOLEAN]]
  BY DEF Groups
<1>2. n \in Nat
  BY NamesAssumption
<1>3. g \in Seq([name : Names, string : BOOLEAN])
  BY <1>1, <1>2, SeqDef
<1>4. DOMAIN g = 1 .. Len(g) /\ Len(g) \in Nat
  BY <1>3, LenProperties
<1>5. \A i \in DOMAIN g : g[i] \in [name : Names, string : BOOLEAN]
  BY <1>1
<1>6. \A i, j \in DOMAIN g : g[i].name = g[j].name => i = j
  BY DEF Groups
<1> QED
  BY <1>4, <1>5, <1>6

\* A root has at most two settings, and at most one of them is the group of queries.
LEMMA RootType ==
    ASSUME NEW r \in Roots
    PROVE  /\ Len(r) \in Nat
           /\ Len(r) > 0 /\ r[1] = "queries" => r = <<"queries">> \/ (Len(r) = 2 /\ r[2] # "queries")
           /\ Len(r) = 0 => r = <<>>
BY DEF Roots

\* A name is a number, and an empty slot has none.
LEMMA NameType == Names \subseteq Nat /\ NULL \notin Names /\ NULL \notin Nat
BY NamesAssumption DEF NULL

\* A table that is loaded has at least one slot, so it is not the missing one.
LEMMA LoadedTable ==
    ASSUME Loaded, entries \in Groups
    PROVE  query_keys # <<>> /\ query_count \in Nat /\ ~NotLoaded
<1>1. query_count \in Nat
  BY GroupType DEF Loaded
<1>2. DOMAIN query_keys = 0 .. query_count /\ 0 \in 0 .. query_count
  BY <1>1 DEF Loaded
<1>3. DOMAIN <<>> = {}
  OBVIOUS
<1> QED
  BY <1>1, <1>2, <1>3 DEF NotLoaded

-----------------------------------------------------------------------------
(***************************************************************************)
(* Loading preserves the invariant.                                        *)
(***************************************************************************)
LEMMA InitInv == Init => Inv
<1> SUFFICES ASSUME Init PROVE Inv
  OBVIOUS
<1> USE NamesAssumption DEF Init
<1>1. <<>> \in Groups
  <2>1. <<>> \in [1 .. 0 -> [name : Names, string : BOOLEAN]]
    OBVIOUS
  <2> QED
    BY <2>1 DEF Groups
<1>2. TypeOK
  BY <1>1 DEF TypeOK, Roots, NULL
<1>3. NotLoaded /\ ~Loaded
  BY <1>1, LoadedTable DEF NotLoaded
<1>4. SettingsInv
  BY <1>3 DEF SettingsInv
<1>5. LoadInv
  BY <1>3 DEF LoadInv
<1>6. ContentsInv
  BY <1>3 DEF ContentsInv
<1>7. StringsInv /\ SearchInv
  BY DEF StringsInv, SearchInv, SearchSound, LookupCorrect
<1> QED
  BY <1>2, <1>4, <1>5, <1>6, <1>7 DEF Inv

LEMMA ReadFileInv == Inv /\ ReadFile => Inv'
<1> SUFFICES ASSUME Inv, ReadFile PROVE Inv'
  OBVIOUS
<1> USE DEF ReadFile, tableVars, searchVars
<1>1. root' \in Roots /\ entries' \in Groups
  <2>1. <<>> \in Groups
    BY NamesAssumption, InitInv DEF Groups
  <2> QED
    BY <2>1
<1>2. NotLoaded /\ NotLoaded' /\ setting = 1 /\ ~Loaded'
  <2>1. NotLoaded /\ NotLoaded' /\ setting = 1
    BY DEF Inv, LoadInv, SettingsInv, NotLoaded
  <2> QED
    BY <2>1, <1>1, GroupType DEF Loaded, NotLoaded
<1>3. TypeOK'
  <2>1. Len(entries') \in Nat
    BY <1>1, GroupType
  <2>2. found = NULL /\ slot \in -1 .. 0
    BY DEF Inv, LoadInv, TypeOK
  <2> QED
    BY <1>1, <1>2, <2>1, <2>2 DEF Inv, TypeOK, NotLoaded
<1>4. SettingsInv'
  BY <1>1, <1>2, RootType DEF SettingsInv
<1>5. LoadInv' /\ ContentsInv'
  BY <1>2 DEF LoadInv, ContentsInv
<1>6. StringsInv' /\ SearchInv'
  BY <1>2 DEF StringsInv, NotLoaded, SearchInv, SearchSound, LookupCorrect
<1> QED
  BY <1>3, <1>4, <1>5, <1>6 DEF Inv

LEMMA ReadSettingInv == Inv /\ ReadSetting => Inv'
<1> SUFFICES ASSUME Inv, ReadSetting PROVE Inv'
  OBVIOUS
<1> USE DEF ReadSetting, fileVars, tableVars, searchVars
<1>1. root \in Roots /\ entries \in Groups /\ Len(entries) \in Nat
  BY GroupType DEF Inv, TypeOK
<1>2. CASE root[setting] = "queries"
  <2>1. setting = 1 /\ root[1] = "queries"
    BY <1>1, <1>2, RootType DEF Inv, SettingsInv, TypeOK
  <2>2. Loaded' /\ ~NotLoaded'
    BY <1>1, <1>2, LoadedTable DEF Loaded, NotLoaded
  <2>3. TypeOK'
    BY <1>1, <1>2, <2>2 DEF Inv, TypeOK, Loaded
  <2>4. SettingsInv' /\ LoadInv'
    BY <1>2, <2>1, <2>2 DEF SettingsInv, LoadInv
  <2>5. Holds(0 .. (entry - 2))'
    BY <1>1, <1>2 DEF Holds
  <2>6. ContentsInv' /\ StringsInv' /\ SearchInv'
    BY <1>2, <2>5 DEF ContentsInv, StringsInv, SearchInv, SearchSound, LookupCorrect
  <2> QED
    BY <2>3, <2>4, <2>6 DEF Inv
<1>3. CASE root[setting] # "queries"
  <2>1. TypeOK'
    BY <1>3 DEF Inv, TypeOK
  <2>2. SettingsInv' /\ LoadInv'
    BY <1>3 DEF Inv, SettingsInv, LoadInv, Loaded, NotLoaded
  <2>3. ContentsInv' /\ StringsInv' /\ SearchInv'
    BY <1>3 DEF ContentsInv, StringsInv, SearchInv, SearchSound, LookupCorrect
  <2> QED
    BY <2>1, <2>2, <2>3 DEF Inv
<1> QED
  BY <1>2, <1>3

\* What stays when neither the table nor the file changes.
LEMMA SameTable ==
    ASSUME UNCHANGED <<root, entries, tableVars, entry>>
    PROVE  /\ Loaded' <=> Loaded
           /\ NotLoaded' <=> NotLoaded
           /\ \A filled : Holds(filled)' <=> Holds(filled)
BY DEF tableVars, Loaded, NotLoaded, Holds

LEMMA ConfigReadInv == Inv /\ ConfigRead => Inv'
<1> SUFFICES ASSUME Inv, ConfigRead PROVE Inv'
  OBVIOUS
<1> USE DEF ConfigRead, fileVars, tableVars, searchVars
<1>1. TypeOK'
  BY DEF Inv, TypeOK
<1>2. SettingsInv' /\ LoadInv'
  BY RootType, SameTable DEF Inv, SettingsInv, LoadInv, TypeOK
<1>3. ContentsInv'
  BY SameTable DEF Inv, ContentsInv
<1>4. StringsInv' /\ SearchInv'
  BY DEF Inv, StringsInv, SearchInv, SearchSound, LookupCorrect
<1> QED
  BY <1>1, <1>2, <1>3, <1>4 DEF Inv

LEMMA ReadEntryInv == Inv /\ ReadEntry => Inv'
<1> SUFFICES ASSUME Inv, ReadEntry PROVE Inv'
  OBVIOUS
<1> USE DEF ReadEntry, fileVars, tableVars, searchVars
<1>1. /\ entries \in Groups /\ Len(entries) \in Nat /\ entry \in 1 .. Len(entries) + 1
      /\ Loaded /\ ~NotLoaded /\ query_count = Len(entries) /\ setting = 1
      /\ Holds(0 .. (entry - 2))
  BY GroupType, LoadedTable DEF Inv, TypeOK, LoadInv, Loaded, SettingsInv, ContentsInv
<1>2. CASE entry > query_count
  <2>1. TypeOK'
    BY <1>2 DEF Inv, TypeOK
  <2>2. SettingsInv' /\ LoadInv'
    BY <1>1, <1>2, SameTable, RootType DEF Inv, SettingsInv, LoadInv, TypeOK
  <2>3. ContentsInv' /\ StringsInv' /\ SearchInv'
    BY <1>1, <1>2, SameTable
       DEF Inv, ContentsInv, StringsInv, SearchInv, SearchSound, LookupCorrect
  <2> QED
    BY <2>1, <2>2, <2>3 DEF Inv
<1>3. CASE entry <= query_count /\ IsString(entries[entry])
  <2>1. TypeOK'
    BY <1>1, <1>3 DEF Inv, TypeOK
  <2>2. UNCHANGED <<root, entries, tableVars, entry, setting>> /\ pc' \in {"shift", "refused"}
    BY <1>1, <1>3
  <2>3. SettingsInv'
    BY <1>1, <2>2, SameTable DEF Inv, SettingsInv
  <2>4. LoadInv'
    BY <1>1, <2>2, SameTable DEF Inv, LoadInv
  <2>5. Hole' = entry - 1 /\ (0 .. (entry - 1)) \ {Hole'} = 0 .. (entry - 2)
    BY <1>1, <1>3 DEF Hole
  <2>6. Holds((0 .. (entry - 1)) \ {Hole})'
    BY <1>1, <2>2, <2>5 DEF Holds
  <2>7. ContentsInv'
    BY <1>1, <1>3, <2>5, <2>2, <2>6 DEF ContentsInv
  <2>8. StringsInv' /\ SearchInv'
    BY <1>1, <1>3 DEF Inv, StringsInv, SearchInv, SearchSound, LookupCorrect, IsString
  <2> QED
    BY <2>1, <2>3, <2>4, <2>7, <2>8 DEF Inv
<1>4. CASE entry <= query_count /\ ~IsString(entries[entry])
  <2>1. TypeOK'
    BY <1>1, <1>4 DEF Inv, TypeOK
  <2>2. UNCHANGED <<root, entries, tableVars, entry, setting>> /\ pc' \in {"shift", "refused"}
    BY <1>1, <1>4
  <2>3. SettingsInv'
    BY <1>1, <2>2, SameTable DEF Inv, SettingsInv
  <2>4. LoadInv'
    BY <1>1, <2>2, SameTable DEF Inv, LoadInv
  <2>5. ContentsInv' /\ StringsInv' /\ SearchInv'
    BY <1>1, <1>4 DEF ContentsInv, StringsInv, SearchInv, SearchSound, LookupCorrect
  <2> QED
    BY <2>1, <2>3, <2>4, <2>5 DEF Inv
<1> QED
  BY <1>1, <1>2, <1>3, <1>4

\* What a name found during an insertion says: where the hole is and what is below it.
LEMMA BelowHole ==
    ASSUME Inv, pc = "shift"
    PROVE  /\ entries \in Groups /\ Len(entries) \in Nat /\ query_count = Len(entries)
           /\ entry \in 1 .. query_count /\ slot \in -1 .. query_count - 1
           /\ Loaded /\ ~NotLoaded
           /\ entries[entry].name \in Nat
           /\ \A i \in 0 .. query_count : query_keys[i] \in Names \union {NULL}
           /\ Hole \in 0 .. entry - 1
           /\ slot >= 0 /\ query_keys[slot] # NULL => Hole = slot + 1
           /\ slot >= entry - 1 => query_keys[slot] = NULL
           /\ slot < entry - 1 => Hole = slot + 1
           /\ slot >= 0 /\ slot < entry - 1 => query_keys[slot] \in Names
<1>1. /\ entries \in Groups /\ query_count = Len(entries)
      /\ entry \in 1 .. Len(entries) + 1 /\ entry <= query_count
      /\ slot \in -1 .. Len(entries) /\ slot < query_count
      /\ Loaded
      /\ Holds((0 .. (entry - 1)) \ {Hole})
  BY DEF Inv, TypeOK, LoadInv, Loaded, ContentsInv
<1>2. Len(entries) \in Nat /\ ~NotLoaded
  BY <1>1, GroupType, LoadedTable
<1>3. entries[entry].name \in Nat
  <2>1. entry \in 1 .. Len(entries)
    BY <1>1, <1>2
  <2>2. entries[entry].name \in Names
    BY <1>1, <2>1, GroupType
  <2> QED  BY <2>2, NameType
<1>4. \A i \in 0 .. query_count : query_keys[i] \in Names \union {NULL}
  BY <1>1 DEF Loaded
<1>5. Hole \in 0 .. entry - 1 /\ (slot < entry - 1 => Hole = slot + 1)
      /\ (slot >= entry - 1 => Hole = entry - 1)
  BY <1>1, <1>2 DEF Hole
<1>6. \A i \in 0 .. query_count : query_keys[i] = NULL <=> i \notin (0 .. (entry - 1)) \ {Hole}
  BY <1>1 DEF Holds
<1>7. slot >= 0 /\ query_keys[slot] # NULL => Hole = slot + 1
  BY <1>1, <1>2, <1>5, <1>6
<1>8. slot >= entry - 1 => query_keys[slot] = NULL
  BY <1>1, <1>2, <1>5, <1>6
<1>9. slot >= 0 /\ slot < entry - 1 => query_keys[slot] \in Names
  BY <1>1, <1>2, <1>4, <1>5, <1>6
<1> QED
  BY <1>1, <1>2, <1>3, <1>4, <1>5, <1>7, <1>8, <1>9

LEMMA ShiftInv == Inv /\ Shift => Inv'
<1> SUFFICES ASSUME Inv, Shift PROVE Inv'
  OBVIOUS
<1> DEFINE name == entries[entry].name
           filled == (0 .. (entry - 1)) \ {Hole}
<1> USE DEF fileVars, searchVars
<1>1. /\ pc = "shift" /\ pc' = "shift" /\ slot >= 0 /\ slot' = slot - 1
      /\ query_keys[slot] = NULL \/ name < query_keys[slot]
      /\ query_keys' = [query_keys EXCEPT ![slot + 1] = query_keys[slot], ![slot] = NULL]
      /\ query_values' = [query_values EXCEPT ![slot + 1] = query_values[slot], ![slot] = NULL]
      /\ UNCHANGED <<fileVars, pc, setting, entry, query_count, searchVars>>
  BY DEF Shift, Shifts, SlotBelow
<1>2. /\ entries \in Groups /\ Len(entries) \in Nat /\ query_count = Len(entries)
      /\ entry \in 1 .. query_count /\ slot \in 0 .. query_count - 1
      /\ Loaded /\ ~NotLoaded /\ name \in Nat
      /\ \A i \in 0 .. query_count : query_keys[i] \in Names \union {NULL}
      /\ Hole \in 0 .. entry - 1
      /\ slot >= entry - 1 => query_keys[slot] = NULL
      /\ slot < entry - 1 => Hole = slot + 1 /\ query_keys[slot] \in Names
  BY <1>1, BelowHole
<1>3. Loaded' /\ ~NotLoaded'
  <2>1. Loaded'
    <3>1. slot \in 0 .. query_count /\ slot + 1 \in 0 .. query_count
      BY <1>2
    <3>2. query_keys' \in [0 .. query_count -> Names \union {NULL}]
      BY <1>1, <1>2, <3>1 DEF Loaded
    <3>3. query_values' \in [0 .. query_count -> Nat \union {NULL}]
      BY <1>1, <1>2, <3>1 DEF Loaded
    <3> QED
      BY <1>1, <1>2, <3>2, <3>3 DEF Loaded
  <2> QED
    BY <2>1, <1>1, <1>2, LoadedTable DEF NotLoaded
<1>4. TypeOK'
  <2>1. slot' \in -1 .. Len(entries')
    BY <1>1, <1>2
  <2>2. /\ query_keys' \in [0 .. query_count' -> Names \union {NULL}]
        /\ query_values' \in [0 .. query_count' -> Nat \union {NULL}]
    BY <1>3 DEF Loaded
  <2>3. UNCHANGED <<root, entries, pc, setting, entry, query_count, key, bottom, top, found>>
    BY <1>1
  <2> QED
    BY <2>1, <2>2, <2>3 DEF Inv, TypeOK
<1>5. SettingsInv'
  BY <1>1 DEF Inv, SettingsInv
<1>6. LoadInv'
  BY <1>1, <1>3 DEF LoadInv
<1>7. StringsInv' /\ SearchInv'
  BY <1>1 DEF Inv, StringsInv, SearchInv, SearchSound, LookupCorrect
<1>8. /\ Holds(filled)
      /\ \A i \in Hole + 1 .. entry - 1 : query_keys[i] > name
  BY <1>1 DEF Inv, ContentsInv
<1>9. \A i \in 0 .. query_count :
         /\ query_keys'[i] = IF i = slot THEN NULL
                             ELSE IF i = slot + 1 THEN query_keys[slot] ELSE query_keys[i]
         /\ query_values'[i] = IF i = slot THEN NULL
                               ELSE IF i = slot + 1 THEN query_values[slot] ELSE query_values[i]
  BY <1>1, <1>2 DEF Loaded
<1>10. Holds((0 .. (entry - 1)) \ {Hole})' /\ \A i \in Hole' + 1 .. entry - 1 : query_keys'[i] > name
  <2>1. CASE slot >= entry - 1
    <3>1. Hole = entry - 1 /\ Hole' = entry - 1
      BY <2>1, <1>1, <1>2 DEF Hole
    <3>2. filled = 0 .. (entry - 2)
      BY <3>1, <1>2
    <3>3. query_keys[slot] = NULL /\ query_keys[slot + 1] = NULL
      BY <2>1, <1>2, <1>8, <3>2 DEF Holds
    <3>4. \A i \in filled : query_keys'[i] = query_keys[i] /\ query_values'[i] = query_values[i]
      BY <1>2, <1>9, <2>1, <3>2
    <3>5. \A i \in 0 .. query_count : query_keys'[i] = query_keys[i]
      BY <1>9, <3>3
    <3>6. Holds(filled)'
      <4>1. filled' = filled
        BY <1>1, <3>1
      <4>2. filled \subseteq 0 .. query_count
        BY <1>2
      <4> HIDE DEF filled
      <4> QED
        <5>1. \A i \in 0 .. query_count : query_keys'[i] = NULL <=> i \notin filled
          BY <1>8, <3>5 DEF Holds
        <5>2. \A i, j \in filled : i < j => query_keys'[i] < query_keys'[j]
          BY <1>8, <3>4 DEF Holds
        <5>3. \A i \in filled : /\ query_values'[i] \in 1 .. (entry - 1)
                                /\ entries[query_values'[i]].name = query_keys'[i]
          BY <1>8, <3>4 DEF Holds
        <5>4. \A e \in 1 .. (entry - 1) : \E i \in filled : query_values'[i] = e
          BY <1>8, <3>4 DEF Holds
        <5>5. query_count' = query_count /\ entry' = entry /\ entries' = entries
          BY <1>1
        <5> QED
          BY <4>1, <5>1, <5>2, <5>3, <5>4, <5>5 DEF Holds
    <3>7. \A i \in Hole' + 1 .. entry - 1 : query_keys'[i] > name
      BY <1>2, <3>1
    <3> QED
      BY <1>1, <3>6, <3>7
  <2>2. CASE slot < entry - 1
    <3> DEFINE moved == (0 .. (entry - 1)) \ {slot}
    <3>1. Hole = slot + 1 /\ Hole' = slot
      BY <2>2, <1>1, <1>2 DEF Hole
    <3>2. query_keys[slot] \in Names /\ name < query_keys[slot] /\ query_keys[slot] # NULL
      BY <2>2, <1>1, <1>2, NameType
    <3>3. \A i \in 0 .. query_count : query_keys'[i] = NULL <=> i \notin moved
      BY <1>2, <1>8, <1>9, <2>2, <3>1, <3>2 DEF Holds
    <3> DEFINE old(i) == IF i = slot + 1 THEN slot ELSE i
    <3>4. \A i \in moved : /\ old(i) \in filled
                           /\ query_keys'[i] = query_keys[old(i)]
                           /\ query_values'[i] = query_values[old(i)]
      BY <1>2, <1>9, <2>2, <3>1
    <3>5. \A i, j \in moved : i < j => old(i) < old(j)
      BY <1>2, <2>2
    <3> HIDE DEF old, moved, filled
    <3>6. \A i, j \in moved : i < j => query_keys'[i] < query_keys'[j]
      BY <1>8, <3>4, <3>5 DEF Holds
    <3>7. \A i \in moved : /\ query_values'[i] \in 1 .. (entry - 1)
                           /\ entries[query_values'[i]].name = query_keys'[i]
      BY <1>8, <3>4 DEF Holds
    <3> USE DEF moved, filled
    <3>8. \A e \in 1 .. (entry - 1) : \E i \in moved : query_values'[i] = e
      <4> SUFFICES ASSUME NEW e \in 1 .. (entry - 1) PROVE \E i \in moved : query_values'[i] = e
        OBVIOUS
      <4>1. PICK i \in filled : query_values[i] = e
        BY <1>8 DEF Holds
      <4>2. CASE i = slot
        BY <1>2, <1>9, <2>2, <4>1, <4>2
      <4>3. CASE i # slot
        BY <1>2, <1>9, <2>2, <3>1, <4>1, <4>3
      <4> QED
        BY <4>2, <4>3
    <3>9. \A i \in slot + 1 .. entry - 1 : query_keys'[i] > name
      BY <1>2, <1>8, <1>9, <2>2, <3>1, <3>2
    <3> QED
      BY <1>1, <3>1, <3>3, <3>6, <3>7, <3>8, <3>9 DEF Holds
  <2> QED
    BY <1>2, <2>1, <2>2
<1>11. ContentsInv'
  <2>1. pc' = "shift" /\ entry' <= query_count' /\ slot' < query_count'
    BY <1>1, <1>2
  <2>2. \A i \in (Hole + 1 .. entry - 1)' : query_keys'[i] > (entries[entry].name)'
    BY <1>1, <1>10
  <2>3. Holds((0 .. (entry - 1)) \ {Hole})'
    BY <1>10
  <2> QED
    BY <2>1, <2>2, <2>3 DEF ContentsInv
<1> QED
  BY <1>4, <1>5, <1>6, <1>7, <1>11 DEF Inv

LEMMA InsertInv == Inv /\ Insert => Inv'
<1> SUFFICES ASSUME Inv, Insert PROVE Inv'
  OBVIOUS
<1> DEFINE name == entries[entry].name
           filled == (0 .. (entry - 1)) \ {Hole}
<1> USE DEF fileVars, searchVars
<1>1. /\ pc = "shift" /\ pc' = "entries" /\ entry' = entry + 1
      /\ slot >= 0 => query_keys[slot] # NULL /\ ~(name < query_keys[slot])
      /\ query_keys' = [query_keys EXCEPT ![slot + 1] = name]
      /\ query_values' = [query_values EXCEPT ![slot + 1] = entry]
      /\ UNCHANGED <<fileVars, setting, slot, query_count, searchVars>>
  BY DEF Insert, Shifts, Put
<1>2. /\ entries \in Groups /\ Len(entries) \in Nat /\ query_count = Len(entries)
      /\ entry \in 1 .. query_count /\ slot \in -1 .. query_count - 1
      /\ Loaded /\ ~NotLoaded /\ name \in Nat /\ name \in Names
      /\ slot < entry - 1 /\ Hole = slot + 1
      /\ slot >= 0 => query_keys[slot] \in Names
      /\ setting = 1 /\ setting <= Len(root) /\ root[1] = "queries"
  <2>1. name \in Names
    BY <1>1, BelowHole, GroupType
  <2>2. slot < entry - 1
    BY <1>1, BelowHole
  <2> QED
    BY <1>1, <2>1, <2>2, BelowHole DEF Inv, SettingsInv
<1>3. Loaded' /\ ~NotLoaded'
  <2>1. Loaded'
    BY <1>1, <1>2 DEF Loaded
  <2> QED
    BY <2>1, <1>1, <1>2, LoadedTable DEF NotLoaded
<1>4. TypeOK'
  <2>1. /\ query_keys' \in [0 .. query_count' -> Names \union {NULL}]
        /\ query_values' \in [0 .. query_count' -> Nat \union {NULL}]
    BY <1>3 DEF Loaded
  <2>2. pc' = "entries" /\ entry' \in 1 .. Len(entries') + 1
    BY <1>1, <1>2
  <2>3. UNCHANGED <<root, entries, setting, slot, query_count, key, bottom, top, found>>
    BY <1>1
  <2> QED
    BY <2>1, <2>2, <2>3 DEF Inv, TypeOK
<1>5. SettingsInv' /\ LoadInv'
  BY <1>1, <1>2, <1>3 DEF Inv, SettingsInv, LoadInv
<1>6. StringsInv' /\ SearchInv'
  <2>1. \A i \in 1 .. entry - 1 : entries[i].string
    BY <1>1 DEF Inv, StringsInv
  <2>2. entries[entry].string
    BY <1>1 DEF Inv, StringsInv
  <2>3. \A i \in 1 .. entry' - 1 : entries'[i].string
    BY <1>1, <1>2, <2>1, <2>2
  <2> QED
    BY <1>1, <2>3 DEF Inv, StringsInv, SearchInv, SearchSound, LookupCorrect
<1>7. /\ Holds(filled)
      /\ \A i \in slot + 2 .. entry - 1 : query_keys[i] > name
  BY <1>1, <1>2 DEF Inv, ContentsInv
<1>8. \A i \in 0 .. query_count :
         /\ query_keys'[i] = IF i = slot + 1 THEN name ELSE query_keys[i]
         /\ query_values'[i] = IF i = slot + 1 THEN entry ELSE query_values[i]
  BY <1>1, <1>2 DEF Loaded
<1>9. /\ filled \subseteq 0 .. query_count /\ slot + 1 \in 0 .. query_count
      /\ slot + 1 \notin filled
      /\ 0 .. (entry' - 2) = filled \union {slot + 1}
  BY <1>1, <1>2
\* The names below the hole are smaller: the one next to it is not greater and not equal.
<1>10. \A i \in filled : i < slot + 1 => query_keys[i] < name
  <2> SUFFICES ASSUME NEW i \in filled, i < slot + 1 PROVE query_keys[i] < name
    OBVIOUS
  <2>1. slot \in filled /\ i <= slot /\ slot >= 0 /\ i \in Nat
    BY <1>2
  <2> HIDE DEF filled
  <2>2. /\ query_values[slot] \in 1 .. (entry - 1)
        /\ entries[query_values[slot]].name = query_keys[slot]
    BY <1>7, <2>1 DEF Holds
  <2>3. query_keys[slot] # name
    <3>1. query_values[slot] \in 1 .. Len(entries) /\ query_values[slot] # entry
      BY <1>2, <2>2
    <3> QED
      BY <1>2, <2>2, <3>1, GroupType
  <2>4. i < slot => query_keys[i] < query_keys[slot]
    BY <1>7, <2>1 DEF Holds
  <2>5. query_keys[slot] \in Nat
    BY <1>2, <2>1, NameType
  <2>6. ~(name < query_keys[slot]) /\ name \in Nat
    BY <1>1, <1>2, <2>1
  <2>7. query_keys[slot] < name
    BY <2>3, <2>5, <2>6
  <2>8. query_keys[i] \in Nat
    BY <1>2, <1>7, <1>9, NameType DEF Holds, Loaded
  <2> QED
    BY <1>2, <2>1, <2>7, <2>4, <2>8, <2>5
<1>11. \A i \in filled : i > slot + 1 => name < query_keys[i]
  BY <1>2, <1>7
<1>12. Holds(0 .. (entry - 2))'
  <2> DEFINE full == filled \union {slot + 1}
  <2>1. /\ slot + 1 \in full /\ slot + 1 \notin filled
        /\ query_keys'[slot + 1] = name /\ query_values'[slot + 1] = entry
    BY <1>8, <1>9
  <2>2. ASSUME NEW i \in filled
        PROVE  /\ i # slot + 1 /\ i \in 0 .. query_count /\ i \in Nat /\ i \in full
               /\ query_keys'[i] = query_keys[i] /\ query_values'[i] = query_values[i]
    BY <1>2, <1>8, <1>9
  <2>3. \A i \in full : i \in filled \/ i = slot + 1
    OBVIOUS
  <2>4. \A i \in 0 .. query_count :
           i # slot + 1 => /\ query_keys'[i] = query_keys[i]
                           /\ i \in full <=> i \in filled
    BY <1>8
  <2>5. slot + 1 \in Nat /\ name # NULL /\ entry \in Nat
    BY <1>2, NameType
  <2>6. (0 .. (entry - 2))' = full /\ (1 .. (entry - 1))' = 1 .. entry
        /\ query_count' = query_count /\ entries' = entries
    BY <1>1, <1>2, <1>9
  <2> HIDE DEF full, filled, name
  <2>7. \A i \in 0 .. query_count : query_keys'[i] = NULL <=> i \notin full
    <3> TAKE i \in 0 .. query_count
    <3>1. CASE i = slot + 1
      BY <3>1, <2>1, <2>5
    <3>2. CASE i # slot + 1
      BY <3>2, <2>4, <1>7 DEF Holds
    <3> QED
      BY <3>1, <3>2
  <2>8. \A i, j \in full : i < j => query_keys'[i] < query_keys'[j]
    <3> SUFFICES ASSUME NEW i \in full, NEW j \in full, i < j
                 PROVE  query_keys'[i] < query_keys'[j]
      OBVIOUS
    <3>1. CASE i \in filled /\ j \in filled
      BY <3>1, <1>7, <2>2 DEF Holds
    <3>2. CASE i = slot + 1 /\ j \in filled
      BY <3>2, <1>11, <2>1, <2>2, <2>5
    <3>3. CASE i \in filled /\ j = slot + 1
      BY <3>3, <1>10, <2>1, <2>2
    <3>4. CASE i = slot + 1 /\ j = slot + 1
      BY <3>4, <2>5
    <3> QED
      BY <3>1, <3>2, <3>3, <3>4, <2>3
  <2>9. ASSUME NEW i \in full
        PROVE  query_values'[i] \in 1 .. entry /\ entries[query_values'[i]].name = query_keys'[i]
    <3>1. CASE i = slot + 1
      BY <3>1, <2>1, <1>2 DEF name
    <3>2. CASE i \in filled
      <4>1. query_values[i] \in 1 .. entry - 1 /\ entries[query_values[i]].name = query_keys[i]
        BY <3>2, <1>7 DEF Holds
      <4>2. query_values[i] \in 1 .. entry
        BY <4>1, <2>5
      <4> QED
        BY <4>1, <4>2, <3>2, <2>2
    <3> QED
      BY <3>1, <3>2, <2>3
  <2>10. ASSUME NEW e \in 1 .. entry
         PROVE  \E i \in full : query_values'[i] = e
    <3>1. CASE e = entry
      BY <3>1, <2>1
    <3>2. CASE e # entry
      <4>1. e \in 1 .. entry - 1
        BY <3>2, <2>5
      <4>2. PICK i \in filled : query_values[i] = e
        BY <4>1, <1>7 DEF Holds
      <4> QED
        BY <4>2, <2>2
    <3> QED
      BY <3>1, <3>2
  <2> QED
    BY <2>6, <2>7, <2>8, <2>9, <2>10 DEF Holds
<1>13. ContentsInv'
  BY <1>1, <1>12 DEF ContentsInv
<1> QED
  BY <1>4, <1>5, <1>6, <1>13 DEF Inv

-----------------------------------------------------------------------------
(***************************************************************************)
(* Searching preserves it too.                                             *)
(***************************************************************************)

\* Once the file is read the filled slots are all the slots but the last one.
LEMMA FullTable ==
    ASSUME Inv, pc \in {"ready", "search", "returned"}
    PROVE  /\ entries \in Groups /\ Len(entries) \in Nat /\ query_count \in Nat
           /\ \A i, j \in 0 .. query_count - 1 :
                 /\ query_keys[i] \in Nat /\ query_keys[i] # NULL
                 /\ i < j => query_keys[i] < query_keys[j]
                 /\ query_values[i] \in 1 .. Len(entries)
                 /\ entries[query_values[i]].name = query_keys[i]
           /\ query_count > 0 => \A e \in 1 .. Len(entries) :
                                    \E i \in 0 .. query_count - 1 : query_values[i] = e
<1>1. entries \in Groups /\ Len(entries) \in Nat
  BY GroupType DEF Inv, TypeOK
<1>2. CASE NotLoaded
  BY <1>1, <1>2 DEF NotLoaded
<1>3. CASE Loaded
  <2>1. /\ query_count = Len(entries) /\ entry = query_count + 1
        /\ \A i \in 0 .. query_count : query_keys[i] \in Names \union {NULL}
        /\ Holds(0 .. (entry - 2))
    BY <1>3 DEF Inv, LoadInv, ContentsInv, Loaded
  <2> DEFINE full == 0 .. query_count - 1
  <2>2. Holds(full)
    BY <1>1, <2>1
  <2>3. full \subseteq 0 .. query_count
    BY <1>1, <2>1
  <2> HIDE DEF full
  <2>4. \A i \in full : query_keys[i] # NULL
    BY <2>2, <2>3 DEF Holds
  <2>5. \A i \in full : query_keys[i] \in Nat
    BY <2>1, <2>3, <2>4, NameType
  <2>6. \A i, j \in full : i < j => query_keys[i] < query_keys[j]
    BY <2>2 DEF Holds
  <2>7. \A i \in full : /\ query_values[i] \in 1 .. Len(entries)
                        /\ entries[query_values[i]].name = query_keys[i]
    BY <1>1, <2>1, <2>2 DEF Holds
  <2>8. \A e \in 1 .. Len(entries) : \E i \in full : query_values[i] = e
    BY <1>1, <2>1, <2>2 DEF Holds
  <2> QED
    BY <1>1, <2>1, <2>4, <2>5, <2>6, <2>7, <2>8 DEF full
<1> QED
  BY <1>2, <1>3 DEF Inv, LoadInv

\* A step of a lookup changes neither the file nor the table.
LEMMA SearchStep ==
    ASSUME Inv, UNCHANGED <<fileVars, setting, entry, slot, tableVars>>,
           pc \in {"ready", "search", "returned"}, pc' \in {"ready", "search", "returned"}
    PROVE  SettingsInv' /\ LoadInv' /\ ContentsInv' /\ StringsInv'
<1> USE DEF fileVars, tableVars
<1>1. SettingsInv'
  BY SameTable DEF Inv, SettingsInv
<1>2. LoadInv'
  BY SameTable DEF Inv, LoadInv
<1>3. ContentsInv'
  BY SameTable DEF Inv, ContentsInv
<1>4. StringsInv'
  BY DEF Inv, StringsInv
<1> QED
  BY <1>1, <1>2, <1>3, <1>4

LEMMA LookupInv == Inv /\ Lookup => Inv'
<1> SUFFICES ASSUME Inv, Lookup PROVE Inv'
  OBVIOUS
<1> USE DEF Lookup, fileVars, tableVars, searchVars
<1>1. /\ Len(entries) \in Nat /\ query_count \in Nat
      /\ \A i \in 0 .. query_count - 1 : query_keys[i] # NULL
  BY FullTable
<1>2. TypeOK'
  BY <1>1 DEF Inv, TypeOK
<1>3. SettingsInv' /\ LoadInv' /\ ContentsInv' /\ StringsInv'
  BY SearchStep
<1>4. SearchInv'
  BY <1>1 DEF SearchInv, SearchSound, LookupCorrect
<1> QED
  BY <1>2, <1>3, <1>4 DEF Inv

\* A window that has lost the name has lost every entry of that name.
LEMMA NotFoundInv == Inv /\ NotFound => Inv'
<1> SUFFICES ASSUME Inv, NotFound PROVE Inv'
  OBVIOUS
<1> USE DEF NotFound, fileVars, tableVars, searchVars
<1>1. TypeOK'
  BY DEF Inv, TypeOK
<1>2. SettingsInv' /\ LoadInv' /\ ContentsInv' /\ StringsInv'
  BY SearchStep
<1>3. bottom \in Nat /\ top \in Int /\ bottom > top /\ key \in Names /\ found = NULL
  BY DEF Inv, TypeOK, SearchInv
<1>4. \A i \in 0 .. query_count - 1 : query_keys[i] # key
  BY <1>3 DEF Inv, SearchInv, SearchSound
<1>5. \A e \in DOMAIN entries : query_count > 0 => entries[e].name # key
  <2> SUFFICES ASSUME NEW e \in DOMAIN entries, query_count > 0 PROVE entries[e].name # key
    OBVIOUS
  <2>1. PICK i \in 0 .. query_count - 1 : query_values[i] = e
    BY FullTable, GroupType
  <2> QED
    BY <1>4, <2>1, FullTable
<1>6. SearchInv'
  BY <1>3, <1>5 DEF SearchInv, SearchSound, LookupCorrect
<1> QED
  BY <1>1, <1>2, <1>6 DEF Inv

\* Halving the window stays inside it.
LEMMA MidInWindow ==
    ASSUME NEW b \in Nat, NEW t \in Int, b <= t
    PROVE  (b + t) \div 2 \in b .. t
OBVIOUS

\* The table is in order, so what is not on the name's side of the middle is not it.
LEMMA CompareInv == Inv /\ Compare => Inv'
<1> SUFFICES ASSUME Inv, Compare PROVE Inv'
  OBVIOUS
<1>1. /\ pc = "search" /\ bottom <= top
      /\ UNCHANGED <<fileVars, setting, entry, slot, tableVars, key>>
  BY DEF Compare
<1>2. /\ bottom \in Nat /\ top \in Int /\ top < query_count /\ key \in Names /\ found = NULL
      /\ query_count \in Nat /\ Len(entries) \in Nat
      /\ \A i \in bottom .. top : query_keys[i] # NULL
      /\ \A i \in 0 .. query_count - 1 : query_keys[i] = key => i \in bottom .. top
  BY <1>1, FullTable DEF Inv, TypeOK, SearchInv, SearchSound
<1>3. mid \in bottom .. top /\ mid \in 0 .. query_count - 1
  BY <1>1, <1>2, MidInWindow DEF mid
<1>4. /\ \A i, j \in 0 .. query_count - 1 : query_keys[i] \in Nat /\ (i < j => query_keys[i] < query_keys[j])
      /\ query_values[mid] \in 1 .. Len(entries)
      /\ entries[query_values[mid]].name = query_keys[mid]
      /\ DOMAIN entries = 1 .. Len(entries)
  BY <1>1, <1>3, FullTable, GroupType
<1>5. key \in Nat /\ query_keys[mid] \in Nat
  BY <1>2, <1>3, <1>4, NameType
\* The three answers of strcmp, one at a time.
<1>6. ASSUME query_keys[mid] = key
       PROVE  found' = query_values[mid] /\ pc' = "returned" /\ UNCHANGED <<bottom, top>>
  <2>1. ~(query_keys[mid] > key) /\ ~(query_keys[mid] < key)
    BY <1>5, <1>6
  <2> QED
    BY <1>6, <2>1, Zenon DEF Compare
<1>7. ASSUME query_keys[mid] > key
       PROVE  top' = mid - 1 /\ UNCHANGED <<bottom, found, pc>>
  <2>1. ~(query_keys[mid] = key) /\ ~(query_keys[mid] < key)
    BY <1>5, <1>7
  <2> QED
    BY <1>7, <2>1 DEF Compare
<1>8. ASSUME query_keys[mid] < key
       PROVE  bottom' = mid + 1 /\ UNCHANGED <<top, found, pc>>
  <2>1. ~(query_keys[mid] = key) /\ ~(query_keys[mid] > key)
    BY <1>5, <1>8
  <2> QED
    BY <1>8, <2>1 DEF Compare, Above
<1>9. pc' \in {"search", "returned"}
  BY <1>1, <1>5, <1>6, <1>7, <1>8
<1>10. SettingsInv' /\ LoadInv' /\ ContentsInv' /\ StringsInv'
  BY <1>1, <1>9, SearchStep
<1>11. CASE query_keys[mid] = key
  <2>1. found' = query_values[mid] /\ pc' = "returned" /\ UNCHANGED <<bottom, top>>
    BY <1>11, <1>6
  <2>2. TypeOK'
    BY <1>1, <1>2, <1>4, <2>1 DEF Inv, TypeOK, fileVars, tableVars
  <2>3. SearchInv'
    BY <1>1, <1>2, <1>3, <1>4, <1>11, <2>1, NameType
       DEF SearchInv, SearchSound, LookupCorrect, fileVars, tableVars
  <2> QED
    BY <1>10, <2>2, <2>3 DEF Inv
<1>12. CASE query_keys[mid] > key
  <2>1. top' = mid - 1 /\ UNCHANGED <<bottom, found, pc>>
    BY <1>12, <1>7
  <2>2. TypeOK'
    BY <1>1, <1>2, <1>3, <2>1 DEF Inv, TypeOK, fileVars, tableVars
  <2>3. \A i \in 0 .. query_count - 1 : query_keys[i] = key => i \in bottom .. mid - 1
    BY <1>2, <1>3, <1>4, <1>5, <1>12
  <2>4. SearchInv'
    BY <1>1, <1>2, <1>3, <2>1, <2>3 DEF SearchInv, SearchSound, LookupCorrect, tableVars
  <2> QED
    BY <1>10, <2>2, <2>4 DEF Inv
<1>13. CASE query_keys[mid] < key
  <2>1. bottom' = mid + 1 /\ UNCHANGED <<top, found, pc>>
    BY <1>13, <1>8
  <2>2. TypeOK'
    BY <1>1, <1>2, <1>3, <2>1 DEF Inv, TypeOK, fileVars, tableVars
  <2>3. \A i \in 0 .. query_count - 1 : query_keys[i] = key => i \in mid + 1 .. top
    BY <1>2, <1>3, <1>4, <1>5, <1>13
  <2>4. SearchInv'
    BY <1>1, <1>2, <1>3, <2>1, <2>3 DEF SearchInv, SearchSound, LookupCorrect, tableVars
  <2> QED
    BY <1>10, <2>2, <2>4 DEF Inv
<1> QED
  BY <1>3, <1>4, <1>5, <1>11, <1>12, <1>13

LEMMA StutterInv == Inv /\ UNCHANGED vars => Inv'
<1> SUFFICES ASSUME Inv, UNCHANGED vars PROVE Inv'
  OBVIOUS
<1> USE DEF vars, fileVars, tableVars, searchVars
<1>1. TypeOK' /\ SettingsInv' /\ LoadInv'
  BY DEF Inv, TypeOK, SettingsInv, LoadInv, Loaded, NotLoaded
<1>2. ContentsInv'
  <2>1. /\ Loaded' <=> Loaded
        /\ Holds(0 .. (entry - 2))' <=> Holds(0 .. (entry - 2))
        /\ Holds((0 .. (entry - 1)) \ {Hole})' <=> Holds((0 .. (entry - 1)) \ {Hole})
        /\ Hole' = Hole
    BY DEF Loaded, Holds, Hole
  <2> QED
    BY <2>1 DEF Inv, ContentsInv
<1>3. StringsInv' /\ SearchInv'
  BY DEF Inv, StringsInv, SearchInv, SearchSound, LookupCorrect
<1> QED
  BY <1>1, <1>2, <1>3 DEF Inv

LEMMA NextInv == Inv /\ [Next]_vars => Inv'
BY ReadFileInv, ReadSettingInv, ConfigReadInv, ReadEntryInv, ShiftInv, InsertInv,
   LookupInv, CompareInv, NotFoundInv, StutterInv DEF Next, Run

\* A search that has returned, or a module that serves, has read every setting.
LEMMA StartsOnGood == Inv => StartsOnGoodConfigOnly
<1> SUFFICES ASSUME Inv, pc \in {"ready", "search", "returned"}
             PROVE  /\ root \in {<<>>, <<"queries">>}
                    /\ root = <<"queries">> => \A i \in DOMAIN entries : entries[i].string
  BY DEF StartsOnGoodConfigOnly
<1>1. /\ root \in Roots /\ entries \in Groups
      /\ \A i \in 1 .. Len(root) : root[i] = "queries"
      /\ setting = Len(root) + 1 /\ Len(root) \in Nat
      /\ setting = 1 <=> NotLoaded
  BY RootType DEF Inv, TypeOK, SettingsInv
<1>2. root \in {<<>>, <<"queries">>}
  BY <1>1, RootType
<1>3. ASSUME root = <<"queries">> PROVE \A i \in DOMAIN entries : entries[i].string
  <2>1. Len(root) = 1
    BY <1>3
  <2>2. Loaded
    BY <1>1, <2>1 DEF Inv, LoadInv
  <2>3. entry = Len(entries) + 1 /\ DOMAIN entries = 1 .. Len(entries) /\ Len(entries) \in Nat
    BY <1>1, <2>2, GroupType DEF Inv, LoadInv, Loaded
  <2> QED
    BY <2>3 DEF Inv, StringsInv
<1> QED
  BY <1>2, <1>3

\* The table between two insertions.
LEMMA Sorted == Inv => TableSorted
<1> SUFFICES ASSUME Inv, pc \in {"entries", "ready", "search", "returned"}, query_keys # <<>>
             PROVE  Holds(0 .. (entry - 2))
  BY DEF TableSorted, Holds
<1> QED
  BY DEF Inv, LoadInv, NotLoaded, ContentsInv

-----------------------------------------------------------------------------
(***************************************************************************)
(* The theorems.                                                           *)
(***************************************************************************)

\* Loading and searching keep the inductive invariant.
THEOREM InductiveInvariant == Spec => []Inv
<1>1. Init => Inv
  BY InitInv
<1>2. Inv /\ [Next]_vars => Inv'
  BY NextInv
<1> QED
  BY <1>1, <1>2, PTL DEF Spec

\* The arrays and the indices of pg_config.c stay within their bounds, whatever the file.
THEOREM TypeCorrect == Spec => []TypeOK
<1>1. Inv => TypeOK
  BY DEF Inv
<1> QED
  BY <1>1, InductiveInvariant, PTL

\* add_named_query keeps the table sorted, and each query beside its name.
THEOREM TableSortedAlways == Spec => []TableSorted
BY Sorted, InductiveInvariant, PTL

\* get_query_by_name compares with no empty slot, and never loses the name.
THEOREM SearchSoundAlways == Spec => []SearchSound
<1>1. Inv => SearchSound
  BY DEF Inv, SearchInv
<1> QED
  BY <1>1, InductiveInvariant, PTL

\* get_query_by_name returns the query of that name, or NULL when the file has none.
THEOREM LookupCorrectAlways == Spec => []LookupCorrect
<1>1. Inv => LookupCorrect
  BY DEF Inv, SearchInv
<1> QED
  BY <1>1, InductiveInvariant, PTL

\* read_config accepts nothing but strings in a group of queries.
THEOREM StartsOnGoodConfig == Spec => []StartsOnGoodConfigOnly
BY StartsOnGood, InductiveInvariant, PTL

-----------------------------------------------------------------------------
(***************************************************************************)
(* The start.                                                              *)
(***************************************************************************)
\* What the stages that are behind the start have found.
PointersInv ==
    /\ stage \notin {"dlopen", "refused"} => "dlopen" \in agent
    /\ stage \notin {"dlopen", "levels", "logger", "refused"} => "__zbx_zabbix_log" \in agent
    /\ stage \notin {"dlopen", "levels", "logger", "refused"} => Found(real_zabbix_log)
    /\ stage \in {"path", "announce", "config", "serving"} => Found(zbx_snprintf)
    /\ stage \in {"dlopen", "levels", "logger"} => last.to # "log"

StartInv ==
    /\ Inv /\ StartTypeOK /\ PointersInv
    /\ NeverCallsNull /\ RefusalReported /\ LogsAtLevel

-----------------------------------------------------------------------------
(***************************************************************************)
(* The refinement, step by step.                                           *)
(***************************************************************************)

\* Each step of the agent is a step of NamedQueries or leaves all of it alone.
LEMMA StartStep == StartNext => [Next]_vars
BY DEF StartNext, zbx_module_init, Dlopen, FindLevels, FindLogger, FindSnprintf,
       getPGCONFIGFILE, init_config, ReadConfig, PG_QUERY, Search, MODVER, set_err_result,
       ChangeLevel, Next, allVars

LEMMA StartStutter == UNCHANGED allVars => UNCHANGED vars
BY DEF allVars

\* What zbx_module_init and the handlers of pg.query.* do to the table is NamedQueries.
THEOREM StartsNamedQueries == StartSpec => Spec
<1>1. StartInit => Init
  BY DEF StartInit
<1>2. [StartNext]_allVars => [Next]_vars
  BY StartStep, StartStutter
<1> QED
  BY <1>1, <1>2, PTL DEF StartSpec, Spec

-----------------------------------------------------------------------------
(***************************************************************************)
(* Messages.                                                               *)
(***************************************************************************)
Messages == [to : {"nowhere", "stderr", "log"}, written : BOOLEAN, at : Levels \union {0},
             level : {LOG_LEVEL_EMPTY, LOG_LEVEL_ERR, LOG_LEVEL_DEBUG, LOG_LEVEL_INFORMATION}]

\* Either symbol gives the agent's rule, and none gives none.
LEMMA WrittenIsLoggable ==
    ASSUME level \in Levels,
           NEW lv \in {LOG_LEVEL_ERR, LOG_LEVEL_DEBUG, LOG_LEVEL_INFORMATION}
    PROVE  Written(lv) <=> \/ lv = LOG_LEVEL_INFORMATION \/ lv <= level
                           \/ ~Found(real_zabbix_check_log_level) /\ ~Found(real_zbx_log_level)
BY LevelsAssumption
   DEF Written, Loggable, BeyondLevel, LOG_LEVEL_ERR, LOG_LEVEL_DEBUG, LOG_LEVEL_INFORMATION,
       LOG_LEVEL_EMPTY

\* A message is well formed, tells what was asked of the agent, and finds the logger.
LEMMA LogStep ==
    ASSUME level \in Levels, Found(real_zabbix_log),
           NEW lv \in {LOG_LEVEL_ERR, LOG_LEVEL_DEBUG, LOG_LEVEL_INFORMATION},
           NEW next, zabbix_log(lv, next),
           UNCHANGED <<real_zabbix_check_log_level, real_zbx_log_level>>
    PROVE  /\ last' \in Messages /\ last'.to = "log" /\ last'.level = lv /\ last'.at = level
           /\ last'.written \/ (lv # LOG_LEVEL_INFORMATION /\ last'.at < lv)
           /\ stage' = next /\ LogsAtLevel'
<1>1. last' = [to |-> "log", level |-> lv, written |-> Written(lv), at |-> level]
  BY DEF zabbix_log, Message
<1>2. stage' = next
  BY DEF zabbix_log
<1>3. Written(lv) \in BOOLEAN
  BY DEF Written
<1>4. last' \in Messages
  BY <1>1, <1>3 DEF Messages
<1>5. last'.written \/ (lv # LOG_LEVEL_INFORMATION /\ last'.at < lv)
  <2>1. level \in Nat /\ lv \in Nat
    BY LevelsAssumption
       DEF LOG_LEVEL_ERR, LOG_LEVEL_DEBUG, LOG_LEVEL_INFORMATION, LOG_LEVEL_EMPTY
  <2>2. ~Written(lv) => lv # LOG_LEVEL_INFORMATION /\ ~(lv <= level)
    BY WrittenIsLoggable
  <2>3. ~Written(lv) => last'.at < lv
    BY <1>1, <2>1, <2>2
  <2>4. CASE Written(lv)
    <3>1. last' = [to |-> "log", level |-> lv, written |-> TRUE, at |-> level]
      BY <1>1, <2>4
    <3>2. last'.written
      BY <3>1
    <3> QED
      BY <3>2, Zenon
  <2>5. CASE ~Written(lv)
    BY <2>2, <2>3, <2>5, Zenon
  <2> QED
    BY <2>4, <2>5
<1>6. LogsAtLevel'
  BY <1>1, WrittenIsLoggable DEF LogsAtLevel, Found
<1> QED
  BY <1>1, <1>2, <1>4, <1>5, <1>6

-----------------------------------------------------------------------------
(***************************************************************************)
(* The start preserves its invariant, one statement after the other.       *)
(***************************************************************************)

\* What StartTypeOK says apart from the table.
AgentOK ==
    /\ agent \subseteq Symbols /\ env \in {"fits", "too long"} /\ level \in Levels
    /\ stage \in Stages
    /\ HandleOK
    /\ {real_zabbix_check_log_level, real_zbx_log_level, real_zabbix_log, zbx_snprintf}
           \subseteq agent \union {NoPointer}
    /\ last \in Messages

LEMMA AgentType == StartTypeOK <=> TypeOK /\ AgentOK
BY Zenon DEF StartTypeOK, AgentOK, Messages, Stages

LEMMA StartInitInv == StartInit => StartInv
<1> SUFFICES ASSUME StartInit PROVE StartInv
  OBVIOUS
<1>1. Inv
  BY InitInv DEF StartInit
<1>2. AgentOK
  BY LevelsAssumption DEF StartInit, AgentOK, HandleOK, Messages, Stages, NoPointer
<1>3. PointersInv /\ NeverCallsNull /\ RefusalReported /\ LogsAtLevel
  BY DEF StartInit, PointersInv, NeverCallsNull, RefusalReported, LogsAtLevel
<1> QED
  BY <1>1, <1>2, <1>3, AgentType DEF StartInv, Inv

\* A step of the start keeps the table's part.
LEMMA TableKept ==
    ASSUME Inv, [StartNext]_allVars
    PROVE  Inv'
BY StartStep, StartStutter, NextInv

LEMMA DlopenInv ==
    ASSUME StartInv, Dlopen
    PROVE  AgentOK' /\ PointersInv' /\ NeverCallsNull' /\ RefusalReported' /\ LogsAtLevel'
<1> USE DEF Dlopen, agentVars, pointers
<1>1. AgentOK /\ PointersInv /\ LogsAtLevel
  BY AgentType DEF StartInv
<1>2. CASE "dlopen" \in agent
  BY <1>1, <1>2
     DEF AgentOK, HandleOK, Stages, PointersInv, NeverCallsNull, RefusalReported, LogsAtLevel, Found
<1>3. CASE "dlopen" \notin agent
  <2>1. last' = [to |-> "stderr", level |-> LOG_LEVEL_EMPTY, written |-> TRUE, at |-> level]
        /\ stage' = "refused" /\ handle' = handle
    BY <1>3 DEF stderr, Message
  <2>2. last' \in Messages
    BY <1>1, <2>1 DEF Messages, AgentOK
  <2>3. AgentOK'
    BY <1>1, <2>1, <2>2 DEF AgentOK, HandleOK, Stages
  <2> QED
    BY <2>1, <2>3 DEF PointersInv, NeverCallsNull, RefusalReported, LogsAtLevel
<1> QED
  BY <1>2, <1>3

LEMMA FindLevelsInv ==
    ASSUME StartInv, FindLevels
    PROVE  AgentOK' /\ PointersInv' /\ NeverCallsNull' /\ RefusalReported' /\ LogsAtLevel'
<1> USE DEF FindLevels, agentVars, vars
<1>1. AgentOK /\ PointersInv /\ last.to # "log"
  BY AgentType DEF StartInv, PointersInv
<1>2. {real_zabbix_check_log_level', real_zbx_log_level'} \subseteq agent \union {NoPointer}
  BY DEF dlsym
<1>3. /\ stage = "levels" /\ stage' = "logger"
      /\ UNCHANGED <<agent, env, level, handle, real_zabbix_log, zbx_snprintf>>
  BY DEF stderr
<1>4. last' \in Messages /\ last'.to # "log"
  <2>1. CASE agent \intersect {"zabbix_check_log_level", "zbx_log_level"} = {}
    <3>1. last' = [to |-> "stderr", level |-> LOG_LEVEL_EMPTY, written |-> TRUE, at |-> level]
      BY <2>1 DEF stderr, Message
    <3> QED
      BY <1>1, <3>1 DEF Messages, AgentOK
  <2>2. CASE agent \intersect {"zabbix_check_log_level", "zbx_log_level"} # {}
    BY <1>1, <2>2 DEF AgentOK
  <2> QED
    BY <2>1, <2>2
<1>5. AgentOK'
  BY <1>1, <1>2, <1>3, <1>4 DEF AgentOK, HandleOK, Stages
<1> QED
  BY <1>1, <1>3, <1>4, <1>5 DEF PointersInv, NeverCallsNull, RefusalReported, LogsAtLevel

LEMMA FindLoggerInv ==
    ASSUME StartInv, FindLogger
    PROVE  AgentOK' /\ PointersInv' /\ NeverCallsNull' /\ RefusalReported' /\ LogsAtLevel'
<1> USE DEF FindLogger, agentVars, vars
<1>1. AgentOK /\ PointersInv /\ last.to # "log" /\ stage = "logger"
  BY AgentType DEF StartInv, PointersInv
<1>2. CASE "__zbx_zabbix_log" \in agent
  <2>1. real_zabbix_log' = "__zbx_zabbix_log" /\ stage' = "snprintf" /\ last' = last
    BY <1>2 DEF dlsym
  <2>2. AgentOK'
    BY <1>1, <1>2, <2>1 DEF AgentOK, HandleOK, Stages
  <2> QED
    BY <1>1, <1>2, <2>1, <2>2
       DEF PointersInv, NeverCallsNull, RefusalReported, LogsAtLevel, Found, NoPointer
<1>3. CASE "__zbx_zabbix_log" \notin agent
  <2>1. last' = [to |-> "stderr", level |-> LOG_LEVEL_EMPTY, written |-> TRUE, at |-> level]
        /\ stage' = "refused" /\ real_zabbix_log' = NoPointer
    BY <1>3 DEF NoLogger, stderr, Message, dlsym
  <2>2. last' \in Messages
    BY <1>1, <2>1 DEF Messages, AgentOK
  <2>3. AgentOK'
    BY <1>1, <2>1, <2>2 DEF AgentOK, HandleOK, Stages
  <2> QED
    BY <2>1, <2>3 DEF PointersInv, NeverCallsNull, RefusalReported, LogsAtLevel
<1> QED
  BY <1>2, <1>3

LEMMA FindSnprintfInv ==
    ASSUME StartInv, FindSnprintf
    PROVE  AgentOK' /\ PointersInv' /\ NeverCallsNull' /\ RefusalReported' /\ LogsAtLevel'
<1> USE DEF FindSnprintf, agentVars, vars
<1>1. AgentOK /\ PointersInv /\ LogsAtLevel /\ Found(real_zabbix_log) /\ stage = "snprintf"
  BY AgentType DEF StartInv, PointersInv
<1>2. /\ zbx_snprintf' \in agent \union {NoPointer} /\ handle' = "closed"
      /\ UNCHANGED <<agent, env, level, real_zabbix_check_log_level, real_zbx_log_level,
                     real_zabbix_log>>
  BY DEF dlsym, Dlclosed
<1>3. CASE Found(zbx_snprintf')
  <2>1. stage' = "path" /\ last' = last
    BY <1>3
  <2>2. AgentOK'
    BY <1>1, <1>2, <2>1 DEF PointersInv, AgentOK, HandleOK, Stages
  <2> QED
    BY <1>1, <1>2, <1>3, <2>1, <2>2
       DEF PointersInv, NeverCallsNull, RefusalReported, LogsAtLevel, Found
<1>4. CASE ~Found(zbx_snprintf')
  <2>1. /\ last' \in Messages /\ last'.to = "log" /\ last'.level = LOG_LEVEL_ERR
        /\ last'.written \/ last'.at < LOG_LEVEL_ERR
        /\ stage' = "refused" /\ LogsAtLevel'
    <3>1. zabbix_log(LOG_LEVEL_ERR, "refused")
      BY <1>4 DEF NoSnprintf
    <3> QED
      BY <1>1, <1>2, <3>1, LogStep DEF AgentOK
  <2>2. AgentOK'
    BY <1>1, <1>2, <2>1 DEF PointersInv, AgentOK, HandleOK, Stages
  <2>3. RefusalReported'
    BY <2>1, Zenon DEF RefusalReported
  <2>4. PointersInv' /\ NeverCallsNull'
    BY <2>1 DEF PointersInv, NeverCallsNull
  <2> QED
    BY <2>1, <2>2, <2>3, <2>4
<1> QED
  BY <1>3, <1>4

\* From the path on, a step that moves no pointer and logs at most one message.
LEMMA LaterStep ==
    ASSUME StartInv, stage \in {"path", "announce", "config", "serving"},
           UNCHANGED <<agent, env, handle, pointers>>, level' \in Levels,
           stage' \in {"path", "announce", "config", "serving", "refused"},
           last' = last \/ \E lv \in {LOG_LEVEL_ERR, LOG_LEVEL_DEBUG, LOG_LEVEL_INFORMATION} :
                              zabbix_log(lv, stage'),
           stage' = "refused" => zabbix_log(LOG_LEVEL_ERR, "refused")
    PROVE  AgentOK' /\ PointersInv' /\ NeverCallsNull' /\ RefusalReported' /\ LogsAtLevel'
<1> USE DEF pointers
<1>1. AgentOK /\ PointersInv /\ LogsAtLevel /\ Found(real_zabbix_log) /\ Found(zbx_snprintf)
  BY AgentType DEF StartInv, PointersInv
<1>2. last' \in Messages /\ LogsAtLevel'
  <2>1. CASE last' = last
    BY <1>1, <2>1 DEF AgentOK, LogsAtLevel, Found
  <2>2. ASSUME NEW lv \in {LOG_LEVEL_ERR, LOG_LEVEL_DEBUG, LOG_LEVEL_INFORMATION},
               zabbix_log(lv, stage')
        PROVE  last' \in Messages /\ LogsAtLevel'
    BY <1>1, <2>2, LogStep DEF AgentOK
  <2> QED
    BY <2>1, <2>2
<1>3. AgentOK'
  BY <1>1, <1>2 DEF AgentOK, HandleOK, Stages
<1>4. PointersInv' /\ NeverCallsNull'
  BY <1>1 DEF PointersInv, NeverCallsNull, Found
<1>5. ASSUME stage' = "refused"
      PROVE  /\ last'.to = "log" /\ last'.level = LOG_LEVEL_ERR
             /\ last'.written \/ last'.at < LOG_LEVEL_ERR
  <2>1. zabbix_log(LOG_LEVEL_ERR, "refused")
    BY <1>5
  <2> QED
    BY <1>1, <2>1, LogStep DEF AgentOK
<1> QED
  BY <1>2, <1>3, <1>4, <1>5 DEF RefusalReported

LEMMA ConfigInv ==
    ASSUME StartInv, getPGCONFIGFILE \/ init_config \/ ReadConfig
    PROVE  AgentOK' /\ PointersInv' /\ NeverCallsNull' /\ RefusalReported' /\ LogsAtLevel'
<1> USE DEF agentVars
<1>1. (level \in Levels /\ Found(real_zabbix_log)) \/ stage \notin {"path", "announce", "config"}
  BY AgentType DEF StartInv, AgentOK, PointersInv
<1>2. CASE getPGCONFIGFILE
  <2>1. stage = "path" /\ UNCHANGED <<agentVars, handle, pointers>>
    BY <1>2 DEF getPGCONFIGFILE
  <2>2. zabbix_log(LOG_LEVEL_ERR, "announce") \/ (stage' = "announce" /\ last' = last)
    <3>1. CASE env = "too long"
      BY <1>2, <3>1, Zenon DEF getPGCONFIGFILE
    <3>2. CASE env # "too long"
      BY <1>2, <3>2, Zenon DEF getPGCONFIGFILE
    <3> QED
      BY <3>1, <3>2
  <2>3. stage' = "announce"
    BY <1>1, <2>1, <2>2, LogStep DEF pointers
  <2> QED
    BY <1>1, <2>1, <2>3, <2>2, LaterStep, AgentType DEF StartInv, AgentOK
<1>3. CASE init_config
  <2>1. /\ stage = "announce" /\ UNCHANGED <<agentVars, handle, pointers>>
        /\ zabbix_log(LOG_LEVEL_INFORMATION, "config")
    BY <1>3 DEF init_config
  <2>2. stage' = "config"
    BY <1>1, <2>1, LogStep DEF pointers
  <2> QED
    BY <1>1, <2>1, <2>2, LaterStep, AgentType DEF StartInv, AgentOK
<1>4. CASE ReadConfig
  <2>1. stage = "config" /\ UNCHANGED <<agentVars, handle, pointers>>
    BY <1>4 DEF ReadConfig
  <2>2. CASE pc' = "refused"
    <3>1. zabbix_log(LOG_LEVEL_ERR, "refused")
      BY <1>4, <2>2 DEF ReadConfig, ConfigRefused
    <3>2. stage' = "refused"
      BY <1>1, <2>1, <3>1, LogStep DEF pointers
    <3> QED
      BY <1>1, <2>1, <3>1, <3>2, LaterStep, AgentType DEF StartInv, AgentOK
  <2>3. CASE pc' # "refused"
    <3>1. stage' \in {"config", "serving"} /\ last' = last
      BY <1>4, <2>1, <2>3 DEF ReadConfig
    <3> QED
      BY <1>1, <2>1, <3>1, LaterStep, AgentType DEF StartInv, AgentOK
  <2> QED
    BY <2>2, <2>3
<1> QED
  BY <1>2, <1>3, <1>4

LEMMA ServingInv ==
    ASSUME StartInv, PG_QUERY \/ Search \/ MODVER \/ set_err_result \/ ChangeLevel
    PROVE  AgentOK' /\ PointersInv' /\ NeverCallsNull' /\ RefusalReported' /\ LogsAtLevel'
<1> USE DEF agentVars
<1>1. stage = "serving"
  BY DEF PG_QUERY, Search, MODVER, set_err_result, ChangeLevel
<1>2. level \in Levels /\ Found(real_zabbix_log) /\ Found(zbx_snprintf)
  BY <1>1, AgentType DEF StartInv, AgentOK, PointersInv
<1>3. CASE PG_QUERY \/ MODVER \/ set_err_result
  <2>1. UNCHANGED <<agentVars, handle, pointers>>
    BY <1>3 DEF PG_QUERY, MODVER, set_err_result
  <2>2. PICK lv \in {LOG_LEVEL_ERR, LOG_LEVEL_DEBUG} : zabbix_log(lv, "serving")
    BY <1>2, <1>3 DEF PG_QUERY, MODVER, set_err_result
  <2>3. stage' = "serving"
    BY <1>2, <2>1, <2>2, LogStep DEF pointers
  <2> QED
    BY <1>1, <1>2, <2>1, <2>2, <2>3, LaterStep
<1>4. CASE Search
  <2>1. UNCHANGED <<agentVars, stage, handle, pointers, last>>
    BY <1>4 DEF Search, startVars
  <2> QED
    BY <1>1, <1>2, <2>1, LaterStep
<1>5. CASE ChangeLevel
  <2>1. level' \in Levels /\ UNCHANGED <<agent, env, stage, handle, pointers, last>>
    BY <1>5 DEF ChangeLevel
  <2> QED
    BY <1>1, <1>2, <2>1, LaterStep
<1> QED
  BY <1>3, <1>4, <1>5

LEMMA StartStutterInv ==
    ASSUME StartInv, UNCHANGED allVars
    PROVE  AgentOK' /\ PointersInv' /\ NeverCallsNull' /\ RefusalReported' /\ LogsAtLevel'
BY AgentType
   DEF StartInv, allVars, startVars, agentVars, pointers, AgentOK, HandleOK, PointersInv,
       NeverCallsNull, RefusalReported, LogsAtLevel, Found

LEMMA StartNextInv == StartInv /\ [StartNext]_allVars => StartInv'
<1> SUFFICES ASSUME StartInv, [StartNext]_allVars PROVE StartInv'
  OBVIOUS
<1>1. Inv'
  BY TableKept DEF StartInv
<1>2. AgentOK' /\ PointersInv' /\ NeverCallsNull' /\ RefusalReported' /\ LogsAtLevel'
  BY DlopenInv, FindLevelsInv, FindLoggerInv, FindSnprintfInv, ConfigInv, ServingInv,
     StartStutterInv DEF StartNext, zbx_module_init
<1>3. (StartTypeOK <=> TypeOK /\ AgentOK)'
  BY AgentType, PTL
<1>4. TypeOK'
  BY <1>1 DEF Inv
<1> QED
  BY <1>1, <1>2, <1>3, <1>4 DEF StartInv

-----------------------------------------------------------------------------
(***************************************************************************)
(* The theorems.                                                           *)
(***************************************************************************)

\* The start keeps its inductive invariant, whatever the agent exports.
THEOREM StartInvariant == StartSpec => []StartInv
<1>1. StartInit => StartInv
  BY StartInitInv
<1>2. StartInv /\ [StartNext]_allVars => StartInv'
  BY StartNextInv
<1> QED
  BY <1>1, <1>2, PTL DEF StartSpec

\* zbx_module_init closes the handle it opens on every way out but one, that of an agent
\* without __zbx_zabbix_log, and each pointer is NULL or a function the agent exports.
THEOREM StartTypeCorrect == StartSpec => []StartTypeOK
<1>1. StartInv => StartTypeOK
  BY DEF StartInv
<1> QED
  BY <1>1, StartInvariant, PTL

\* The module calls no pointer it did not find.
THEOREM NeverCallsNullAlways == StartSpec => []NeverCallsNull
<1>1. StartInv => NeverCallsNull
  BY DEF StartInv
<1> QED
  BY <1>1, StartInvariant, PTL

\* Every way zbx_module_init returns ZBX_MODULE_FAIL has told why.
THEOREM RefusalReportedAlways == StartSpec => []RefusalReported
<1>1. StartInv => RefusalReported
  BY DEF StartInv
<1> QED
  BY <1>1, StartInvariant, PTL

\* zabbix_log writes what the agent's level asks for, with either symbol.
THEOREM LogsAtLevelAlways == StartSpec => []LogsAtLevel
<1>1. StartInv => LogsAtLevel
  BY DEF StartInv
<1> QED
  BY <1>1, StartInvariant, PTL

\* A module that serves looks its queries up in a sorted table, and finds what the file
\* gives the name: what holds of NamedQueries holds of the agent.
THEOREM ServesNamedQueries ==
    StartSpec => [](TableSorted /\ SearchSound /\ LookupCorrect /\ StartsOnGoodConfigOnly)
BY StartsNamedQueries, TableSortedAlways, SearchSoundAlways, LookupCorrectAlways,
   StartsOnGoodConfig, PTL

=============================================================================

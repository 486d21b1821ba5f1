---------------------------- MODULE DatabaseList ----------------------------
(***************************************************************************)
(* The list of databases of a deep discovery, in memory: pg_get_databases  *)
(* lays the names end to end in one block, and pg_get_discovery_wide walks *)
(* it by strlen until it meets an empty name, building a connection string *)
(* for each.  One action is one iteration of a loop of either.             *)
(***************************************************************************)
EXTENDS CStrings

CONSTANTS Databases, NoDb,
          Length,       \* Length[d]: the length of the name of d
          ConnLengths,  \* lengths of the request's connection string
          MaxRows       \* bound: rows of the answer

\* PostgreSQL has no empty names.
ASSUME NamesAssumption == Length \in [Databases -> Nat \ {0}]

\* No character of a name is a terminator.
ASSUME CharactersAssumption == NUL \notin Databases

ASSUME BoundsAssumption == ConnLengths \subseteq Nat /\ MaxRows \in Nat

ASSUME NoDbAssumption == NoDb \notin Databases

VARIABLES
    pc,
    connstring,     \* the request's connection string and
    dbname,         \*     database: NULL, empty or given
    rows,           \* the databases the server returned, in its order
    i,              \* pg_get_databases's i, from 1
    bufferlen,
    databases,      \* the block of the list
    c,              \* pg_get_databases's pointer into it
    db,             \* pg_get_discovery_wide's
    name,           \* build_connstring's dbname, its block and its pointer; the piece
    conninfo, end,  \*     it is about to append; and the label it returns to
    piece, after,
    visited         \* history: the names the walk has met

requestVars == <<connstring, dbname>>
listVars    == <<rows, i, bufferlen, databases, c>>
connVars    == <<name, conninfo, end, piece, after>>
vars == <<pc, requestVars, listVars, db, connVars, visited>>

Name(d) == Word(d, Length[d])
Rows    == {r \in UNION {[1 .. n -> Databases] : n \in 0 .. MaxRows} :
                \A j, k \in DOMAIN r : r[j] = r[k] => j = k}
Options == {NULL} \union {Word("options", n) : n \in ConnLengths}

\* A missing text is no text.
ASSUME NullAssumption == NULL \notin {<<>>, Blank, Dbname} \union {Name(d) : d \in Databases}
                                \union {Word("options", n) : n \in ConnLengths}

NoBlock == Allocate(0)

Init ==
    /\ pc = "begin"
    /\ connstring \in Options
    /\ dbname \in {NULL, <<>>} \union {Name(d) : d \in Databases}
    /\ rows = <<>> /\ i = 1 /\ bufferlen = 0 /\ databases = NoBlock /\ c = 0
    /\ db = 0
    /\ name = NULL /\ conninfo = NoBlock /\ end = 0 /\ piece = 1 /\ after = "list"
    /\ visited = <<>>

-----------------------------------------------------------------------------
(***************************************************************************)
(* build_connstring, called with a database, for a connection whose caller *)
(* goes on at a label.                                                     *)
(***************************************************************************)
build_connstring(database, label) ==
    /\ name' = database
    /\ conninfo' = Allocate(BufferSize(connstring, database))
    /\ end' = 0 /\ piece' = 1
    /\ after' = label
    /\ pc' = "connstring"

AppendPiece ==
    /\ pc = "connstring" /\ piece <= 4
    /\ LET new == strcat2([block |-> conninfo, ptr |-> end],
                          Pieces(connstring, name)[piece])
       IN  conninfo' = new.block /\ end' = new.ptr
    /\ piece' = piece + 1
    /\ UNCHANGED <<pc, requestVars, listVars, db, name, after, visited>>

Connect ==
    /\ pc = "connstring" /\ piece > 4
    /\ pc' = after
    /\ UNCHANGED <<requestVars, listVars, db, connVars, visited>>

-----------------------------------------------------------------------------
(***************************************************************************)
(* pg_get_databases                                                        *)
(***************************************************************************)
Begin ==
    /\ pc = "begin"
    /\ rows' = <<>> /\ i' = 1 /\ bufferlen' = 0 /\ databases' = NoBlock /\ c' = 0
    /\ db' = 0 /\ visited' = <<>>
    /\ build_connstring(dbname, "list")
    /\ UNCHANGED requestVars

\* No connection, or no row: NULL is returned, and the discovery fails.
NoList ==
    /\ pc = "list"
    /\ pc' = "failed"
    /\ UNCHANGED <<requestVars, listVars, db, connVars, visited>>

\* Seeded fault: the terminator of the list is not counted.
FromZero == 0
FromOne == 1

ListRows ==
    /\ pc = "list"
    /\ rows' \in Rows \ {<<>>}
    /\ i' = 1
    /\ bufferlen' = FromOne
    /\ pc' = "measure"
    /\ UNCHANGED <<requestVars, databases, c, db, connVars, visited>>

Measure ==
    /\ pc = "measure" /\ i <= Len(rows)
    /\ bufferlen' = bufferlen + strlen(Name(rows[i])) + 1
    /\ i' = i + 1
    /\ UNCHANGED <<pc, requestVars, rows, databases, c, db, connVars, visited>>

AllocateList ==
    /\ pc = "measure" /\ i > Len(rows)
    /\ databases' = Allocate(bufferlen)
    /\ c' = 0 /\ i' = 1
    /\ pc' = "copy"
    /\ UNCHANGED <<requestVars, rows, bufferlen, db, connVars, visited>>

\* Seeded fault: the next name is written over the terminator of the last one.
AtTerminator(ptr) == ptr
BehindTerminator(ptr) == ptr + 1

Copy ==
    /\ pc = "copy" /\ i <= Len(rows)
    /\ LET new == strcat2([block |-> databases, ptr |-> c], Name(rows[i]))
       IN  databases' = new.block /\ c' = BehindTerminator(new.ptr)
    /\ i' = i + 1
    /\ UNCHANGED <<pc, requestVars, rows, bufferlen, db, connVars, visited>>

Return ==
    /\ pc = "copy" /\ i > Len(rows)
    /\ db' = 0
    /\ pc' = "walk"
    /\ UNCHANGED <<requestVars, listVars, connVars, visited>>

-----------------------------------------------------------------------------
(***************************************************************************)
(* The loop of pg_get_discovery_wide                                       *)
(***************************************************************************)
Visit ==
    /\ pc = "walk" /\ databases.cells[db] # NUL
    /\ build_connstring(StringAt(databases, db), "query")
    /\ visited' = Append(visited, StringAt(databases, db))
    /\ UNCHANGED <<requestVars, listVars, db>>

\* Seeded fault: the walk stays at the database it has visited.
SameName(block, p) == p
NextName(block, p) == p + strlen(StringAt(block, p)) + 1

Advance ==
    /\ pc = "query"
    /\ db' = NextName(databases, db)
    /\ pc' = "walk"
    /\ UNCHANGED <<requestVars, listVars, connVars, visited>>

\* The connection or the statement fails.
VisitFails ==
    /\ pc = "query"
    /\ pc' = "failed"
    /\ UNCHANGED <<requestVars, listVars, db, connVars, visited>>

Finish ==
    /\ pc = "walk" /\ databases.cells[db] = NUL
    /\ pc' = "complete"
    /\ UNCHANGED <<requestVars, listVars, db, connVars, visited>>

\* Another discovery of the same request.
Again ==
    /\ pc \in {"complete", "failed"}
    /\ pc' = "begin"
    /\ UNCHANGED <<requestVars, listVars, db, connVars, visited>>

Run == AppendPiece \/ Connect \/ Begin \/ ListRows \/ Measure \/ AllocateList \/ Copy \/ Return
       \/ Visit \/ Advance \/ Finish

Next == Run \/ NoList \/ VisitFails \/ Again

Spec == Init /\ [][Next]_vars

\* Every call returns, and the loops are run.
FairSpec == Spec /\ WF_vars(Run)

-----------------------------------------------------------------------------
TypeOK ==
    /\ pc \in {"begin", "connstring", "list", "measure", "copy", "walk", "query", "complete", "failed"}
    /\ connstring \in Options
    /\ dbname \in {NULL, <<>>} \union {Name(d) : d \in Databases}
    /\ rows \in Rows
    /\ i \in 1 .. Len(rows) + 1
    /\ bufferlen \in Nat /\ c \in Nat /\ db \in Nat
    /\ databases.size \in Nat /\ conninfo.size \in Nat
    /\ end \in Nat /\ piece \in 1 .. 5 /\ after \in {"list", "query"}
    /\ Len(visited) \in 0 .. MaxRows

\* Inside the loop of pg_get_discovery_wide.
Walking == pc \in {"walk", "query"} \/ (pc = "connstring" /\ after = "query")

\* No loop of either routine reads or writes outside the block it was given: the copy
\* starts inside it, no cell behind it changes, every name the walk measures ends in
\* it, and so does the connection string libpq reads.
StaysInBlock ==
    /\ TypeOK
    /\ Untouched(databases) /\ Untouched(conninfo)
    /\ pc = "copy" => c < bufferlen
    /\ Walking => Terminator(databases, db) < databases.size
    /\ pc = "connstring" => end < conninfo.size
    /\ pc \in {"list", "query"} => Terminator(conninfo, 0) < conninfo.size

\* Whatever is empty or missing, build_connstring leaves in its block the user's options,
\* a blank and the database, each whole and nothing else.
ConnectsAsMeant ==
    pc \in {"list", "query"} => StringAt(conninfo, 0) = Wanted(connstring, name)

\* The walk meets the databases of the answer, each whole, in their order and once,
\* and is complete only when it has met the last one.
VisitsEveryDatabase ==
    /\ Walking \/ pc = "complete" =>
          /\ Len(visited) <= Len(rows)
          /\ \A k \in DOMAIN visited : visited[k] = Name(rows[k])
    /\ pc = "complete" => Len(visited) = Len(rows)

-----------------------------------------------------------------------------
(***************************************************************************)
(* The block, read from db on, is a set of databases to visit.             *)
(***************************************************************************)
Holds(p, d) ==
    /\ p = 0 \/ databases.cells[p - 1] = NUL
    /\ StringAt(databases, p) = Name(d)

InBlock == {d \in Databases : \E p \in db .. databases.size - 1 : Holds(p, d)}
AtDb    == {d \in Databases : Holds(db, d)}

PhaseOf ==
    CASE Walking                        -> "walking"
      [] pc \in {"complete", "failed"}  -> pc
      [] OTHER                          -> "listing"

TodoOf ==
    CASE pc = "walk"              -> InBlock
      [] Walking /\ pc # "walk"   -> InBlock \ AtDb
      [] ~Walking                 -> {}

CurrentOf ==
    IF Walking /\ pc # "walk" /\ AtDb # {} THEN CHOOSE d \in AtDb : TRUE ELSE NoDb

Walk == INSTANCE DatabaseWalk
        WITH Walkers <- {"handler"},
             phase <- [x \in {"handler"} |-> PhaseOf],
             todo <- [x \in {"handler"} |-> TodoOf],
             current <- [x \in {"handler"} |-> CurrentOf]

\* The walk over the block is a walk over a set of databases: each is visited once, it
\* is complete only when none is left, and once begun it always ends.
ImplementsWalk == Walk!FairSpec
=============================================================================

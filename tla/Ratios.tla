------------------------------- MODULE Ratios -------------------------------
(***************************************************************************)
(* The ratios: the query pg_get_percentage writes for an asset with a name *)
(* and for all of them, evaluated as the server evaluates it, NULLs        *)
(* included, and the share of the prepared transactions.                   *)
(*                                                                         *)
(* An asset has a part (blocks hit, index scans) and a rest (blocks read,  *)
(* sequential scans).  A column is NULL for what the asset does not have:  *)
(* both of a table without TOAST, the index scans of a table without index.*)
(***************************************************************************)
EXTENDS Integers, FiniteSets, FiniteSetsExt

CONSTANTS
    Assets,         \* the tables, indexes or databases there may be
    MaxCount,       \* bound on every counter
    NULL

ASSUME RatiosAssumption ==
    /\ IsFiniteSet(Assets) /\ MaxCount \in Nat \ {0}
    /\ NULL \notin Int /\ NULL \notin [num : Int, den : Int]

VARIABLES
    part, rest,     \* the columns: part[a], rest[a] for the assets that exist
    prepared, max_prepared_transactions

assetVars == <<part, rest>>
vars == <<part, rest, prepared, max_prepared_transactions>>

Existing == DOMAIN part
Counts   == 0 .. MaxCount

\* The rows the views can show: a NULL rest goes with a NULL part.
Rows == {r \in [part : Counts \union {NULL}, rest : Counts \union {NULL}] :
            r.rest = NULL => r.part = NULL}

-----------------------------------------------------------------------------
(***************************************************************************)
(* SQL: an operator with a NULL argument is NULL, SUM leaves NULLs out and *)
(* is NULL over none, and a condition that is NULL does not hold.          *)
(***************************************************************************)
Plus(x, y) == IF NULL \in {x, y} THEN NULL ELSE x + y

\* A fraction over 0 is the server's error.
Over(x, y) == IF NULL \in {x, y} THEN NULL ELSE [num |-> x, den |-> y]

Sum(column) ==
    LET given == {a \in Existing : column[a] # NULL}
    IN  IF given = {} THEN NULL ELSE MapThenSumSet(LAMBDA a : column[a], given)

One == [num |-> 1, den |-> 1]

IsZero(col2) == col2 = 0

\* Seeded fault: the divisor is the other column alone.
RestOnly(p, r) == r
Whole(p, r) == Plus(p, r)

\* CASE WHEN (col2) = 0 THEN 1 ELSE (col1)::float / (col2) END
pg_get_percentage(col1, col2) == IF IsZero(col2) THEN One ELSE Over(col1, col2)

\* pg_get_dbl reads the empty text of NULL as 0.
pg_get_dbl(x) == IF x = NULL THEN [num |-> 0, den |-> 1] ELSE x

\* Seeded fault: the dividend of the total is the other sum.
MissesOfAll == Sum(rest)
PartOfAll == Sum(part)

\* Seeded fault: the columns of a named asset are exchanged.
RestColumn(a) == rest[a]
PartColumn(a) == part[a]

RatioOf(a) == pg_get_dbl(pg_get_percentage(PartColumn(a), Whole(part[a], rest[a])))
RatioOfAll == pg_get_dbl(pg_get_percentage(PartOfAll, Whole(Sum(part), Sum(rest))))

PG_PREPARED_XACTS_RATIO ==
    IF max_prepared_transactions = 0 THEN [num |-> 0, den |-> 1]
    ELSE Over(prepared, max_prepared_transactions)

-----------------------------------------------------------------------------
Init ==
    /\ \E As \in SUBSET Assets :
          \E row \in [As -> {r \in Rows : {r.part, r.rest} \subseteq {0, NULL}}] :
              /\ part = [a \in As |-> row[a].part]
              /\ rest = [a \in As |-> row[a].rest]
    /\ max_prepared_transactions \in Counts /\ prepared = 0

Hit(a) ==
    /\ part[a] # NULL /\ part[a] < MaxCount
    /\ part' = [part EXCEPT ![a] = @ + 1]
    /\ UNCHANGED <<rest, prepared, max_prepared_transactions>>

Miss(a) ==
    /\ rest[a] # NULL /\ rest[a] < MaxCount
    /\ rest' = [rest EXCEPT ![a] = @ + 1]
    /\ UNCHANGED <<part, prepared, max_prepared_transactions>>

\* The asset is created, dropped, given an index or TOAST, or loses it; its counters
\* start at zero.
Change(a) ==
    /\ \/ a \in Existing /\ LET others == Existing \ {a}
                            IN  /\ part' = [b \in others |-> part[b]]
                                /\ rest' = [b \in others |-> rest[b]]
       \/ \E r \in Rows :
             /\ {r.part, r.rest} \subseteq {0, NULL}
             /\ part' = [b \in Existing \union {a} |-> IF b = a THEN r.part ELSE part[b]]
             /\ rest' = [b \in Existing \union {a} |-> IF b = a THEN r.rest ELSE rest[b]]
    /\ UNCHANGED <<prepared, max_prepared_transactions>>

Prepare ==
    /\ prepared < max_prepared_transactions
    /\ prepared' = prepared + 1
    /\ UNCHANGED <<assetVars, max_prepared_transactions>>

CommitPrepared ==
    /\ prepared > 0
    /\ prepared' = prepared - 1
    /\ UNCHANGED <<assetVars, max_prepared_transactions>>

\* A server with prepared transactions does not start with fewer places for them.
RestartWith(n) ==
    /\ n >= prepared
    /\ max_prepared_transactions' = n
    /\ UNCHANGED <<assetVars, prepared>>

Next ==
    \/ \E a \in Existing : Hit(a) \/ Miss(a)
    \/ \E a \in Assets : Change(a)
    \/ Prepare \/ CommitPrepared \/ \E n \in Counts : RestartWith(n)

Spec == Init /\ [][Next]_vars

-----------------------------------------------------------------------------
Fractions == [num : Nat, den : Nat \ {0}]

Reported == {RatioOf(a) : a \in Existing} \union {RatioOfAll, PG_PREPARED_XACTS_RATIO}

TypeOK ==
    /\ DOMAIN part = DOMAIN rest /\ Existing \subseteq Assets
    /\ \A a \in Existing : [part |-> part[a], rest |-> rest[a]] \in Rows
    /\ prepared \in 0 .. max_prepared_transactions
    /\ max_prepared_transactions \in Counts

AtMost(x, y) == x.num * y.den <= y.num * x.den

\* Whatever is NULL or zero, no query divides by zero, and every ratio reported is a share
\* of a whole.
RatioIsShare ==
    /\ TypeOK
    /\ \A x \in Reported : x \in Fractions /\ AtMost(x, One)

\* The ratio of all assets lies between the smallest and the largest that their own
\* keys report: the sums treat the idle ones and those with NULLs as their rows do.
TotalBetween ==
    Existing # {} =>
        /\ \E a \in Existing : AtMost(RatioOf(a), RatioOfAll)
        /\ \E a \in Existing : AtMost(RatioOfAll, RatioOf(a))

\* A hit never lowers the ratio of its asset or of all of them, a miss never raises it.
HitsRaiseMissesLower ==
    [][\A a \in Existing :
          /\ Hit(a) => AtMost(RatioOf(a), RatioOf(a)') /\ AtMost(RatioOfAll, RatioOfAll')
          /\ Miss(a) => AtMost(RatioOf(a)', RatioOf(a)) /\ AtMost(RatioOfAll', RatioOfAll)]_vars
=============================================================================

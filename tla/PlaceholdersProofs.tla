------------------------- MODULE PlaceholdersProofs -------------------------
(***************************************************************************)
(* Every placeholder gets its own string, whatever the strings, the OIDs,  *)
(* the addresses and the sessions of the server, and however many          *)
(* parameters a query has.                                                 *)
(***************************************************************************)
EXTENDS Placeholders, ItemKeysProofs, SequenceTheorems

-----------------------------------------------------------------------------
(***************************************************************************)
(* What the loops keep.                                                    *)
(***************************************************************************)
Strings == STRING \ {""}
Texts   == Strings \union {""}

\* The array that holds s: no array for no string, a terminator behind the last otherwise.
Terminated(array, s) ==
    /\ s \in Seq(Strings)
    /\ array = IF s = <<>> THEN <<>> ELSE Append(s, NULL)

\* The j-th parameter leaves session b in.
Allows(p, j, b) ==
    LET given == get_rparam(p, j)
    IN  \/ strisnull(given)
        \/ j = 1 /\ given \in {b.datid, b.datname}
        \/ j = 2 /\ given \in {b.usesysid, b.usename}
        \/ j = 3 /\ given \in {b.client_addr, b.client_hostname}
        \/ j = 4 /\ given = b.waiting

\* The condition c leaves session b in, when the strings of s are bound.
Meets(c, s, b) == b[c.column] = IF c.column = "waiting" THEN c.value ELSE s[c.hole]

Conditions(n) == [column : Columns \ {"waiting"}, hole : 1 .. n]
                 \union [column : {"waiting"}, value : {"true", "false"}]

\* The filters among the parameters before the j-th.
FiltersBefore(p, j) == {k \in GivenFilters(p) : k < j}

\* Before the j-th parameter: the conditions written leave in the sessions that the
\* parameters read leave in; there are as many placeholders as strings, and as many
\* strings as filters.
ClauseAt(p, j, s, conditions, n) ==
    /\ j \in 1 .. 5 /\ n \in 0 .. 3 /\ n < j /\ n = Len(s)
    /\ conditions \in Seq(Conditions(n))
    /\ \A b \in Backends : (\A k \in 1 .. Len(conditions) : Meets(conditions[k], s, b))
                              <=> \A k \in 1 .. j - 1 : Allows(p, k, b)
    /\ n = Cardinality(FiltersBefore(p, j))
    /\ j = 5 => build_activity_clause(p)

ClauseInv ==
    /\ ClauseAt(request.p, i, Bound, clause, pgi)
    /\ pc = "sent" => i = 5
    /\ pc = "refused" => i = 4 /\ ~build_activity_clause(request.p)

\* The parameters of a query before the j-th that are bound, and their places in order.
PlacesBefore(p, j) == {k \in 2 .. Len(p) : k < j /\ ~strisnull(p[k])}

InOrder(p, s, places) ==
    \E place \in [1 .. Len(s) -> places] :
        /\ \A k \in 1 .. Len(s) : s[k] = p[place[k]]
        /\ \A k, l \in 1 .. Len(s) : k < l => place[k] < place[l]
        /\ \A q \in places : \E k \in 1 .. Len(s) : place[k] = q

QueryAt(p, j, s) ==
    /\ j \in 2 .. Len(p) + 1
    /\ InOrder(p, s, PlacesBefore(p, j))
    /\ Len(s) = Cardinality(PlacesBefore(p, j))

QueryInv ==
    /\ clause = <<>> /\ pgi = 0
    /\ pc \in {"loop", "sent"} =>
          QueryAt(request.p, i, Bound) /\ ~strisnull(get_rparam(request.p, 1))
    /\ pc = "sent" => i = Len(request.p) + 1
    /\ pc = "refused" => strisnull(get_rparam(request.p, 1)) /\ Bound = <<>> /\ i = 2
    /\ pc = "idle" => i = 1

PInv ==
    /\ pc \in {"idle", "loop", "sent", "refused"}
    /\ request \in Requests
    /\ Terminated(params, Bound)
    /\ request.key \in ClauseKeys => ClauseInv
    /\ request.key \in QueryKeys => QueryInv

-----------------------------------------------------------------------------
(***************************************************************************)
(* The array and the strings in it.                                        *)
(***************************************************************************)
LEMMA StringsOf ==
    ASSUME NEW array, NEW s, Terminated(array, s)
    PROVE  /\ s \in Seq(STRING) /\ Len(s) \in Nat
           /\ \A k \in 1 .. Len(s) : s[k] \in STRING /\ s[k] # "" /\ s[k] # NULL
<1>1. s \in Seq(Strings)
    BY DEF Terminated
<1>2. Len(s) \in Nat /\ \A k \in 1 .. Len(s) : s[k] \in Strings
    BY <1>1
<1>3. \A x \in Strings : x \in STRING /\ x # "" /\ x # NULL
    BY NullAssumption DEF Strings
<1>4. s \in Seq(STRING)
    <2>1. Strings \subseteq STRING
        BY <1>3
    <2> QED BY <1>1, <2>1, SeqMonotonic
<1> QED BY <1>2, <1>3, <1>4

\* The cells of an array: its strings, then the terminator.
LEMMA CellsOf ==
    ASSUME NEW array, NEW s, Terminated(array, s), s # <<>>
    PROVE  /\ array = Append(s, NULL) /\ Len(array) = Len(s) + 1
           /\ \A k \in 1 .. Len(s) : array[k] = s[k]
           /\ array[Len(s) + 1] = NULL
<1>1. array = Append(s, NULL) /\ s \in Seq(Strings)
    BY DEF Terminated
<1>2. s \in Seq(Strings \union {NULL})
    BY <1>1
<1> QED BY <1>1, <1>2

\* param_len stops at the terminator.
LEMMA LenOf ==
    ASSUME NEW array, NEW s, Terminated(array, s)
    PROVE  param_len(array) = Len(s)
<1>1. CASE s = <<>>
    BY <1>1 DEF Terminated, param_len
<1>2. CASE s # <<>>
    <2> DEFINE Ends(n) == /\ n = Len(array) \/ array[n + 1] = NULL
                          /\ \A k \in 1 .. n : array[k] # NULL
    <2>1. /\ Len(s) \in Nat /\ Len(array) = Len(s) + 1
          /\ \A k \in 1 .. Len(s) : array[k] # NULL
          /\ array[Len(s) + 1] = NULL
        <3>1. /\ Len(s) \in Nat /\ Len(array) = Len(s) + 1
              /\ \A k \in 1 .. Len(s) : array[k] = s[k]
              /\ array[Len(s) + 1] = NULL
            BY <1>2, StringsOf, CellsOf
        <3>2. \A k \in 1 .. Len(s) : s[k] # NULL
            BY StringsOf
        <3> QED BY <3>1, <3>2
    <2>2. array # <<>>
        BY <2>1
    <2>3. Ends(Len(s)) /\ Len(s) \in 0 .. Len(array)
        BY <2>1
    <2>4. ASSUME NEW n \in 0 .. Len(array), Ends(n) PROVE n = Len(s)
        <3>1. CASE n < Len(s)
            <4>1. n + 1 \in 1 .. Len(s)
                BY <2>1, <3>1
            <4>2. array[n + 1] # NULL /\ n # Len(array)
                BY <2>1, <3>1, <4>1
            <4> QED BY <2>4, <4>2
        <3>2. CASE n > Len(s)
            <4>1. Len(s) + 1 \in 1 .. n
                BY <2>1, <3>2
            <4> QED BY <2>1, <2>4, <4>1
        <3> QED BY <2>1, <3>1, <3>2
    <2>5. param_len(array) = CHOOSE n \in 0 .. Len(array) : Ends(n)
        BY <2>2 DEF param_len
    <2> HIDE DEF Ends
    <2> QED BY <2>3, <2>4, <2>5
<1> QED BY <1>1, <1>2

LEMMA PrefixOf ==
    ASSUME NEW array, NEW s, Terminated(array, s)
    PROVE  SubSeq(array, 1, param_len(array)) = s
<1>1. CASE s = <<>>
    <2>1. array = <<>> /\ param_len(array) = 0
        BY <1>1 DEF Terminated, param_len
    <2> QED BY <1>1, <2>1
<1>2. CASE s # <<>>
    <2>1. s \in Seq(Strings) /\ Len(s) \in Nat
        BY DEF Terminated
    <2>2. /\ array = Append(s, NULL) /\ Len(array) = Len(s) + 1
          /\ \A k \in 1 .. Len(s) : array[k] = s[k]
        BY <1>2, CellsOf
    <2>3. array \in Seq(Strings \union {NULL})
        BY <2>1, <2>2
    <2>4. SubSeq(array, 1, Len(s)) = s
        BY <2>1, <2>2, <2>3
    <2> QED BY <2>4, LenOf
<1> QED BY <1>1, <1>2

\* Two elements put behind a sequence are appended one after the other.
LEMMA TwoBehind ==
    ASSUME NEW S, NEW s \in Seq(S), NEW a \in S, NEW b \in S
    PROVE  s \o <<a, b>> = Append(Append(s, a), b)
<1>1. Append(s, a) \in Seq(S) /\ Append(s, a) = s \o <<a>>
    BY AppendProperties, AppendIsConcat
<1>2. Append(Append(s, a), b) = (s \o <<a>>) \o <<b>>
    BY <1>1, AppendIsConcat
<1>3. <<a>> \in Seq(S) /\ <<b>> \in Seq(S) /\ <<a, b>> = <<a>> \o <<b>>
    <2> DEFINE both == <<a>> \o <<b>>
    <2>1. <<a>> \in Seq(S) /\ <<b>> \in Seq(S) /\ <<a, b>> \in Seq(S)
        OBVIOUS
    <2>2. both \in Seq(S) /\ Len(both) = 2 /\ both[1] = a /\ both[2] = b
        BY <2>1, ConcatProperties
    <2>3. Len(<<a, b>>) = 2 /\ <<a, b>>[1] = a /\ <<a, b>>[2] = b
        OBVIOUS
    <2> HIDE DEF both
    <2>4. <<a, b>> = both
        BY <2>1, <2>2, <2>3, SeqEqual
    <2> QED BY <2>1, <2>4 DEF both
<1>4. s \o (<<a>> \o <<b>>) = (s \o <<a>>) \o <<b>>
    BY <1>3, ConcatAssociative
<1> QED BY <1>2, <1>3, <1>4

\* A string put in the place of the terminator, and a new terminator behind it.
LEMMA Extending ==
    ASSUME NEW array, NEW s, NEW str \in Strings, Terminated(array, s)
    PROVE  Terminated(SubSeq(array, 1, param_len(array)) \o <<str, NULL>>, Append(s, str))
<1>1. s \in Seq(Strings)
    BY DEF Terminated
<1>2. Append(s, str) \in Seq(Strings) /\ Append(s, str) # <<>>
    BY <1>1, AppendProperties
<1>3. s \o <<str, NULL>> = Append(Append(s, str), NULL)
    <2> DEFINE Cells == Strings \union {NULL}
    <2>1. Strings \subseteq Cells /\ str \in Cells /\ NULL \in Cells
        OBVIOUS
    <2>2. s \in Seq(Cells)
        BY <1>1, <2>1, SeqMonotonic
    <2> HIDE DEF Cells
    <2> QED BY <2>1, <2>2, TwoBehind
<1> QED BY <1>2, <1>3, PrefixOf DEF Terminated

\* param_append adds a string behind the others, and leaves an empty one out.
LEMMA Appending ==
    ASSUME NEW array, NEW s, NEW str \in Texts, Terminated(array, s)
    PROVE  Terminated(param_append(array, str), IF strisnull(str) THEN s ELSE Append(s, str))
<1>1. CASE strisnull(str)
    BY <1>1 DEF param_append
<1>2. CASE ~strisnull(str)
    <2>1. str \in Strings
        BY <1>2 DEF strisnull, Texts
    <2>2. Terminated(SubSeq(array, 1, param_len(array)) \o <<str, NULL>>, Append(s, str))
        BY <2>1, Extending
    <2> QED BY <1>2, <2>2 DEF param_append
<1> QED BY <1>1, <1>2

\* The strings bound are the strings of the array.
LEMMA BoundAre ==
    ASSUME NEW s, Terminated(params, s)
    PROVE  Bound = s
BY PrefixOf DEF Bound

-----------------------------------------------------------------------------
(***************************************************************************)
(* The requests.                                                           *)
(***************************************************************************)
LEMMA KeysApart == ClauseKeys \intersect QueryKeys = {}
BY DEF ClauseKeys, QueryKeys

LEMMA RequestType ==
    ASSUME NEW r \in Requests
    PROVE  /\ r.key \in ClauseKeys \/ r.key \in QueryKeys
           /\ r.p \in Seq(STRING) /\ Len(r.p) \in Nat
           /\ \A j : get_rparam(r.p, j) \in Texts
<1>1. r \in [key : ClauseKeys \union QueryKeys, p : Seq(STRING)]
    BY RequestsAssumption
<1>2. r.key \in ClauseKeys \union QueryKeys /\ r.p \in Seq(STRING)
    BY <1>1
<1>3. Len(r.p) \in Nat /\ DOMAIN r.p = 1 .. Len(r.p)
      /\ \A j \in 1 .. Len(r.p) : r.p[j] \in STRING
    BY <1>2, LenProperties, ElementOfSeq
<1>4. ASSUME NEW j PROVE get_rparam(r.p, j) \in Texts
    <2>1. CASE j \in DOMAIN r.p
        <3>1. get_rparam(r.p, j) = r.p[j]
            BY <2>1 DEF get_rparam
        <3> QED BY <1>3, <2>1, <3>1 DEF Texts, Strings
    <2>2. CASE j \notin DOMAIN r.p
        BY <2>2 DEF get_rparam, Texts
    <2> QED BY <2>1, <2>2
<1> QED BY <1>2, <1>3, <1>4

-----------------------------------------------------------------------------
(***************************************************************************)
(* The clause.                                                             *)
(***************************************************************************)
\* A filter is counted when its parameter is read.
LEMMA FilterCounted ==
    ASSUME NEW p, NEW j \in 1 .. 4
    PROVE  /\ FiltersBefore(p, 1) = {}
           /\ FiltersBefore(p, 4) = GivenFilters(p) /\ FiltersBefore(p, 5) = GivenFilters(p)
           /\ Cardinality(FiltersBefore(p, j + 1)) =
                 Cardinality(FiltersBefore(p, j))
                    + IF j # 4 /\ ~strisnull(get_rparam(p, j)) THEN 1 ELSE 0
<1>1. GivenFilters(p) = {k \in 1 .. 3 : ~strisnull(get_rparam(p, k))}
    BY DEF GivenFilters
<1>2. /\ FiltersBefore(p, 1) = {}
      /\ FiltersBefore(p, 4) = GivenFilters(p) /\ FiltersBefore(p, 5) = GivenFilters(p)
    BY <1>1 DEF FiltersBefore
<1>3. IsFiniteSet(FiltersBefore(p, j))
    <2>1. 1 \in Int /\ 3 \in Int
        OBVIOUS
    <2>2. IsFiniteSet(1 .. 3)
        BY <2>1, FS_Interval, Zenon
    <2>3. FiltersBefore(p, j) \in SUBSET (1 .. 3)
        BY <1>1 DEF FiltersBefore
    <2> QED BY <2>2, <2>3, FS_Subset
<1>4. Cardinality(FiltersBefore(p, j)) \in Nat
    BY <1>3, FS_CardinalityType
<1>5. CASE j # 4 /\ ~strisnull(get_rparam(p, j))
    <2>1. FiltersBefore(p, j + 1) = FiltersBefore(p, j) \union {j} /\ j \notin FiltersBefore(p, j)
        BY <1>1, <1>5 DEF FiltersBefore
    <2>2. Cardinality(FiltersBefore(p, j) \union {j}) = Cardinality(FiltersBefore(p, j)) + 1
        BY <1>3, <2>1, FS_AddElement
    <2> QED BY <1>2, <1>5, <2>1, <2>2
<1>6. CASE ~(j # 4 /\ ~strisnull(get_rparam(p, j)))
    <2>1. FiltersBefore(p, j + 1) = FiltersBefore(p, j)
        BY <1>1, <1>6 DEF FiltersBefore
    <2> QED BY <1>2, <1>4, <1>6, <2>1
<1> QED BY <1>5, <1>6

LEMMA ClauseStarts ==
    ASSUME NEW p
    PROVE  ClauseAt(p, 1, <<>>, <<>>, 0)
<1>1. Cardinality(FiltersBefore(p, 1)) = 0
    <2>1. 1 \in 1 .. 4
        OBVIOUS
    <2> QED BY <2>1, FilterCounted, FS_EmptySet
<1>2. <<>> \in Seq(Conditions(0))
    OBVIOUS
<1>3. Len(<<>>) = 0 /\ 1 .. 0 = {} /\ 1 - 1 = 0
    OBVIOUS
<1> QED BY <1>1, <1>2, <1>3 DEF ClauseAt

\* A parameter that is missing or empty leaves every session in.
LEMMA ClauseSkips ==
    ASSUME NEW p, NEW j, NEW s, NEW conditions, NEW n,
           ClauseAt(p, j, s, conditions, n), j # 5, strisnull(get_rparam(p, j))
    PROVE  ClauseAt(p, j + 1, s, conditions, n)
<1>1. j \in 1 .. 4
    BY DEF ClauseAt
<1>2. n = Cardinality(FiltersBefore(p, j + 1))
    BY <1>1, FilterCounted DEF ClauseAt
<1>3. ASSUME NEW b
      PROVE  (\A k \in 1 .. j - 1 : Allows(p, k, b)) <=> \A k \in 1 .. j + 1 - 1 : Allows(p, k, b)
    <2>1. Allows(p, j, b)
        BY DEF Allows
    <2>2. \A k \in 1 .. j + 1 - 1 : k \in 1 .. j - 1 \/ k = j
        BY <1>1
    <2>3. \A k \in 1 .. j - 1 : k \in 1 .. j + 1 - 1
        BY <1>1
    <2> QED BY <2>1, <2>2, <2>3
<1>4. j + 1 = 5 => build_activity_clause(p)
    <2>1. j + 1 = 5 => j = 4
        BY <1>1
    <2>2. get_rparam(p, j) = ""
        BY DEF strisnull
    <2>3. j = 4 => get_rparam(p, 4) = ""
        BY <2>2, Zenon
    <2> QED BY <2>1, <2>3 DEF build_activity_clause
<1>5. j + 1 \in 1 .. 5 /\ n < j + 1
    BY <1>1 DEF ClauseAt
<1> QED BY <1>2, <1>3, <1>4, <1>5 DEF ClauseAt

\* The conditions written do not see a string bound after them.
LEMMA OldConditions ==
    ASSUME NEW s \in Seq(Strings), NEW str \in Strings, NEW c \in Conditions(Len(s)), NEW b
    PROVE  Meets(c, Append(s, str), b) <=> Meets(c, s, b)
<1>1. CASE c.column = "waiting"
    BY <1>1 DEF Meets
<1>2. CASE c.column # "waiting"
    <2>1. c.hole \in 1 .. Len(s)
        BY <1>2 DEF Conditions
    <2>2. Append(s, str)[c.hole] = s[c.hole]
        BY <2>1, AppendProperties
    <2> QED BY <1>2, <2>2 DEF Meets
<1> QED BY <1>1, <1>2

LEMMA MoreConditions ==
    ASSUME NEW n \in Nat
    PROVE  Conditions(n) \subseteq Conditions(n + 1)
BY DEF Conditions

\* The condition of a filter is met by the sessions whose OID or name, address or host,
\* the parameter is, and the server does not take one for the other.
LEMMA FilterMeans ==
    ASSUME NEW p, NEW j \in 1 .. 3, NEW s \in Seq(Strings), NEW b \in Backends,
           get_rparam(p, j) \in Strings
    PROVE  Meets([column |-> FilterColumn(j, get_rparam(p, j)), hole |-> Len(s) + 1],
                 Append(s, get_rparam(p, j)), b) <=> Allows(p, j, b)
<1> DEFINE given == get_rparam(p, j)
           col   == FilterColumn(j, given)
<1>1. /\ b.datid \in Oids /\ b.usesysid \in Oids
      /\ b.datname \notin Oids /\ b.usename \notin Oids
      /\ b.client_addr \in Addresses /\ b.client_hostname \notin Addresses
    BY BackendsAssumption
<1>2. Append(s, given)[Len(s) + 1] = given
    BY AppendProperties
<1>3. ~strisnull(given)
    BY DEF strisnull, Strings
<1>4. /\ j = 1 => col = IF given \in Oids THEN "datid" ELSE "datname"
      /\ j = 2 => col = IF given \in Oids THEN "usesysid" ELSE "usename"
      /\ j = 3 => col = IF given \in Addresses THEN "client_addr" ELSE "client_hostname"
    BY DEF FilterColumn, is_oid, is_valid_ip
<1>5. col # "waiting"
    BY <1>4
<1> HIDE DEF given, col
<1>6. Meets([column |-> col, hole |-> Len(s) + 1], Append(s, given), b) <=> b[col] = given
    BY <1>2, <1>5 DEF Meets
<1>7. Allows(p, j, b) <=> \/ j = 1 /\ given \in {b.datid, b.datname}
                          \/ j = 2 /\ given \in {b.usesysid, b.usename}
                          \/ j = 3 /\ given \in {b.client_addr, b.client_hostname}
    BY <1>3 DEF Allows, given
<1>8. b[col] = given <=> Allows(p, j, b)
    <2>1. CASE j = 1
        BY <1>1, <1>4, <1>7, <2>1
    <2>2. CASE j = 2
        BY <1>1, <1>4, <1>7, <2>2
    <2>3. CASE j = 3
        BY <1>1, <1>4, <1>7, <2>3
    <2> QED BY <2>1, <2>2, <2>3
<1> QED BY <1>6, <1>8 DEF given, col

\* A condition appended narrows what is found by what it says.
LEMMA OneMore ==
    ASSUME NEW n \in Nat, NEW m \in Nat, NEW conditions \in Seq(Conditions(n)),
           n <= m, m <= n + 1, NEW c \in Conditions(m)
    PROVE  /\ Append(conditions, c) \in Seq(Conditions(m))
           /\ Len(Append(conditions, c)) = Len(conditions) + 1
           /\ \A k \in 1 .. Len(conditions) + 1 :
                 Append(conditions, c)[k] = IF k = Len(conditions) + 1 THEN c ELSE conditions[k]
<1>1. Conditions(n) \subseteq Conditions(m)
    <2>1. m = n \/ m = n + 1
        OBVIOUS
    <2> QED BY <2>1, MoreConditions
<1>2. conditions \in Seq(Conditions(m))
    BY <1>1, SeqMonotonic
<1>3. Len(conditions) \in Nat
    BY <1>2, LenProperties
<1> QED BY <1>2, <1>3, AppendProperties

LEMMA Narrows ==
    ASSUME NEW p, NEW j \in 1 .. 4, NEW s, NEW t, NEW conditions, NEW c, NEW b,
           Len(conditions) \in Nat,
           Len(Append(conditions, c)) = Len(conditions) + 1,
           \A k \in 1 .. Len(conditions) + 1 :
              Append(conditions, c)[k] = IF k = Len(conditions) + 1 THEN c ELSE conditions[k],
           \A k \in 1 .. Len(conditions) : Meets(conditions[k], t, b) <=> Meets(conditions[k], s, b),
           Meets(c, t, b) <=> Allows(p, j, b),
           (\A k \in 1 .. Len(conditions) : Meets(conditions[k], s, b))
              <=> \A k \in 1 .. j - 1 : Allows(p, k, b)
    PROVE  (\A k \in 1 .. Len(Append(conditions, c)) : Meets(Append(conditions, c)[k], t, b))
              <=> \A k \in 1 .. j + 1 - 1 : Allows(p, k, b)
<1> DEFINE more == Append(conditions, c)
           last == Len(conditions) + 1
<1>1. (\A k \in 1 .. last : Meets(more[k], t, b))
         <=> (\A k \in 1 .. Len(conditions) : Meets(conditions[k], t, b)) /\ Meets(c, t, b)
    <2>1. /\ more[last] = c /\ last \in 1 .. last
          /\ \A k \in 1 .. Len(conditions) : k \in 1 .. last /\ more[k] = conditions[k]
          /\ \A k \in 1 .. last : k \in 1 .. Len(conditions) \/ k = last
        OBVIOUS
    <2> HIDE DEF more, last
    <2> QED BY <2>1
<1>2. (\A k \in 1 .. j + 1 - 1 : Allows(p, k, b))
         <=> (\A k \in 1 .. j - 1 : Allows(p, k, b)) /\ Allows(p, j, b)
    <2>1. /\ j \in 1 .. j + 1 - 1 /\ \A k \in 1 .. j - 1 : k \in 1 .. j + 1 - 1
          /\ \A k \in 1 .. j + 1 - 1 : k \in 1 .. j - 1 \/ k = j
        OBVIOUS
    <2> QED BY <2>1
<1> QED BY <1>1, <1>2

LEMMA ClauseFilters ==
    ASSUME NEW p, NEW j, NEW s \in Seq(Strings), NEW conditions, NEW n,
           ClauseAt(p, j, s, conditions, n), j <= 3, get_rparam(p, j) \in Strings
    PROVE  ClauseAt(p, j + 1, Append(s, get_rparam(p, j)),
                    Append(conditions, [column |-> FilterColumn(j, get_rparam(p, j)),
                                        hole |-> n + 1]),
                    n + 1)
<1> DEFINE given == get_rparam(p, j)
           c     == [column |-> FilterColumn(j, given), hole |-> n + 1]
           t     == Append(s, given)
           more  == Append(conditions, c)
<1>1. /\ j \in 1 .. 3 /\ j \in 1 .. 4 /\ n \in Nat /\ n < j /\ n = Len(s)
      /\ conditions \in Seq(Conditions(n)) /\ Len(conditions) \in Nat
    BY LenProperties DEF ClauseAt
<1>2. /\ j + 1 \in 1 .. 5 /\ j + 1 # 5 /\ n + 1 \in 0 .. 3 /\ n + 1 < j + 1
    BY <1>1
<1>3. Len(t) = n + 1
    BY <1>1, AppendProperties
<1>4. c \in Conditions(n + 1)
    <2>1. FilterColumn(j, given) \in Columns \ {"waiting"}
        BY <1>1 DEF FilterColumn, Columns
    <2>2. n + 1 \in 1 .. n + 1
        BY <1>1
    <2> QED BY <2>1, <2>2 DEF Conditions
<1>5. n + 1 = Cardinality(FiltersBefore(p, j + 1))
    <2>1. ~strisnull(given)
        BY DEF strisnull, Strings
    <2>2. j # 4
        BY <1>1
    <2> QED BY <1>1, <2>1, <2>2, FilterCounted DEF ClauseAt
<1> HIDE DEF c
<1>6. /\ more \in Seq(Conditions(n + 1)) /\ Len(more) = Len(conditions) + 1
      /\ \A k \in 1 .. Len(conditions) + 1 :
            more[k] = IF k = Len(conditions) + 1 THEN c ELSE conditions[k]
    BY <1>1, <1>4, OneMore
<1>7. ASSUME NEW b \in Backends
      PROVE  (\A k \in 1 .. Len(more) : Meets(more[k], t, b))
                <=> \A k \in 1 .. j + 1 - 1 : Allows(p, k, b)
    <2>1. \A k \in 1 .. Len(conditions) : Meets(conditions[k], t, b) <=> Meets(conditions[k], s, b)
        <3> SUFFICES ASSUME NEW k \in 1 .. Len(conditions)
                     PROVE  Meets(conditions[k], t, b) <=> Meets(conditions[k], s, b)
            OBVIOUS
        <3>1. conditions[k] \in Conditions(Len(s))
            BY <1>1, ElementOfSeq
        <3> QED BY <3>1, OldConditions
    <2>2. Meets(c, t, b) <=> Allows(p, j, b)
        BY <1>1, FilterMeans DEF c
    <2>3. (\A k \in 1 .. Len(conditions) : Meets(conditions[k], s, b))
             <=> \A k \in 1 .. j - 1 : Allows(p, k, b)
        BY DEF ClauseAt
    <2> HIDE DEF t
    <2> QED BY <1>1, <1>6, <2>1, <2>2, <2>3, Narrows
<1> HIDE DEF t, more, given
<1>8. ClauseAt(p, j + 1, t, more, n + 1)
    BY <1>2, <1>3, <1>5, <1>6, <1>7 DEF ClauseAt
<1> QED BY <1>8 DEF t, more, c, given

LEMMA ClauseWaits ==
    ASSUME NEW p, NEW j, NEW s, NEW conditions, NEW n,
           ClauseAt(p, j, s, conditions, n), j = 4, get_rparam(p, 4) \in {"true", "false"}
    PROVE  ClauseAt(p, j + 1, s,
                    Append(conditions, [column |-> "waiting", value |-> get_rparam(p, 4)]), n)
<1> DEFINE c    == [column |-> "waiting", value |-> get_rparam(p, 4)]
           more == Append(conditions, c)
<1>1. /\ j \in 1 .. 4 /\ n \in Nat /\ conditions \in Seq(Conditions(n)) /\ Len(conditions) \in Nat
    BY LenProperties DEF ClauseAt
<1>2. c \in Conditions(n)
    BY DEF Conditions
<1>3. n = Cardinality(FiltersBefore(p, j + 1))
    BY <1>1, FilterCounted DEF ClauseAt
<1>4. \A b : Meets(c, s, b) <=> Allows(p, 4, b)
    <2>1. \A b : Meets(c, s, b) <=> b["waiting"] = get_rparam(p, 4)
        BY DEF Meets
    <2>2. ~strisnull(get_rparam(p, 4))
        BY DEF strisnull
    <2> QED BY <2>1, <2>2 DEF Allows
<1>5. build_activity_clause(p)
    BY DEF build_activity_clause
<1> HIDE DEF c
<1>6. /\ more \in Seq(Conditions(n)) /\ Len(more) = Len(conditions) + 1
      /\ \A k \in 1 .. Len(conditions) + 1 :
            more[k] = IF k = Len(conditions) + 1 THEN c ELSE conditions[k]
    BY <1>1, <1>2, OneMore
<1>7. ASSUME NEW b \in Backends
      PROVE  (\A k \in 1 .. Len(more) : Meets(more[k], s, b))
                <=> \A k \in 1 .. j + 1 - 1 : Allows(p, k, b)
    BY <1>1, <1>4, <1>6, Narrows DEF ClauseAt
<1> HIDE DEF more
<1>8. ClauseAt(p, j + 1, s, more, n)
    BY <1>1, <1>3, <1>5, <1>6, <1>7 DEF ClauseAt
<1> QED BY <1>8 DEF more, c

-----------------------------------------------------------------------------
(***************************************************************************)
(* The parameters of a query.                                              *)
(***************************************************************************)
\* A parameter is counted when it is read.
LEMMA PlaceCounted ==
    ASSUME NEW p \in Seq(STRING), NEW j \in 2 .. Len(p)
    PROVE  /\ j \notin PlacesBefore(p, j) /\ PlacesBefore(p, j) \subseteq 2 .. j - 1
           /\ strisnull(p[j]) => PlacesBefore(p, j + 1) = PlacesBefore(p, j)
           /\ ~strisnull(p[j]) =>
                 /\ PlacesBefore(p, j + 1) = PlacesBefore(p, j) \union {j}
                 /\ Cardinality(PlacesBefore(p, j + 1)) = Cardinality(PlacesBefore(p, j)) + 1
           /\ Cardinality(PlacesBefore(p, j)) \in Nat
<1>1. Len(p) \in Nat
    BY LenProperties
<1>2. j \notin PlacesBefore(p, j) /\ PlacesBefore(p, j) \subseteq 2 .. j - 1
    BY <1>1 DEF PlacesBefore
<1>4. IsFiniteSet(PlacesBefore(p, j))
    <2>1. IsFiniteSet(2 .. j - 1)
        BY <1>1, FS_Interval
    <2> QED BY <1>2, <2>1, FS_Subset
<1>5. Cardinality(PlacesBefore(p, j)) \in Nat
    BY <1>4, FS_CardinalityType
<1>6. CASE strisnull(p[j])
    <2>1. PlacesBefore(p, j + 1) = PlacesBefore(p, j)
        BY <1>1, <1>6 DEF PlacesBefore
    <2> QED BY <1>2, <1>5, <1>6, <2>1
<1>7. CASE ~strisnull(p[j])
    <2>1. PlacesBefore(p, j + 1) = PlacesBefore(p, j) \union {j}
        BY <1>1, <1>7 DEF PlacesBefore
    <2>2. Cardinality(PlacesBefore(p, j) \union {j}) = Cardinality(PlacesBefore(p, j)) + 1
        BY <1>2, <1>4, FS_AddElement
    <2> QED BY <1>2, <1>5, <1>7, <2>1, <2>2
<1> QED BY <1>6, <1>7

LEMMA QueryStarts ==
    ASSUME NEW p \in Seq(STRING), Len(p) >= 1
    PROVE  QueryAt(p, 2, <<>>)
<1>1. PlacesBefore(p, 2) = {}
    BY DEF PlacesBefore
<1>2. Cardinality(PlacesBefore(p, 2)) = 0
    BY <1>1, FS_EmptySet
<1>3. Len(p) \in Nat /\ 2 \in 2 .. Len(p) + 1 /\ Len(<<>>) = 0
    BY LenProperties
<1>4. InOrder(p, <<>>, {})
    <2> DEFINE place == [k \in 1 .. Len(<<>>) |-> 0]
    <2>1. 1 .. Len(<<>>) = {}
        OBVIOUS
    <2>2. place \in [1 .. Len(<<>>) -> {}]
        BY <2>1
    <2> HIDE DEF place
    <2> QED BY <2>1, <2>2 DEF InOrder
<1> QED BY <1>1, <1>2, <1>3, <1>4 DEF QueryAt

\* A string bound last comes from a place behind the places of the others.
LEMMA OrderKept ==
    ASSUME NEW p, NEW n \in Nat, NEW s, NEW t, NEW j \in Nat, NEW places,
           Len(s) = n, Len(t) = n + 1, places \subseteq 2 .. j - 1, j >= 2,
           \A k \in 1 .. n : t[k] = s[k],
           t[n + 1] = p[j], InOrder(p, s, places)
    PROVE  InOrder(p, t, places \union {j})
<1>1. PICK place \in [1 .. n -> places] :
          /\ \A k \in 1 .. n : s[k] = p[place[k]]
          /\ \A k, l \in 1 .. n : k < l => place[k] < place[l]
          /\ \A q \in places : \E k \in 1 .. n : place[k] = q
    BY DEF InOrder
<1> DEFINE more == [k \in 1 .. n + 1 |-> IF k = n + 1 THEN j ELSE place[k]]
<1>2. \A k \in 1 .. n : place[k] \in places /\ place[k] \in 2 .. j - 1
    BY <1>1
<1>3. /\ \A k \in 1 .. n : k \in 1 .. n + 1 /\ k # n + 1
      /\ \A k \in 1 .. n + 1 : k \in 1 .. n \/ k = n + 1
      /\ n + 1 \in 1 .. n + 1
    OBVIOUS
<1>4. /\ \A k \in 1 .. n : more[k] = place[k]
      /\ more[n + 1] = j
    BY <1>3
<1>5. more \in [1 .. n + 1 -> places \union {j}]
    BY <1>2, <1>3
<1> HIDE DEF more
<1>6. \A k \in 1 .. n + 1 : t[k] = p[more[k]]
    BY <1>1, <1>3, <1>4
<1>7. ASSUME NEW k \in 1 .. n + 1, NEW l \in 1 .. n + 1, k < l PROVE more[k] < more[l]
    <2>1. k \in 1 .. n
        BY <1>7
    <2>2. CASE l = n + 1
        <3>1. place[k] < j
            BY <1>2, <2>1
        <3> QED BY <1>4, <2>1, <2>2, <3>1
    <2>3. CASE l # n + 1
        <3>1. l \in 1 .. n
            BY <2>3
        <3> QED BY <1>1, <1>4, <1>7, <2>1, <3>1
    <2> QED BY <2>2, <2>3
<1>8. \A q \in places \union {j} : \E k \in 1 .. n + 1 : more[k] = q
    BY <1>1, <1>3, <1>4
<1>9. Len(t) = n + 1
    OBVIOUS
<1> QED BY <1>5, <1>6, <1>7, <1>8, <1>9 DEF InOrder

LEMMA QueryAppends ==
    ASSUME NEW p \in Seq(STRING), NEW s \in Seq(Strings), NEW j, QueryAt(p, j, s),
           j <= Len(p), NEW str \in Texts, p[j] = str
    PROVE  QueryAt(p, j + 1, IF strisnull(str) THEN s ELSE Append(s, str))
<1>1. Len(p) \in Nat /\ j \in 2 .. Len(p) /\ j \in Nat /\ j >= 2 /\ j + 1 \in 2 .. Len(p) + 1
    <2>1. Len(p) \in Nat
        BY LenProperties
    <2>2. j \in 2 .. Len(p) + 1
        BY DEF QueryAt
    <2>3. \A L \in Nat : \A x \in 2 .. L + 1 : x <= L =>
             x \in 2 .. L /\ x \in Nat /\ x >= 2 /\ x + 1 \in 2 .. L + 1
        OBVIOUS
    <2> QED BY <2>1, <2>2, <2>3
<1>2. /\ InOrder(p, s, PlacesBefore(p, j)) /\ Len(s) = Cardinality(PlacesBefore(p, j))
      /\ Len(s) \in Nat
    BY LenProperties DEF QueryAt
<1>3. CASE strisnull(str)
    <2>1. PlacesBefore(p, j + 1) = PlacesBefore(p, j)
        BY <1>1, <1>3, PlaceCounted
    <2> QED BY <1>1, <1>2, <1>3, <2>1 DEF QueryAt
<1>4. CASE ~strisnull(str)
    <2> DEFINE t == Append(s, str)
    <2>1. str \in Strings
        BY <1>4 DEF strisnull, Texts
    <2>2. /\ Len(t) = Len(s) + 1 /\ t[Len(s) + 1] = str
          /\ \A k \in 1 .. Len(s) : t[k] = s[k]
        BY <2>1, AppendProperties
    <2>3. /\ PlacesBefore(p, j) \subseteq 2 .. j - 1
          /\ PlacesBefore(p, j + 1) = PlacesBefore(p, j) \union {j}
          /\ Cardinality(PlacesBefore(p, j + 1)) = Cardinality(PlacesBefore(p, j)) + 1
        BY <1>1, <1>4, PlaceCounted
    <2> HIDE DEF t
    <2>4. InOrder(p, t, PlacesBefore(p, j) \union {j})
        BY <1>1, <1>2, <2>2, <2>3, OrderKept
    <2>5. QueryAt(p, j + 1, t)
        BY <1>1, <1>2, <2>2, <2>3, <2>4 DEF QueryAt
    <2> QED BY <1>4, <2>5 DEF t
<1> QED BY <1>3, <1>4

-----------------------------------------------------------------------------
(***************************************************************************)
(* The inductive invariant.                                                *)
(***************************************************************************)
LEMMA EmptyArray == Terminated(<<>>, <<>>) /\ SubSeq(<<>>, 1, param_len(<<>>)) = <<>>
<1>1. Terminated(<<>>, <<>>)
    BY DEF Terminated
<1> QED BY <1>1, PrefixOf

LEMMA InitPInv == Init => PInv
<1> SUFFICES ASSUME Init PROVE PInv
    OBVIOUS
<1>1. Bound = <<>> /\ Terminated(params, Bound)
    BY EmptyArray DEF Init, Bound
<1>2. ClauseInv
    BY <1>1, ClauseStarts DEF Init, ClauseInv
<1>3. QueryInv
    BY DEF Init, QueryInv
<1> QED BY <1>1, <1>2, <1>3 DEF Init, PInv

LEMMA ReceivePInv == PInv /\ Receive => PInv'
<1> SUFFICES ASSUME Receive PROVE PInv'
    OBVIOUS
<1>1. request' \in Requests /\ params' = <<>> /\ clause' = <<>> /\ pgi' = 0
    BY DEF Receive
<1>2. Bound' = <<>> /\ Terminated(params', Bound')
    BY <1>1, EmptyArray DEF Bound
<1>3. ASSUME request'.key \in ClauseKeys PROVE ClauseInv'
    <2>1. i' = 1 /\ pc' = "loop"
        BY <1>3, KeysApart DEF Receive
    <2> QED BY <1>1, <1>2, <2>1, ClauseStarts DEF ClauseInv
<1>4. ASSUME request'.key \in QueryKeys PROVE QueryInv'
    <2>1. /\ i' = 2
          /\ pc' = IF strisnull(get_rparam(request'.p, 1)) THEN "refused" ELSE "loop"
        BY <1>4, KeysApart DEF Receive
    <2>2. ASSUME ~strisnull(get_rparam(request'.p, 1)) PROVE QueryAt(request'.p, 2, <<>>)
        <3>1. request'.p \in Seq(STRING)
            BY <1>1, RequestType
        <3>2. 1 \in DOMAIN request'.p
            BY <2>2 DEF get_rparam, strisnull
        <3>3. Len(request'.p) >= 1
            BY <3>1, <3>2, LenProperties
        <3> QED BY <3>1, <3>3, QueryStarts
    <2> QED BY <1>1, <1>2, <2>1, <2>2 DEF QueryInv
<1>5. pc' \in {"loop", "refused"}
    BY DEF Receive
<1> QED BY <1>1, <1>2, <1>3, <1>4, <1>5 DEF PInv

LEMMA ClauseFacts ==
    ASSUME PInv, Building
    PROVE  /\ request \in Requests /\ request.key \in ClauseKeys /\ request.key \notin QueryKeys
           /\ Terminated(params, Bound) /\ Bound \in Seq(Strings)
           /\ ClauseAt(request.p, i, Bound, clause, pgi) /\ i \in 1 .. 5
           /\ pgi \in Nat /\ pgi = Len(Bound)
           /\ param \in Texts
<1>1. request \in Requests /\ request.key \in ClauseKeys /\ Terminated(params, Bound) /\ ClauseInv
    BY DEF PInv, Building
<1>2. param \in Texts
    BY <1>1, RequestType DEF param
<1>3. ClauseAt(request.p, i, Bound, clause, pgi)
    BY <1>1 DEF ClauseInv
<1>4. i \in 1 .. 5 /\ pgi \in Nat /\ pgi = Len(Bound)
    BY <1>3 DEF ClauseAt
<1>5. Bound \in Seq(Strings) /\ request.key \notin QueryKeys
    BY <1>1, KeysApart DEF Terminated
<1> QED BY <1>1, <1>2, <1>3, <1>4, <1>5

LEMMA ClauseIndex == PInv /\ Building => i \in 1 .. 5
BY ClauseFacts

LEMMA SkipPInv == PInv /\ Skip => PInv'
<1> SUFFICES ASSUME PInv, Skip PROVE PInv'
    OBVIOUS
<1>1. Building /\ strisnull(param) /\ i <= 4 /\ pc = "loop"
    BY DEF Skip, Building
<1>2. /\ i' = i + 1 /\ pc' = pc /\ request' = request
      /\ params' = params /\ clause' = clause /\ pgi' = pgi
    BY DEF Skip
<1>3. Bound' = Bound
    BY <1>2 DEF Bound
<1>4. ClauseAt(request.p, i + 1, Bound, clause, pgi)
    <2>1. i # 5
        BY <1>1, ClauseIndex
    <2> QED BY <1>1, <2>1, ClauseFacts, ClauseSkips DEF param
<1>5. ClauseInv'
    BY <1>1, <1>2, <1>3, <1>4 DEF ClauseInv
<1> QED BY <1>1, <1>2, <1>3, <1>5, ClauseFacts DEF PInv

LEMMA FilterPInv == PInv /\ Filter => PInv'
<1> SUFFICES ASSUME PInv, Filter PROVE PInv'
    OBVIOUS
<1>1. Building /\ ~strisnull(param) /\ i <= 3 /\ pc = "loop"
    BY DEF Filter, Building
<1>2. /\ i' = i + 1 /\ pc' = pc /\ request' = request
      /\ params' = param_append(params, param) /\ pgi' = pgi + 1
      /\ clause' = Append(clause, [column |-> FilterColumn(i, param), hole |-> pgi + 1])
    BY DEF Filter, NextHole
<1>3. param \in Strings
    BY <1>1, ClauseFacts DEF strisnull, Texts
<1>4. Bound' = Append(Bound, param) /\ Terminated(params', Bound')
    <2>1. Terminated(params', Append(Bound, param))
        BY <1>1, <1>2, ClauseFacts, Appending
    <2>2. Bound' = Append(Bound, param)
        BY <2>1, PrefixOf DEF Bound
    <2> QED BY <2>1, <2>2
<1>5. ClauseAt(request.p, i + 1, Append(Bound, param),
               Append(clause, [column |-> FilterColumn(i, param), hole |-> pgi + 1]), pgi + 1)
    BY <1>1, <1>3, ClauseFacts, ClauseFilters DEF param
<1>6. ClauseInv'
    BY <1>1, <1>2, <1>4, <1>5 DEF ClauseInv
<1> QED BY <1>1, <1>2, <1>4, <1>6, ClauseFacts DEF PInv

LEMMA WaitingPInv == PInv /\ Waiting => PInv'
<1> SUFFICES ASSUME PInv, Waiting PROVE PInv'
    OBVIOUS
<1>1. Building /\ i = 4 /\ pc = "loop" /\ get_rparam(request.p, 4) \in {"true", "false"}
    BY DEF Waiting, Building, param
<1>2. /\ i' = i + 1 /\ pc' = pc /\ request' = request /\ params' = params /\ pgi' = pgi
      /\ clause' = Append(clause, [column |-> "waiting", value |-> get_rparam(request.p, 4)])
    BY DEF Waiting, param
<1>3. Bound' = Bound
    BY <1>2 DEF Bound
<1>4. ClauseAt(request.p, i + 1, Bound,
               Append(clause, [column |-> "waiting", value |-> get_rparam(request.p, 4)]), pgi)
    BY <1>1, ClauseFacts, ClauseWaits
<1>5. ClauseInv'
    BY <1>1, <1>2, <1>3, <1>4 DEF ClauseInv
<1> QED BY <1>1, <1>2, <1>3, <1>5, ClauseFacts DEF PInv

LEMMA RefuseWaitingPInv == PInv /\ RefuseWaiting => PInv'
<1> SUFFICES ASSUME PInv, RefuseWaiting PROVE PInv'
    OBVIOUS
<1>1. Building /\ i = 4 /\ ~build_activity_clause(request.p)
    BY DEF RefuseWaiting, param, build_activity_clause
<1>2. /\ pc' = "refused" /\ i' = i /\ request' = request
      /\ params' = params /\ clause' = clause /\ pgi' = pgi
    BY DEF RefuseWaiting
<1>3. Bound' = Bound
    BY <1>2 DEF Bound
<1>4. ClauseInv'
    BY <1>1, <1>2, <1>3, ClauseFacts DEF ClauseInv
<1> QED BY <1>1, <1>2, <1>3, <1>4, ClauseFacts DEF PInv

LEMMA QueryFacts ==
    ASSUME PInv, pc = "loop", request.key \in QueryKeys
    PROVE  /\ request \in Requests /\ request.key \notin ClauseKeys
           /\ request.p \in Seq(STRING) /\ Len(request.p) \in Nat
           /\ Terminated(params, Bound) /\ Bound \in Seq(Strings)
           /\ clause = <<>> /\ pgi = 0
           /\ QueryAt(request.p, i, Bound) /\ ~strisnull(get_rparam(request.p, 1))
           /\ i \in 2 .. Len(request.p) + 1
<1>1. request \in Requests /\ Terminated(params, Bound) /\ QueryInv
    BY DEF PInv
<1>2. request.p \in Seq(STRING) /\ Len(request.p) \in Nat
    BY <1>1, RequestType
<1> QED BY <1>1, <1>2, KeysApart DEF QueryInv, QueryAt, Terminated

LEMMA QueryParamPInv == PInv /\ QueryParam => PInv'
<1> SUFFICES ASSUME PInv, QueryParam PROVE PInv'
    OBVIOUS
<1>1. pc = "loop" /\ request.key \in QueryKeys /\ i <= Len(request.p)
    BY DEF QueryParam
<1>2. /\ i' = i + 1 /\ pc' = pc /\ request' = request
      /\ params' = param_append(params, param) /\ clause' = clause /\ pgi' = pgi
    BY DEF QueryParam
<1>3. param = request.p[i] /\ param \in Texts
    <2>1. i \in 1 .. Len(request.p)
        BY <1>1, QueryFacts
    <2>2. i \in DOMAIN request.p
        BY <1>1, <2>1, QueryFacts, LenProperties
    <2>3. param = request.p[i]
        BY <2>2 DEF param, get_rparam
    <2>4. param \in Texts
        BY <1>1, QueryFacts, RequestType DEF param
    <2> QED BY <2>3, <2>4
<1> DEFINE more == IF strisnull(param) THEN Bound ELSE Append(Bound, param)
<1>4. Bound' = more /\ Terminated(params', Bound')
    <2>1. Terminated(params', more)
        BY <1>1, <1>2, <1>3, QueryFacts, Appending
    <2> HIDE DEF more
    <2>2. Bound' = more
        BY <2>1, PrefixOf DEF Bound
    <2> QED BY <2>1, <2>2
<1>5. QueryAt(request.p, i + 1, more)
    BY <1>1, <1>3, QueryFacts, QueryAppends
<1> HIDE DEF more
<1>6. QueryInv'
    BY <1>1, <1>2, <1>4, <1>5, QueryFacts DEF QueryInv
<1> QED BY <1>1, <1>2, <1>4, <1>6, QueryFacts DEF PInv

LEMMA SendPInv == PInv /\ Send => PInv'
<1> SUFFICES ASSUME PInv, Send PROVE PInv'
    OBVIOUS
<1>1. /\ pc = "loop" /\ pc' = "sent" /\ i' = i /\ request' = request
      /\ params' = params /\ clause' = clause /\ pgi' = pgi
    BY DEF Send
<1>2. Bound' = Bound
    BY <1>1 DEF Bound
<1>3. request \in Requests /\ Terminated(params, Bound)
    BY DEF PInv
<1>4. ASSUME request.key \in ClauseKeys PROVE ClauseInv'
    <2>1. i > 4 /\ Building
        BY <1>1, <1>4 DEF Send, Building
    <2>2. i = 5
        BY <2>1, ClauseIndex
    <2> QED BY <1>1, <1>2, <2>1, <2>2, ClauseFacts DEF ClauseInv
<1>5. ASSUME request.key \in QueryKeys PROVE QueryInv'
    <2>1. i > Len(request.p)
        BY <1>5, KeysApart DEF Send
    <2>2. i = Len(request.p) + 1
        BY <1>1, <1>5, <2>1, QueryFacts
    <2> QED BY <1>1, <1>2, <1>5, <2>2, QueryFacts DEF QueryInv
<1> QED BY <1>1, <1>2, <1>3, <1>4, <1>5 DEF PInv

LEMMA StutterPInv == PInv /\ UNCHANGED vars => PInv'
<1> SUFFICES ASSUME PInv, UNCHANGED vars PROVE PInv'
    OBVIOUS
<1>1. /\ pc' = pc /\ i' = i /\ request' = request
      /\ params' = params /\ clause' = clause /\ pgi' = pgi
    BY DEF vars
<1>2. Bound' = Bound
    BY <1>1 DEF Bound
<1> QED BY <1>1, <1>2 DEF PInv, ClauseInv, QueryInv

-----------------------------------------------------------------------------
\* What the loops of build_activity_clause and PG_QUERY have bound and written so far.
THEOREM PlaceholderInvariant == Spec => []PInv
<1>1. PInv /\ [Next]_vars => PInv'
    BY ReceivePInv, SkipPInv, FilterPInv, WaitingPInv, RefuseWaitingPInv, QueryParamPInv,
       SendPInv, StutterPInv DEF Next
<1> QED BY <1>1, InitPInv, PTL DEF Spec

\* Types, and an array terminated where its strings end and nowhere before.
THEOREM TypeCorrect == Spec => []ParamsTypeOK
<1>1. PInv => ParamsTypeOK
    <2> SUFFICES ASSUME PInv PROVE ParamsTypeOK
        OBVIOUS
    <2>1. /\ pc \in {"idle", "loop", "sent", "refused"} /\ request \in Requests
          /\ Terminated(params, Bound) /\ Len(request.p) \in Nat
        BY RequestType DEF PInv
    <2>2. ASSUME params # <<>>
          PROVE  /\ params[Len(params)] = NULL
                 /\ \A k \in 1 .. Len(params) - 1 : params[k] \in STRING /\ params[k] \notin {NULL, ""}
                 /\ \A k \in DOMAIN params : params[k] = NULL \/ params[k] \in STRING
        <3>1. Bound # <<>> /\ Len(Bound) \in Nat
            BY <2>1, <2>2, StringsOf DEF Terminated
        <3>2. /\ params = Append(Bound, NULL) /\ Len(params) = Len(Bound) + 1
              /\ \A k \in 1 .. Len(Bound) : params[k] = Bound[k]
              /\ params[Len(Bound) + 1] = NULL
            BY <2>1, <3>1, CellsOf
        <3>3. DOMAIN params = 1 .. Len(Bound) + 1
            BY <3>1, <3>2
        <3>4. \A k \in 1 .. Len(Bound) : Bound[k] \in STRING /\ Bound[k] # "" /\ Bound[k] # NULL
            BY <2>1, StringsOf
        <3>5. \A k \in 1 .. Len(Bound) + 1 : k \in 1 .. Len(Bound) \/ k = Len(Bound) + 1
            BY <3>1
        <3>6. Len(params) - 1 = Len(Bound)
            BY <3>1, <3>2
        <3>7. \A k \in 1 .. Len(Bound) : params[k] \in STRING /\ params[k] # "" /\ params[k] # NULL
            BY <3>2, <3>4
        <3> QED BY <3>2, <3>3, <3>5, <3>6, <3>7
    <2>3. ArrayTerminated
        BY <2>2 DEF ArrayTerminated
    <2>4. \A k \in DOMAIN params : params[k] = NULL \/ params[k] \in STRING
        <3>1. CASE params = <<>>
            BY <3>1
        <3> QED BY <2>2, <3>1
    <2>5. /\ i \in 1 .. Len(request.p) + 5 /\ pgi \in 0 .. 3
          /\ \A k \in DOMAIN clause :
                \/ clause[k] \in [column : Columns, hole : 1 .. pgi]
                \/ clause[k] \in [column : {"waiting"}, value : {"true", "false"}]
        <3>1. CASE request.key \in ClauseKeys
            <4>1. i \in 1 .. 5 /\ pgi \in 0 .. 3 /\ clause \in Seq(Conditions(pgi))
                BY <3>1 DEF PInv, ClauseInv, ClauseAt
            <4>2. \A k \in DOMAIN clause : clause[k] \in Conditions(pgi)
                BY <4>1
            <4>3. i \in 1 .. Len(request.p) + 5
                BY <2>1, <4>1
            <4> QED BY <4>1, <4>2, <4>3 DEF Conditions
        <3>2. CASE request.key \in QueryKeys
            <4>1. QueryInv
                BY <3>2 DEF PInv
            <4>2. clause = <<>> /\ pgi = 0 /\ DOMAIN clause = {}
                BY <4>1 DEF QueryInv
            <4>3. i \in 2 .. Len(request.p) + 1 \/ i = 1 \/ i = 2
                BY <2>1, <4>1 DEF QueryInv, QueryAt
            <4>4. i \in 1 .. Len(request.p) + 5
                BY <2>1, <4>3
            <4> QED BY <4>2, <4>4
        <3> QED BY <2>1, <3>1, <3>2, RequestType
    <2> QED BY <2>1, <2>3, <2>4, <2>5 DEF ParamsTypeOK
<1> QED BY <1>1, PlaceholderInvariant, PTL

\* The four parameters of a key that filters sessions.
LEMMA AskedIs ==
    ASSUME NEW b \in Backends
    PROVE  b \in Asked <=> \A k \in 1 .. 4 : Allows(request.p, k, b)
<1> DEFINE given(k) == get_rparam(request.p, k)
<1>1. b \in Asked <=> /\ given(1) \in {"", b.datid, b.datname}
                      /\ given(2) \in {"", b.usesysid, b.usename}
                      /\ given(3) \in {"", b.client_addr, b.client_hostname}
                      /\ given(4) \in {"", b.waiting}
    BY DEF Asked
<1>2. Allows(request.p, 1, b) <=> given(1) \in {"", b.datid, b.datname}
    BY DEF Allows, strisnull
<1>3. Allows(request.p, 2, b) <=> given(2) \in {"", b.usesysid, b.usename}
    BY DEF Allows, strisnull
<1>4. Allows(request.p, 3, b) <=> given(3) \in {"", b.client_addr, b.client_hostname}
    BY DEF Allows, strisnull
<1>5. Allows(request.p, 4, b) <=> given(4) \in {"", b.waiting}
    BY DEF Allows, strisnull
<1>6. (\A k \in 1 .. 4 : Allows(request.p, k, b))
         <=> /\ Allows(request.p, 1, b) /\ Allows(request.p, 2, b)
             /\ Allows(request.p, 3, b) /\ Allows(request.p, 4, b)
    BY 1 .. 4 = {1, 2, 3, 4}
<1> QED BY <1>1, <1>2, <1>3, <1>4, <1>5, <1>6

\* build_activity_clause finds the sessions the parameters ask for, whatever forms they have
\* and whatever sessions there are.
THEOREM FindsWhatIsAskedAlways == Spec => []FindsWhatIsAsked
<1>1. PInv => FindsWhatIsAsked
    <2> SUFFICES ASSUME PInv, pc = "sent", request.key \in ClauseKeys
                 PROVE  /\ \A k \in DOMAIN clause :
                              clause[k].column # "waiting" => clause[k].hole \in DOMAIN Bound
                        /\ Found = Asked
        BY DEF FindsWhatIsAsked
    <2>1. i = 5 /\ ClauseAt(request.p, i, Bound, clause, pgi)
        BY DEF PInv, ClauseInv
    <2>2. /\ clause \in Seq(Conditions(pgi)) /\ pgi = Len(Bound) /\ Len(clause) \in Nat
          /\ DOMAIN clause = 1 .. Len(clause)
        BY <2>1, LenProperties DEF ClauseAt
    <2>3. DOMAIN Bound = 1 .. Len(Bound)
        BY LenProperties DEF PInv, Terminated
    <2>4. ASSUME NEW k \in DOMAIN clause, clause[k].column # "waiting"
          PROVE  clause[k].hole \in DOMAIN Bound
        <3>1. clause[k] \in Conditions(pgi)
            BY <2>2, ElementOfSeq
        <3>2. clause[k].hole \in 1 .. pgi
            BY <2>4, <3>1 DEF Conditions
        <3> QED BY <2>2, <2>3, <3>2
    <2>5. ASSUME NEW b \in Backends PROVE b \in Found <=> b \in Asked
        <3>1. b \in Found <=> \A k \in DOMAIN clause : Holds(clause[k], b)
            BY DEF Found
        <3>2. \A k \in DOMAIN clause : Holds(clause[k], b) <=> Meets(clause[k], Bound, b)
            BY DEF Holds, Meets
        <3>3. (\A k \in 1 .. Len(clause) : Meets(clause[k], Bound, b))
                 <=> \A k \in 1 .. i - 1 : Allows(request.p, k, b)
            BY <2>1 DEF ClauseAt
        <3>4. i - 1 = 4
            BY <2>1
        <3> QED BY <2>2, <3>1, <3>2, <3>3, <3>4, AskedIs
    <2>6. Found \subseteq Backends /\ Asked \subseteq Backends
        BY DEF Found, Asked
    <2>7. Found = Asked
        BY <2>5, <2>6
    <2> QED BY <2>4, <2>7
<1> QED BY <1>1, PlaceholderInvariant, PTL

\* PG_QUERY binds the parameters that are not empty, each once and in their order, however
\* many there are.
THEOREM QueryParamsInOrderAlways == Spec => []QueryParamsInOrder
<1>1. PInv => QueryParamsInOrder
    <2> SUFFICES ASSUME PInv, pc = "sent", request.key \in QueryKeys PROVE QueryParamsInOrder
        BY DEF QueryParamsInOrder
    <2>1. /\ i = Len(request.p) + 1 /\ QueryAt(request.p, i, Bound)
          /\ Len(request.p) \in Nat
        BY RequestType DEF PInv, QueryInv
    <2>2. DOMAIN Bound = 1 .. Len(Bound)
        BY LenProperties DEF PInv, Terminated
    <2>3. PlacesBefore(request.p, i) = {k \in 2 .. Len(request.p) : ~strisnull(request.p[k])}
        BY <2>1 DEF PlacesBefore
    <2>4. InOrder(request.p, Bound, {k \in 2 .. Len(request.p) : ~strisnull(request.p[k])})
        BY <2>1, <2>3 DEF QueryAt
    <2> DEFINE places == {k \in 2 .. Len(request.p) : ~strisnull(request.p[k])}
    <2>5. PICK place \in [1 .. Len(Bound) -> places] :
              /\ \A k \in 1 .. Len(Bound) : Bound[k] = request.p[place[k]]
              /\ \A k, l \in 1 .. Len(Bound) : k < l => place[k] < place[l]
              /\ \A q \in places : \E k \in 1 .. Len(Bound) : place[k] = q
        BY <2>4 DEF InOrder
    <2>6. /\ place \in [DOMAIN Bound -> places]
          /\ \A k \in DOMAIN Bound : Bound[k] = request.p[place[k]]
          /\ \A k, l \in DOMAIN Bound : k < l => place[k] < place[l]
          /\ \A q \in places : \E k \in DOMAIN Bound : place[k] = q
        BY <2>2, <2>5
    <2> QED BY <2>6 DEF QueryParamsInOrder
<1> QED BY <1>1, PlaceholderInvariant, PTL

-----------------------------------------------------------------------------
(***************************************************************************)
(* The scripts of ItemKeys and the loops.                                  *)
(***************************************************************************)
\* The script is refused or not, and each of its bindings adds m strings.
Counts(script, refused, m) ==
    /\ refused <=> \E k \in DOMAIN script : script[k].call = "set_err_result"
    /\ \A k \in DOMAIN script : script[k].call = "param_append" => script[k].n = m
    /\ (\A k \in DOMAIN script : script[k].call # "param_append") => m = 0

\* A step that neither binds nor refuses.
Asks(step) == step.call \notin {"param_append", "set_err_result"}

LEMMA StepsCount ==
    /\ \A m : Bind(m).call = "param_append" /\ Bind(m).n = m
    /\ Reject.call = "set_err_result"
    /\ Asks(pg_version) /\ \A sql : Asks(Discover(sql))
    /\ \A type, sql : Asks(Get(type, sql))
BY DEF Bind, Reject, pg_version, Discover, Get, Step, Asks

LEMMA TwoCount ==
    ASSUME NEW a, NEW b, NEW m, NEW refused \in BOOLEAN,
           a.call = "param_append", a.n = m,
           IF refused THEN b.call = "set_err_result" ELSE Asks(b)
    PROVE  Counts(<<a, b>>, refused, m)
<1>1. /\ DOMAIN <<a, b>> = {1, 2} /\ <<a, b>>[1] = a /\ <<a, b>>[2] = b
    OBVIOUS
<1> DEFINE script == <<a, b>>
<1>2. DOMAIN script = {1, 2} /\ script[1] = a /\ script[2] = b
    BY <1>1
<1> HIDE DEF script
<1>3. Counts(script, refused, m)
    BY <1>2 DEF Counts, Asks
<1> QED BY <1>3 DEF script

LEMMA ThreeCount ==
    ASSUME NEW a, NEW b, NEW c, NEW m, NEW refused \in BOOLEAN,
           \/ Asks(a) /\ b.call = "param_append" /\ b.n = m
           \/ a.call = "param_append" /\ a.n = m /\ Asks(b),
           IF refused THEN c.call = "set_err_result" ELSE Asks(c)
    PROVE  Counts(<<a, b, c>>, refused, m)
<1> DEFINE script == <<a, b, c>>
<1>1. DOMAIN script = {1, 2, 3} /\ script[1] = a /\ script[2] = b /\ script[3] = c
    OBVIOUS
<1> HIDE DEF script
<1>2. Counts(script, refused, m)
    BY <1>1 DEF Counts, Asks
<1> QED BY <1>2 DEF script

LEMMA ClauseHandlers ==
    ASSUME NEW p
    PROVE  /\ Handler("pg.backends.count", p) = PG_BACKENDS_COUNT(p)
           /\ Handler("pg.queries.longest", p) = PG_QUERIES_LONGEST(p)
BY DEF Handler, ServerKeys, ServerScript, QueryKeys, BgwriterKeys

LEMMA QueryHandlers ==
    ASSUME NEW key \in QueryKeys, NEW p
    PROVE  Handler(key, p) = PG_QUERY(key, p)
<1>1. Handler(key, p) = ServerScript(key, p)
    BY DEF Handler, ServerKeys
<1>2. key \notin BgwriterKeys
    BY DEF QueryKeys, BgwriterKeys
<1> QED BY <1>1, <1>2 DEF ServerScript, QueryKeys

LEMMA ClauseCounted ==
    ASSUME NEW p, NEW key \in ClauseKeys
    PROVE  Counts(Handler(key, p), ~build_activity_clause(p), Cardinality(GivenFilters(p)))
<1> DEFINE m       == Cardinality(GivenFilters(p))
           count   == Get(AR_UINT64, ActivitySql(p, CountAsks(p)))
           longest == Get(AR_DOUBLE, ActivitySql(p, "other"))
<1>1. Asks(count) /\ Asks(longest)
    BY StepsCount
<1> HIDE DEF m, count, longest
<1>2. ClauseParams(p) = Bind(m)
    BY DEF ClauseParams, m
<1>3. CASE key = "pg.backends.count"
    <2> DEFINE last == IF build_activity_clause(p) THEN count ELSE Reject
    <2>1. Handler(key, p) = <<pg_version, Bind(m), last>>
        BY <1>2, <1>3, ClauseHandlers DEF PG_BACKENDS_COUNT, count, m
    <2>2. IF ~build_activity_clause(p) THEN last.call = "set_err_result" ELSE Asks(last)
        BY <1>1, StepsCount
    <2> HIDE DEF last
    <2>3. Counts(<<pg_version, Bind(m), last>>, ~build_activity_clause(p), m)
        BY <2>2, StepsCount, ThreeCount
    <2> QED BY <2>1, <2>3 DEF m
<1>4. CASE key = "pg.queries.longest"
    <2>1. CASE build_activity_clause(p)
        <3>1. Handler(key, p) = <<Bind(m), pg_version, longest>>
            BY <1>2, <1>4, <2>1, ClauseHandlers DEF PG_QUERIES_LONGEST, longest, m
        <3>2. Counts(<<Bind(m), pg_version, longest>>, FALSE, m)
            BY <1>1, StepsCount, ThreeCount
        <3> QED BY <2>1, <3>1, <3>2 DEF m
    <2>2. CASE ~build_activity_clause(p)
        <3>1. Handler(key, p) = <<Bind(m), Reject>>
            BY <1>2, <1>4, <2>2, ClauseHandlers DEF PG_QUERIES_LONGEST
        <3>2. Counts(<<Bind(m), Reject>>, TRUE, m)
            BY StepsCount, TwoCount
        <3> QED BY <2>2, <3>1, <3>2 DEF m
    <2> QED BY <2>1, <2>2
<1> QED BY <1>3, <1>4 DEF ClauseKeys

LEMMA QueryCounted ==
    ASSUME NEW p, NEW key \in QueryKeys
    PROVE  IF strisnull(get_rparam(p, 1))
           THEN Counts(Handler(key, p), TRUE, 0)
           ELSE Counts(Handler(key, p), FALSE,
                       Cardinality({k \in 2 .. Len(p) : ~strisnull(p[k])}))
<1> DEFINE m == Cardinality({k \in 2 .. Len(p) : ~strisnull(p[k])})
<1>1. CASE strisnull(get_rparam(p, 1))
    <2> DEFINE script == <<Reject>>
    <2>1. Handler(key, p) = script
        BY <1>1, QueryHandlers DEF PG_QUERY
    <2>2. DOMAIN script = {1} /\ script[1] = Reject
        OBVIOUS
    <2> HIDE DEF script
    <2>3. Counts(script, TRUE, 0)
        BY <2>2, StepsCount DEF Counts
    <2> QED BY <1>1, <2>1, <2>3
<1>2. CASE ~strisnull(get_rparam(p, 1))
    <2>1. \E step : Asks(step) /\ Handler(key, p) = <<Bind(m), step>>
        <3>1. CASE key = "pg.query.string"
            <4>1. Handler(key, p) = <<Bind(m), Get(AR_STRING, UserSql(p))>>
                BY <1>2, <3>1, QueryHandlers DEF PG_QUERY
            <4> QED BY <4>1, StepsCount
        <3>2. CASE key = "pg.query.integer"
            <4>1. Handler(key, p) = <<Bind(m), Get(AR_UINT64, UserSql(p))>>
                BY <1>2, <3>2, QueryHandlers DEF PG_QUERY
            <4> QED BY <4>1, StepsCount
        <3>3. CASE key = "pg.query.double"
            <4>1. Handler(key, p) = <<Bind(m), Get(AR_DOUBLE, UserSql(p))>>
                BY <1>2, <3>3, QueryHandlers DEF PG_QUERY
            <4> QED BY <4>1, StepsCount
        <3>4. CASE key = "pg.query.discovery"
            <4>1. Handler(key, p) = <<Bind(m), Discover(UserSql(p))>>
                BY <1>2, <3>4, QueryHandlers DEF PG_QUERY
            <4> QED BY <4>1, StepsCount
        <3> QED BY <3>1, <3>2, <3>3, <3>4 DEF QueryKeys
    <2> HIDE DEF m
    <2>2. PICK step : Asks(step) /\ Handler(key, p) = <<Bind(m), step>>
        BY <2>1
    <2>3. Counts(<<Bind(m), step>>, FALSE, m)
        BY <2>2, StepsCount, TwoCount
    <2> QED BY <1>2, <2>2, <2>3 DEF m
<1> QED BY <1>1, <1>2

\* The counts that the scripts of ItemKeys give, and on which the proofs about statements
\* rest, are those of the strings the loops bind.
THEOREM ScriptAgreesAlways == Spec => []ScriptAgrees
<1>1. PInv => ScriptAgrees
    <2> SUFFICES ASSUME PInv, pc \in {"sent", "refused"} PROVE ScriptAgrees
        BY DEF ScriptAgrees
    <2>1. /\ request \in Requests /\ Bound \in Seq(Strings) /\ Len(Bound) \in Nat
          /\ Len(request.p) \in Nat
        BY RequestType, LenProperties DEF PInv, Terminated
    <2>2. Counts(Handler(request.key, request.p), pc = "refused", Len(Bound))
        <3>1. CASE request.key \in ClauseKeys
            <4>1. /\ ClauseInv
                  /\ Counts(Handler(request.key, request.p), ~build_activity_clause(request.p),
                            Cardinality(GivenFilters(request.p)))
                BY <3>1, ClauseCounted DEF PInv
            <4>2. Len(Bound) = Cardinality(FiltersBefore(request.p, i)) /\ (i = 4 \/ i = 5)
                BY <4>1 DEF ClauseInv, ClauseAt
            <4>3. FiltersBefore(request.p, i) = GivenFilters(request.p)
                <5>1. 1 \in 1 .. 4
                    OBVIOUS
                <5> QED BY <4>2, <5>1, FilterCounted
            <4>4. pc = "refused" <=> ~build_activity_clause(request.p)
                BY <4>1 DEF ClauseInv, ClauseAt
            <4> QED BY <4>1, <4>2, <4>3, <4>4 DEF Counts
        <3>2. CASE request.key \in QueryKeys
            <4>1. QueryInv
                BY <3>2 DEF PInv
            <4>2. CASE pc = "refused"
                <5>1. strisnull(get_rparam(request.p, 1)) /\ Len(Bound) = 0
                    BY <4>1, <4>2 DEF QueryInv
                <5>2. Counts(Handler(request.key, request.p), TRUE, 0)
                    BY <3>2, <5>1, QueryCounted
                <5> QED BY <4>2, <5>1, <5>2
            <4>3. CASE pc = "sent"
                <5>1. /\ ~strisnull(get_rparam(request.p, 1))
                      /\ Len(Bound) = Cardinality(PlacesBefore(request.p, Len(request.p) + 1))
                    BY <4>1, <4>3 DEF QueryInv, QueryAt
                <5>2. PlacesBefore(request.p, Len(request.p) + 1)
                         = {k \in 2 .. Len(request.p) : ~strisnull(request.p[k])}
                    BY <2>1 DEF PlacesBefore
                <5>3. Counts(Handler(request.key, request.p), FALSE,
                             Cardinality({k \in 2 .. Len(request.p) : ~strisnull(request.p[k])}))
                    BY <3>2, <5>1, QueryCounted
                <5> QED BY <4>3, <5>1, <5>2, <5>3
            <4> QED BY <4>2, <4>3
        <3> QED BY <2>1, <3>1, <3>2, RequestType
    <2>3. Len(Bound) = 0 => Bound = <<>>
        BY <2>1, EmptySeq
    <2> QED BY <2>2, <2>3 DEF Counts, ScriptAgrees
<1> QED BY <1>1, PlaceholderInvariant, PTL

=============================================================================

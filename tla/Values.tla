------------------------------- MODULE Values -------------------------------
(***************************************************************************)
(* From the server's text to the number the agent reports.  The server     *)
(* prints a figure by its SQL type, the module reads the text with the C   *)
(* conversion its handler chose, in integers of a limited width; between   *)
(* two polls the figure grows, is estimated anew or starts over.  Alarms   *)
(* puts these actions together.                                            *)
(*                                                                         *)
(* Figures are counted in hundredths, so that seconds and ratios can have  *)
(* a fraction.  A text is its sign, the digits before the point, those     *)
(* after it and the decimal exponent; NULL is the empty text, as           *)
(* PQgetvalue returns it.                                                  *)
(***************************************************************************)
EXTENDS Integers, Sequences, SequencesExt

CONSTANTS
    IntBits, LongBits,  \* widths of int, of long and unsigned long long (32 and 64)
    FloatDigits,        \* significant digits of a printed real (6)
    Figures,            \* Figures[i]: what the server may hold for item i, in hundredths
    NULL

VARIABLES
    item,       \* the item polled
    figure,     \* what the server holds for it
    asked,      \* history: the figure of the last poll
    answer,     \* what the last poll put into the AGENT_RESULT
    restarted   \* history: the figure has started over since the last poll

vars == <<item, figure, asked, answer, restarted>>

-----------------------------------------------------------------------------
(***************************************************************************)
(* What the server prints.                                                 *)
(***************************************************************************)
SqlType ==
    [pg_table_n_tup_ins |-> "bigint",  pg_index_idx_scan       |-> "bigint",
     pg_table_rows      |-> "real",    pg_table_rows_sum       |-> "bigint",
     pg_uptime          |-> "double",  pg_checkpoint_time      |-> "double",
     pg_db_xid_age      |-> "integer", pg_prepared_xacts_ratio |-> "double",
     pg_setting_integer |-> "integer", pg_setting_real         |-> "double",
     pg_connect         |-> "integer"]

Items == DOMAIN Figures

ASSUME ValuesAssumption ==
    /\ IntBits \in Nat \ {0} /\ LongBits \in Nat /\ IntBits <= LongBits
    /\ FloatDigits \in Nat \ {0}
    /\ Items \subseteq DOMAIN SqlType
    /\ \A i \in Items : Figures[i] \subseteq Int /\ 0 \in Figures[i]
    /\ NULL \notin Int

\* Figures that grow until they start over; the others move freely.
Counters == {"pg_table_n_tup_ins", "pg_index_idx_scan", "pg_uptime", "pg_checkpoint_time"}
Settings == {"pg_setting_integer", "pg_setting_real"}
Doubles  == {"pg_checkpoint_time", "pg_prepared_xacts_ratio", "pg_setting_real"}
Sums     == {"pg_table_n_tup_ins", "pg_index_idx_scan", "pg_table_rows_sum"}

\* What a query can return: a sum over no rows is NULL.
Possible(i) ==
    {f \in Figures[i] : /\ SqlType[i] # "double" => f % 100 = 0
                        /\ i \notin Settings => f >= 0}
    \union IF i \in Sums THEN {NULL} ELSE {}

Abs(n) == IF n < 0 THEN -n ELSE n

tens[n \in Nat] == IF n = 0 THEN 1 ELSE 10 * tens[n - 1]

digits[n \in Nat] == IF n < 10 THEN <<n>> ELSE Append(digits[n \div 10], n % 10)

Number(ds) == FoldLeft(LAMBDA n, d : 10 * n + d, 0, ds)

NoText == [neg |-> FALSE, whole |-> <<>>, fraction |-> <<>>, exp |-> 0]

Decimal(f) ==
    LET part == Abs(f) % 100
    IN  [neg |-> f < 0, whole |-> digits[Abs(f) \div 100], exp |-> 0,
         fraction |-> IF part = 0 THEN <<>>
                      ELSE IF part % 10 = 0 THEN <<part \div 10>>
                      ELSE <<part \div 10, part % 10>>]

\* FloatDigits significant digits of the number n.
Rounded(n) ==
    LET places == Len(digits[n]) - FloatDigits
        unit   == tens[places]
    IN  IF places <= 0 THEN n ELSE ((n + unit \div 2) \div unit) * unit

\* A real that needs more digits than it has is printed in E notation, without zeros
\* at the end of the mantissa.
Scientific(n) ==
    LET ds   == digits[Rounded(n)]
        kept == SubSeq(ds, 1, SelectLastInSeq(ds, LAMBDA d : d # 0))
    IN  [neg |-> FALSE, whole |-> <<Head(ds)>>, fraction |-> Tail(kept), exp |-> Len(ds) - 1]

Text(type, f) ==
    IF f = NULL THEN NoText
    ELSE IF type = "real" /\ f \div 100 >= tens[FloatDigits] THEN Scientific(f \div 100)
    ELSE Decimal(f)

-----------------------------------------------------------------------------
(***************************************************************************)
(* What C makes of it: strtoull and strtol read digits up to the first     *)
(* other character, strtod and strtold the whole text.                     *)
(***************************************************************************)
ULLONG_MAX == 2 ^ LongBits - 1
LONG_MAX   == 2 ^ (LongBits - 1) - 1
LONG_MIN   == -(2 ^ (LongBits - 1))

\* What the server counts fits an unsigned long long, rounded or not.
ASSUME FiguresAssumption ==
    \A i \in Items : \A f \in Figures[i] :
        Abs(f) \div 100 <= ULLONG_MAX /\ Rounded(Abs(f) \div 100) <= ULLONG_MAX

\* Seeded fault: a negative number stays one.
Uncast(n) == [type |-> "AR_UINT64", value |-> n]

\* The member macro casts to zbx_uint64_t, which keeps LongBits bits.
SET_UI64_RESULT(n) == [type |-> "AR_UINT64", value |-> n % (2 ^ LongBits)]
SET_DBL_RESULT(f)  == [type |-> "AR_DOUBLE", value |-> f]

strtoull(t) ==
    LET n == Number(t.whole)
    IN  IF n > ULLONG_MAX THEN ULLONG_MAX
        ELSE IF t.neg THEN (-n) % (2 ^ LongBits) ELSE n

strtol(t) ==
    LET n == IF t.neg THEN -Number(t.whole) ELSE Number(t.whole)
    IN  CASE n > LONG_MAX -> LONG_MAX
          [] n < LONG_MIN -> LONG_MIN
          [] OTHER        -> n

\* atoi keeps the low IntBits bits of strtol, as a signed number.
atoi(t) == ((strtol(t) + 2 ^ (IntBits - 1)) % (2 ^ IntBits)) - 2 ^ (IntBits - 1)

\* In hundredths.
strtod(t) ==
    LET n == (Number(t.whole \o t.fraction) * tens[t.exp + 2]) \div tens[Len(t.fraction)]
    IN  IF t.neg THEN -n ELSE n

\* '.' == value[1]
PointIsSecond(t) == ~t.neg /\ Len(t.whole) = 1 /\ t.fraction # <<>>

\* Seeded faults: the exponent is ignored; every value is read like those of the indexes.
PlainInteger(t) == strtoull(t)
NarrowInteger(t) == atoi(t)

ConvertInteger(t) == IF PointIsSecond(t) THEN strtod(t) \div 100 ELSE strtoull(t)

pg_get_int(t) == SET_UI64_RESULT(ConvertInteger(t))
pg_get_dbl(t) == SET_DBL_RESULT(strtod(t))

PG_STAT_ALL_INDEXES(t) == SET_UI64_RESULT(atoi(t))

PG_SETTING(i, t) ==
    IF SqlType[i] = "integer" THEN SET_UI64_RESULT(strtoull(t)) ELSE SET_DBL_RESULT(strtod(t))

Answer(i, t) ==
    IF i = "pg_index_idx_scan" THEN PG_STAT_ALL_INDEXES(t)
    ELSE IF i \in Settings THEN PG_SETTING(i, t)
    ELSE IF i \in Doubles THEN pg_get_dbl(t) ELSE pg_get_int(t)

-----------------------------------------------------------------------------
Init ==
    /\ item \in Items
    /\ figure = 0
    /\ asked = 0 /\ answer = SET_UI64_RESULT(0) /\ restarted = TRUE

\* Rows are inserted, an index is scanned, time goes by.
Grow ==
    /\ item \in Counters /\ figure # NULL
    /\ figure' \in {f \in Possible(item) \ {NULL} : f > figure}
    /\ UNCHANGED <<item, asked, answer, restarted>>

\* Statistics are reset, the server restarts, the table is dropped or created.
StartOver ==
    /\ figure' \in {0, NULL} \intersect Possible(item)
    /\ restarted' = TRUE
    /\ UNCHANGED <<item, asked, answer>>

\* ANALYZE estimates the rows anew, an administrator changes a setting.
Move ==
    /\ item \notin Counters
    /\ figure' \in Possible(item)
    /\ UNCHANGED <<item, asked, answer, restarted>>

Poll ==
    /\ answer' = Answer(item, Text(SqlType[item], figure))
    /\ asked' = figure
    /\ restarted' = FALSE
    /\ UNCHANGED <<item, figure>>

-----------------------------------------------------------------------------
TypeOK ==
    /\ item \in Items
    /\ figure \in Possible(item) /\ asked \in Possible(item)
    /\ restarted \in BOOLEAN
    /\ \/ answer.type = "AR_UINT64" /\ answer.value \in 0 .. ULLONG_MAX
       \/ answer.type = "AR_DOUBLE" /\ answer.value \in Int

\* The number a reader of the item's description expects.
Meant(i, f) ==
    IF f = NULL THEN 0
    ELSE IF SqlType[i] = "real" THEN Rounded(f \div 100)
    ELSE IF i \in Doubles THEN f ELSE f \div 100

\* What is not reported as it is: a mantissa of one digit in E notation, an index
\* statistic beyond int, a negative setting.
LosesExponent(i, f) ==
    SqlType[i] = "real" /\ f \div 100 >= tens[FloatDigits]
                        /\ Scientific(f \div 100).fraction = <<>>
PastInt(i, f) == i = "pg_index_idx_scan" /\ f # NULL /\ f \div 100 >= 2 ^ (IntBits - 1)
Negative(i, f) == i = "pg_setting_integer" /\ f < 0

\* pg_get_result and the handlers that convert on their own: whatever form the server
\* gives a number, the agent reports it, cut to whole seconds or rounded as the
\* server rounds; NULL is 0.
ReportsFigure ==
    ~LosesExponent(item, asked) /\ ~PastInt(item, asked) /\ ~Negative(item, asked)
        => answer.value = Meant(item, asked)

\* Between two polls a counter that has not started over is never reported lower: no
\* width, form or fraction on the way makes it jump.  Indexes keep it as far as int goes.
NeverRunsBack ==
    [][Poll /\ ~restarted /\ item \in Counters /\ asked # NULL /\ ~PastInt(item, figure)
          => answer'.value >= answer.value]_vars

\* pg_table.c, PG_TABLE_ROWS: "the estimated row count", with the "Convert E Notation" of
\* pg_get_result behind it.
RowsInENotation ==
    SqlType[item] = "real" => answer.value = Meant(item, asked)

\* pg_index.c, PG_STAT_ALL_INDEXES: "the requested statistic", an unsigned number.
IndexStatistic ==
    item = "pg_index_idx_scan" => answer.value = Meant(item, asked)
=============================================================================

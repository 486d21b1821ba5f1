------------------------------- MODULE Alarms -------------------------------
(***************************************************************************)
(* A server whose figures move, the agent that converts them, and the      *)
(* triggers of the Zabbix template: the Zabbix server evaluates a trigger  *)
(* whenever a value of its item arrives, with the trigger's own last state *)
(* at hand.  Between two polls anything may happen to the PostgreSQL       *)
(* server; a poll that fails brings no value, except that pg.connect       *)
(* answers 0.                                                              *)
(*                                                                         *)
(* One item is watched in a behaviour, for no trigger reads two.  The      *)
(* value of a ratio, in hundredths, is the percentage the template makes   *)
(* of it.                                                                  *)
(***************************************************************************)
EXTENDS Values

CONSTANTS
    PG_PXACT_WARN, PG_PXACT_CRIT,   \* the template's macros
    PG_XID_WARN, PG_XID_CRIT

ASSUME AlarmsAssumption ==
    /\ {PG_PXACT_WARN, PG_PXACT_CRIT, PG_XID_WARN, PG_XID_CRIT} \subseteq Nat
    /\ PG_PXACT_WARN < PG_PXACT_CRIT /\ PG_XID_WARN < PG_XID_CRIT
    /\ "pg_connect" \in Items => Figures["pg_connect"] = {0, 100}

VARIABLES
    up,         \* whether the server runs
    values,     \* the values received, the last one first, as many as are read
    trigger,    \* the triggers of the item that are in state PROBLEM
    between     \* history: the server restarted between the last two values

alarmVars == <<values, trigger, between>>
allVars   == <<vars, up, alarmVars>>

TriggersOf(i) ==
    CASE i = "pg_prepared_xacts_ratio" -> {"prepared near exhaustion"}
      [] i = "pg_db_xid_age"           -> {"xids near exhaustion", "xids exhausted"}
      [] i = "pg_uptime"               -> {"restarted"}
      [] i = "pg_connect"              -> {"unreachable"}
      [] OTHER                         -> {}

\* The values the triggers of an item read.
Depth(i) ==
    IF i = "pg_connect" THEN 3
    ELSE IF i = "pg_uptime" THEN 2
    ELSE IF TriggersOf(i) # {} THEN 1 ELSE 0

AlarmInit ==
    /\ Init
    /\ up \in BOOLEAN /\ (item = "pg_connect" => ~up)
    /\ values = <<>> /\ trigger = {} /\ between = FALSE

-----------------------------------------------------------------------------
\* Only a restart sets the uptime back.
Vary ==
    /\ up /\ item # "pg_connect"
    /\ Grow \/ Move \/ (item # "pg_uptime" /\ StartOver)
    /\ UNCHANGED <<up, alarmVars>>

\* The figure of pg_connect is whether the server answers.
Stop ==
    /\ up /\ up' = FALSE
    /\ figure' = IF item = "pg_connect" THEN 0 ELSE figure
    /\ UNCHANGED <<item, asked, answer, restarted, alarmVars>>

Start ==
    /\ ~up /\ up' = TRUE
    /\ figure' = CASE item = "pg_connect" -> 100
                   [] item = "pg_uptime"  -> 0
                   [] OTHER               -> figure
    /\ restarted' = TRUE
    /\ UNCHANGED <<item, asked, answer, alarmVars>>

-----------------------------------------------------------------------------
last(vs) == Head(vs)
change(vs) == IF Len(vs) > 1 THEN vs[1] - vs[2] ELSE 0

\* The maximum of the last three values, or of those there are.
max3(vs) == CHOOSE m \in {vs[k] : k \in DOMAIN vs} : \A k \in DOMAIN vs : vs[k] <= m

BetweenLimits(value, x, warn, crit) == (~value /\ x > warn /\ x < crit) \/ (value /\ x > warn)

\* Seeded fault: any change of the uptime is a restart.
AnyChange(vs) == change(vs) # 0
Shrank(vs) == change(vs) < 0

AllDown(vs) == max3(vs) < 1

\* Seeded fault: the limit is that of the wraparound itself.
AtWraparound(x) == x > PG_XID_CRIT + 1
Exhausted(x) == x > PG_XID_CRIT

Fires(t, value, vs) ==
    CASE t = "prepared near exhaustion" ->
             BetweenLimits(value, last(vs), PG_PXACT_WARN, PG_PXACT_CRIT)
      [] t = "xids near exhaustion" ->
             BetweenLimits(value, last(vs), PG_XID_WARN, PG_XID_CRIT)
      [] t = "xids exhausted" -> Exhausted(last(vs))
      [] t = "restarted"      -> Shrank(vs)
      [] t = "unreachable"    -> AllDown(vs)

Newest(vs) == IF Len(vs) > Depth(item) THEN SubSeq(vs, 1, Depth(item)) ELSE vs

\* A handler that cannot connect fails, but for PG_CONNECT.
Answers == up \/ item = "pg_connect"

ReceiveValue ==
    /\ Answers /\ Poll
    /\ values' = Newest(<<answer'.value>> \o values)
    /\ trigger' = {t \in TriggersOf(item) : Fires(t, t \in trigger, values')}
    /\ between' = restarted
    /\ UNCHANGED up

AlarmNext == Vary \/ Stop \/ Start \/ ReceiveValue

AlarmSpec == AlarmInit /\ [][AlarmNext]_allVars

-----------------------------------------------------------------------------
AlarmTypeOK ==
    /\ TypeOK
    /\ up \in BOOLEAN
    /\ Len(values) <= Depth(item) /\ values \in Seq(Nat)
    /\ trigger \subseteq TriggersOf(item)
    /\ between \in BOOLEAN

Received == values # <<>>

\* However the age of the transaction IDs leaps between polls, a value above the warning
\* leaves some alarm on, the first trigger's or the second's, with one exception: at exactly
\* the critical age, which both limits exclude, when the first is off.
XidsWatched ==
    [][ReceiveValue /\ item = "pg_db_xid_age" /\ last(values') > PG_XID_WARN =>
          \/ trigger' # {}
          \/ last(values') = PG_XID_CRIT /\ "xids near exhaustion" \notin trigger]_allVars

\* An alarm says the truth.  "has just been restarted": the server restarted between the
\* last two values received, however many polls failed in between.  "unreachable for the
\* last 3 polls": none of them succeeded.
AlarmsAreTrue ==
    /\ "restarted" \in trigger => between
    /\ "unreachable" \in trigger => \A k \in DOMAIN values : values[k] = 0

\* The template on the prepared transactions: "80% of the maximum configured prepared
\* transactions are in use."
PreparedWatched ==
    item = "pg_prepared_xacts_ratio" /\ Received /\ last(values) > PG_PXACT_WARN =>
        trigger # {}

\* The template on the transaction IDs: "Less than 10 million (0.04%) Transactions IDs are
\* remaining for allocation."
XidsNearExhaustionWatched ==
    item = "pg_db_xid_age" /\ Received /\ last(values) > PG_XID_WARN => trigger # {}
=============================================================================

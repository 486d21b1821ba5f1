------------------------------ MODULE MCAlarms ------------------------------
(***************************************************************************)
(* An instance of Alarms for TLC: int of 4 bits, long of 10, reals printed *)
(* with 2 digits, transaction IDs exhausted near half of long.  The        *)
(* figures lie on both sides of every boundary: of the widths, the digits, *)
(* the E notation, whole seconds and the limits of the triggers.           *)
(***************************************************************************)
EXTENDS Alarms

Hundreds(ns) == {100 * n : n \in ns}

Whole == Hundreds({-1, 0, 1, 7, 8, 9, 10, 15, 16, 23, 24, 99, 100, 101, 104, 120, 126, 300,
                   511, 512, 994, 995, 999, 1000, 1023})

Fractions == {5, 50, 120, 970, 997, 1005, 10030}

MCFigures ==
    [i \in DOMAIN SqlType |->
        CASE i = "pg_connect"              -> {0, 100}
          [] i = "pg_prepared_xacts_ratio" -> {0, 5, 79, 80, 81, 89, 90, 91, 100}
          [] i = "pg_db_xid_age"           -> Hundreds({0, 499, 500, 501, 509, 510, 511, 512, 1000})
          [] i = "pg_uptime"               -> {0, 50, 120, 970, 997, 1005, 10030} \union
                                                 Hundreds({1, 9, 10, 23, 100, 512})
          [] OTHER                         -> Whole \union Fractions]
=============================================================================

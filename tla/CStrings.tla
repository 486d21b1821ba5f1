------------------------------ MODULE CStrings ------------------------------
(***************************************************************************)
(* NUL-terminated strings in blocks of memory: strcat2, and the connection *)
(* string that build_connstring puts together with it.                     *)
(*                                                                         *)
(* A text is the sequence of its characters, each reduced to the word it   *)
(* belongs to: lengths, order and completeness of words are kept, spelling *)
(* is not.  A block has a size, its cells, and Slack more behind them.     *)
(***************************************************************************)
EXTENDS Integers, Sequences

CONSTANTS NULL,     \* the pointer, where a text is expected
          Slack     \* bound: the cells behind a block that are looked at

ASSUME SlackAssumption == Slack \in Nat \ {0}

NUL     == "NUL"        \* the terminator
Foreign == "foreign"    \* a cell that is not the block's

Word(word, length) == [i \in 1 .. length |-> word]

strisnull(text) == text = NULL \/ text = <<>>
strlen(text)    == IF text = NULL THEN 0 ELSE Len(text)

-----------------------------------------------------------------------------
\* zbx_malloc and memset.
Allocate(size) ==
    [size  |-> size,
     cells |-> [cell \in 0 .. size + Slack - 1 |-> IF cell < size THEN NUL ELSE Foreign]]

\* The first terminator from p on, or the end of what is looked at.
Terminator(block, p) ==
    LET end == block.size + Slack
    IN  CHOOSE q \in p .. end :
            /\ q = end \/ block.cells[q] = NUL
            /\ \A r \in p .. q - 1 : block.cells[r] # NUL

\* The string at p, as strlen, strcmp and libpq see it.
StringAt(block, p) ==
    [i \in 1 .. Terminator(block, p) - p |-> block.cells[p + i - 1]]

\* n cells copied from a text, and its terminator.
Write(block, p, text) ==
    [block EXCEPT !.cells =
        [cell \in DOMAIN @ |->
            IF cell \in p .. p + Len(text) - 1 THEN text[cell - p + 1]
            ELSE IF cell = p + Len(text) THEN NUL
            ELSE @[cell]]]

\* dest is a block and the pointer into it; the result's points at the new terminator.
strcat2(dest, src) ==
    IF src = NULL THEN dest
    ELSE LET p == Terminator(dest.block, dest.ptr)
         IN  [block |-> Write(dest.block, p, src), ptr |-> p + Len(src)]

-----------------------------------------------------------------------------
DEFAULT_CONN_STRING == <<>>
DEFAULT_CONN_DBNAME == NULL

Blank  == <<"blank">>
Dbname == Word("dbname=", 7)

\* The lengths of both, and that of ' dbname=' with its terminator.
BufferSize(connstring, dbname) == strlen(connstring) + strlen(dbname) + 9

\* Seeded fault: the blank is left out.
NoSeparator(connstring) == NULL
Separator(connstring) == IF strisnull(connstring) THEN NULL ELSE Blank

\* The texts build_connstring appends to its block, in order.
Pieces(connstring, dbname) ==
    << IF strisnull(connstring) THEN DEFAULT_CONN_STRING ELSE connstring,
       Separator(connstring),
       Dbname,
       IF strisnull(dbname) THEN DEFAULT_CONN_DBNAME ELSE dbname >>

-----------------------------------------------------------------------------
\* What libpq is meant to be given: the user's options, and after a blank the database.
Wanted(connstring, dbname) ==
    (IF strisnull(connstring) THEN <<>> ELSE connstring \o Blank)
    \o Dbname
    \o (IF strisnull(dbname) THEN <<>> ELSE dbname)

\* Nothing behind the block was written.
Untouched(block) == \A cell \in DOMAIN block.cells : cell >= block.size =>
                        block.cells[cell] = Foreign
=============================================================================

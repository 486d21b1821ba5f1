-------------------------- MODULE DatabaseListProofs --------------------------
(***************************************************************************)
(* No loop over the list of databases, or over the pieces of a connection  *)
(* string, leaves its block or misses a database, for names of every       *)
(* length and for answers of every number of rows.                         *)
(***************************************************************************)
EXTENDS DatabaseList, SequenceTheorems, TLAPS

-----------------------------------------------------------------------------
(***************************************************************************)
(* Texts, and strings in a block.                                          *)
(***************************************************************************)
Chars == {"options", "blank", "dbname="} \union Databases
Texts == Seq(Chars)
Names == {Name(d) : d \in Databases}
Cells == Chars \union {NUL, Foreign}

\* A block of the heap, and what is behind it, as malloc left it.
Block(block) ==
    /\ block = [size |-> block.size, cells |-> block.cells]
    /\ block.size \in Nat
    /\ block.cells \in [0 .. block.size + Slack - 1 -> Cells]
    /\ \A q \in block.size .. block.size + Slack - 1 : block.cells[q] = Foreign

LEMMA NulIsNoCharacter == NUL \notin Chars
BY CharactersAssumption DEF NUL, Chars

LEMMA WordIsText ==
    ASSUME NEW word \in Chars, NEW n \in Nat
    PROVE  /\ Word(word, n) \in Texts
           /\ Len(Word(word, n)) = n
           /\ \A k \in 1 .. n : Word(word, n)[k] = word
BY DEF Word, Texts

LEMMA AllocatedBlock ==
    ASSUME NEW size \in Nat
    PROVE  /\ Block(Allocate(size))
           /\ Allocate(size).size = size
           /\ \A q \in 0 .. size - 1 : Allocate(size).cells[q] = NUL
<1> DEFINE cells == [cell \in 0 .. size + Slack - 1 |-> IF cell < size THEN NUL ELSE Foreign]
<1>1. size + Slack - 1 \in Nat /\ size - 1 < size + Slack - 1
    BY SlackAssumption
<1>2. cells \in [0 .. size + Slack - 1 -> Cells]
    BY DEF Cells
<1>3. Allocate(size) = [size |-> size, cells |-> cells]
    BY DEF Allocate
<1>4. \A q \in size .. size + Slack - 1 : cells[q] = Foreign
    BY <1>1
<1>5. \A q \in 0 .. size - 1 : cells[q] = NUL
    BY <1>1
<1> HIDE DEF cells
<1> QED BY <1>2, <1>3, <1>4, <1>5 DEF Block

\* The string at a pointer ends at the first terminator.
LEMMA TerminatorIsFirst ==
    ASSUME NEW block, Block(block),
           NEW p \in Nat, NEW q \in p .. block.size - 1,
           block.cells[q] = NUL,
           \A r \in p .. q - 1 : block.cells[r] # NUL
    PROVE  Terminator(block, p) = q
<1> DEFINE Stops(t) == /\ t = block.size + Slack \/ block.cells[t] = NUL
                       /\ \A r \in p .. t - 1 : block.cells[r] # NUL
<1>1. q \in p .. block.size + Slack /\ Stops(q)
    BY SlackAssumption DEF Block
<1>2. ASSUME NEW t \in p .. block.size + Slack, Stops(t)
      PROVE  t = q
    BY <1>2, SlackAssumption DEF Block
<1>3. Terminator(block, p) = CHOOSE t \in p .. block.size + Slack : Stops(t)
    BY DEF Terminator
<1> HIDE DEF Stops
<1> QED BY <1>1, <1>2, <1>3

\* So that at a terminator there is the empty string, ...
LEMMA EmptyAtTerminator ==
    ASSUME NEW block, Block(block), NEW p \in 0 .. block.size - 1, block.cells[p] = NUL
    PROVE  Terminator(block, p) = p
<1>1. p \in p .. block.size - 1 /\ p \in Nat /\ \A r \in p .. p - 1 : block.cells[r] # NUL
    BY DEF Block
<1> QED BY <1>1, TerminatorIsFirst

Written(block, p, text) ==
    /\ p + Len(text) < block.size
    /\ \A k \in 1 .. Len(text) : block.cells[p + k - 1] = text[k]
    /\ block.cells[p + Len(text)] = NUL

\* ... and a text followed by a terminator is read back whole.
LEMMA TextReadBack ==
    ASSUME NEW block, Block(block), NEW p \in Nat, NEW text \in Texts,
           Written(block, p, text)
    PROVE  /\ Terminator(block, p) = p + Len(text)
           /\ StringAt(block, p) = text
<1>0. Len(text) \in Nat /\ text = [k \in 1 .. Len(text) |-> text[k]]
      /\ \A k \in 1 .. Len(text) : text[k] \in Chars
    BY LenProperties DEF Texts
<1>1. p + Len(text) \in p .. block.size - 1
    BY <1>0 DEF Block, Written
<1>2. ASSUME NEW r \in p .. p + Len(text) - 1 PROVE block.cells[r] # NUL
    <2>1. r - p + 1 \in 1 .. Len(text) /\ r = p + (r - p + 1) - 1
        BY <1>0
    <2> QED BY <2>1, <1>0, NulIsNoCharacter DEF Written
<1>3. Terminator(block, p) = p + Len(text)
    BY <1>1, <1>2, TerminatorIsFirst DEF Written
<1>4. StringAt(block, p) = [k \in 1 .. Len(text) |-> block.cells[p + k - 1]]
    BY <1>0, <1>3 DEF StringAt
<1>5. [k \in 1 .. Len(text) |-> block.cells[p + k - 1]] = [k \in 1 .. Len(text) |-> text[k]]
    BY DEF Written
<1> QED BY <1>0, <1>3, <1>4, <1>5

\* The text and its terminator are written at p, and nothing else.
Extended(new, block, p, src) ==
    /\ new.ptr = p + Len(src)
    /\ Block(new.block)
    /\ new.block.size = block.size
    /\ \A k \in 1 .. Len(src) : new.block.cells[p + k - 1] = src[k]
    /\ new.block.cells[p + Len(src)] = NUL
    /\ \A q \in DOMAIN block.cells :
           q \notin p .. p + Len(src) => new.block.cells[q] = block.cells[q]

\* What strcat2 does at a terminator, with room for the text.
LEMMA strcat2AtTerminator ==
    ASSUME NEW block, Block(block), NEW p \in Nat, NEW src \in Texts, src # NULL,
           block.cells[p] = NUL, p + Len(src) < block.size,
           NEW new, new = strcat2([block |-> block, ptr |-> p], src)
    PROVE  Extended(new, block, p, src)
<1>0. Len(src) \in Nat /\ \A k \in 1 .. Len(src) : src[k] \in Chars
    BY LenProperties DEF Texts
<1>1. Terminator(block, p) = p
    <2>1. p \in 0 .. block.size - 1
        BY <1>0 DEF Block
    <2> QED BY <2>1, EmptyAtTerminator
<1>2. new = [block |-> Write(block, p, src), ptr |-> p + Len(src)]
    BY <1>1 DEF strcat2
<1> DEFINE cells == [cell \in DOMAIN block.cells |->
                        IF cell \in p .. p + Len(src) - 1 THEN src[cell - p + 1]
                        ELSE IF cell = p + Len(src) THEN NUL
                        ELSE block.cells[cell]]
<1>3. Write(block, p, src) = [block EXCEPT !.cells = cells]
    BY DEF Write
<1>4. new.ptr = p + Len(src) /\ new.block = [block EXCEPT !.cells = cells]
    <2> HIDE DEF cells
    <2> QED BY <1>2, <1>3
<1>5. new.block.size = block.size /\ new.block.cells = cells
    BY <1>4 DEF Block
<1>6. DOMAIN block.cells = 0 .. block.size + Slack - 1 /\ block.size + Slack - 1 \in Nat
    BY SlackAssumption DEF Block
<1>7. \A q \in DOMAIN block.cells : block.cells[q] \in Cells
    BY <1>6 DEF Block
<1>8. \A q \in DOMAIN block.cells : cells[q] \in Cells
    <2> TAKE q \in DOMAIN block.cells
    <2>1. CASE q \in p .. p + Len(src) - 1
        <3>1. q - p + 1 \in 1 .. Len(src)
            BY <2>1, <1>0, <1>6
        <3> QED BY <3>1, <2>1, <1>0 DEF Cells
    <2>2. CASE q \notin p .. p + Len(src) - 1
        BY <2>2, <1>7 DEF Cells
    <2> QED BY <2>1, <2>2
<1>9. cells \in [0 .. block.size + Slack - 1 -> Cells]
    BY <1>6, <1>8
<1>10. \A q \in block.size .. block.size + Slack - 1 : cells[q] = Foreign
    BY <1>0, <1>6 DEF Block
<1>11. Block(new.block)
    <2>1. new.block = [size |-> block.size, cells |-> cells]
        <3>1. block = [size |-> block.size, cells |-> block.cells]
            BY DEF Block
        <3> HIDE DEF cells
        <3> QED BY <3>1, <1>4
    <2>2. block.size \in Nat
        BY DEF Block
    <2> HIDE DEF cells
    <2> QED BY <2>1, <2>2, <1>5, <1>9, <1>10 DEF Block
<1>12. \A k \in 1 .. Len(src) : cells[p + k - 1] = src[k]
    <2> TAKE k \in 1 .. Len(src)
    <2>1. p + k - 1 \in p .. p + Len(src) - 1 /\ p + k - 1 \in DOMAIN block.cells
          /\ (p + k - 1) - p + 1 = k
        <3>1. block.size \in Nat
            BY DEF Block
        <3>2. p + k - 1 <= block.size + Slack - 1 /\ 0 <= p + k - 1
            BY <1>0, <3>1, SlackAssumption
        <3> QED BY <1>0, <1>6, <3>2
    <2> QED BY <2>1
<1>13. cells[p + Len(src)] = NUL
    BY <1>0, <1>6, SlackAssumption DEF Block
<1>14. \A q \in DOMAIN block.cells : q \notin p .. p + Len(src) => cells[q] = block.cells[q]
    BY <1>0, <1>6
<1> HIDE DEF cells
<1> QED BY <1>4, <1>5, <1>11, <1>12, <1>13, <1>14 DEF Extended
-----------------------------------------------------------------------------
(***************************************************************************)
(* The connection string: what build_connstring has put together so far is *)
(* at the start of its block, and the rest of the block is empty.          *)
(***************************************************************************)
Reads(block, text) ==
    /\ Block(block) /\ text \in Texts
    /\ Len(text) < block.size
    /\ \A k \in 1 .. Len(text) : block.cells[k - 1] = text[k]
    /\ \A q \in Len(text) .. block.size - 1 : block.cells[q] = NUL

OptionsOf(text) == IF strisnull(text) THEN <<>> ELSE text
BlankOf(text)   == IF strisnull(text) THEN <<>> ELSE Blank

\* What is there before a piece is appended.
Assembled(text, database, before) ==
    CASE before = 1 -> <<>>
      [] before = 2 -> OptionsOf(text)
      [] before = 3 -> OptionsOf(text) \o BlankOf(text)
      [] before = 4 -> OptionsOf(text) \o BlankOf(text) \o Dbname
      [] before = 5 -> OptionsOf(text) \o BlankOf(text) \o Dbname \o OptionsOf(database)

Connecting ==
    /\ pc = "connstring" =>
          /\ conninfo.size = BufferSize(connstring, name)
          /\ Reads(conninfo, Assembled(connstring, name, piece))
          /\ end = Len(Assembled(connstring, name, piece))
    /\ pc \in {"list", "query"} => Reads(conninfo, Wanted(connstring, name))

-----------------------------------------------------------------------------
(***************************************************************************)
(* The list: the first m names of a list of rows are laid out end to end,  *)
(* name k from offset ends[k - 1] to its terminator at ends[k] - 1.        *)
(***************************************************************************)
Layout(list, m, ends) ==
    /\ ends \in [0 .. m -> Nat]
    /\ ends[0] = 0
    /\ \A k \in 1 .. m : ends[k] = ends[k - 1] + Length[list[k]] + 1
    /\ \A j, k \in 0 .. m : j < k => ends[j] < ends[k]
    /\ \A q \in 0 .. ends[m] - 1 : \E k \in 1 .. m : q \in ends[k - 1] .. ends[k] - 1

\* The first m names have been copied, and nothing else.
Copied(block, list, m, ends) ==
    /\ \A k \in 1 .. m : \A x \in 1 .. Length[list[k]] :
           block.cells[ends[k - 1] + x - 1] = list[k]
    /\ \A k \in 1 .. m : block.cells[ends[k] - 1] = NUL
    /\ \A q \in ends[m] .. block.size - 1 : block.cells[q] = NUL

\* The whole list is in its block.
Listed(block, list, ends) ==
    /\ Layout(list, Len(list), ends)
    /\ block.size = 1 + ends[Len(list)]
    /\ Copied(block, list, Len(list), ends)

Measuring ==
    pc = "measure" => \E ends \in [0 .. i - 1 -> Nat] :
        /\ Layout(rows, i - 1, ends)
        /\ bufferlen = 1 + ends[i - 1]

Copying ==
    pc = "copy" => \E ends \in [0 .. Len(rows) -> Nat] :
        /\ Layout(rows, Len(rows), ends)
        /\ bufferlen = 1 + ends[Len(rows)] /\ databases.size = bufferlen
        /\ c = ends[i - 1]
        /\ Copied(databases, rows, i - 1, ends)

\* Where the walk is: at the name it has visited last, or behind it.
Position == IF pc = "walk" THEN Len(visited) ELSE Len(visited) - 1

OnTheWalk ==
    Walking => /\ rows # <<>> /\ Position \in 0 .. Len(rows)
               /\ pc # "walk" => name = visited[Len(visited)]
               /\ \E ends \in [0 .. Len(rows) -> Nat] :
                     Listed(databases, rows, ends) /\ db = ends[Position]

StateOK ==
    /\ TypeOK
    /\ rows \in Seq(Databases)
    /\ Block(databases) /\ Block(conninfo)
    /\ name \in {NULL, <<>>} \union Names
    /\ visited \in Seq(Names)
    /\ pc \in {"list", "measure", "copy"} => visited = <<>>
    /\ pc \in {"measure", "copy"} => rows # <<>>
    /\ pc = "connstring" /\ after = "list" => visited = <<>>
    /\ pc = "list" => after = "list"
    /\ pc = "query" => after = "query"

ListInv == StateOK /\ Connecting /\ Measuring /\ Copying /\ OnTheWalk /\ VisitsEveryDatabase
-----------------------------------------------------------------------------
(***************************************************************************)
(* What build_connstring puts together.                                    *)
(***************************************************************************)
Appended(src) == IF src = NULL THEN <<>> ELSE src

\* strcat2, given the string it extends, extends it.
LEMMA PieceAppended ==
    ASSUME NEW block, NEW text, Reads(block, text),
           NEW src \in Texts \union {NULL},
           Len(text) + Len(Appended(src)) < block.size,
           NEW new, new = strcat2([block |-> block, ptr |-> Len(text)], src)
    PROVE  /\ Reads(new.block, text \o Appended(src))
           /\ new.ptr = Len(text \o Appended(src))
           /\ new.block.size = block.size
<1>0. Block(block) /\ text \in Texts /\ Len(text) \in Nat /\ block.size \in Nat
      /\ block.cells[Len(text)] = NUL
    BY LenProperties DEF Reads, Texts, Block
<1>1. CASE src = NULL
    <2>1. new = [block |-> block, ptr |-> Len(text)]
        BY <1>1 DEF strcat2
    <2>2. text \o Appended(src) = text
        BY <1>0, <1>1, ConcatEmptySeq DEF Appended, Texts
    <2> QED BY <2>1, <2>2
<1>2. CASE src # NULL
    <2>1. Appended(src) = src /\ src \in Texts /\ Len(text) + Len(src) < block.size
        BY <1>2 DEF Appended
    <2>2. Extended(new, block, Len(text), src)
        BY <1>0, <1>2, <2>1, strcat2AtTerminator
    <2>9. new.block.size = block.size /\ new.ptr = Len(text) + Len(src)
        BY <2>2 DEF Extended
    <2> DEFINE whole == text \o src
    <2>3. /\ whole \in Texts /\ Len(whole) = Len(text) + Len(src)
          /\ \A k \in 1 .. Len(text) + Len(src) :
                whole[k] = IF k <= Len(text) THEN text[k] ELSE src[k - Len(text)]
        BY <1>0, <2>1, ConcatProperties DEF Texts
    <2>4. Len(src) \in Nat
        BY <2>1, LenProperties DEF Texts
    <2>5. DOMAIN block.cells = 0 .. block.size + Slack - 1 /\ block.size < block.size + Slack
        BY <1>0, SlackAssumption DEF Block
    <2> HIDE DEF whole
    <2>6. ASSUME NEW k \in 1 .. Len(whole)
          PROVE  new.block.cells[k - 1] = whole[k]
        <3>1. CASE k <= Len(text)
            <4>1. k - 1 \in DOMAIN block.cells /\ k - 1 \notin Len(text) .. Len(text) + Len(src)
                BY <1>0, <2>1, <2>3, <2>4, <2>5, <3>1, SlackAssumption
            <4>2. block.cells[k - 1] = text[k]
                BY <1>0, <3>1, <2>3, <2>4 DEF Reads
            <4> QED BY <4>1, <4>2, <2>2, <2>3, <3>1 DEF Extended
        <3>2. CASE ~(k <= Len(text))
            <4>1. k - Len(text) \in 1 .. Len(src) /\ Len(text) + (k - Len(text)) - 1 = k - 1
                BY <1>0, <2>3, <2>4, <3>2
            <4> QED BY <4>1, <2>2, <2>3, <3>2 DEF Extended
        <3> QED BY <3>1, <3>2
    <2>7. ASSUME NEW q \in Len(whole) .. new.block.size - 1
          PROVE  new.block.cells[q] = NUL
        <3>1. CASE q = Len(whole)
            BY <3>1, <2>2, <2>3 DEF Extended
        <3>2. CASE q # Len(whole)
            <4>1. q > Len(text) + Len(src) /\ q \in Nat /\ q < block.size
                <5>1. \A x, y \in Nat : \A z \in x .. y - 1 : z \in Nat /\ z < y /\ (z # x => z > x)
                    OBVIOUS
                <5>2. Len(whole) \in Nat /\ q \in Len(whole) .. block.size - 1 /\ q # Len(whole)
                    BY <1>0, <2>9, <2>3, <2>4, <3>2
                <5>3. q > Len(whole) /\ q \in Nat /\ q < block.size
                    BY <1>0, <5>1, <5>2
                <5> QED BY <2>3, <5>3
            <4>2. q <= block.size + Slack - 1
                BY <1>0, <4>1, SlackAssumption
            <4>3. q \in DOMAIN block.cells /\ q \notin Len(text) .. Len(text) + Len(src)
                  /\ q \in Len(text) .. block.size - 1
                BY <1>0, <2>4, <2>5, <4>1, <4>2
            <4> QED BY <4>3, <2>2 DEF Reads, Extended
        <3> QED BY <3>1, <3>2
    <2>8. Reads(new.block, whole)
        BY <1>0, <2>1, <2>2, <2>3, <2>6, <2>7, <2>9 DEF Reads, Extended
    <2> QED BY <2>1, <2>3, <2>8, <2>9 DEF whole
<1> QED BY <1>1, <1>2

\* What a block reads is what strlen and libpq see in it.
LEMMA ReadsString ==
    ASSUME NEW block, NEW text, Reads(block, text)
    PROVE  Terminator(block, 0) = Len(text) /\ StringAt(block, 0) = text
<1>1. Block(block) /\ text \in Texts /\ Len(text) \in Nat /\ block.size \in Nat
    BY LenProperties DEF Reads, Texts, Block
<1>2. 0 \in Nat /\ Written(block, 0, text)
    BY <1>1 DEF Reads, Written
<1>3. Terminator(block, 0) = 0 + Len(text) /\ StringAt(block, 0) = text
    BY <1>1, <1>2, TextReadBack
<1> QED BY <1>1, <1>3

\* The texts, and how long they are.
LEMMA TextsOfRequest ==
    /\ <<>> \in Texts /\ Len(<<>>) = 0
    /\ Blank \in Texts /\ Len(Blank) = 1
    /\ Dbname \in Texts /\ Len(Dbname) = 7
    /\ \A text \in Options : OptionsOf(text) \in Texts /\ Len(OptionsOf(text)) = strlen(text)
    /\ \A text \in Names \union {NULL, <<>>} :
          OptionsOf(text) \in Texts /\ Len(OptionsOf(text)) = strlen(text)
    /\ \A d \in Databases : Name(d) \in Texts /\ Len(Name(d)) = Length[d] /\ Len(Name(d)) > 0
    /\ \A text \in Names : text \in Texts /\ text # NULL /\ text # <<>>
<1>1. <<>> \in Texts /\ Len(<<>>) = 0
    BY EmptySeq DEF Texts
<1>2. Blank \in Texts /\ Len(Blank) = 1
    BY DEF Blank, Texts, Chars
<1>3. Dbname \in Texts /\ Len(Dbname) = 7
    BY WordIsText DEF Dbname, Chars
<1>4. ASSUME NEW d \in Databases
      PROVE  Name(d) \in Texts /\ Len(Name(d)) = Length[d] /\ Len(Name(d)) > 0
    <2>1. d \in Chars /\ Length[d] \in Nat \ {0}
        BY NamesAssumption DEF Chars
    <2> QED BY <2>1, WordIsText DEF Name
<1>5. ASSUME NEW text \in Names
      PROVE  text \in Texts /\ text # NULL /\ text # <<>>
    <2>1. PICK d \in Databases : text = Name(d)
        BY DEF Names
    <2>2. Name(d) # NULL
        BY NullAssumption
    <2>3. Name(d) # <<>>
        BY <1>1, <1>4
    <2> QED BY <1>4, <2>1, <2>2, <2>3
<1>6. ASSUME NEW n \in ConnLengths
      PROVE  Word("options", n) \in Texts /\ Word("options", n) # NULL
    <2>1. n \in Nat /\ "options" \in Chars
        BY BoundsAssumption DEF Chars
    <2>2. Word("options", n) # NULL
        BY NullAssumption
    <2> QED BY <2>1, <2>2, WordIsText
<1>7. ASSUME NEW text \in Options
      PROVE  OptionsOf(text) \in Texts /\ Len(OptionsOf(text)) = strlen(text)
    <2>1. CASE text = NULL
        BY <1>1, <2>1 DEF OptionsOf, strisnull, strlen
    <2>2. CASE text # NULL
        <3>1. PICK n \in ConnLengths : text = Word("options", n)
            BY <2>2 DEF Options
        <3>2. text \in Texts
            BY <1>6, <3>1
        <3> QED BY <1>1, <2>2, <3>2 DEF OptionsOf, strisnull, strlen
    <2> QED BY <2>1, <2>2
<1>8. ASSUME NEW text \in Names \union {NULL, <<>>}
      PROVE  OptionsOf(text) \in Texts /\ Len(OptionsOf(text)) = strlen(text)
    <2>1. CASE text = NULL
        BY <1>1, <2>1 DEF OptionsOf, strisnull, strlen
    <2>2. CASE text # NULL
        <3>1. text \in Texts
            BY <1>1, <1>5, <2>2
        <3> QED BY <1>1, <2>2, <3>1 DEF OptionsOf, strisnull, strlen
    <2> QED BY <2>1, <2>2
<1> QED BY <1>1, <1>2, <1>3, <1>4, <1>5, <1>7, <1>8

\* Each piece has room, and with the last the connection string is what was wanted.
LEMMA PiecesFit ==
    ASSUME NEW text \in Options, NEW database \in Names \union {NULL, <<>>}
    PROVE  /\ BufferSize(text, database) \in Nat
           /\ Assembled(text, database, 1) = <<>>
           /\ Assembled(text, database, 5) = Wanted(text, database)
           /\ \A p \in 1 .. 4 :
                 /\ Pieces(text, database)[p] \in Texts \union {NULL}
                 /\ Assembled(text, database, p + 1) =
                        Assembled(text, database, p) \o Appended(Pieces(text, database)[p])
                 /\ Len(Assembled(text, database, p))
                        + Len(Appended(Pieces(text, database)[p])) < BufferSize(text, database)
<1> DEFINE opts == OptionsOf(text)
           blank == BlankOf(text)
           dbn == OptionsOf(database)
<1>1. /\ opts \in Texts /\ Len(opts) = strlen(text) /\ Len(opts) \in Nat
      /\ dbn \in Texts /\ Len(dbn) = strlen(database) /\ Len(dbn) \in Nat
    BY TextsOfRequest, LenProperties DEF Texts
<1>2. blank \in Texts /\ Len(blank) \in 0 .. 1
    BY TextsOfRequest DEF BlankOf
<1>3. Dbname \in Texts /\ Len(Dbname) = 7
    BY TextsOfRequest
<1>4. BufferSize(text, database) = Len(opts) + Len(dbn) + 9
    BY <1>1 DEF BufferSize
<1>5. /\ Assembled(text, database, 1) = <<>>
      /\ Assembled(text, database, 2) = opts
      /\ Assembled(text, database, 3) = opts \o blank
      /\ Assembled(text, database, 4) = opts \o blank \o Dbname
      /\ Assembled(text, database, 5) = opts \o blank \o Dbname \o dbn
    BY DEF Assembled
<1>6. /\ Pieces(text, database)[1] = opts /\ Appended(opts) = opts
      /\ Pieces(text, database)[2] \in {NULL, Blank}
      /\ Appended(Pieces(text, database)[2]) = blank
      /\ Pieces(text, database)[3] = Dbname /\ Appended(Dbname) = Dbname
      /\ Pieces(text, database)[4] \in {NULL, dbn}
      /\ Appended(Pieces(text, database)[4]) = dbn
    BY NullAssumption, TextsOfRequest
       DEF Pieces, Appended, OptionsOf, BlankOf, Separator, DEFAULT_CONN_STRING,
           DEFAULT_CONN_DBNAME, strisnull
<1>7. opts \o blank \o Dbname \o dbn = Wanted(text, database)
    <2>1. CASE strisnull(text)
        BY <2>1, ConcatEmptySeq, EmptySeq DEF Wanted, OptionsOf, BlankOf
    <2>2. CASE ~strisnull(text)
        BY <2>2 DEF Wanted, OptionsOf, BlankOf
    <2> QED BY <2>1, <2>2
<1> HIDE DEF opts, blank, dbn
<1>8. /\ Len(opts \o blank) = Len(opts) + Len(blank) /\ opts \o blank \in Texts
      /\ Len(opts \o blank \o Dbname) = Len(opts) + Len(blank) + 7
    <2>1. ASSUME NEW s \in Texts, NEW t \in Texts
          PROVE  s \o t \in Texts /\ Len(s \o t) = Len(s) + Len(t)
        BY ConcatProperties DEF Texts
    <2>2. Len(opts \o blank) = Len(opts) + Len(blank) /\ opts \o blank \in Texts
        BY <1>1, <1>2, <2>1
    <2> QED BY <1>3, <2>1, <2>2
<1>9. <<>> \o opts = opts /\ Len(<<>>) = 0
    BY <1>1, ConcatEmptySeq, EmptySeq DEF Texts
<1>12. /\ Len(opts) + Len(blank) < Len(opts) + Len(dbn) + 9
       /\ Len(opts) + Len(blank) + 7 < Len(opts) + Len(dbn) + 9
       /\ Len(opts) + Len(blank) + 7 + Len(dbn) < Len(opts) + Len(dbn) + 9
    <2>1. \A x, y \in Nat, z \in 0 .. 1 :
              x + z < x + y + 9 /\ x + z + 7 < x + y + 9 /\ x + z + 7 + y < x + y + 9
        OBVIOUS
    <2> QED BY <1>1, <1>2, <2>1
<1>10. ASSUME NEW p \in 1 .. 4
       PROVE  /\ Pieces(text, database)[p] \in Texts \union {NULL}
              /\ Assembled(text, database, p + 1) =
                     Assembled(text, database, p) \o Appended(Pieces(text, database)[p])
              /\ Len(Assembled(text, database, p))
                     + Len(Appended(Pieces(text, database)[p])) < BufferSize(text, database)
    <2> DEFINE before == Assembled(text, database, p)
               added == Pieces(text, database)[p]
               behind == Assembled(text, database, p + 1)
    <2> SUFFICES /\ added \in Texts \union {NULL}
                 /\ behind = before \o Appended(added)
                 /\ Len(before) + Len(Appended(added)) < BufferSize(text, database)
        OBVIOUS
    <2>1. CASE p = 1
        <3>1. before = <<>> /\ added = opts /\ behind = opts
            BY <2>1, <1>5, <1>6
        <3> HIDE DEF before, added, behind
        <3> QED BY <3>1, <1>1, <1>4, <1>6, <1>9
    <2>2. CASE p = 2
        <3>1. /\ before = opts /\ added \in {NULL, Blank} /\ behind = opts \o blank
              /\ Appended(added) = blank
            BY <2>2, <1>5, <1>6
        <3> HIDE DEF before, added, behind
        <3>2. Len(before) + Len(Appended(added)) = Len(opts) + Len(blank)
            BY <3>1
        <3>3. Len(opts) + Len(blank) < Len(opts) + Len(dbn) + 9
            BY <1>12
        <3>4. added \in Texts \union {NULL}
            BY <3>1, TextsOfRequest
        <3> QED BY <3>1, <3>2, <3>3, <3>4, <1>4
    <2>3. CASE p = 3
        <3>1. before = opts \o blank /\ added = Dbname /\ behind = opts \o blank \o Dbname
            BY <2>3, <1>5, <1>6
        <3> HIDE DEF before, added, behind
        <3>2. Len(before) + Len(Appended(added)) = Len(opts) + Len(blank) + 7
            BY <3>1, <1>3, <1>6, <1>8
        <3>3. Len(opts) + Len(blank) + 7 < Len(opts) + Len(dbn) + 9
            BY <1>12
        <3>4. behind = before \o Appended(added)
            BY <3>1, <1>6
        <3> QED BY <3>1, <3>2, <3>3, <3>4, <1>3, <1>4
    <2>4. CASE p = 4
        <3>1. /\ before = opts \o blank \o Dbname /\ added \in {NULL, dbn}
              /\ behind = opts \o blank \o Dbname \o dbn
              /\ Appended(added) = dbn
            BY <2>4, <1>5, <1>6
        <3> HIDE DEF before, added, behind
        <3>2. Len(before) + Len(Appended(added)) = Len(opts) + Len(blank) + 7 + Len(dbn)
            BY <3>1, <1>8
        <3>3. Len(opts) + Len(blank) + 7 + Len(dbn) < Len(opts) + Len(dbn) + 9
            BY <1>12
        <3>4. behind = before \o Appended(added)
            BY <3>1
        <3> QED BY <3>1, <3>2, <3>3, <3>4, <1>1, <1>4
    <2> HIDE DEF before, added, behind
    <2> QED BY <2>1, <2>2, <2>3, <2>4
<1>11. BufferSize(text, database) \in Nat
    BY <1>1, <1>4
<1> QED BY <1>5, <1>7, <1>10, <1>11
-----------------------------------------------------------------------------
(***************************************************************************)
(* The list in its block.                                                  *)
(***************************************************************************)
LEMMA LayoutOfNone ==
    ASSUME NEW list
    PROVE  Layout(list, 0, [k \in 0 .. 0 |-> 0])
BY DEF Layout

\* A measured name is laid out behind the others.
Extend(list, m, ends) ==
    [k \in 0 .. m + 1 |-> IF k <= m THEN ends[k] ELSE ends[m] + Length[list[m + 1]] + 1]

LEMMA LayoutExtends ==
    ASSUME NEW list \in Seq(Databases), NEW m \in Nat, m < Len(list),
           NEW ends, Layout(list, m, ends)
    PROVE  /\ Layout(list, m + 1, Extend(list, m, ends))
           /\ Extend(list, m, ends)[m + 1] = ends[m] + Length[list[m + 1]] + 1
<1> DEFINE new == Extend(list, m, ends)
<1>1. /\ ends \in [0 .. m -> Nat] /\ ends[0] = 0
      /\ \A k \in 1 .. m : ends[k] = ends[k - 1] + Length[list[k]] + 1
      /\ \A j, k \in 0 .. m : j < k => ends[j] < ends[k]
      /\ \A q \in 0 .. ends[m] - 1 : \E k \in 1 .. m : q \in ends[k - 1] .. ends[k] - 1
    BY DEF Layout
<1> DEFINE last == ends[m] + Length[list[m + 1]] + 1
<1>2. m + 1 \in 1 .. Len(list) /\ list[m + 1] \in Databases
    BY LenProperties
<1>3. ends[m] \in Nat /\ last \in Nat /\ ends[m] < last
    <2>1. Length[list[m + 1]] \in Nat \ {0}
        BY <1>2, NamesAssumption
    <2> QED BY <1>1, <2>1
<1>4. /\ new \in [0 .. m + 1 -> Nat] /\ new[m + 1] = last
      /\ \A k \in 0 .. m : new[k] = ends[k]
    BY <1>1, <1>3 DEF Extend
<1> HIDE DEF new
<1>5. new[0] = 0
    BY <1>1, <1>4
<1>6. ASSUME NEW k \in 1 .. m + 1 PROVE new[k] = new[k - 1] + Length[list[k]] + 1
    <2>1. CASE k \in 1 .. m
        <3>1. k \in 0 .. m /\ k - 1 \in 0 .. m
            BY <2>1
        <3> QED BY <2>1, <3>1, <1>1, <1>4
    <2>2. CASE k = m + 1
        <3>1. m \in 0 .. m /\ k - 1 = m
            BY <2>2
        <3> QED BY <2>2, <3>1, <1>4
    <2> QED BY <2>1, <2>2
<1>7. ASSUME NEW j \in 0 .. m + 1, NEW k \in 0 .. m + 1, j < k PROVE new[j] < new[k]
    <2>1. CASE k \in 0 .. m
        BY <2>1, <1>1, <1>4, <1>7
    <2>2. CASE k = m + 1
        <3>1. j \in 0 .. m /\ m \in 0 .. m /\ ends[j] \in Nat
            BY <2>2, <1>1, <1>7
        <3>2. ends[j] <= ends[m]
            <4>1. j = m \/ j < m
                BY <3>1
            <4>2. j < m => ends[j] < ends[m]
                BY <3>1, <1>1
            <4> QED BY <3>1, <4>1, <4>2, <1>3
        <3> QED BY <2>2, <3>1, <3>2, <1>3, <1>4
    <2> QED BY <2>1, <2>2
<1>8. ASSUME NEW q \in 0 .. new[m + 1] - 1
      PROVE  \E k \in 1 .. m + 1 : q \in new[k - 1] .. new[k] - 1
    <2>1. CASE q < ends[m]
        <3>1. q \in 0 .. ends[m] - 1
            BY <2>1, <1>3
        <3>2. PICK k \in 1 .. m : q \in ends[k - 1] .. ends[k] - 1
            BY <1>1, <3>1
        <3>3. k \in 0 .. m /\ k - 1 \in 0 .. m /\ k \in 1 .. m + 1
            OBVIOUS
        <3> QED BY <1>4, <3>2, <3>3
    <2>2. CASE ~(q < ends[m])
        <3>1. q \in ends[m] .. last - 1
            BY <2>2, <1>3, <1>4
        <3>2. m \in 0 .. m /\ (m + 1) - 1 = m /\ m + 1 \in 1 .. m + 1
            OBVIOUS
        <3>3. q \in new[(m + 1) - 1] .. new[m + 1] - 1
            BY <3>1, <3>2, <1>4
        <3> QED BY <3>2, <3>3
    <2> QED BY <2>1, <2>2
<1>9. new[m + 1] = last
    BY <1>4
<1> HIDE DEF last
<1>10. Layout(list, m + 1, new)
    BY <1>4, <1>5, <1>6, <1>7, <1>8 DEF Layout
<1> QED BY <1>9, <1>10 DEF last, new

\* Where n names are.
Placed(list, n, ends) ==
    /\ \A k \in 0 .. n : ends[k] \in Nat /\ ends[k] <= ends[n]
    /\ \A j, k \in 0 .. n : j < k => ends[j] < ends[k]
    /\ \A m \in 0 .. n - 1 : /\ list[m + 1] \in Databases
                             /\ Length[list[m + 1]] \in Nat \ {0}
                             /\ ends[m + 1] = ends[m] + Length[list[m + 1]] + 1
                             /\ ends[m + 1] <= ends[n]

LEMMA Offsets ==
    ASSUME NEW list \in Seq(Databases), NEW n \in Nat, n = Len(list),
           NEW ends, Layout(list, n, ends)
    PROVE  Placed(list, n, ends)
<1>1. /\ ends \in [0 .. n -> Nat]
      /\ \A k \in 1 .. n : ends[k] = ends[k - 1] + Length[list[k]] + 1
      /\ \A j, k \in 0 .. n : j < k => ends[j] < ends[k]
    BY DEF Layout
<1>2. ASSUME NEW k \in 0 .. n PROVE ends[k] \in Nat /\ ends[k] <= ends[n]
    <2>1. n \in 0 .. n /\ (k = n \/ k < n) /\ ends[k] \in Nat /\ ends[n] \in Nat
        BY <1>1
    <2> QED BY <1>1, <2>1
<1>3. ASSUME NEW m \in 0 .. n - 1
      PROVE  /\ list[m + 1] \in Databases
             /\ Length[list[m + 1]] \in Nat \ {0}
             /\ ends[m + 1] = ends[m] + Length[list[m + 1]] + 1
             /\ ends[m + 1] <= ends[n]
    <2>1. m + 1 \in 1 .. n /\ m + 1 \in 0 .. n /\ (m + 1) - 1 = m
        OBVIOUS
    <2>2. list[m + 1] \in Databases
        BY <2>1, LenProperties
    <2> QED BY <1>1, <1>2, <2>1, <2>2, NamesAssumption
<1> QED BY <1>1, <1>2, <1>3 DEF Placed
\* A name copied behind the others is in its place, and they are where they were.
LEMMA CopiedExtends ==
    ASSUME NEW list \in Seq(Databases), NEW n \in Nat, n = Len(list),
           NEW ends, Layout(list, n, ends),
           NEW block, Block(block), block.size = 1 + ends[n],
           NEW m \in 0 .. n - 1, Copied(block, list, m, ends),
           NEW new, new = strcat2([block |-> block, ptr |-> ends[m]], Name(list[m + 1]))
    PROVE  /\ Block(new.block) /\ new.block.size = block.size
           /\ Copied(new.block, list, m + 1, ends)
           /\ new.ptr + 1 = ends[m + 1]
<1> DEFINE d == list[m + 1]
           p == ends[m]
<1>1. /\ \A k \in 0 .. n : ends[k] \in Nat /\ ends[k] <= ends[n]
      /\ \A j, k \in 0 .. n : j < k => ends[j] < ends[k]
      /\ \A k \in 0 .. n - 1 : /\ list[k + 1] \in Databases
                               /\ Length[list[k + 1]] \in Nat \ {0}
                               /\ ends[k + 1] = ends[k] + Length[list[k + 1]] + 1
                               /\ ends[k + 1] <= ends[n]
    <2>1. Placed(list, n, ends)
        BY Offsets
    <2> QED BY <2>1 DEF Placed
<1>2. /\ d \in Databases /\ Length[d] \in Nat \ {0} /\ p \in Nat
      /\ ends[m + 1] = p + Length[d] + 1 /\ p + Length[d] + 1 <= ends[n]
      /\ ends[n] \in Nat
    BY <1>1
<1> HIDE DEF d, p
<1>3. /\ Name(d) \in Texts /\ Len(Name(d)) = Length[d] /\ Name(d) # NULL
      /\ \A x \in 1 .. Length[d] : Name(d)[x] = d
    <2>1. Name(d) \in Names
        BY <1>2 DEF Names
    <2>2. \A x \in 1 .. Length[d] : Name(d)[x] = d
        BY DEF Name, Word
    <2> QED BY <1>2, <2>1, <2>2, TextsOfRequest
<1>4. block.cells[p] = NUL
    <2>1. p \in ends[m] .. block.size - 1
        BY <1>2 DEF p
    <2> QED BY <2>1 DEF Copied
<1>5. p + Len(Name(d)) < block.size
    BY <1>2, <1>3
<1>6. Extended(new, block, p, Name(d))
    <2>1. new = strcat2([block |-> block, ptr |-> p], Name(d))
        BY DEF p, d
    <2> QED BY <1>2, <1>3, <1>4, <1>5, <2>1, strcat2AtTerminator
<1>7. /\ new.ptr = p + Length[d] /\ Block(new.block) /\ new.block.size = block.size
      /\ \A x \in 1 .. Length[d] : new.block.cells[p + x - 1] = d
      /\ new.block.cells[p + Length[d]] = NUL
    BY <1>3, <1>6 DEF Extended
<1>8. \A q \in 0 .. block.size - 1 :
          q \notin p .. p + Length[d] => new.block.cells[q] = block.cells[q]
    <2> TAKE q \in 0 .. block.size - 1
    <2>1. q \in DOMAIN block.cells
        BY SlackAssumption DEF Block
    <2> QED BY <1>3, <1>6, <2>1 DEF Extended
<1>9. \A k \in 1 .. m : /\ k \in 0 .. n /\ k - 1 \in 0 .. n - 1
                        /\ ends[k - 1] \in Nat /\ Length[list[k]] \in Nat \ {0}
                        /\ ends[k] = ends[k - 1] + Length[list[k]] + 1
                        /\ ends[k] <= p
    <2> TAKE k \in 1 .. m
    <2>1. k \in 0 .. n /\ k - 1 \in 0 .. n - 1 /\ (k - 1) + 1 = k /\ m \in 0 .. n
        OBVIOUS
    <2>2. ends[k] <= p
        BY <1>1, <2>1 DEF p
    <2>3. /\ Length[list[(k - 1) + 1]] \in Nat \ {0}
          /\ ends[(k - 1) + 1] = ends[k - 1] + Length[list[(k - 1) + 1]] + 1
          /\ ends[k - 1] \in Nat
        BY <1>1, <2>1
    <2> QED BY <2>1, <2>2, <2>3
<1>15. \A o, l, t \in Nat : t <= p =>
          /\ t = o + l + 1 => t - 1 \in 0 .. block.size - 1 /\ t - 1 < p
          /\ t = o + l + 1 => \A x \in 1 .. l : o + x - 1 \in 0 .. block.size - 1 /\ o + x - 1 < p
    BY <1>2
<1>10. ASSUME NEW k \in 1 .. m + 1, NEW x \in 1 .. Length[list[k]]
       PROVE  new.block.cells[ends[k - 1] + x - 1] = list[k]
    <2>1. CASE k \in 1 .. m
        <3>1. block.cells[ends[k - 1] + x - 1] = list[k]
            BY <2>1 DEF Copied
        <3>2. /\ ends[k - 1] + x - 1 \in 0 .. block.size - 1
              /\ ends[k - 1] + x - 1 < p
            <4>1. /\ ends[k - 1] \in Nat /\ Length[list[k]] \in Nat \ {0}
                  /\ ends[k] = ends[k - 1] + Length[list[k]] + 1 /\ ends[k] <= p
                BY <1>9, <2>1
            <4>2. ends[k] \in Nat
                BY <4>1
            <4> QED BY <1>15, <4>1, <4>2
        <3>3. ends[k - 1] + x - 1 \notin p .. p + Length[d]
            BY <1>2, <3>2
        <3> QED BY <1>8, <3>1, <3>2, <3>3
    <2>2. CASE k = m + 1
        <3>1. k - 1 = m /\ list[k] = d
            BY <2>2 DEF d
        <3> QED BY <1>7, <3>1 DEF p
    <2> QED BY <2>1, <2>2
<1>11. ASSUME NEW k \in 1 .. m + 1
       PROVE  new.block.cells[ends[k] - 1] = NUL
    <2>1. CASE k \in 1 .. m
        <3>1. block.cells[ends[k] - 1] = NUL
            BY <2>1 DEF Copied
        <3>2. ends[k] - 1 \in 0 .. block.size - 1 /\ ends[k] - 1 < p
            <4>1. /\ ends[k - 1] \in Nat /\ Length[list[k]] \in Nat \ {0}
                  /\ ends[k] = ends[k - 1] + Length[list[k]] + 1 /\ ends[k] <= p
                BY <1>9, <2>1
            <4>2. ends[k] \in Nat
                BY <4>1
            <4> QED BY <1>15, <4>1, <4>2
        <3>3. ends[k] - 1 \notin p .. p + Length[d]
            BY <1>2, <3>2
        <3> QED BY <1>8, <3>1, <3>2, <3>3
    <2>2. CASE k = m + 1
        <3>1. ends[k] - 1 = p + Length[d]
            BY <1>2, <2>2
        <3> QED BY <1>7, <3>1
    <2> QED BY <2>1, <2>2
<1>12. ASSUME NEW q \in ends[m + 1] .. new.block.size - 1
       PROVE  new.block.cells[q] = NUL
    <2>1. /\ q \in 0 .. block.size - 1 /\ q \notin p .. p + Length[d]
          /\ q \in p .. block.size - 1
        BY <1>2, <1>7
    <2>2. block.cells[q] = NUL
        BY <2>1 DEF Copied, p
    <2> QED BY <1>8, <2>1, <2>2
<1>13. Copied(new.block, list, m + 1, ends)
    BY <1>10, <1>11, <1>12 DEF Copied
<1>14. new.ptr + 1 = ends[m + 1]
    BY <1>2, <1>7
<1> QED BY <1>7, <1>13, <1>14

\* Behind m names the walk finds the next one, or the end of the list.
LEMMA NameAt ==
    ASSUME NEW list \in Seq(Databases), NEW n \in Nat, n = Len(list),
           NEW block, Block(block), NEW ends, Listed(block, list, ends),
           NEW m \in 0 .. n
    PROVE  /\ ends[m] \in Nat
           /\ Terminator(block, ends[m]) < block.size
           /\ m = n => block.cells[ends[m]] = NUL
           /\ m < n => /\ block.cells[ends[m]] = list[m + 1]
                       /\ block.cells[ends[m]] # NUL
                       /\ StringAt(block, ends[m]) = Name(list[m + 1])
                       /\ NextName(block, ends[m]) = ends[m + 1]
<1>1. /\ \A k \in 0 .. n : ends[k] \in Nat /\ ends[k] <= ends[n]
      /\ \A k \in 0 .. n - 1 : /\ list[k + 1] \in Databases
                               /\ Length[list[k + 1]] \in Nat \ {0}
                               /\ ends[k + 1] = ends[k] + Length[list[k + 1]] + 1
                               /\ ends[k + 1] <= ends[n]
    <2>1. Layout(list, n, ends)
        BY DEF Listed
    <2>2. Placed(list, n, ends)
        BY <2>1, Offsets
    <2> QED BY <2>2 DEF Placed
<1>2. /\ block.size = 1 + ends[n]
      /\ Copied(block, list, n, ends)
    BY DEF Listed
<1>3. ends[m] \in Nat /\ ends[n] \in Nat
    BY <1>1
<1>4. CASE m = n
    <2>1. ends[m] \in ends[n] .. block.size - 1
        BY <1>2, <1>3, <1>4
    <2>2. block.cells[ends[m]] = NUL
        BY <1>2, <2>1 DEF Copied
    <2>3. Terminator(block, ends[m]) = ends[m]
        <3>1. ends[m] \in 0 .. block.size - 1
            BY <1>3, <2>1
        <3> QED BY <2>2, <3>1, EmptyAtTerminator
    <2> QED BY <1>2, <1>3, <1>4, <2>2, <2>3
<1>5. CASE m < n
    <2> DEFINE d == list[m + 1]
               p == ends[m]
    <2>1. /\ d \in Databases /\ Length[d] \in Nat \ {0} /\ p \in Nat
          /\ ends[m + 1] = p + Length[d] + 1 /\ p + Length[d] + 1 <= ends[n]
        BY <1>1, <1>5
    <2>2. m + 1 \in 1 .. n /\ (m + 1) - 1 = m
        BY <1>5
    <2>3. /\ \A x \in 1 .. Length[list[m + 1]] :
                block.cells[ends[(m + 1) - 1] + x - 1] = list[m + 1]
          /\ block.cells[ends[m + 1] - 1] = NUL
        BY <1>2, <2>2 DEF Copied
    <2>4. \A x \in 1 .. Length[d] : block.cells[p + x - 1] = d
        BY <2>2, <2>3
    <2>5. block.cells[p + Length[d]] = NUL
        <3>1. ends[m + 1] - 1 = p + Length[d]
            BY <2>1
        <3> QED BY <2>3, <3>1
    <2> HIDE DEF d, p
    <2>6. /\ Name(d) \in Texts /\ Len(Name(d)) = Length[d] /\ Name(d) # NULL
          /\ \A x \in 1 .. Length[d] : Name(d)[x] = d
        <3>1. Name(d) \in Names
            BY <2>1 DEF Names
        <3>2. \A x \in 1 .. Length[d] : Name(d)[x] = d
            BY DEF Name, Word
        <3> QED BY <2>1, <3>1, <3>2, TextsOfRequest
    <2>7. Written(block, p, Name(d)) /\ p + Len(Name(d)) < block.size
        <3>1. p + Length[d] < block.size
            BY <1>2, <1>3, <2>1
        <3> QED BY <2>4, <2>5, <2>6, <3>1 DEF Written
    <2>8. Terminator(block, p) = p + Len(Name(d)) /\ StringAt(block, p) = Name(d)
        BY <2>1, <2>6, <2>7, TextReadBack
    <2>9. block.cells[p] = d /\ d # NUL
        <3>1. 1 \in 1 .. Length[d] /\ p + 1 - 1 = p
            BY <2>1
        <3>2. d # NUL
            BY <2>1, CharactersAssumption
        <3> QED BY <2>4, <3>1, <3>2
    <2>10. NextName(block, p) = ends[m + 1]
        BY <2>1, <2>6, <2>8 DEF NextName, strlen
    <2> QED BY <1>5, <2>1, <2>7, <2>8, <2>9, <2>10 DEF d, p
<1> QED BY <1>4, <1>5
-----------------------------------------------------------------------------
(***************************************************************************)
(* Every step preserves the invariant.                                     *)
(***************************************************************************)
LEMMA RowsAreLists ==
    /\ <<>> \in Rows
    /\ \A r \in Rows : r \in Seq(Databases) /\ Len(r) \in 0 .. MaxRows
<1>1. <<>> \in [1 .. 0 -> Databases] /\ 0 \in 0 .. MaxRows
    BY BoundsAssumption
<1>2. <<>> \in Rows
    BY <1>1 DEF Rows
<1>3. ASSUME NEW r \in Rows PROVE r \in Seq(Databases) /\ Len(r) \in 0 .. MaxRows
    <2>1. PICK n \in 0 .. MaxRows : r \in [1 .. n -> Databases]
        BY DEF Rows
    <2>2. n \in Nat
        BY BoundsAssumption
    <2> QED BY <2>1, <2>2, BoundsAssumption
<1> QED BY <1>2, <1>3

LEMMA EmptyBlock == Block(NoBlock) /\ NoBlock.size = 0
BY AllocatedBlock DEF NoBlock

LEMMA InitInv == Init => ListInv
<1> SUFFICES ASSUME Init PROVE ListInv
    OBVIOUS
<1>1. StateOK
    BY RowsAreLists, EmptyBlock, EmptySeq, BoundsAssumption DEF Init, StateOK, TypeOK
<1> QED BY <1>1 DEF Init, ListInv, Connecting, Measuring, Copying, OnTheWalk, Walking,
                    VisitsEveryDatabase

\* A block has been allocated for the connection string, and nothing is in it.
LEMMA ConnectingStarts ==
    ASSUME NEW database \in Names \union {NULL, <<>>}, NEW label, connstring \in Options,
           build_connstring(database, label), connstring' = connstring
    PROVE  Block(conninfo)' /\ Connecting'
<1>1. /\ name' = database /\ end' = 0 /\ piece' = 1 /\ pc' = "connstring"
      /\ conninfo' = Allocate(BufferSize(connstring, database))
    BY DEF build_connstring
<1>2. BufferSize(connstring, database) \in Nat /\ BufferSize(connstring, database) > 0
    <2>1. /\ Len(OptionsOf(connstring)) = strlen(connstring)
          /\ Len(OptionsOf(database)) = strlen(database)
          /\ OptionsOf(connstring) \in Texts /\ OptionsOf(database) \in Texts
        BY TextsOfRequest
    <2>2. strlen(connstring) \in Nat /\ strlen(database) \in Nat
        BY <2>1, LenProperties DEF Texts
    <2> QED BY <2>2 DEF BufferSize
<1>3. /\ Block(conninfo') /\ conninfo'.size = BufferSize(connstring, database)
      /\ \A q \in 0 .. conninfo'.size - 1 : conninfo'.cells[q] = NUL
    BY <1>1, <1>2, AllocatedBlock
<1>4. Assembled(connstring, database, 1) = <<>> /\ <<>> \in Texts /\ Len(<<>>) = 0
    BY PiecesFit, TextsOfRequest
<1>5. Reads(conninfo', <<>>)
    BY <1>2, <1>3, <1>4 DEF Reads
<1> QED BY <1>1, <1>3, <1>4, <1>5 DEF Connecting

LEMMA BeginInv == ListInv /\ Begin => ListInv'
<1> SUFFICES ASSUME ListInv, Begin PROVE ListInv'
    OBVIOUS
<1>1. /\ connstring \in Options /\ connstring' = connstring /\ dbname' = dbname
      /\ dbname \in Names \union {NULL, <<>>}
      /\ build_connstring(dbname, "list")
    BY DEF ListInv, StateOK, TypeOK, Begin, requestVars, Names
<1>2. Block(conninfo)' /\ Connecting'
    BY <1>1, ConnectingStarts
<1>3. /\ pc' = "connstring" /\ after' = "list" /\ name' = dbname /\ end' = 0 /\ piece' = 1
      /\ rows' = <<>> /\ i' = 1 /\ bufferlen' = 0 /\ databases' = NoBlock /\ c' = 0
      /\ db' = 0 /\ visited' = <<>>
    BY DEF Begin, build_connstring
<1>4. StateOK'
    BY <1>1, <1>2, <1>3, RowsAreLists, EmptyBlock, EmptySeq, BoundsAssumption
       DEF StateOK, TypeOK, Block, ListInv
<1> QED BY <1>2, <1>3, <1>4 DEF ListInv, Measuring, Copying, OnTheWalk, Walking,
                                VisitsEveryDatabase

LEMMA AppendPieceInv == ListInv /\ AppendPiece => ListInv'
<1> SUFFICES ASSUME ListInv, AppendPiece PROVE ListInv'
    OBVIOUS
<1> DEFINE text == Assembled(connstring, name, piece)
           src == Pieces(connstring, name)[piece]
           new == strcat2([block |-> conninfo, ptr |-> end], src)
<1>1. /\ pc = "connstring" /\ piece \in 1 .. 4 /\ piece' = piece + 1
      /\ conninfo' = new.block /\ end' = new.ptr
      /\ UNCHANGED <<pc, requestVars, listVars, db, name, after, visited>>
    BY DEF AppendPiece, ListInv, StateOK, TypeOK
<1>2. /\ connstring \in Options /\ name \in Names \union {NULL, <<>>}
      /\ conninfo.size = BufferSize(connstring, name)
      /\ Reads(conninfo, text) /\ end = Len(text)
    BY <1>1 DEF ListInv, StateOK, TypeOK, Connecting
<1>3. /\ src \in Texts \union {NULL}
      /\ Assembled(connstring, name, piece + 1) = text \o Appended(src)
      /\ Len(text) + Len(Appended(src)) < conninfo.size
    <2> HIDE DEF text, src, new
    <2>1. \A p \in 1 .. 4 :
              /\ Pieces(connstring, name)[p] \in Texts \union {NULL}
              /\ Assembled(connstring, name, p + 1) =
                     Assembled(connstring, name, p) \o Appended(Pieces(connstring, name)[p])
              /\ Len(Assembled(connstring, name, p))
                     + Len(Appended(Pieces(connstring, name)[p])) < BufferSize(connstring, name)
        BY <1>2, PiecesFit
    <2> QED BY <1>1, <1>2, <2>1 DEF text, src
<1> HIDE DEF text, src, new
<1>4. new = strcat2([block |-> conninfo, ptr |-> Len(text)], src)
    BY <1>2 DEF new
<1>5. /\ Reads(new.block, text \o Appended(src))
      /\ new.ptr = Len(text \o Appended(src))
      /\ new.block.size = conninfo.size
    BY <1>2, <1>3, <1>4, PieceAppended
<1>6. Connecting'
    BY <1>1, <1>2, <1>3, <1>5 DEF Connecting, requestVars
<1>7. Block(conninfo)' /\ end' \in Nat
    BY <1>1, <1>5, LenProperties DEF Reads, Texts
<1>8. StateOK'
    BY <1>1, <1>7 DEF ListInv, StateOK, TypeOK, requestVars, listVars, Block
<1> QED BY <1>1, <1>6, <1>8 DEF ListInv, Measuring, Copying, OnTheWalk, Walking, Position,
                                VisitsEveryDatabase, requestVars, listVars
LEMMA ConnectInv == ListInv /\ Connect => ListInv'
<1> SUFFICES ASSUME ListInv, Connect PROVE ListInv'
    OBVIOUS
<1>1. /\ pc = "connstring" /\ piece = 5 /\ pc' = after /\ after \in {"list", "query"}
      /\ UNCHANGED <<requestVars, listVars, db, connVars, visited>>
    BY DEF Connect, ListInv, StateOK, TypeOK
<1> USE DEF requestVars, listVars, connVars
<1>2. Reads(conninfo, Wanted(connstring, name))
    <2>1. /\ connstring \in Options /\ name \in Names \union {NULL, <<>>}
          /\ Reads(conninfo, Assembled(connstring, name, 5))
        BY <1>1 DEF ListInv, StateOK, TypeOK, Connecting
    <2> QED BY <2>1, PiecesFit
<1>3. Connecting'
    BY <1>1, <1>2 DEF Connecting
<1>4. StateOK'
    BY <1>1 DEF ListInv, StateOK, TypeOK, Block
<1> QED BY <1>1, <1>3, <1>4 DEF ListInv, Measuring, Copying, OnTheWalk, Walking, Position,
                                VisitsEveryDatabase

LEMMA NoListInv == ListInv /\ NoList => ListInv'
<1> SUFFICES ASSUME ListInv, NoList PROVE ListInv'
    OBVIOUS
<1>1. /\ pc = "list" /\ pc' = "failed"
      /\ UNCHANGED <<requestVars, listVars, db, connVars, visited>>
    BY DEF NoList
<1> USE DEF requestVars, listVars, connVars
<1>2. StateOK'
    BY <1>1 DEF ListInv, StateOK, TypeOK, Block
<1> QED BY <1>1, <1>2 DEF ListInv, Connecting, Measuring, Copying, OnTheWalk, Walking,
                           VisitsEveryDatabase

LEMMA ListRowsInv == ListInv /\ ListRows => ListInv'
<1> SUFFICES ASSUME ListInv, ListRows PROVE ListInv'
    OBVIOUS
<1>1. /\ pc = "list" /\ pc' = "measure" /\ rows' \in Rows /\ rows' # <<>>
      /\ i' = 1 /\ bufferlen' = 1
      /\ UNCHANGED <<requestVars, databases, c, db, connVars, visited>>
    BY DEF ListRows, FromOne
<1> USE DEF requestVars, connVars
<1>2. rows' \in Seq(Databases) /\ Len(rows') \in Nat
    BY <1>1, RowsAreLists, BoundsAssumption
<1>3. StateOK'
    BY <1>1, <1>2 DEF ListInv, StateOK, TypeOK, Block
<1>4. Measuring'
    <2> DEFINE ends == [k \in 0 .. 0 |-> 0]
    <2>1. Layout(rows', 0, ends)
        BY LayoutOfNone
    <2>2. ends \in [0 .. 0 -> Nat] /\ ends[0] = 0
        OBVIOUS
    <2> HIDE DEF ends
    <2>3. i' - 1 = 0 /\ bufferlen' = 1 + ends[0]
        BY <1>1, <2>2
    <2> QED BY <2>1, <2>2, <2>3 DEF Measuring
<1> QED BY <1>1, <1>3, <1>4 DEF ListInv, Connecting, Copying, OnTheWalk, Walking,
                                VisitsEveryDatabase

LEMMA MeasureInv == ListInv /\ Measure => ListInv'
<1> SUFFICES ASSUME ListInv, Measure PROVE ListInv'
    OBVIOUS
<1>1. /\ pc = "measure" /\ i \in 1 .. Len(rows) /\ i' = i + 1
      /\ bufferlen' = bufferlen + strlen(Name(rows[i])) + 1
      /\ UNCHANGED <<pc, requestVars, rows, databases, c, db, connVars, visited>>
    BY DEF Measure, ListInv, StateOK, TypeOK
<1> USE DEF requestVars, connVars
<1>2. /\ rows \in Seq(Databases) /\ Len(rows) \in Nat
      /\ rows[i] \in Databases /\ strlen(Name(rows[i])) = Length[rows[i]]
      /\ Length[rows[i]] \in Nat \ {0}
    <2>1. rows \in Seq(Databases) /\ Len(rows) \in Nat /\ rows[i] \in Databases
        BY <1>1, LenProperties DEF ListInv, StateOK
    <2>2. Name(rows[i]) \in Names
        BY <2>1 DEF Names
    <2> QED BY <2>1, <2>2, TextsOfRequest, NamesAssumption DEF strlen
<1>3. PICK ends \in [0 .. i - 1 -> Nat] : Layout(rows, i - 1, ends) /\ bufferlen = 1 + ends[i - 1]
    BY <1>1 DEF ListInv, Measuring
<1> DEFINE m == i - 1
           new == Extend(rows, m, ends)
<1>4. m \in Nat /\ m < Len(rows) /\ m + 1 = i /\ Layout(rows, m, ends)
    BY <1>1, <1>3
<1>5. Layout(rows, m + 1, new) /\ new[m + 1] = ends[m] + Length[rows[m + 1]] + 1
    <2>1. rows \in Seq(Databases)
        BY <1>2
    <2> HIDE DEF m
    <2> QED BY <2>1, <1>4, LayoutExtends
<1>6. Layout(rows, i, new) /\ new[i] = ends[i - 1] + Length[rows[i]] + 1
    BY <1>4, <1>5
<1> HIDE DEF m, new
<1>7. new \in [0 .. i -> Nat] /\ ends[i - 1] \in Nat
    BY <1>1, <1>3, <1>6 DEF Layout
<1>8. Measuring'
    <2>1. i' - 1 = i /\ rows' = rows
        BY <1>1
    <2>2. bufferlen' = 1 + new[i]
        <3>1. bufferlen' = (1 + ends[i - 1]) + Length[rows[i]] + 1
            BY <1>1, <1>2, <1>3
        <3> QED BY <3>1, <1>2, <1>6, <1>7
    <2>3. /\ new \in [0 .. i' - 1 -> Nat] /\ Layout(rows', i' - 1, new)
          /\ bufferlen' = 1 + new[i' - 1]
        BY <1>6, <1>7, <2>1, <2>2
    <2> QED BY <2>3 DEF Measuring
<1>9. StateOK'
    <2>1. bufferlen' \in Nat /\ i' \in 1 .. Len(rows) + 1
        BY <1>1, <1>2 DEF ListInv, StateOK, TypeOK
    <2> QED BY <1>1, <2>1 DEF ListInv, StateOK, TypeOK, Block
<1> QED BY <1>1, <1>8, <1>9 DEF ListInv, Connecting, Copying, OnTheWalk, Walking,
                                VisitsEveryDatabase

LEMMA AllocateListInv == ListInv /\ AllocateList => ListInv'
<1> SUFFICES ASSUME ListInv, AllocateList PROVE ListInv'
    OBVIOUS
<1>1. /\ pc = "measure" /\ pc' = "copy" /\ i = Len(rows) + 1
      /\ databases' = Allocate(bufferlen) /\ bufferlen \in Nat
      /\ c' = 0 /\ i' = 1
      /\ UNCHANGED <<requestVars, rows, bufferlen, db, connVars, visited>>
    BY DEF AllocateList, ListInv, StateOK, TypeOK
<1> USE DEF requestVars, connVars
<1>2. Len(rows) \in Nat /\ rows \in Seq(Databases)
    BY LenProperties DEF ListInv, StateOK
<1>3. /\ Block(databases') /\ databases'.size = bufferlen
      /\ \A q \in 0 .. bufferlen - 1 : databases'.cells[q] = NUL
    BY <1>1, AllocatedBlock
<1>4. PICK ends \in [0 .. i - 1 -> Nat] : Layout(rows, i - 1, ends) /\ bufferlen = 1 + ends[i - 1]
    BY <1>1 DEF ListInv, Measuring
<1>5. i - 1 = Len(rows)
    BY <1>1, <1>2
<1>6. Copying'
    <2>1. /\ Layout(rows, Len(rows), ends) /\ bufferlen = 1 + ends[Len(rows)]
          /\ ends \in [0 .. Len(rows) -> Nat]
        BY <1>4, <1>5
    <2>2. ends[0] = 0
        BY <2>1 DEF Layout
    <2>3. Copied(databases', rows, 0, ends)
        BY <1>3, <2>2 DEF Copied
    <2>4. i' - 1 = 0 /\ c' = ends[0]
        BY <1>1, <2>2
    <2> QED BY <1>1, <1>3, <2>1, <2>3, <2>4 DEF Copying
<1>7. StateOK'
    BY <1>1, <1>2, <1>3 DEF ListInv, StateOK, TypeOK, Block
<1> QED BY <1>1, <1>6, <1>7 DEF ListInv, Connecting, Measuring, OnTheWalk, Walking,
                                VisitsEveryDatabase
LEMMA CopyInv == ListInv /\ Copy => ListInv'
<1> SUFFICES ASSUME ListInv, Copy PROVE ListInv'
    OBVIOUS
<1> DEFINE new == strcat2([block |-> databases, ptr |-> c], Name(rows[i]))
<1>1. /\ pc = "copy" /\ i \in 1 .. Len(rows) /\ i' = i + 1
      /\ databases' = new.block /\ c' = new.ptr + 1
      /\ UNCHANGED <<pc, requestVars, rows, bufferlen, db, connVars, visited>>
    BY DEF Copy, BehindTerminator, ListInv, StateOK, TypeOK
<1> USE DEF requestVars, connVars
<1>2. /\ rows \in Seq(Databases) /\ Len(rows) \in Nat /\ Block(databases)
    BY LenProperties DEF ListInv, StateOK
<1>3. PICK ends \in [0 .. Len(rows) -> Nat] :
          /\ Layout(rows, Len(rows), ends)
          /\ bufferlen = 1 + ends[Len(rows)] /\ databases.size = bufferlen
          /\ c = ends[i - 1]
          /\ Copied(databases, rows, i - 1, ends)
    BY <1>1 DEF ListInv, Copying
<1> DEFINE m == i - 1
<1>4. /\ m \in 0 .. Len(rows) - 1 /\ m + 1 = i /\ Copied(databases, rows, m, ends)
      /\ databases.size = 1 + ends[Len(rows)]
    BY <1>1, <1>2, <1>3
<1>5. new = strcat2([block |-> databases, ptr |-> ends[m]], Name(rows[m + 1]))
    BY <1>3, <1>4
<1> HIDE DEF m, new
<1>6. /\ Block(new.block) /\ new.block.size = databases.size
      /\ Copied(new.block, rows, m + 1, ends)
      /\ new.ptr + 1 = ends[m + 1]
    <2> DEFINE n == Len(rows)
    <2>1. /\ n \in Nat /\ n = Len(rows) /\ m \in 0 .. n - 1
          /\ Layout(rows, n, ends) /\ databases.size = 1 + ends[n]
        BY <1>2, <1>3, <1>4
    <2> HIDE DEF n
    <2> QED BY <1>2, <1>4, <1>5, <2>1, CopiedExtends
<1>7. i' - 1 = m + 1 /\ c' = ends[m + 1] /\ ends[m + 1] \in Nat
    BY <1>1, <1>2, <1>3, <1>4, <1>6
<1>8. Copying'
    BY <1>1, <1>3, <1>6, <1>7 DEF Copying
<1>9. StateOK'
    BY <1>1, <1>2, <1>6, <1>7 DEF ListInv, StateOK, TypeOK, Block
<1> QED BY <1>1, <1>8, <1>9 DEF ListInv, Connecting, Measuring, OnTheWalk, Walking,
                                VisitsEveryDatabase

LEMMA ReturnInv == ListInv /\ Return => ListInv'
<1> SUFFICES ASSUME ListInv, Return PROVE ListInv'
    OBVIOUS
<1>1. /\ pc = "copy" /\ pc' = "walk" /\ i = Len(rows) + 1 /\ db' = 0 /\ visited = <<>>
      /\ rows # <<>>
      /\ UNCHANGED <<requestVars, listVars, connVars, visited>>
    BY DEF Return, ListInv, StateOK, TypeOK
<1> USE DEF requestVars, connVars, listVars
<1>2. /\ rows \in Seq(Databases) /\ Len(rows) \in Nat
    BY LenProperties DEF ListInv, StateOK
<1>3. PICK ends \in [0 .. Len(rows) -> Nat] :
          /\ Layout(rows, Len(rows), ends)
          /\ bufferlen = 1 + ends[Len(rows)] /\ databases.size = bufferlen
          /\ Copied(databases, rows, i - 1, ends)
    BY <1>1 DEF ListInv, Copying
<1>4. i - 1 = Len(rows)
    BY <1>1, <1>2
<1>5. Listed(databases, rows, ends) /\ ends[0] = 0
    BY <1>3, <1>4 DEF Listed, Layout
<1>6. Len(visited) = 0 /\ Position' = 0
    BY <1>1 DEF Position
<1>7. OnTheWalk'
    BY <1>1, <1>2, <1>5, <1>6 DEF OnTheWalk
<1>8. StateOK'
    BY <1>1 DEF ListInv, StateOK, TypeOK, Block
<1>9. VisitsEveryDatabase'
    BY <1>1, <1>2, <1>6 DEF VisitsEveryDatabase
<1> QED BY <1>1, <1>7, <1>8, <1>9 DEF ListInv, Connecting, Measuring, Copying

\* At the head of the loop, as many names have been visited as the pointer has passed.
LEMMA AtHead ==
    ASSUME ListInv, pc = "walk"
    PROVE  /\ rows \in Seq(Databases) /\ Len(rows) \in Nat /\ Len(visited) \in 0 .. Len(rows)
           /\ Block(databases)
           /\ \E ends \in [0 .. Len(rows) -> Nat] :
                 Listed(databases, rows, ends) /\ db = ends[Len(visited)]
           /\ Len(visited) = Len(rows) <=> databases.cells[db] = NUL
           /\ databases.cells[db] # NUL =>
                 StringAt(databases, db) = Name(rows[Len(visited) + 1])
<1>1. /\ rows \in Seq(Databases) /\ Len(rows) \in Nat /\ Block(databases)
    BY LenProperties DEF ListInv, StateOK
<1>2. Len(visited) \in 0 .. Len(rows) /\ \E ends \in [0 .. Len(rows) -> Nat] :
          Listed(databases, rows, ends) /\ db = ends[Len(visited)]
    BY DEF ListInv, OnTheWalk, Walking, Position
<1>3. PICK ends \in [0 .. Len(rows) -> Nat] :
          Listed(databases, rows, ends) /\ db = ends[Len(visited)]
    BY <1>2
<1> DEFINE m == Len(visited)
           n == Len(rows)
<1>4. n \in Nat /\ n = Len(rows) /\ m \in 0 .. n
    BY <1>1, <1>2
<1> HIDE DEF m, n
<1>5. /\ m = n => databases.cells[ends[m]] = NUL
      /\ m < n => /\ databases.cells[ends[m]] # NUL
                  /\ StringAt(databases, ends[m]) = Name(rows[m + 1])
    <2>1. rows \in Seq(Databases) /\ Block(databases) /\ Listed(databases, rows, ends)
        BY <1>1, <1>3
    <2> QED BY <2>1, <1>4, NameAt
<1>6. /\ m = n <=> databases.cells[db] = NUL
      /\ databases.cells[db] # NUL => StringAt(databases, db) = Name(rows[m + 1])
    BY <1>3, <1>4, <1>5 DEF m
<1> QED BY <1>1, <1>2, <1>6 DEF m, n

LEMMA VisitInv == ListInv /\ Visit => ListInv'
<1> SUFFICES ASSUME ListInv, Visit PROVE ListInv'
    OBVIOUS
<1> DEFINE next == rows[Len(visited) + 1]
<1>1. /\ pc = "walk" /\ databases.cells[db] # NUL
      /\ build_connstring(StringAt(databases, db), "query")
      /\ visited' = Append(visited, StringAt(databases, db))
      /\ UNCHANGED <<requestVars, listVars, db>>
    BY DEF Visit
<1> USE DEF requestVars, listVars
<1>2. /\ rows \in Seq(Databases) /\ Len(rows) \in 0 .. MaxRows /\ MaxRows \in Nat
      /\ Len(visited) \in 0 .. Len(rows) - 1
      /\ next \in Databases /\ StringAt(databases, db) = Name(next)
      /\ rows # <<>>
    <2>1. /\ rows \in Seq(Databases) /\ Len(rows) \in Nat /\ Len(visited) \in 0 .. Len(rows)
          /\ Len(visited) # Len(rows) /\ StringAt(databases, db) = Name(next)
        BY <1>1, AtHead
    <2>2. Len(rows) \in 0 .. MaxRows /\ MaxRows \in Nat
        BY RowsAreLists, BoundsAssumption DEF ListInv, StateOK, TypeOK
    <2>3. Len(visited) \in 0 .. Len(rows) - 1 /\ Len(visited) + 1 \in 1 .. Len(rows)
        BY <2>1
    <2>4. next \in Databases
        BY <2>1, <2>3, LenProperties
    <2> QED BY <2>1, <2>2, <2>3, <2>4
<1>3. Name(next) \in Names
    BY <1>2 DEF Names
<1>4. /\ visited \in Seq(Names)
      /\ visited' = Append(visited, Name(next))
      /\ visited' \in Seq(Names) /\ Len(visited') = Len(visited) + 1
      /\ \A k \in 1 .. Len(visited) : visited'[k] = visited[k]
      /\ visited'[Len(visited) + 1] = Name(next)
    <2>1. visited \in Seq(Names) /\ visited' = Append(visited, Name(next))
        BY <1>1, <1>2 DEF ListInv, StateOK
    <2> QED BY <1>3, <2>1, AppendProperties
<1>5. /\ pc' = "connstring" /\ after' = "query" /\ name' = Name(next)
      /\ end' = 0 /\ piece' = 1
    BY <1>1, <1>2 DEF build_connstring
<1>6. Block(conninfo)' /\ Connecting'
    <2>1. /\ Name(next) \in Names \union {NULL, <<>>} /\ connstring \in Options
          /\ build_connstring(Name(next), "query") /\ connstring' = connstring
        BY <1>1, <1>2, <1>3 DEF ListInv, StateOK, TypeOK
    <2> HIDE DEF next
    <2> QED BY <2>1, ConnectingStarts
<1> HIDE DEF next
<1>7. PICK ends \in [0 .. Len(rows) -> Nat] :
          Listed(databases, rows, ends) /\ db = ends[Len(visited)]
    BY <1>1, AtHead
<1>8. Position' = Len(visited)
    BY <1>2, <1>4, <1>5 DEF Position
<1>9. OnTheWalk'
    <2>1. Len(visited) \in 0 .. Len(rows)
        BY <1>2
    <2> QED BY <1>1, <1>2, <1>4, <1>5, <1>7, <1>8, <2>1 DEF OnTheWalk
<1>10. StateOK'
    BY <1>1, <1>2, <1>3, <1>4, <1>5, <1>6 DEF ListInv, StateOK, TypeOK, Block
<1>11. VisitsEveryDatabase'
    <2>1. \A k \in DOMAIN visited : visited[k] = Name(rows[k])
        BY <1>1 DEF ListInv, VisitsEveryDatabase, Walking
    <2>2. ASSUME NEW k \in DOMAIN visited' PROVE visited'[k] = Name(rows[k])
        <3>1. k \in 1 .. Len(visited) + 1 /\ (k \in 1 .. Len(visited) \/ k = Len(visited) + 1)
            BY <1>2, <1>4, LenProperties
        <3>2. DOMAIN visited = 1 .. Len(visited)
            BY <1>4, LenProperties
        <3> QED BY <1>4, <2>1, <3>1, <3>2 DEF next
    <2>3. Len(visited') <= Len(rows)
        BY <1>2, <1>4
    <2> QED BY <1>1, <1>5, <2>2, <2>3 DEF VisitsEveryDatabase
<1> QED BY <1>5, <1>6, <1>9, <1>10, <1>11 DEF ListInv, Measuring, Copying
LEMMA AdvanceInv == ListInv /\ Advance => ListInv'
<1> SUFFICES ASSUME ListInv, Advance PROVE ListInv'
    OBVIOUS
<1>1. /\ pc = "query" /\ pc' = "walk" /\ db' = NextName(databases, db)
      /\ UNCHANGED <<requestVars, listVars, connVars, visited>>
    BY DEF Advance
<1> USE DEF requestVars, listVars, connVars
<1> DEFINE m == Len(visited) - 1
           n == Len(rows)
<1>2. /\ rows \in Seq(Databases) /\ n \in Nat /\ Block(databases) /\ Len(visited) \in Nat
      /\ rows # <<>> /\ n = Len(rows)
    BY <1>1, LenProperties DEF ListInv, StateOK, OnTheWalk, Walking
<1>3. m \in 0 .. n /\ \E ends \in [0 .. n -> Nat] :
          Listed(databases, rows, ends) /\ db = ends[m]
    BY <1>1 DEF ListInv, OnTheWalk, Walking, Position
<1>4. PICK ends \in [0 .. n -> Nat] : Listed(databases, rows, ends) /\ db = ends[m]
    BY <1>3
<1>5. Len(visited) <= n /\ \A k \in DOMAIN visited : visited[k] = Name(rows[k])
    BY <1>1 DEF ListInv, VisitsEveryDatabase, Walking
<1>6. m + 1 = Len(visited) /\ m < n /\ Len(visited) \in 0 .. n
    BY <1>2, <1>3, <1>5
<1> HIDE DEF m, n
<1>7. NextName(databases, ends[m]) = ends[m + 1]
    BY <1>2, <1>3, <1>4, <1>6, NameAt
<1>8. db' = ends[Len(visited)] /\ ends[Len(visited)] \in Nat
    BY <1>1, <1>4, <1>6, <1>7
<1>9. Position' = Len(visited)
    BY <1>1 DEF Position
<1>10. OnTheWalk'
    BY <1>1, <1>2, <1>4, <1>6, <1>8, <1>9 DEF OnTheWalk, n
<1>11. StateOK'
    BY <1>1, <1>8 DEF ListInv, StateOK, TypeOK, Block
<1>12. VisitsEveryDatabase'
    BY <1>1, <1>5 DEF VisitsEveryDatabase, n
<1> QED BY <1>1, <1>10, <1>11, <1>12 DEF ListInv, Connecting, Measuring, Copying

LEMMA VisitFailsInv == ListInv /\ VisitFails => ListInv'
<1> SUFFICES ASSUME ListInv, VisitFails PROVE ListInv'
    OBVIOUS
<1>1. /\ pc = "query" /\ pc' = "failed"
      /\ UNCHANGED <<requestVars, listVars, db, connVars, visited>>
    BY DEF VisitFails
<1> USE DEF requestVars, listVars, connVars
<1>2. StateOK'
    BY <1>1 DEF ListInv, StateOK, TypeOK, Block
<1> QED BY <1>1, <1>2 DEF ListInv, Connecting, Measuring, Copying, OnTheWalk, Walking,
                           VisitsEveryDatabase

LEMMA FinishInv == ListInv /\ Finish => ListInv'
<1> SUFFICES ASSUME ListInv, Finish PROVE ListInv'
    OBVIOUS
<1>1. /\ pc = "walk" /\ pc' = "complete" /\ databases.cells[db] = NUL
      /\ UNCHANGED <<requestVars, listVars, db, connVars, visited>>
    BY DEF Finish
<1> USE DEF requestVars, listVars, connVars
<1>2. Len(visited) = Len(rows)
    BY <1>1, AtHead
<1>3. StateOK'
    BY <1>1 DEF ListInv, StateOK, TypeOK, Block
<1>4. VisitsEveryDatabase'
    BY <1>1, <1>2 DEF ListInv, VisitsEveryDatabase, Walking
<1> QED BY <1>1, <1>3, <1>4 DEF ListInv, Connecting, Measuring, Copying, OnTheWalk, Walking

LEMMA AgainInv == ListInv /\ Again => ListInv'
<1> SUFFICES ASSUME ListInv, Again PROVE ListInv'
    OBVIOUS
<1>1. /\ pc \in {"complete", "failed"} /\ pc' = "begin"
      /\ UNCHANGED <<requestVars, listVars, db, connVars, visited>>
    BY DEF Again
<1> USE DEF requestVars, listVars, connVars
<1>2. StateOK'
    BY <1>1 DEF ListInv, StateOK, TypeOK, Block
<1> QED BY <1>1, <1>2 DEF ListInv, Connecting, Measuring, Copying, OnTheWalk, Walking,
                           VisitsEveryDatabase

LEMMA StutterInv == ListInv /\ UNCHANGED vars => ListInv'
BY DEF vars, requestVars, listVars, connVars, ListInv, StateOK, TypeOK, Block, Connecting,
       Measuring, Copying, OnTheWalk, Walking, Position, VisitsEveryDatabase

-----------------------------------------------------------------------------
(***************************************************************************)
(* What holds in every state.                                              *)
(***************************************************************************)

\* The invariant: the list is laid out name by name in a block that is exactly large
\* enough, and so is the connection string.
THEOREM InductiveInvariant == Spec => []ListInv
<1>1. ListInv /\ [Next]_vars => ListInv'
    BY AppendPieceInv, ConnectInv, BeginInv, NoListInv, ListRowsInv, MeasureInv,
       AllocateListInv, CopyInv, ReturnInv, VisitInv, AdvanceInv, VisitFailsInv, FinishInv,
       AgainInv, StutterInv DEF Next, Run
<1> QED BY InitInv, <1>1, PTL DEF Spec

\* Neither routine reads or writes outside the block it was given, however long the names
\* and however many the rows.
THEOREM StaysInBlockAlways == Spec => []StaysInBlock
<1>1. ListInv => StaysInBlock
    <2> SUFFICES ASSUME ListInv PROVE StaysInBlock
        OBVIOUS
    <2>1. TypeOK /\ Block(databases) /\ Block(conninfo)
        BY DEF ListInv, StateOK
    <2>2. Untouched(databases) /\ Untouched(conninfo)
        <3>1. ASSUME NEW block, Block(block) PROVE Untouched(block)
            <4>1. /\ DOMAIN block.cells = 0 .. block.size + Slack - 1
                  /\ \A q \in block.size .. block.size + Slack - 1 : block.cells[q] = Foreign
                  /\ block.size \in Nat
                BY <3>1 DEF Block
            <4>2. \A q \in 0 .. block.size + Slack - 1 :
                      q >= block.size => q \in block.size .. block.size + Slack - 1
                BY <4>1, SlackAssumption
            <4> QED BY <4>1, <4>2 DEF Untouched
        <3> QED BY <2>1, <3>1
    <2>3. ASSUME pc = "copy" PROVE c < bufferlen
        <3>1. PICK ends \in [0 .. Len(rows) -> Nat] :
                  /\ Layout(rows, Len(rows), ends)
                  /\ bufferlen = 1 + ends[Len(rows)]
                  /\ c = ends[i - 1]
            BY <2>3 DEF ListInv, Copying
        <3>2. /\ rows \in Seq(Databases) /\ Len(rows) \in Nat /\ i - 1 \in 0 .. Len(rows)
            BY LenProperties DEF ListInv, StateOK, TypeOK
        <3>3. Placed(rows, Len(rows), ends)
            BY <3>1, <3>2, Offsets
        <3>4. ends[i - 1] \in Nat /\ ends[Len(rows)] \in Nat /\ ends[i - 1] <= ends[Len(rows)]
            BY <3>2, <3>3 DEF Placed
        <3> QED BY <3>1, <3>4
    <2>4. ASSUME Walking PROVE Terminator(databases, db) < databases.size
        <3>1. /\ rows \in Seq(Databases) /\ Len(rows) \in Nat /\ Block(databases)
            BY LenProperties DEF ListInv, StateOK
        <3>2. Position \in 0 .. Len(rows) /\ \E ends \in [0 .. Len(rows) -> Nat] :
                  Listed(databases, rows, ends) /\ db = ends[Position]
            BY <2>4 DEF ListInv, OnTheWalk
        <3>3. PICK ends \in [0 .. Len(rows) -> Nat] :
                  Listed(databases, rows, ends) /\ db = ends[Position]
            BY <3>2
        <3>4. Terminator(databases, ends[Position]) < databases.size
            BY <3>1, <3>2, <3>3, NameAt
        <3> QED BY <3>3, <3>4
    <2>5. ASSUME pc = "connstring" PROVE end < conninfo.size
        BY <2>5 DEF ListInv, Connecting, Reads
    <2>6. ASSUME pc \in {"list", "query"} PROVE Terminator(conninfo, 0) < conninfo.size
        <3>1. Reads(conninfo, Wanted(connstring, name))
            BY <2>6 DEF ListInv, Connecting
        <3> QED BY <3>1, ReadsString DEF Reads
    <2> QED BY <2>1, <2>2, <2>3, <2>4, <2>5, <2>6 DEF StaysInBlock
<1> QED BY <1>1, InductiveInvariant, PTL

\* libpq is given the user's options, a blank and the database, whichever are missing.
THEOREM ConnectsAsMeantAlways == Spec => []ConnectsAsMeant
<1>1. ListInv => ConnectsAsMeant
    <2> SUFFICES ASSUME ListInv, pc \in {"list", "query"}
                 PROVE  StringAt(conninfo, 0) = Wanted(connstring, name)
        BY DEF ConnectsAsMeant
    <2>1. Reads(conninfo, Wanted(connstring, name))
        BY DEF ListInv, Connecting
    <2> QED BY <2>1, ReadsString
<1> QED BY <1>1, InductiveInvariant, PTL

\* The walk visits the databases of the answer in their order, and completes after the last.
THEOREM VisitsEveryDatabaseAlways == Spec => []VisitsEveryDatabase
<1>1. ListInv => VisitsEveryDatabase
    BY DEF ListInv
<1> QED BY <1>1, InductiveInvariant, PTL
-----------------------------------------------------------------------------
(***************************************************************************)
(* The walk over the block is a walk over a set of databases.              *)
(***************************************************************************)

\* A name starts where the walk can come to, and nowhere else.
LEMMA NamesInBlock ==
    ASSUME NEW list \in Seq(Databases), NEW n \in Nat, n = Len(list),
           Block(databases), NEW ends, Listed(databases, list, ends),
           NEW p \in 0 .. databases.size - 1, NEW d \in Databases
    PROVE  Holds(p, d) <=> \E m \in 0 .. n - 1 : p = ends[m] /\ d = list[m + 1]
<1>1. Layout(list, n, ends) /\ Copied(databases, list, n, ends) /\ databases.size = 1 + ends[n]
    BY DEF Listed
<1>2. Placed(list, n, ends)
    BY <1>1, Offsets
<1>3. p \in Nat /\ n \in 0 .. n /\ ends[n] \in Nat /\ p <= ends[n]
    BY <1>1, <1>2 DEF Placed
<1>4. ASSUME NEW m \in 0 .. n - 1, p = ends[m], d = list[m + 1]
      PROVE  Holds(p, d)
    <2>1. m \in 0 .. n /\ m < n
        OBVIOUS
    <2>2. StringAt(databases, p) = Name(d)
        BY <1>4, <2>1, NameAt
    <2>3. p = 0 \/ databases.cells[p - 1] = NUL
        <3>1. CASE m = 0
            BY <3>1, <1>1, <1>4 DEF Layout
        <3>2. CASE m # 0
            <4>1. m \in 1 .. n
                BY <3>2
            <4> QED BY <4>1, <1>1, <1>4 DEF Copied
        <3> QED BY <3>1, <3>2
    <2> QED BY <2>2, <2>3 DEF Holds
<1>5. ASSUME Holds(p, d)
      PROVE  \E m \in 0 .. n - 1 : p = ends[m] /\ d = list[m + 1]
    <2>1. /\ Name(d) # <<>> /\ StringAt(databases, p) = Name(d)
          /\ p = 0 \/ databases.cells[p - 1] = NUL
        <3>1. Name(d) \in Names
            BY DEF Names
        <3> QED BY <1>5, <3>1, TextsOfRequest DEF Holds
    <2>2. p # ends[n]
        <3> SUFFICES ASSUME p = ends[n] PROVE FALSE
            OBVIOUS
        <3>1. databases.cells[p] = NUL
            <4>1. p \in ends[n] .. databases.size - 1
                BY <1>1, <1>3
            <4> QED BY <4>1, <1>1 DEF Copied
        <3>2. Terminator(databases, p) = p
            BY <3>1, EmptyAtTerminator
        <3>3. StringAt(databases, p) = <<>>
            BY <1>3, <3>2 DEF StringAt
        <3> QED BY <2>1, <3>3
    <2>3. p \in 0 .. ends[n] - 1
        BY <1>3, <2>2
    <2>4. PICK k \in 1 .. n : p \in ends[k - 1] .. ends[k] - 1
        BY <1>1, <2>3 DEF Layout
    <2>5. /\ k - 1 \in 0 .. n - 1 /\ k - 1 \in 0 .. n /\ (k - 1) + 1 = k
          /\ list[k] \in Databases /\ Length[list[k]] \in Nat \ {0} /\ ends[k - 1] \in Nat
          /\ ends[k] = ends[k - 1] + Length[list[k]] + 1
        <3>1. k - 1 \in 0 .. n - 1 /\ k - 1 \in 0 .. n /\ (k - 1) + 1 = k
            OBVIOUS
        <3>2. /\ list[(k - 1) + 1] \in Databases
              /\ Length[list[(k - 1) + 1]] \in Nat \ {0} /\ ends[k - 1] \in Nat
              /\ ends[(k - 1) + 1] = ends[k - 1] + Length[list[(k - 1) + 1]] + 1
            BY <1>2, <3>1 DEF Placed
        <3> QED BY <3>1, <3>2
    <2>6. p = ends[k - 1]
        <3> SUFFICES ASSUME p # ends[k - 1] PROVE FALSE
            OBVIOUS
        <3> DEFINE x == p - ends[k - 1]
        <3>1. x \in 1 .. Length[list[k]] /\ ends[k - 1] + x - 1 = p - 1 /\ p # 0
            <4>1. \A o, l \in Nat : \A t \in o .. (o + l + 1) - 1 :
                      t # o => t - o \in 1 .. l /\ o + (t - o) - 1 = t - 1 /\ t # 0
                OBVIOUS
            <4>2. p \in ends[k - 1] .. (ends[k - 1] + Length[list[k]] + 1) - 1
                BY <2>4, <2>5
            <4>3. ends[k - 1] \in Nat /\ Length[list[k]] \in Nat
                BY <2>5
            <4> QED BY <4>1, <4>2, <4>3
        <3>2. databases.cells[ends[k - 1] + x - 1] = list[k]
            BY <1>1, <3>1 DEF Copied
        <3>3. databases.cells[p - 1] = list[k]
            BY <3>1, <3>2
        <3> QED BY <2>1, <2>5, <3>1, <3>3, CharactersAssumption
    <2>7. StringAt(databases, p) = Name(list[k])
        <3>1. k - 1 < n
            BY <2>5
        <3>2. StringAt(databases, ends[k - 1]) = Name(list[(k - 1) + 1])
            BY <2>5, <3>1, NameAt
        <3> QED BY <2>5, <2>6, <3>2
    <2>8. d = list[k]
        <3>1. \A e \in Databases : Name(e)[1] = e
            BY NamesAssumption DEF Name, Word
        <3> QED BY <2>1, <2>5, <2>7, <3>1
    <2> QED BY <2>5, <2>6, <2>8
<1> QED BY <1>4, <1>5
\* The databases the walk has not visited.
Remaining == {rows[k] : k \in Len(visited) + 1 .. Len(rows)}

\* What a state is to the walk.
AsWalk ==
    /\ Walking => PhaseOf = "walking" /\ TodoOf = Remaining /\ Remaining \subseteq Databases
    /\ pc = "walk" => CurrentOf = NoDb
    /\ Walking /\ pc # "walk" => CurrentOf = rows[Len(visited)] /\ CurrentOf \in Databases
    /\ ~Walking => /\ TodoOf = {} /\ CurrentOf = NoDb
                   /\ PhaseOf = IF pc \in {"complete", "failed"} THEN pc ELSE "listing"

LEMMA BlockIsSet == ListInv => AsWalk
<1> SUFFICES ASSUME ListInv PROVE AsWalk
    OBVIOUS
<1>1. CASE ~Walking
    <2>1. pc # "walk"
        BY <1>1 DEF Walking
    <2> QED BY <1>1, <2>1 DEF AsWalk, TodoOf, CurrentOf, PhaseOf
<1>2. CASE Walking
    <2> DEFINE n == Len(rows)
               m == Position
               later == {rows[k] : k \in m + 1 .. n}
    <2>1. /\ rows \in Seq(Databases) /\ n \in Nat /\ n = Len(rows) /\ Block(databases)
          /\ Len(visited) \in Nat
        BY LenProperties DEF ListInv, StateOK
    <2>2. /\ m \in 0 .. n
          /\ m = IF pc = "walk" THEN Len(visited) ELSE Len(visited) - 1
        BY <1>2 DEF ListInv, OnTheWalk, Position
    <2>3. PICK ends \in [0 .. n -> Nat] : Listed(databases, rows, ends) /\ db = ends[m]
        BY <1>2 DEF ListInv, OnTheWalk
    <2>4. /\ Len(visited) <= n
          /\ \A j, k \in 1 .. n : rows[j] = rows[k] => j = k
          /\ \A k \in 1 .. n : rows[k] \in Databases
        <3>1. Len(visited) <= n
            BY <1>2 DEF ListInv, VisitsEveryDatabase
        <3>2. rows \in Rows
            BY DEF ListInv, StateOK, TypeOK
        <3>3. DOMAIN rows = 1 .. n
            BY <2>1, LenProperties
        <3> QED BY <2>1, <3>1, <3>2, <3>3, LenProperties DEF Rows
    <2> HIDE DEF n, m
    <2>5. Placed(rows, n, ends) /\ databases.size = 1 + ends[n]
        <3>1. Layout(rows, n, ends) /\ databases.size = 1 + ends[n]
            BY <2>1, <2>3 DEF Listed
        <3> QED BY <2>1, <3>1, Offsets
    <2>6. /\ \A k \in 0 .. n : ends[k] \in 0 .. databases.size - 1
          /\ \A k \in 0 .. n : ends[m] <= ends[k] <=> m <= k
        <3>1. \A k \in 0 .. n : ends[k] \in Nat /\ ends[k] <= ends[n]
            BY <2>5 DEF Placed
        <3>2. \A k \in 0 .. n : ends[k] \in 0 .. databases.size - 1
            <4> TAKE k \in 0 .. n
            <4>1. ends[k] \in Nat /\ ends[k] <= ends[n] /\ ends[n] \in Nat
                BY <2>1, <3>1
            <4> QED BY <2>5, <4>1
        <3>3. ASSUME NEW k \in 0 .. n PROVE ends[m] <= ends[k] <=> m <= k
            <4>1. /\ m < k => ends[m] < ends[k]
                  /\ k < m => ends[k] < ends[m]
                BY <2>2, <2>5 DEF Placed
            <4>2. /\ ends[m] \in Nat /\ ends[k] \in Nat
                  /\ m < k \/ k < m \/ m = k
                BY <2>1, <2>2, <3>1
            <4> QED BY <2>1, <2>2, <4>1, <4>2
        <3> QED BY <3>2, <3>3
    <2>7. \A p \in 0 .. databases.size - 1, d \in Databases :
              Holds(p, d) <=> \E k \in 0 .. n - 1 : p = ends[k] /\ d = rows[k + 1]
        <3> TAKE p \in 0 .. databases.size - 1, d \in Databases
        <3> QED BY <2>1, <2>3, NamesInBlock
    <2>8. db \in 0 .. databases.size - 1 /\ databases.size \in Nat
        BY <2>1, <2>2, <2>3, <2>6 DEF Block
    <2>9. InBlock = later
        <3>1. ASSUME NEW d \in InBlock PROVE d \in later
            <4>1. d \in Databases /\ \E p \in db .. databases.size - 1 : Holds(p, d)
                BY DEF InBlock
            <4>2. PICK p \in db .. databases.size - 1 : Holds(p, d)
                BY <4>1
            <4>3. p \in 0 .. databases.size - 1 /\ p >= db
                BY <2>8
            <4>4. PICK k \in 0 .. n - 1 : p = ends[k] /\ d = rows[k + 1]
                BY <2>7, <4>1, <4>2, <4>3
            <4>5. k \in 0 .. n /\ ends[m] <= ends[k]
                BY <2>1, <2>3, <4>3, <4>4
            <4>6. k + 1 \in m + 1 .. n
                BY <2>1, <2>2, <2>6, <4>5
            <4> QED BY <4>4, <4>6
        <3>2. ASSUME NEW d \in later PROVE d \in InBlock
            <4>1. PICK k \in m + 1 .. n : d = rows[k]
                OBVIOUS
            <4>2. /\ k - 1 \in 0 .. n - 1 /\ k - 1 \in 0 .. n /\ (k - 1) + 1 = k /\ m <= k - 1
                  /\ k \in 1 .. n
                BY <2>1, <2>2
            <4>3. ends[k - 1] \in db .. databases.size - 1 /\ ends[k - 1] \in 0 .. databases.size - 1
                BY <2>3, <2>6, <2>8, <4>2
            <4>4. d \in Databases
                BY <2>4, <4>1, <4>2
            <4>5. Holds(ends[k - 1], d)
                BY <2>7, <4>1, <4>2, <4>3, <4>4
            <4> QED BY <4>3, <4>4, <4>5 DEF InBlock
        <3> HIDE DEF later
        <3> QED BY <3>1, <3>2
    <2>10. CASE pc = "walk"
        <3>1. later = Remaining
            BY <2>2, <2>10 DEF Remaining, n
        <3>2. TodoOf = InBlock /\ CurrentOf = NoDb /\ PhaseOf = "walking"
            BY <1>2, <2>10 DEF TodoOf, CurrentOf, PhaseOf
        <3>3. Remaining \subseteq Databases
            BY <2>1, <2>4, <2>10 DEF Remaining, n
        <3> HIDE DEF later
        <3> QED BY <1>2, <2>9, <2>10, <3>1, <3>2, <3>3 DEF AsWalk
    <2>11. CASE pc # "walk"
        <3>1. m + 1 = Len(visited) /\ m < n /\ m \in 0 .. n - 1
            BY <2>1, <2>2, <2>4, <2>11
        <3>2. AtDb = {rows[m + 1]}
            <4>1. rows[m + 1] \in Databases
                BY <2>1, <2>4, <3>1
            <4>2. Holds(db, rows[m + 1])
                BY <2>3, <2>7, <2>8, <3>1, <4>1
            <4>3. ASSUME NEW d \in Databases, Holds(db, d) PROVE d = rows[m + 1]
                <5>1. PICK k \in 0 .. n - 1 : db = ends[k] /\ d = rows[k + 1]
                    BY <2>7, <2>8, <4>3
                <5>2. k \in 0 .. n /\ m \in 0 .. n /\ (k = m \/ k < m \/ m < k)
                    BY <2>1, <3>1
                <5>3. /\ k < m => ends[k] < ends[m]
                      /\ m < k => ends[m] < ends[k]
                      /\ ends[k] \in Nat
                    BY <2>5, <5>2 DEF Placed
                <5>4. ends[k] = ends[m]
                    BY <2>3, <5>1
                <5>5. k = m
                    BY <5>2, <5>3, <5>4
                <5> QED BY <5>1, <5>5
            <4> QED BY <4>1, <4>2, <4>3 DEF AtDb
        <3>3. CurrentOf = rows[m + 1]
            <4>1. AtDb # {} /\ (CHOOSE d \in AtDb : TRUE) = rows[m + 1]
                BY <3>2
            <4> QED BY <1>2, <2>11, <4>1 DEF CurrentOf
        <3>4. rows[m + 1] \in Databases
            BY <2>1, <2>4, <3>1
        <3>5. later \ {rows[m + 1]} = {rows[k] : k \in m + 2 .. n}
            <4>1. m + 1 \in 1 .. n
                BY <2>1, <3>1
            <4>2. \A k \in m + 1 .. n : k \in 1 .. n /\ (k = m + 1 \/ k \in m + 2 .. n)
                BY <2>1, <3>1
            <4>3. \A k \in m + 2 .. n : k \in m + 1 .. n /\ k # m + 1
                BY <2>1, <3>1
            <4> QED BY <2>4, <4>1, <4>2, <4>3
        <3>6. {rows[k] : k \in m + 2 .. n} = Remaining
            <4>1. m + 2 = Len(visited) + 1
                BY <2>1, <3>1
            <4> QED BY <4>1 DEF Remaining, n
        <3>7. TodoOf = InBlock \ AtDb /\ PhaseOf = "walking"
            <4>1. TodoOf = InBlock \ AtDb
                BY <1>2, <2>11 DEF TodoOf
            <4>2. PhaseOf = "walking"
                <5>1. pc \notin {"complete", "failed"}
                    BY <1>2 DEF Walking
                <5> QED BY <1>2, <5>1 DEF PhaseOf
            <4> QED BY <4>1, <4>2
        <3>8. Remaining \subseteq Databases
            <4>1. \A k \in m + 2 .. n : k \in 1 .. n
                BY <2>1, <3>1
            <4> QED BY <2>4, <3>6, <4>1
        <3> HIDE DEF later
        <3>9. TodoOf = Remaining
            BY <2>9, <3>2, <3>5, <3>6, <3>7
        <3> QED BY <1>2, <2>11, <3>1, <3>3, <3>4, <3>7, <3>8, <3>9 DEF AsWalk
    <2> QED BY <2>10, <2>11
<1> QED BY <1>1, <1>2
LEMMA BlockStaysSet == (ListInv => AsWalk)'
BY BlockIsSet, PTL

\* The walk's state, and what it becomes.
Now(phase, left, current) ==
    PhaseOf = phase /\ TodoOf = left /\ CurrentOf = current
Then(phase, left, current) ==
    PhaseOf' = phase /\ TodoOf' = left /\ CurrentOf' = current

\* The step of the walk that a step of the loops is.
WalkStep ==
    \/ Then(PhaseOf, TodoOf, CurrentOf)
    \/ /\ Now("listing", {}, NoDb)
       /\ \E list \in (SUBSET Databases) \ {{}} : Then("walking", list, NoDb)
    \/ /\ Now("walking", TodoOf, NoDb)
       /\ \E d \in TodoOf : Then("walking", TodoOf \ {d}, d)
    \/ \E d \in Databases : Now("walking", TodoOf, d) /\ Then("walking", TodoOf, NoDb)
    \/ Now("walking", {}, NoDb) /\ Then("complete", {}, NoDb)
    \/ PhaseOf \in {"listing", "walking"} /\ Then("failed", {}, NoDb)
    \/ /\ Now("complete", {}, NoDb) \/ Now("failed", {}, NoDb)
       /\ Then("listing", {}, NoDb)

LEMMA NextWalks ==
    ASSUME ListInv, Next, ListInv'
    PROVE  WalkStep
<1> USE DEF Now, Then, WalkStep, requestVars, listVars, connVars
<1>0. AsWalk /\ AsWalk'
    BY BlockIsSet, BlockStaysSet
<1>1. CASE AppendPiece
    BY <1>0, <1>1 DEF AppendPiece, AsWalk, Walking, Remaining
<1>2. CASE Connect
    <2>1. after \in {"list", "query"}
        BY DEF ListInv, StateOK, TypeOK
    <2> QED BY <1>0, <1>2, <2>1 DEF Connect, AsWalk, Walking, Remaining
<1>3. CASE Begin
    BY <1>0, <1>3 DEF Begin, build_connstring, AsWalk, Walking
<1>4. CASE NoList
    BY <1>0, <1>4 DEF NoList, AsWalk, Walking
<1>5. CASE ListRows \/ Measure \/ AllocateList \/ Copy
    BY <1>0, <1>5 DEF ListRows, Measure, AllocateList, Copy, AsWalk, Walking
<1>6. CASE Return
    <2>1. /\ visited = <<>> /\ rows # <<>> /\ rows \in Seq(Databases)
          /\ pc = "copy" /\ pc' = "walk" /\ UNCHANGED <<rows, visited>>
        BY <1>6 DEF Return, ListInv, StateOK
    <2>2. Len(visited) = 0 /\ Len(rows) \in Nat /\ Len(rows) # 0
        BY <2>1, LenProperties
    <2>3. rows[1] \in Remaining'
        BY <2>1, <2>2 DEF Remaining
    <2>4. Now("listing", {}, NoDb) /\ Then("walking", Remaining', NoDb)
          /\ Remaining' \in (SUBSET Databases) \ {{}}
        BY <1>0, <2>1, <2>3 DEF AsWalk, Walking
    <2> QED BY <2>4
<1>7. CASE Visit
    <2> DEFINE d == rows[Len(visited) + 1]
    <2>1. /\ pc = "walk" /\ pc' = "connstring" /\ after' = "query" /\ rows' = rows
          /\ visited' = Append(visited, StringAt(databases, db))
        BY <1>7 DEF Visit, build_connstring
    <2>2. Len(visited) \in Nat /\ Len(visited') = Len(visited) + 1 /\ Len(rows) \in Nat
        BY <2>1, LenProperties DEF ListInv, StateOK
    <2>3. Len(visited') <= Len(rows)
        BY <2>1 DEF ListInv, VisitsEveryDatabase, Walking
    <2>4. \A j, k \in 1 .. Len(rows) : rows[j] = rows[k] => j = k
        <3>1. rows \in Rows /\ DOMAIN rows = 1 .. Len(rows)
            BY LenProperties DEF ListInv, StateOK, TypeOK
        <3> QED BY <3>1 DEF Rows
    <2>5. d \in Remaining /\ Remaining' = Remaining \ {d}
        <3>1. Len(visited) + 1 \in Len(visited) + 1 .. Len(rows)
            BY <2>2, <2>3
        <3>2. \A k \in Len(visited) + 1 .. Len(rows) :
                  k \in 1 .. Len(rows) /\ (k = Len(visited) + 1 \/ k \in Len(visited) + 2 .. Len(rows))
            BY <2>2
        <3>3. \A k \in Len(visited) + 2 .. Len(rows) :
                  k \in Len(visited) + 1 .. Len(rows) /\ k # Len(visited) + 1
            BY <2>2
        <3>4. Remaining' = {rows[k] : k \in Len(visited) + 2 .. Len(rows)}
            <4>1. Len(visited') + 1 = Len(visited) + 2
                BY <2>2
            <4> QED BY <2>1, <4>1 DEF Remaining
        <3>5. Remaining' \subseteq Remaining \ {d}
            <4>1. ASSUME NEW k \in Len(visited) + 2 .. Len(rows)
                  PROVE  rows[k] \in Remaining \ {d}
                BY <2>4, <3>1, <3>2, <3>3 DEF Remaining
            <4> QED BY <3>4, <4>1
        <3>6. Remaining \ {d} \subseteq Remaining'
            BY <3>2, <3>4 DEF Remaining
        <3> QED BY <3>1, <3>5, <3>6 DEF Remaining
    <2>6. Now("walking", Remaining, NoDb)
        BY <1>0, <2>1 DEF AsWalk, Walking
    <2>7. Then("walking", Remaining', d)
        <3>1. rows'[Len(visited')] = d
            BY <2>1, <2>2
        <3> QED BY <1>0, <2>1, <3>1 DEF AsWalk, Walking
    <2> HIDE DEF d
    <2> QED BY <2>5, <2>6, <2>7
<1>8. CASE Advance
    BY <1>0, <1>8 DEF Advance, AsWalk, Walking, Remaining
<1>9. CASE VisitFails
    BY <1>0, <1>9 DEF VisitFails, AsWalk, Walking
<1>10. CASE Finish
    <2>1. Len(visited) = Len(rows) /\ Len(rows) \in Nat
        BY <1>10, AtHead DEF Finish
    <2>2. Remaining = {}
        BY <2>1 DEF Remaining
    <2> QED BY <1>0, <1>10, <2>2 DEF Finish, AsWalk, Walking
<1>11. CASE Again
    BY <1>0, <1>11 DEF Again, AsWalk, Walking
<1> QED BY <1>1, <1>2, <1>3, <1>4, <1>5, <1>6, <1>7, <1>8, <1>9, <1>10, <1>11 DEF Next, Run

\* A step of the handler is a step of the only walk there is.
LEMMA WalkLifts ==
    ASSUME WalkStep
    PROVE  Walk!Next \/ UNCHANGED Walk!walkVars
<1> DEFINE phase == [x \in {"handler"} |-> PhaseOf]
           todo == [x \in {"handler"} |-> TodoOf]
           current == [x \in {"handler"} |-> CurrentOf]
<1>1. ASSUME NEW p, NEW t, NEW e, Then(p, t, e)
      PROVE  /\ phase' = [phase EXCEPT !["handler"] = p]
             /\ todo' = [todo EXCEPT !["handler"] = t]
             /\ current' = [current EXCEPT !["handler"] = e]
             /\ p = PhaseOf => phase' = phase
             /\ t = TodoOf => todo' = todo
             /\ e = CurrentOf => current' = current
    BY <1>1 DEF Then
<1>2. /\ phase["handler"] = PhaseOf /\ todo["handler"] = TodoOf
      /\ current["handler"] = CurrentOf
    OBVIOUS
<1>3. CASE Then(PhaseOf, TodoOf, CurrentOf)
    BY <1>1, <1>3 DEF Walk!walkVars
<1>4. CASE /\ Now("listing", {}, NoDb)
           /\ \E list \in (SUBSET Databases) \ {{}} : Then("walking", list, NoDb)
    <2>1. Walk!List("handler")
        BY <1>1, <1>2, <1>4 DEF Walk!List, Now
    <2> QED BY <2>1 DEF Walk!Next
<1>5. CASE /\ Now("walking", TodoOf, NoDb)
           /\ \E d \in TodoOf : Then("walking", TodoOf \ {d}, d)
    <2>1. PICK d \in TodoOf : Then("walking", TodoOf \ {d}, d)
        BY <1>5
    <2>2. /\ phase' = phase /\ current' = [current EXCEPT !["handler"] = d]
          /\ todo' = [todo EXCEPT !["handler"] = TodoOf \ {d}]
        BY <1>1, <1>5, <2>1 DEF Now
    <2>3. Walk!Visit("handler")
        BY <1>2, <1>5, <2>1, <2>2 DEF Walk!Visit, Now
    <2> QED BY <2>3 DEF Walk!Next, Walk!Step
<1>6. CASE \E d \in Databases : Now("walking", TodoOf, d) /\ Then("walking", TodoOf, NoDb)
    <2>1. Walk!Leave("handler")
        BY <1>1, <1>2, <1>6, NoDbAssumption DEF Walk!Leave, Now
    <2> QED BY <2>1 DEF Walk!Next, Walk!Step
<1>7. CASE Now("walking", {}, NoDb) /\ Then("complete", {}, NoDb)
    <2>1. Walk!Complete("handler")
        BY <1>1, <1>2, <1>7 DEF Walk!Complete, Now
    <2> QED BY <2>1 DEF Walk!Next, Walk!Step
<1>8. CASE PhaseOf \in {"listing", "walking"} /\ Then("failed", {}, NoDb)
    <2>1. Walk!Fail("handler")
        BY <1>1, <1>2, <1>8 DEF Walk!Fail
    <2> QED BY <2>1 DEF Walk!Next
<1>9. CASE /\ Now("complete", {}, NoDb) \/ Now("failed", {}, NoDb)
           /\ Then("listing", {}, NoDb)
    <2>1. Walk!Again("handler")
        BY <1>1, <1>2, <1>9 DEF Walk!Again, Now
    <2> QED BY <2>1 DEF Walk!Next
<1> QED BY <1>3, <1>4, <1>5, <1>6, <1>7, <1>8, <1>9 DEF WalkStep

\* The block, read from the pointer on, is the set of databases the walk still has to
\* visit: the loops implement DatabaseWalk, but for the fairness of its specification.
THEOREM ImplementsDatabaseWalk == Spec => Walk!Spec
<1>1. Init => Walk!Init
    <2> SUFFICES ASSUME Init PROVE Walk!Init
        OBVIOUS
    <2>1. AsWalk /\ pc = "begin"
        BY InitInv, BlockIsSet DEF Init
    <2> QED BY <2>1 DEF AsWalk, Walking, Walk!Init
<1>2. ListInv /\ ListInv' /\ [Next]_vars => [Walk!Next]_Walk!walkVars
    <2> SUFFICES ASSUME ListInv, ListInv', [Next]_vars
                 PROVE  Walk!Next \/ UNCHANGED Walk!walkVars
        OBVIOUS
    <2>1. CASE Next
        BY <2>1, NextWalks, WalkLifts
    <2>2. CASE UNCHANGED vars
        BY <2>2 DEF vars, requestVars, listVars, connVars, Walk!walkVars, PhaseOf, TodoOf,
                    CurrentOf, Walking, InBlock, AtDb, Holds, StringAt, Terminator
    <2> QED BY <2>1, <2>2
<1> QED BY <1>1, <1>2, InductiveInvariant, PTL DEF Spec, Walk!Spec
=============================================================================

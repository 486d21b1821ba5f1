--------------------------- MODULE AnswersProofs ---------------------------
(***************************************************************************)
(* What the agent gets from a request and what the request leaves behind,  *)
(* for every number of workers, every set of databases and every set of    *)
(* requests: one value or one message, no block but the ones LeakLedger    *)
(* names, and every database of a deep discovery.  With that, each step of *)
(* a worker is one step of the service it promises, and of the walk over   *)
(* the databases, or a stutter of it.                                      *)
(***************************************************************************)
EXTENDS RequestsProofs, RequestsRefinement

-----------------------------------------------------------------------------
(***************************************************************************)
(* What the result of the agent holds at each label.                       *)
(***************************************************************************)
Value == [msgs |-> 0, values |-> 1]
Error == [msgs |-> 1, values |-> 0]

\* An error, or what PG_SETTING returns for a setting that does not exist.
Failed(w) == answer[w] = Error \/ (answer[w] = Empty /\ Current(w).call = "PG_SETTING")

\* The routines whose figure is for their caller, and pg_get_result, which sets the
\* value as it returns.
Unset == {"pg_version", "pg_get_databases", "pg_get_result"}

AnswerInv(w) ==
    /\ pc[w] \in {"call", "exec", "loop", "next"} => answer[w] = Empty
    /\ pc[w] \in {"exec", "loop", "next"} => ret[w] = SYSINFO_RET_FAIL
    /\ pc[w] \in {"out", "done"} /\ ret[w] = SYSINFO_RET_FAIL => Failed(w)
    /\ pc[w] = "out" /\ ret[w] = SYSINFO_RET_OK =>
          answer[w] = IF Current(w).call \in Unset THEN Empty ELSE Value
    /\ pc[w] = "done" /\ ret[w] = SYSINFO_RET_OK => answer[w] = Value

-----------------------------------------------------------------------------
(***************************************************************************)
(* How many blocks of each kind are allocated at each label.               *)
(***************************************************************************)
Wide(w) == Current(w).call = "pg_get_discovery_wide"
OneIf(condition) == IF condition THEN 1 ELSE 0

\* The copies of PG_SETTING and PG_STAT_ALL_INDEXES, which nobody frees.
CopiesOnly(w) ==
    heap[w]["strdup"] > 0 => ret[w] = SYSINFO_RET_OK /\ Current(w).call \in SelfConnecting

CallHeap(w) ==
    /\ heap[w]["PGresult"] = 0 /\ heap[w]["json"] = 0
    /\ heap[w]["connstring"] = 0 /\ heap[w]["strdup"] = 0
    /\ heap[w]["databases"] = OneIf(Wide(w))

RunHeap(w) ==
    /\ heap[w]["strdup"] = 0
    /\ heap[w]["databases"] = OneIf(Wide(w)) /\ heap[w]["json"] = OneIf(Wide(w))
    /\ heap[w]["connstring"] = OneIf(Wide(w) /\ pc[w] # "loop")
    /\ heap[w]["PGresult"] = OneIf(pc[w] = "next")

OutHeap(w) ==
    /\ heap[w]["connstring"] = 0 /\ heap[w]["json"] = 0
    /\ heap[w]["PGresult"] = Live(res[w])
    /\ heap[w]["databases"] =
          OneIf(Current(w).call = "pg_get_databases" /\ ret[w] = SYSINFO_RET_OK)
    /\ CopiesOnly(w)
    /\ ret[w] = SYSINFO_RET_OK /\ Current(w).call \in TakesParams => params[w].ptr # "live"

WideOutHeap(w) ==
    /\ heap[w]["connstring"] <= 1 /\ heap[w]["databases"] = 1 /\ heap[w]["strdup"] = 0
    /\ ret[w] = SYSINFO_RET_OK => heap[w]["json"] = 0 /\ heap[w]["PGresult"] = 0

DoneHeap(w) ==
    /\ heap[w]["databases"] = 0 /\ heap[w]["connstring"] = 0
    /\ CopiesOnly(w)
    /\ heap[w]["params"] > 0 => ret[w] = SYSINFO_RET_FAIL
    /\ heap[w]["json"] + heap[w]["PGresult"] > 0 => ret[w] = SYSINFO_RET_FAIL /\ Wide(w)

HeapInv(w) ==
    /\ heap[w]["params"] = Live(params[w].ptr)
    /\ pc[w] = "call" => CallHeap(w)
    /\ pc[w] \in {"exec", "loop", "next"} => RunHeap(w)
    /\ pc[w] = "out" /\ ~Wide(w) => OutHeap(w)
    /\ pc[w] = "out" /\ Wide(w) => WideOutHeap(w)
    /\ pc[w] = "done" => DoneHeap(w)

-----------------------------------------------------------------------------
(***************************************************************************)
(* Where the databases that stay connectable are, from the list to the end *)
(* of the walk; a list that was read is never empty, and no request leaves *)
(* its script to the next one.                                             *)
(***************************************************************************)
WideInv(w) ==
    /\ steady[w] \subseteq dbs
    /\ pc[w] = "out" /\ Current(w).call = "pg_get_databases" /\ ret[w] = SYSINFO_RET_OK =>
          steady[w] \subseteq todo[w] /\ todo[w] # {}
    /\ pc[w] = "idle" => script[w] = <<>>
    /\ pc[w] = "call" /\ Wide(w) => todo[w] # {}
    /\ pc[w] = "next" => db[w] \in Databases
    /\ pc[w] \in {"call", "loop", "next"} /\ Wide(w) =>
          steady[w] \subseteq todo[w] \union found[w]
    /\ pc[w] = "exec" /\ Wide(w) =>
          steady[w] \subseteq todo[w] \union found[w] \union {db[w]}
    /\ pc[w] \in {"out", "done"} /\ ret[w] = SYSINFO_RET_OK /\ Wide(w) =>
          steady[w] \subseteq found[w]

ServedInv == \A w \in Workers : AnswerInv(w) /\ HeapInv(w) /\ WideInv(w)

-----------------------------------------------------------------------------
(***************************************************************************)
(* The answer.                                                             *)
(***************************************************************************)
\* What a worker with a request is running is the step its calls are compared with.
LEMMA CallingIs ==
    ASSUME IInv, NEW w \in Workers, pc[w] # "idle", NEW S
    PROVE  Calling(w, S) <=> Current(w).call \in S
BY AtWorker DEF Calling

\* The step a leading step leads to is a deep discovery only after the list of databases.
LEMMA NextIsWide ==
    ASSUME IInv, SentInv, NEW w \in Workers, pc[w] # "idle", Current(w).call \in Leading,
           script'[w] = Tail(script[w])
    PROVE  Wide(w)' <=> Current(w).call = "pg_get_databases"
<1>1. /\ script[w] \in Seq(Steps) /\ WellFormed(script[w]) /\ Tidy(script[w])
      /\ Head(script[w]).call \in Leading
    BY AtWorker DEF SentInv, StatementInv, Current
<1> QED BY <1>1, TailTidy DEF Wide, Current

\* The first message makes the result an error, the first value an answer.
LEMMA FirstAnswer ==
    ASSUME IInv, NEW w \in Workers, answer[w] = Empty
    PROVE  /\ Message(w) => answer'[w] = Error
           /\ SetResult(w) => answer'[w] = Value
BY DEF IInv, TypeOK, Message, SetResult, Empty, Error, Value

\* Steps that end the request, or a routine without a connection, at once.
LEMMA EarlyAnswer ==
    ASSUME IInv, NEW w \in Workers, AnswerInv(w),
           \/ RejectRequest(w) \/ ModuleVersion(w) \/ Connect(w) \/ PgConnect(w)
           \/ Deliver(w) \/ param_append(w) \/ \E item \in Items : Receive(w, item)
    PROVE  AnswerInv(w)'
<1> USE DEF AnswerInv, Goto, Return, SYSINFO_RET_OK, SYSINFO_RET_FAIL
<1>1. CASE RejectRequest(w)
    <2>1. answer'[w] = Error /\ pc'[w] = "done" /\ ret'[w] = SYSINFO_RET_FAIL
        BY <1>1, FirstAnswer DEF RejectRequest, set_err_result, IInv, TypeOK
    <2> QED BY <2>1 DEF Failed
<1>2. CASE ModuleVersion(w)
    <2>1. answer'[w] = Value /\ pc'[w] = "done" /\ ret'[w] = SYSINFO_RET_OK
        BY <1>2, FirstAnswer DEF ModuleVersion, IInv, TypeOK
    <2> QED BY <2>1
<1>3. CASE Connect(w)
    <2>1. /\ ret'[w] = SYSINFO_RET_FAIL
          /\ \/ pc'[w] = "exec" /\ answer'[w] = Empty
             \/ pc'[w] = "out" /\ answer'[w] = Error
        BY <1>3, FirstAnswer DEF Connect, IInv, TypeOK
    <2> QED BY <2>1 DEF Failed
<1>4. CASE PgConnect(w)
    <2>1. /\ ret'[w] = SYSINFO_RET_OK /\ pc'[w] = "out" /\ answer'[w] = Value
          /\ Current(w)' = Current(w) /\ Current(w).call = "PG_CONNECT"
        BY <1>4, FirstAnswer DEF PgConnect, IInv, TypeOK, Current, Calling
    <2> QED BY <2>1 DEF Unset
<1>5. CASE Deliver(w)
    <2>1. pc'[w] = "idle"
        BY <1>5 DEF Deliver, IInv, TypeOK
    <2> QED BY <2>1
<1>6. CASE param_append(w)
    <2>1. pc'[w] = "call" /\ answer'[w] = answer[w] /\ pc[w] = "call"
        BY <1>6 DEF param_append
    <2> QED BY <2>1
<1>7. CASE \E item \in Items : Receive(w, item)
    <2>1. pc'[w] = "call" /\ answer'[w] = Empty
        BY <1>7 DEF Receive, IInv, TypeOK
    <2> QED BY <2>1
<1> QED BY <1>1, <1>2, <1>3, <1>4, <1>5, <1>6, <1>7

\* The outcomes of a statement.
LEMMA ExecAnswer ==
    ASSUME IInv, NEW w \in Workers, AnswerInv(w),
           \/ QueryFails(w) \/ NoRows(w) \/ ScalarRow(w) \/ DatabaseRows(w)
           \/ DiscoveryRows(w) \/ CopiedRow(w) \/ WideRows(w)
    PROVE  AnswerInv(w)'
<1> USE DEF AnswerInv, Goto, Return, SYSINFO_RET_OK, SYSINFO_RET_FAIL
<1>1. /\ pc[w] = "exec" /\ answer[w] = Empty /\ ret[w] = SYSINFO_RET_FAIL
      /\ Current(w)' = Current(w)
    BY DEF QueryFails, NoRows, ScalarRow, DatabaseRows, DiscoveryRows, CopiedRow, WideRows,
           Current
<1>2. CASE QueryFails(w)
    <2>1. answer'[w] = Error /\ pc'[w] = "out" /\ ret'[w] = SYSINFO_RET_FAIL
        BY <1>1, <1>2, FirstAnswer DEF QueryFails, set_err_result, IInv, TypeOK
    <2> QED BY <2>1 DEF Failed
<1>3. CASE NoRows(w)
    <2>1. CASE Calling(w, {"PG_SETTING"})
        <3>1. /\ answer'[w] = Empty /\ pc'[w] = "out" /\ ret'[w] = SYSINFO_RET_FAIL
              /\ Current(w).call = "PG_SETTING"
            BY <1>1, <1>3, <2>1 DEF NoRows, Calling, IInv, TypeOK
        <3> QED BY <1>1, <3>1 DEF Failed
    <2>2. CASE ~Calling(w, {"PG_SETTING"})
        <3>1. answer'[w] = Error /\ pc'[w] = "out" /\ ret'[w] = SYSINFO_RET_FAIL
            BY <1>1, <1>3, <2>2, FirstAnswer DEF NoRows, set_err_result, IInv, TypeOK
        <3> QED BY <3>1 DEF Failed
    <2> QED BY <2>1, <2>2
<1>4. CASE ScalarRow(w) \/ DatabaseRows(w)
    <2>1. /\ answer'[w] = Empty /\ pc'[w] = "out" /\ ret'[w] = SYSINFO_RET_OK
          /\ Current(w).call \in Unset
        BY <1>1, <1>4 DEF ScalarRow, DatabaseRows, Calling, Unset, IInv, TypeOK
    <2> QED BY <1>1, <2>1
<1>5. CASE DiscoveryRows(w) \/ CopiedRow(w)
    <2>1. /\ answer'[w] = Value /\ pc'[w] = "out" /\ ret'[w] = SYSINFO_RET_OK
          /\ Current(w).call \notin Unset
        BY <1>1, <1>5, FirstAnswer
           DEF DiscoveryRows, CopiedRow, SelfConnecting, Calling, Unset, IInv, TypeOK
    <2> QED BY <1>1, <2>1
<1>6. CASE WideRows(w)
    <2>1. answer'[w] = Empty /\ pc'[w] = "next" /\ ret'[w] = SYSINFO_RET_FAIL
        BY <1>1, <1>6 DEF WideRows, IInv, TypeOK
    <2> QED BY <2>1
<1> QED BY <1>2, <1>3, <1>4, <1>5, <1>6

\* The clean-up: pg_get_result sets its value here, and a failure keeps its message.
LEMMA CloseAnswer ==
    ASSUME IInv, NEW w \in Workers, AnswerInv(w), Close(w)
    PROVE  AnswerInv(w)'
<1> USE DEF AnswerInv, Goto
<1>1. /\ pc[w] = "out" /\ ret'[w] = ret[w] /\ SYSINFO_RET_OK # SYSINFO_RET_FAIL
      /\ ret[w] \in {SYSINFO_RET_OK, SYSINFO_RET_FAIL}
    BY DEF Close, IInv, TypeOK, SYSINFO_RET_OK, SYSINFO_RET_FAIL
<1>2. \A S : Calling(w, S) <=> Current(w).call \in S
    BY <1>1, CallingIs
<1>3. CASE Continues(w)
    <2>1. /\ answer[w] = Empty /\ answer'[w] = answer[w] /\ pc'[w] = "call"
        BY <1>1, <1>2, <1>3 DEF Close, Continues, Unset, IInv, TypeOK
    <2> QED BY <2>1
<1>4. CASE ~Continues(w)
    <2>1. pc'[w] = "done" /\ Current(w)' = Current(w)
        BY <1>4 DEF Close, IInv, TypeOK, Current
    <2>2. CASE ret[w] = SYSINFO_RET_FAIL
        <3>1. answer'[w] = answer[w] /\ Failed(w)
            BY <1>1, <2>2 DEF Close
        <3> QED BY <1>1, <2>1, <2>2, <3>1 DEF Failed
    <2>3. CASE ret[w] = SYSINFO_RET_OK /\ Current(w).call = "pg_get_result"
        <3>1. answer[w] = Empty /\ SetResult(w)
            BY <1>1, <1>2, <2>3 DEF Close, Unset
        <3> QED BY <1>1, <2>1, <2>3, <3>1, FirstAnswer
    <2>4. CASE ret[w] = SYSINFO_RET_OK /\ Current(w).call # "pg_get_result"
        <3>1. answer[w] = Value /\ answer'[w] = answer[w]
            BY <1>1, <1>2, <1>4, <2>4 DEF Close, Continues, Unset
        <3> QED BY <1>1, <2>1, <2>4, <3>1
    <2> QED BY <1>1, <2>2, <2>3, <2>4
<1> QED BY <1>3, <1>4

\* A deep discovery: the result stays empty until the walk fails or ends.
LEMMA WideAnswer ==
    ASSUME IInv, NEW w \in Workers, AnswerInv(w),
           WideBegin(w) \/ WideConnect(w) \/ WideNext(w) \/ WideFinish(w) \/ WideClose(w)
    PROVE  AnswerInv(w)'
<1> USE DEF AnswerInv, Goto, Return, SYSINFO_RET_OK, SYSINFO_RET_FAIL
<1>1. Current(w)' = Current(w)
    BY DEF WideBegin, WideConnect, WideNext, WideFinish, WideClose, Current
<1>2. CASE WideBegin(w) \/ WideNext(w)
    <2>1. answer'[w] = Empty /\ pc'[w] = "loop" /\ ret'[w] = SYSINFO_RET_FAIL
        BY <1>2 DEF WideBegin, WideNext, IInv, TypeOK
    <2> QED BY <2>1
<1>3. CASE WideConnect(w)
    <2>1. /\ ret'[w] = SYSINFO_RET_FAIL
          /\ \/ pc'[w] = "exec" /\ answer'[w] = Empty
             \/ pc'[w] = "out" /\ answer'[w] = Error
        BY <1>3, FirstAnswer DEF WideConnect, GiveUp, IInv, TypeOK
    <2> QED BY <2>1 DEF Failed
<1>4. CASE WideFinish(w)
    <2>1. /\ answer'[w] = Value /\ pc'[w] = "out" /\ ret'[w] = SYSINFO_RET_OK
          /\ Current(w).call \notin Unset
        BY <1>4, FirstAnswer, AtWorker
           DEF WideFinish, Local, LabelInv, Unset, IInv, TypeOK
    <2> QED BY <1>1, <2>1
<1>5. CASE WideClose(w)
    <2>1. /\ answer'[w] = answer[w] /\ pc'[w] = "done" /\ pc[w] = "out" /\ ret'[w] = ret[w]
          /\ Current(w).call \notin Unset
        BY <1>5 DEF WideClose, Calling, Unset, IInv, TypeOK
    <2> QED BY <1>1, <2>1 DEF Failed
<1> QED BY <1>2, <1>3, <1>4, <1>5

-----------------------------------------------------------------------------
(***************************************************************************)
(* The blocks.                                                             *)
(***************************************************************************)
\* What a statement adds to the heap and takes from it.
LEMMA ExecHeap ==
    ASSUME IInv, NEW w \in Workers, pc[w] = "exec",
           NEW b \in Blocks \ {"params"}, NEW n \in Nat, pg_exec(w, b, n)
    PROVE  /\ res'[w] = "live"
           /\ Passed(w) => params[w].ptr = "live" /\ heap[w]["params"] > 0
           /\ heap'[w]["params"] = heap[w]["params"] - OneIf(Passed(w))
           /\ \A c \in Blocks \ {"params"} :
                 heap'[w][c] = heap[w][c] + OneIf(c = "PGresult") + (IF c = b THEN n ELSE 0)
<1> DEFINE h == ParamsFreed(w)
           h1 == Malloc(h, "PGresult", 1)
           h2 == Malloc(h1, b, n)
<1>1. /\ heap[w] \in [Blocks -> Nat] /\ "params" \in Blocks /\ "PGresult" \in Blocks
      /\ 1 \in Nat /\ \A c \in Blocks : heap[w][c] \in Nat
    BY AtWorker DEF Blocks
<1>2. Passed(w) => params[w].ptr = "live" /\ heap[w]["params"] > 0
    BY AtWorker DEF Passed, Local, ParamsInv, Pointers
<1>3. /\ h \in [Blocks -> Nat]
      /\ h["params"] = heap[w]["params"] - OneIf(Passed(w))
      /\ \A c \in Blocks \ {"params"} : h[c] = heap[w][c]
    <2>1. CASE Passed(w)
        <3>1. h = Free(heap[w], "params", 1)
            BY <2>1 DEF ParamsFreed
        <3>2. 1 <= heap[w]["params"] /\ 1 \in Nat
            BY <1>1, <1>2, <2>1
        <3>3. /\ h \in [Blocks -> Nat]
              /\ \A c \in Blocks :
                    h[c] = IF c = "params" THEN heap[w][c] - 1 ELSE heap[w][c]
            BY <1>1, <3>1, <3>2, FreeHeap
        <3> HIDE DEF h
        <3> QED BY <1>1, <2>1, <3>3 DEF OneIf
    <2>2. CASE ~Passed(w)
        BY <1>1, <2>2 DEF ParamsFreed, OneIf
    <2> QED BY <2>1, <2>2
<1> HIDE DEF h
<1>4. /\ h1 \in [Blocks -> Nat]
      /\ \A c \in Blocks : h1[c] = IF c = "PGresult" THEN h[c] + 1 ELSE h[c]
    <2>1. h \in [Blocks -> Nat] /\ "PGresult" \in Blocks /\ 1 \in Nat
        BY <1>1, <1>3
    <2>2. h1 = Malloc(h, "PGresult", 1)
        OBVIOUS
    <2>3. /\ Malloc(h, "PGresult", 1) \in [Blocks -> Nat]
          /\ \A c \in Blocks : Malloc(h, "PGresult", 1)[c]
                                 = IF c = "PGresult" THEN h[c] + 1 ELSE h[c]
        BY <2>1, MallocHeap
    <2> HIDE DEF h1
    <2> QED BY <2>2, <2>3
<1> HIDE DEF h1
<1>5. \A c \in Blocks : h2[c] = IF c = b THEN h1[c] + n ELSE h1[c]
    BY <1>4, MallocHeap
<1>6. heap' = [heap EXCEPT ![w] = h2] /\ res' = [res EXCEPT ![w] = "live"]
    BY DEF pg_exec, h, h1
<1> HIDE DEF h2
<1>7. heap'[w] = h2 /\ res'[w] = "live"
    BY <1>6 DEF IInv, TypeOK
<1>8. heap'[w]["params"] = heap[w]["params"] - OneIf(Passed(w))
    BY <1>1, <1>3, <1>4, <1>5, <1>7
<1>9. ASSUME NEW c \in Blocks \ {"params"}
      PROVE  heap'[w][c] = heap[w][c] + OneIf(c = "PGresult") + (IF c = b THEN n ELSE 0)
    <2>1. /\ h[c] = heap[w][c] /\ h1[c] = IF c = "PGresult" THEN h[c] + 1 ELSE h[c]
          /\ h2[c] = IF c = b THEN h1[c] + n ELSE h1[c]
          /\ heap[w][c] \in Nat
        BY <1>1, <1>3, <1>4, <1>5
    <2> QED BY <1>7, <2>1 DEF OneIf
<1> QED BY <1>2, <1>7, <1>8, <1>9

\* The parameters of a statement are there until pg_exec frees them, and then gone.
LEMMA ExecParams ==
    ASSUME IInv, NEW w \in Workers, pc[w] = "exec", HeapInv(w),
           NEW b \in Blocks \ {"params"}, NEW n \in Nat, pg_exec(w, b, n)
    PROVE  /\ heap'[w]["params"] = Live(params'[w].ptr)
           /\ Current(w).call \in TakesParams => params'[w].ptr # "live"
<1>1. /\ heap'[w]["params"] = heap[w]["params"] - OneIf(Passed(w))
      /\ Passed(w) => params[w].ptr = "live"
    BY ExecHeap
<1>2. params'[w].ptr = IF Passed(w) THEN "dangling" ELSE params[w].ptr
    BY ExecStatements
<1>3. heap[w]["params"] = Live(params[w].ptr)
    BY DEF HeapInv
<1>4. Current(w).call \in TakesParams /\ ~Passed(w) => params[w].ptr = "NULL"
    BY CallingIs DEF Passed
<1>5. CASE Passed(w)
    BY <1>1, <1>2, <1>3, <1>5 DEF OneIf, Live
<1>6. CASE ~Passed(w)
    BY <1>1, <1>2, <1>3, <1>4, <1>6, LiveType DEF OneIf
<1> QED BY <1>5, <1>6

\* A request starts with nothing allocated, and one that needs no connection allocates
\* no more than its parameters.
LEMMA EarlyHeap ==
    ASSUME IInv, SentInv, NEW w \in Workers, HeapInv(w),
           \/ RejectRequest(w) \/ ModuleVersion(w) \/ Deliver(w)
           \/ \E item \in Items : Receive(w, item)
    PROVE  HeapInv(w)'
<1> USE DEF Goto, Return, SYSINFO_RET_OK, SYSINFO_RET_FAIL
<1>1. CASE \E item \in Items : Receive(w, item)
    <2>1. PICK item \in Items : Receive(w, item)
        BY <1>1
    <2>2. Sound(Handler(item.key, item.p))
        BY ItemsAssumption, HandlersSound
    <2>3. /\ pc'[w] = "call" /\ heap'[w] = NoBlocks /\ params'[w] = NoParams
          /\ ~Wide(w)'
        BY <2>1, <2>2 DEF Receive, IInv, TypeOK, Sound, Wide, Current
    <2> QED BY <2>3 DEF HeapInv, CallHeap, NoBlocks, NoParams, Blocks, Live, OneIf
<1>2. CASE Deliver(w)
    <2>1. pc'[w] = "idle" /\ heap'[w] = heap[w] /\ params'[w] = params[w]
        BY <1>2 DEF Deliver, IInv, TypeOK
    <2> QED BY <2>1 DEF HeapInv
<1>3. CASE RejectRequest(w) \/ ModuleVersion(w)
    <2>1. /\ pc[w] = "call" /\ pc'[w] = "done" /\ heap'[w] = heap[w] /\ params'[w] = params[w]
          /\ CallHeap(w) /\ ~Wide(w)
        BY <1>3 DEF RejectRequest, ModuleVersion, HeapInv, Wide, Calling, IInv, TypeOK
    <2>2. heap[w]["params"] > 0 => ret'[w] = SYSINFO_RET_FAIL
        <3>1. CASE RejectRequest(w)
            BY <3>1 DEF RejectRequest, set_err_result, IInv, TypeOK
        <3>2. CASE ModuleVersion(w)
            <4>1. /\ script[w][1].call = "MODVER" /\ 1 \in DOMAIN script[w]
                BY <3>2, <2>1, AtWorker DEF ModuleVersion, Calling, Current
            <4>2. ~Plain(script[w])
                BY <4>1 DEF Plain, PlainCalls
            <4>3. params[w].ptr # "live"
                BY <2>1, <4>2 DEF SentInv, StatementInv
            <4> QED BY <4>3 DEF HeapInv, Live
        <3> QED BY <1>3, <3>1, <3>2
    <2>3. /\ heap'[w]["databases"] = 0 /\ heap'[w]["connstring"] = 0 /\ heap'[w]["strdup"] = 0
          /\ heap'[w]["json"] = 0 /\ heap'[w]["PGresult"] = 0
        BY <2>1 DEF CallHeap, OneIf
    <2>4. DoneHeap(w)'
        BY <2>1, <2>2, <2>3 DEF DoneHeap, CopiesOnly
    <2> QED BY <2>1, <2>4 DEF HeapInv
<1> QED BY <1>1, <1>2, <1>3

\* param_append allocates the array once, and the step it leads to is no deep discovery.
LEMMA param_appendHeap ==
    ASSUME IInv, SentInv, NEW w \in Workers, HeapInv(w), param_append(w)
    PROVE  HeapInv(w)'
<1> DEFINE n == Current(w).n
           m == 1 - Live(params[w].ptr)
           h == Malloc(heap[w], "params", m)
<1>1. /\ pc[w] = "call" /\ pc'[w] = "call" /\ CallHeap(w) /\ heap[w]["params"] = Live(params[w].ptr)
      /\ Current(w).call = "param_append" /\ ~Wide(w) /\ n \in Nat
      /\ heap[w] \in [Blocks -> Nat] /\ "params" \in Blocks
    BY AtWorker DEF param_append, Calling, HeapInv, Wide, Steps, Blocks
<1>2. ~Wide(w)'
    <2>1. script'[w] = Tail(script[w])
        BY DEF param_append, NextStep, IInv, TypeOK
    <2> QED BY <1>1, <2>1, NextIsWide DEF Leading
<1>3. /\ heap'[w]["params"] = Live(params'[w].ptr)
      /\ \A c \in Blocks \ {"params"} : heap'[w][c] = heap[w][c]
    <2>1. CASE n = 0
        BY <1>1, <2>1 DEF param_append
    <2>2. CASE n # 0
        <3>1. heap'[w] = h /\ params'[w].ptr = "live"
            BY <2>2 DEF param_append, IInv, TypeOK
        <3>2. m \in Nat /\ Live(params[w].ptr) \in {0, 1}
            BY LiveType
        <3> HIDE DEF m
        <3>3. \A c \in Blocks : h[c] = IF c = "params" THEN heap[w][c] + m ELSE heap[w][c]
            BY <1>1, <3>2, MallocHeap
        <3> HIDE DEF h
        <3>4. h["params"] = 1
            BY <1>1, <3>2, <3>3 DEF m
        <3> QED BY <3>1, <3>3, <3>4, LiveType DEF Live
    <2> QED BY <2>1, <2>2
<1>4. CallHeap(w)'
    <2>1. /\ heap'[w]["PGresult"] = 0 /\ heap'[w]["json"] = 0 /\ heap'[w]["connstring"] = 0
          /\ heap'[w]["strdup"] = 0 /\ heap'[w]["databases"] = 0
        BY <1>1, <1>3 DEF CallHeap, Blocks, OneIf
    <2> QED BY <1>2, <2>1 DEF CallHeap, OneIf
<1> QED BY <1>1, <1>3, <1>4 DEF HeapInv

\* Connecting allocates nothing the request has to free but the connection string of a
\* deep discovery.
LEMMA ConnectHeap ==
    ASSUME IInv, NEW w \in Workers, HeapInv(w), Connect(w) \/ PgConnect(w)
    PROVE  HeapInv(w)'
<1>1. /\ pc[w] = "call" /\ CallHeap(w) /\ ~Wide(w) /\ res[w] = "NULL"
      /\ Current(w)' = Current(w) /\ Wide(w)' = Wide(w)
      /\ heap' = heap /\ params' = params /\ res' = res
    BY AtWorker DEF Connect, PgConnect, HeapInv, Wide, Calling, PgCalls, Current, Local,
                    BlocksInv
<1>2. /\ heap[w]["connstring"] = 0 /\ heap[w]["json"] = 0 /\ heap[w]["strdup"] = 0
      /\ heap[w]["PGresult"] = 0 /\ heap[w]["databases"] = 0
      /\ heap'[w]["params"] = Live(params'[w].ptr)
    BY <1>1 DEF CallHeap, OneIf, HeapInv
<1>3. \/ pc'[w] = "exec"
      \/ pc'[w] = "out" /\ ret'[w] = SYSINFO_RET_FAIL
      \/ pc'[w] = "out" /\ Current(w).call = "PG_CONNECT"
    BY DEF Connect, PgConnect, Goto, Return, Calling, IInv, TypeOK
<1>4. CASE pc'[w] = "exec"
    <2>1. RunHeap(w)'
        BY <1>1, <1>2, <1>4 DEF RunHeap, OneIf
    <2> QED BY <1>2, <1>4, <2>1 DEF HeapInv
<1>5. CASE /\ pc'[w] = "out"
           /\ ret'[w] = SYSINFO_RET_FAIL \/ Current(w).call = "PG_CONNECT"
    <2>1. OutHeap(w)'
        BY <1>1, <1>2, <1>5
           DEF OutHeap, CopiesOnly, OneIf, Live, TakesParams, SYSINFO_RET_OK,
               SYSINFO_RET_FAIL
    <2> QED BY <1>1, <1>2, <1>5, <2>1 DEF HeapInv
<1> QED BY <1>3, <1>4, <1>5

\* The outcomes of a statement: a result to clear, and what the routine made of it.
LEMMA ExecBlocks ==
    ASSUME IInv, NEW w \in Workers, HeapInv(w), pc[w] = "exec",
           \/ QueryFails(w) \/ NoRows(w) \/ ScalarRow(w) \/ DatabaseRows(w)
           \/ DiscoveryRows(w) \/ CopiedRow(w) \/ WideRows(w)
    PROVE  HeapInv(w)'
<1> USE DEF Goto, Return, SYSINFO_RET_OK, SYSINFO_RET_FAIL
<1>1. /\ RunHeap(w) /\ Current(w)' = Current(w) /\ Wide(w)' = Wide(w)
      /\ \A c \in Blocks : heap[w][c] \in Nat
    BY AtWorker DEF HeapInv, QueryFails, NoRows, ScalarRow, DatabaseRows, DiscoveryRows,
                    CopiedRow, WideRows, Current, Wide
<1>2. /\ heap[w]["strdup"] = 0 /\ heap[w]["PGresult"] = 0
      /\ heap[w]["databases"] = OneIf(Wide(w)) /\ heap[w]["json"] = OneIf(Wide(w))
      /\ heap[w]["connstring"] = OneIf(Wide(w))
    BY <1>1 DEF RunHeap, OneIf
<1>3. ASSUME NEW b \in Blocks \ {"params"}, NEW n \in Nat, pg_exec(w, b, n)
      PROVE  /\ res'[w] = "live"
             /\ heap'[w]["params"] = Live(params'[w].ptr)
             /\ Current(w).call \in TakesParams => params'[w].ptr # "live"
             /\ heap'[w]["PGresult"] = 1 + (IF b = "PGresult" THEN n ELSE 0)
             /\ heap'[w]["strdup"] = IF b = "strdup" THEN n ELSE 0
             /\ heap'[w]["databases"] = OneIf(Wide(w)) + (IF b = "databases" THEN n ELSE 0)
             /\ heap'[w]["json"] = OneIf(Wide(w)) + (IF b = "json" THEN n ELSE 0)
             /\ heap'[w]["connstring"] = OneIf(Wide(w)) + (IF b = "connstring" THEN n ELSE 0)
    <2>1. /\ heap'[w]["params"] = Live(params'[w].ptr)
          /\ Current(w).call \in TakesParams => params'[w].ptr # "live"
        BY <1>3, ExecParams
    <2>2. /\ res'[w] = "live"
          /\ \A c \in Blocks \ {"params"} :
                heap'[w][c] = heap[w][c] + OneIf(c = "PGresult") + (IF c = b THEN n ELSE 0)
        BY <1>3, ExecHeap
    <2>3. /\ "PGresult" \in Blocks \ {"params"} /\ "strdup" \in Blocks \ {"params"}
          /\ "databases" \in Blocks \ {"params"} /\ "json" \in Blocks \ {"params"}
          /\ "connstring" \in Blocks \ {"params"} /\ OneIf(Wide(w)) \in {0, 1}
        BY DEF Blocks, OneIf
    <2> QED BY <1>2, <1>3, <2>1, <2>2, <2>3 DEF OneIf
<1>4. "PGresult" \in Blocks \ {"params"} /\ "json" \in Blocks \ {"params"} /\ 0 \in Nat
    BY DEF Blocks
<1>5. CASE QueryFails(w) \/ NoRows(w)
    <2>1. pg_exec(w, "PGresult", 0) /\ pc'[w] = "out"
        BY <1>5 DEF QueryFails, NoRows, IInv, TypeOK
    <2>2. ret'[w] # SYSINFO_RET_OK \/ Current(w).call = "PG_SETTING"
        <3>1. CASE Calling(w, {"PG_SETTING"})
            BY <3>1 DEF Calling
        <3>2. CASE ~Calling(w, {"PG_SETTING"})
            BY <1>5, <3>2 DEF QueryFails, NoRows, set_err_result, IInv, TypeOK
        <3> QED BY <3>1, <3>2
    <2>3. /\ res'[w] = "live" /\ heap'[w]["params"] = Live(params'[w].ptr)
          /\ heap'[w]["PGresult"] = 1 /\ heap'[w]["strdup"] = 0
          /\ heap'[w]["databases"] = OneIf(Wide(w)) /\ heap'[w]["json"] = OneIf(Wide(w))
          /\ heap'[w]["connstring"] = OneIf(Wide(w)) /\ OneIf(Wide(w)) \in {0, 1}
        BY <1>3, <1>4, <2>1 DEF OneIf
    <2>4. CASE Wide(w)
        <3>1. WideOutHeap(w)'
            BY <1>1, <2>2, <2>3, <2>4 DEF WideOutHeap, Wide, OneIf
        <3> QED BY <1>1, <2>1, <2>3, <2>4, <3>1 DEF HeapInv
    <2>5. CASE ~Wide(w)
        <3>1. OutHeap(w)'
            BY <1>1, <2>2, <2>3, <2>5 DEF OutHeap, CopiesOnly, OneIf, Live, TakesParams
        <3> QED BY <1>1, <2>1, <2>3, <2>5, <3>1 DEF HeapInv
    <2> QED BY <2>4, <2>5
<1>6. CASE ScalarRow(w) \/ DiscoveryRows(w)
    <2>1. /\ pc'[w] = "out" /\ ~Wide(w)
          /\ Current(w).call \in {"pg_version", "pg_get_result", "pg_get_discovery"}
          /\ pg_exec(w, "PGresult", 0) \/ pg_exec(w, "json", 0)
        BY <1>6 DEF ScalarRow, DiscoveryRows, Calling, Wide, IInv, TypeOK
    <2>2. /\ res'[w] = "live" /\ heap'[w]["params"] = Live(params'[w].ptr)
          /\ Current(w).call \in TakesParams => params'[w].ptr # "live"
          /\ heap'[w]["PGresult"] = 1 /\ heap'[w]["strdup"] = 0
          /\ heap'[w]["databases"] = 0 /\ heap'[w]["json"] = 0 /\ heap'[w]["connstring"] = 0
        BY <1>3, <1>4, <2>1 DEF OneIf
    <2>3. OutHeap(w)'
        BY <1>1, <2>1, <2>2 DEF OutHeap, CopiesOnly, OneIf, Live
    <2> QED BY <1>1, <2>1, <2>2, <2>3 DEF HeapInv
<1>7. CASE DatabaseRows(w)
    <2>1. /\ pc'[w] = "out" /\ ret'[w] = SYSINFO_RET_OK /\ ~Wide(w)
          /\ Current(w).call = "pg_get_databases" /\ pg_exec(w, "databases", 1)
        BY <1>7 DEF DatabaseRows, Calling, Wide, IInv, TypeOK
    <2>2. "databases" \in Blocks \ {"params"} /\ 1 \in Nat
        BY DEF Blocks
    <2>3. /\ res'[w] = "live" /\ heap'[w]["params"] = Live(params'[w].ptr)
          /\ heap'[w]["PGresult"] = 1 /\ heap'[w]["strdup"] = 0
          /\ heap'[w]["databases"] = 1 /\ heap'[w]["json"] = 0 /\ heap'[w]["connstring"] = 0
        BY <1>3, <2>1, <2>2 DEF OneIf
    <2>4. OutHeap(w)'
        BY <1>1, <2>1, <2>3 DEF OutHeap, CopiesOnly, OneIf, Live, TakesParams
    <2> QED BY <1>1, <2>1, <2>3, <2>4 DEF HeapInv
<1>8. CASE CopiedRow(w)
    <2>1. PICK copies \in Nat : pg_exec(w, "strdup", copies)
        BY <1>8 DEF CopiedRow
    <2>2. /\ pc'[w] = "out" /\ ret'[w] = SYSINFO_RET_OK /\ ~Wide(w)
          /\ Current(w).call \in SelfConnecting
        BY <1>8 DEF CopiedRow, SelfConnecting, Calling, Wide, IInv, TypeOK
    <2>3. "strdup" \in Blocks \ {"params"}
        BY DEF Blocks
    <2>4. /\ res'[w] = "live" /\ heap'[w]["params"] = Live(params'[w].ptr)
          /\ heap'[w]["PGresult"] = 1
          /\ heap'[w]["databases"] = 0 /\ heap'[w]["json"] = 0 /\ heap'[w]["connstring"] = 0
        BY <1>3, <2>1, <2>2, <2>3 DEF OneIf
    <2>5. OutHeap(w)'
        BY <1>1, <2>2, <2>4
           DEF OutHeap, CopiesOnly, OneIf, Live, TakesParams, SelfConnecting
    <2> QED BY <1>1, <2>2, <2>4, <2>5 DEF HeapInv
<1>9. CASE WideRows(w)
    <2>1. /\ pc'[w] = "next" /\ pg_exec(w, "json", 0) /\ Wide(w)
        BY <1>9 DEF WideRows, Calling, Wide, IInv, TypeOK
    <2>2. /\ heap'[w]["params"] = Live(params'[w].ptr)
          /\ heap'[w]["PGresult"] = 1 /\ heap'[w]["strdup"] = 0
          /\ heap'[w]["databases"] = 1 /\ heap'[w]["json"] = 1 /\ heap'[w]["connstring"] = 1
        BY <1>3, <1>4, <2>1 DEF OneIf
    <2>3. RunHeap(w)'
        BY <1>1, <2>1, <2>2 DEF RunHeap, OneIf
    <2> QED BY <2>1, <2>2, <2>3 DEF HeapInv
<1> QED BY <1>5, <1>6, <1>7, <1>8, <1>9

\* The clean-up of a routine: the result is cleared, and only the list of databases goes
\* on, to the deep discovery that asked for it.
LEMMA CloseHeap ==
    ASSUME IInv, SentInv, NEW w \in Workers, HeapInv(w), Close(w)
    PROVE  HeapInv(w)'
<1> DEFINE h == Free(heap[w], "PGresult", Live(res[w]))
<1>1. /\ pc[w] = "out" /\ ~Wide(w) /\ OutHeap(w)
      /\ heap[w] \in [Blocks -> Nat] /\ params' = params /\ ret' = ret
      /\ heap[w]["params"] = Live(params[w].ptr)
      /\ ret[w] \in {SYSINFO_RET_OK, SYSINFO_RET_FAIL} /\ SYSINFO_RET_OK # SYSINFO_RET_FAIL
    BY AtWorker DEF Close, Calling, PgCalls, Wide, HeapInv, IInv, TypeOK, SYSINFO_RET_OK,
                    SYSINFO_RET_FAIL
<1>2. \A S : Calling(w, S) <=> Current(w).call \in S
    BY <1>1, CallingIs
<1>3. \A c \in Blocks : h[c] = IF c = "PGresult" THEN heap[w][c] - Live(res[w]) ELSE heap[w][c]
    <2>1. /\ "PGresult" \in Blocks /\ Live(res[w]) \in Nat
          /\ Live(res[w]) <= heap[w]["PGresult"]
        BY <1>1, LiveType DEF Blocks, OutHeap
    <2> QED BY <1>1, <2>1, FreeHeap
<1>4. heap'[w] = h
    BY DEF Close, IInv, TypeOK
<1> HIDE DEF h
<1>5. /\ heap'[w]["PGresult"] = 0 /\ heap'[w]["json"] = 0 /\ heap'[w]["connstring"] = 0
      /\ heap'[w]["databases"] = heap[w]["databases"] /\ heap'[w]["strdup"] = heap[w]["strdup"]
      /\ heap'[w]["params"] = Live(params'[w].ptr)
    <2>1. /\ heap[w]["PGresult"] = Live(res[w]) /\ Live(res[w]) \in Nat
          /\ heap[w]["json"] = 0 /\ heap[w]["connstring"] = 0
        BY <1>1, LiveType DEF OutHeap
    <2> QED BY <1>1, <1>3, <1>4, <2>1 DEF Blocks
<1>6. CASE Continues(w)
    <2>1. /\ ret[w] = SYSINFO_RET_OK /\ Current(w).call \in {"pg_version", "pg_get_databases"}
        BY <1>2, <1>6 DEF Continues
    <2>2. pc'[w] = "call" /\ script'[w] = Tail(script[w])
        BY <1>6 DEF Close, Goto, NextStep, IInv, TypeOK
    <2>3. Wide(w)' <=> Current(w).call = "pg_get_databases"
        BY <1>1, <2>1, <2>2, NextIsWide DEF Leading
    <2>4. heap[w]["databases"] = OneIf(Current(w).call = "pg_get_databases")
        BY <1>1, <2>1 DEF OutHeap
    <2>5. heap[w]["strdup"] = 0
        BY <1>1, <2>1 DEF OutHeap, CopiesOnly, SelfConnecting, Blocks
    <2>6. CallHeap(w)'
        BY <1>5, <2>3, <2>4, <2>5 DEF CallHeap, OneIf
    <2> QED BY <1>5, <2>2, <2>6 DEF HeapInv
<1>7. CASE ~Continues(w)
    <2>1. pc'[w] = "done" /\ script' = script /\ Current(w)' = Current(w) /\ Wide(w)' = Wide(w)
        BY <1>7 DEF Close, Goto, IInv, TypeOK, Current, Wide
    <2>2. heap[w]["databases"] = 0
        BY <1>1, <1>2, <1>7 DEF OutHeap, Continues, OneIf
    <2>3. heap'[w]["params"] > 0 => ret'[w] = SYSINFO_RET_FAIL
        <3> SUFFICES ASSUME params[w].ptr = "live", ret[w] = SYSINFO_RET_OK PROVE FALSE
            BY <1>1, <1>5 DEF Live
        <3>1. Plain(script[w])
            BY <1>1 DEF SentInv, StatementInv
        <3>2. Current(w).call \in PlainCalls
            BY <1>1, <3>1, AtWorker DEF Plain, Current
        <3>3. Current(w).call \in PgCalls \union {"PG_CONNECT"}
            BY <1>2 DEF Close
        <3>4. Current(w).call \notin TakesParams \union {"pg_version"}
            BY <1>1, <1>2, <1>7 DEF OutHeap, Continues
        <3> QED BY <3>2, <3>3, <3>4 DEF PlainCalls, PgCalls, TakesParams
    <2>4. DoneHeap(w)'
        BY <1>1, <1>5, <2>1, <2>2, <2>3 DEF OutHeap, DoneHeap, CopiesOnly
    <2> QED BY <1>5, <2>1, <2>4 DEF HeapInv
<1> QED BY <1>6, <1>7

\* The blocks of a deep discovery, through its loop to its clean-up.
LEMMA WideHeap ==
    ASSUME IInv, NEW w \in Workers, HeapInv(w), AnswerInv(w),
           WideBegin(w) \/ WideConnect(w) \/ WideNext(w) \/ WideFinish(w) \/ WideClose(w)
    PROVE  HeapInv(w)'
<1> USE DEF Goto, Return, SYSINFO_RET_OK, SYSINFO_RET_FAIL
<1>1. /\ Wide(w) /\ Current(w)' = Current(w) /\ Wide(w)' = Wide(w) /\ params' = params
      /\ heap[w] \in [Blocks -> Nat] /\ params[w].ptr = "NULL"
      /\ heap[w]["params"] = 0
    <2>1. /\ pc[w] \in {"call", "loop", "next", "out"} /\ Wide(w)
          /\ Current(w)' = Current(w) /\ params' = params
        BY AtWorker DEF WideBegin, WideConnect, WideNext, WideFinish, WideClose, Calling,
                        Wide, Local, LabelInv, Current
    <2>2. params[w].ptr = "NULL"
        BY <2>1, AtWorker DEF Wide, Local, ParamsInv
    <2> QED BY <2>1, <2>2, AtWorker DEF Wide, HeapInv, Live
<1>2. {"PGresult", "json", "connstring", "databases", "strdup", "params"} = Blocks
    BY DEF Blocks
<1>3. 1 \in Nat /\ \A c \in Blocks : heap[w][c] \in Nat
    BY <1>1
<1>4. ASSUME NEW b \in Blocks
      PROVE  \A c \in Blocks :
                Malloc(heap[w], b, 1)[c] = IF c = b THEN heap[w][c] + 1 ELSE heap[w][c]
    BY <1>1, <1>3, MallocHeap
<1>5. CASE WideBegin(w)
    <2>1. pc'[w] = "loop" /\ heap'[w] = Malloc(heap[w], "json", 1) /\ CallHeap(w)
        BY <1>5 DEF WideBegin, IInv, TypeOK, HeapInv
    <2>2. \A c \in Blocks : heap'[w][c] = IF c = "json" THEN heap[w][c] + 1 ELSE heap[w][c]
        <3>1. "json" \in Blocks
            BY <1>2
        <3> QED BY <1>4, <2>1, <3>1
    <2>3. /\ heap'[w]["json"] = 1 /\ heap'[w]["PGresult"] = 0 /\ heap'[w]["connstring"] = 0
          /\ heap'[w]["databases"] = 1 /\ heap'[w]["strdup"] = 0 /\ heap'[w]["params"] = 0
        BY <1>1, <1>2, <2>1, <2>2 DEF CallHeap, OneIf
    <2>4. RunHeap(w)'
        BY <1>1, <2>1, <2>3 DEF RunHeap, OneIf
    <2> QED BY <1>1, <2>1, <2>3, <2>4 DEF HeapInv, Live
<1>6. CASE WideConnect(w)
    <2>1. /\ pc[w] = "loop" /\ heap'[w] = Malloc(heap[w], "connstring", 1) /\ RunHeap(w)
          /\ pc'[w] = "exec" \/ (pc'[w] = "out" /\ ret'[w] # SYSINFO_RET_OK)
        BY <1>6 DEF WideConnect, GiveUp, IInv, TypeOK, HeapInv, AnswerInv
    <2>2. \A c \in Blocks :
             heap'[w][c] = IF c = "connstring" THEN heap[w][c] + 1 ELSE heap[w][c]
        <3>1. "connstring" \in Blocks
            BY <1>2
        <3> QED BY <1>4, <2>1, <3>1
    <2>3. /\ heap'[w]["json"] = 1 /\ heap'[w]["PGresult"] = 0 /\ heap'[w]["connstring"] = 1
          /\ heap'[w]["databases"] = 1 /\ heap'[w]["strdup"] = 0 /\ heap'[w]["params"] = 0
        BY <1>1, <1>2, <2>1, <2>2 DEF RunHeap, OneIf
    <2>4. CASE pc'[w] = "exec"
        <3>1. RunHeap(w)'
            BY <1>1, <2>3, <2>4 DEF RunHeap, OneIf
        <3> QED BY <1>1, <2>3, <2>4, <3>1 DEF HeapInv, Live
    <2>5. CASE pc'[w] = "out" /\ ret'[w] # SYSINFO_RET_OK
        <3>1. WideOutHeap(w)'
            BY <2>3, <2>5 DEF WideOutHeap
        <3> QED BY <1>1, <2>3, <2>5, <3>1 DEF HeapInv, Live
    <2> QED BY <2>1, <2>4, <2>5
<1>7. CASE WideNext(w)
    <2> DEFINE h1 == Free(heap[w], "connstring", 1)
    <2>1. /\ pc'[w] = "loop" /\ RunHeap(w) /\ pc[w] = "next"
          /\ heap'[w] = Free(h1, "PGresult", Live(res[w])) /\ Live(res[w]) = 1
        BY <1>7, AtWorker DEF WideNext, IInv, TypeOK, HeapInv, Local, BlocksInv, Live
    <2>2. heap[w]["connstring"] = 1 /\ heap[w]["PGresult"] = 1
        BY <1>1, <2>1 DEF RunHeap, OneIf
    <2>3. /\ h1 \in [Blocks -> Nat]
          /\ \A c \in Blocks : h1[c] = IF c = "connstring" THEN heap[w][c] - 1 ELSE heap[w][c]
        BY <1>1, <1>2, <1>3, <2>2, FreeHeap
    <2> HIDE DEF h1
    <2>4. \A c \in Blocks : heap'[w][c] = IF c = "PGresult" THEN h1[c] - 1 ELSE h1[c]
        <3>1. 1 <= h1["PGresult"]
            BY <1>2, <2>2, <2>3
        <3> QED BY <1>2, <1>3, <2>1, <2>3, <3>1, FreeHeap
    <2>5. /\ heap'[w]["json"] = 1 /\ heap'[w]["PGresult"] = 0 /\ heap'[w]["connstring"] = 0
          /\ heap'[w]["databases"] = 1 /\ heap'[w]["strdup"] = 0 /\ heap'[w]["params"] = 0
        BY <1>1, <1>2, <2>1, <2>2, <2>3, <2>4 DEF RunHeap, OneIf
    <2>6. RunHeap(w)'
        BY <1>1, <2>1, <2>5 DEF RunHeap, OneIf
    <2> QED BY <1>1, <2>1, <2>5, <2>6 DEF HeapInv, Live
<1>8. CASE WideFinish(w)
    <2>1. /\ pc[w] = "loop" /\ pc'[w] = "out" /\ RunHeap(w)
          /\ heap'[w] = Free(heap[w], "json", 1)
        BY <1>8 DEF WideFinish, IInv, TypeOK, HeapInv
    <2>2. 1 <= heap[w]["json"]
        BY <1>1, <2>1 DEF RunHeap, OneIf
    <2>3. \A c \in Blocks : heap'[w][c] = IF c = "json" THEN heap[w][c] - 1 ELSE heap[w][c]
        BY <1>1, <1>2, <1>3, <2>1, <2>2, FreeHeap
    <2>4. /\ heap'[w]["json"] = 0 /\ heap'[w]["PGresult"] = 0 /\ heap'[w]["connstring"] = 0
          /\ heap'[w]["databases"] = 1 /\ heap'[w]["strdup"] = 0 /\ heap'[w]["params"] = 0
        BY <1>1, <1>2, <2>1, <2>3 DEF RunHeap, OneIf
    <2>5. WideOutHeap(w)'
        BY <2>4 DEF WideOutHeap
    <2> QED BY <1>1, <2>1, <2>4, <2>5 DEF HeapInv, Live
<1>9. CASE WideClose(w)
    <2> DEFINE h1 == zbx_free(heap[w], "connstring")
    <2>1. /\ pc[w] = "out" /\ pc'[w] = "done" /\ WideOutHeap(w) /\ ret'[w] = ret[w]
          /\ heap'[w] = zbx_free(h1, "databases")
        BY <1>1, <1>9 DEF WideClose, IInv, TypeOK, HeapInv
    <2>2. /\ h1 \in [Blocks -> Nat] /\ h1["connstring"] = 0
          /\ \A c \in Blocks \ {"connstring"} : h1[c] = heap[w][c]
        <3>1. h1 \in [Blocks -> Nat] /\ \A c \in Blocks \ {"connstring"} : h1[c] = heap[w][c]
            BY <1>1, <1>2, zbx_freeHeap
        <3>2. heap[w]["connstring"] = 0 \/ heap[w]["connstring"] = 1
            BY <1>2, <1>3, <2>1 DEF WideOutHeap
        <3>3. h1["connstring"] = 0
            BY <1>1, <1>2, <3>2 DEF zbx_free, Free
        <3> QED BY <3>1, <3>3
    <2> HIDE DEF h1
    <2>3. /\ heap'[w]["databases"] = 0
          /\ \A c \in Blocks \ {"databases"} : heap'[w][c] = h1[c]
        <3>1. h1["databases"] = 1 /\ "databases" \in Blocks
            BY <1>2, <2>1, <2>2 DEF WideOutHeap
        <3>2. \A c \in Blocks \ {"databases"} : heap'[w][c] = h1[c]
            BY <2>1, <2>2, <3>1, zbx_freeHeap
        <3>3. heap'[w]["databases"] = 0
            BY <2>1, <2>2, <3>1 DEF zbx_free, Free
        <3> QED BY <3>2, <3>3
    <2>4. /\ heap'[w]["connstring"] = 0 /\ heap'[w]["strdup"] = 0 /\ heap'[w]["params"] = 0
          /\ ret[w] = SYSINFO_RET_OK => heap'[w]["json"] = 0 /\ heap'[w]["PGresult"] = 0
        BY <1>1, <1>2, <2>1, <2>2, <2>3 DEF WideOutHeap
    <2>5. DoneHeap(w)'
        <3>1. ret[w] \in {SYSINFO_RET_OK, SYSINFO_RET_FAIL}
            BY DEF IInv, TypeOK
        <3> QED BY <1>1, <2>1, <2>3, <2>4, <3>1 DEF DoneHeap, CopiesOnly
    <2> QED BY <1>1, <2>1, <2>4, <2>5 DEF HeapInv, Live
<1> QED BY <1>5, <1>6, <1>7, <1>8, <1>9

\* Whatever a worker with a request runs, its blocks stay accounted for.
LEMMA WorkHeap ==
    ASSUME IInv, SentInv, NEW w \in Workers, AnswerInv(w), HeapInv(w),
           Work(w) \/ \E item \in Items : Receive(w, item)
    PROVE  HeapInv(w)'
<1>1. CASE \/ QueryFails(w) \/ NoRows(w) \/ ScalarRow(w) \/ DatabaseRows(w)
           \/ DiscoveryRows(w) \/ CopiedRow(w) \/ WideRows(w)
    <2>1. pc[w] = "exec"
        BY <1>1 DEF QueryFails, NoRows, ScalarRow, DatabaseRows, DiscoveryRows, CopiedRow,
                    WideRows
    <2> QED BY <1>1, <2>1, ExecBlocks
<1> QED BY <1>1, EarlyHeap, param_appendHeap, ConnectHeap, CloseHeap, WideHeap DEF Work

\* And so does what it puts into the result of the agent.
LEMMA WorkAnswer ==
    ASSUME IInv, NEW w \in Workers, AnswerInv(w),
           Work(w) \/ \E item \in Items : Receive(w, item)
    PROVE  AnswerInv(w)'
BY EarlyAnswer, ExecAnswer, CloseAnswer, WideAnswer DEF Work

-----------------------------------------------------------------------------
(***************************************************************************)
(* The databases of a deep discovery.                                      *)
(***************************************************************************)
\* No worker changes what can be connected to.
LEMMA WorkDatabases ==
    ASSUME NEW w \in Workers, Work(w)
    PROVE  dbs' = dbs /\ steady' = steady
<1> USE DEF serverVars
<1>1. /\ pg_connect_ok(w) => dbs' = dbs
      /\ pg_connect_fails(w) => dbs' = dbs
      /\ PQfinish(w) => dbs' = dbs
    BY DEF pg_connect_ok, pg_connect_fails, PQfinish, Accept, Hangup
<1>2. CASE \/ Deliver(w) \/ RejectRequest(w) \/ ModuleVersion(w) \/ param_append(w)
           \/ WideBegin(w) \/ WideFinish(w)
    BY <1>2 DEF Deliver, RejectRequest, ModuleVersion, param_append, WideBegin, WideFinish
<1>3. CASE \/ QueryFails(w) \/ NoRows(w) \/ ScalarRow(w) \/ DatabaseRows(w)
           \/ DiscoveryRows(w) \/ CopiedRow(w) \/ WideRows(w)
    BY <1>3 DEF QueryFails, NoRows, ScalarRow, DatabaseRows, DiscoveryRows, CopiedRow,
                WideRows
<1>4. CASE Connect(w) \/ PgConnect(w) \/ WideConnect(w)
    BY <1>1, <1>4 DEF Connect, PgConnect, WideConnect
<1>5. CASE Close(w) \/ WideNext(w) \/ WideClose(w)
    BY <1>1, <1>5 DEF Close, WideNext, WideClose, FinishAtOut
<1> QED BY <1>2, <1>3, <1>4, <1>5 DEF Work

\* Every database that stays connectable is on the list, being visited, or in the answer.
LEMMA WorkWide ==
    ASSUME IInv, SentInv, NEW w \in Workers, AnswerInv(w), WideInv(w), Work(w)
    PROVE  WideInv(w)'
<1> USE DEF WideInv, Goto, Return, SYSINFO_RET_OK, SYSINFO_RET_FAIL
<1>1. dbs' = dbs /\ steady'[w] = steady[w]
    BY WorkDatabases
<1>2. CASE Deliver(w)
    <2>1. pc'[w] = "idle" /\ script'[w] = <<>>
        BY <1>2 DEF Deliver, IInv, TypeOK
    <2> QED BY <1>1, <2>1
<1>3. CASE RejectRequest(w) \/ ModuleVersion(w)
    <2>1. pc'[w] = "done" /\ ~Wide(w)'
        BY <1>3 DEF RejectRequest, ModuleVersion, Calling, Wide, Current, IInv, TypeOK
    <2> QED BY <1>1, <2>1
<1>4. CASE param_append(w)
    <2>1. pc'[w] = "call" /\ script'[w] = Tail(script[w]) /\ pc[w] = "call"
          /\ Current(w).call = "param_append"
        BY <1>4 DEF param_append, NextStep, Calling, IInv, TypeOK
    <2>2. ~Wide(w)'
        BY <2>1, NextIsWide DEF Leading
    <2> QED BY <1>1, <2>1, <2>2
<1>5. CASE Connect(w) \/ PgConnect(w) \/ QueryFails(w)
    <2>1. /\ pc'[w] \in {"exec", "out"} /\ Current(w)' = Current(w) /\ Wide(w)' = Wide(w)
          /\ pc'[w] = "exec" => ~Wide(w)
          /\ ret'[w] # SYSINFO_RET_OK \/ Current(w).call = "PG_CONNECT"
        BY <1>5 DEF Connect, PgConnect, QueryFails, set_err_result, Calling, PgCalls, Wide,
                    Current, IInv, TypeOK
    <2> QED BY <1>1, <2>1 DEF Wide
<1>6. CASE NoRows(w)
    <2>1. pc'[w] = "out" /\ Current(w)' = Current(w) /\ Wide(w)' = Wide(w)
        BY <1>6 DEF NoRows, Current, Wide, IInv, TypeOK
    <2>2. CASE Calling(w, {"PG_SETTING"})
        BY <1>1, <2>1, <2>2 DEF Calling, Wide
    <2>3. CASE ~Calling(w, {"PG_SETTING"})
        <3>1. ret'[w] # SYSINFO_RET_OK
            BY <1>6, <2>3 DEF NoRows, set_err_result, IInv, TypeOK
        <3> QED BY <1>1, <2>1, <3>1
    <2> QED BY <2>2, <2>3
<1>7. CASE ScalarRow(w) \/ DiscoveryRows(w) \/ CopiedRow(w)
    <2>1. /\ pc'[w] = "out" /\ Current(w)' = Current(w) /\ Wide(w)' = Wide(w) /\ ~Wide(w)
          /\ Current(w).call # "pg_get_databases"
        BY <1>7 DEF ScalarRow, DiscoveryRows, CopiedRow, Calling, SelfConnecting, Wide,
                    Current, IInv, TypeOK
    <2> QED BY <1>1, <2>1
<1>8. CASE DatabaseRows(w)
    <2>1. /\ pc'[w] = "out" /\ Wide(w)' = Wide(w) /\ ~Wide(w)
          /\ todo'[w] = dbs /\ dbs # {}
        BY <1>8 DEF DatabaseRows, Calling, Wide, Current, IInv, TypeOK
    <2> QED BY <1>1, <2>1
<1>9. CASE Close(w)
    <2>1. /\ pc[w] = "out" /\ ~Wide(w)
          /\ todo'[w] = todo[w] /\ found'[w] = found[w] /\ ret'[w] = ret[w]
        BY <1>9 DEF Close, Calling, PgCalls, Wide
    <2>2. CASE Continues(w)
        <3>1. /\ pc'[w] = "call" /\ script'[w] = Tail(script[w]) /\ ret[w] = SYSINFO_RET_OK
              /\ Current(w).call \in {"pg_version", "pg_get_databases"}
            BY <1>9, <2>2 DEF Close, Continues, Calling, NextStep, IInv, TypeOK
        <3>2. Wide(w)' <=> Current(w).call = "pg_get_databases"
            BY <2>1, <3>1, NextIsWide DEF Leading
        <3> QED BY <1>1, <2>1, <3>1, <3>2
    <2>3. CASE ~Continues(w)
        <3>1. pc'[w] = "done" /\ Wide(w)' = Wide(w)
            BY <1>9, <2>3 DEF Close, Wide, Current, IInv, TypeOK
        <3> QED BY <1>1, <2>1, <3>1
    <2> QED BY <2>2, <2>3
<1>10. CASE WideBegin(w) \/ WideNext(w)
    <2>1. /\ pc'[w] = "loop" /\ pc[w] \in {"call", "next"} /\ Wide(w)' = Wide(w) /\ Wide(w)
          /\ todo'[w] = todo[w] /\ found'[w] = found[w]
        BY <1>10, AtWorker
           DEF WideBegin, WideNext, Calling, Wide, Current, Local, LabelInv, IInv, TypeOK
    <2> QED BY <1>1, <2>1
<1>11. CASE WideConnect(w)
    <2>1. PICK d \in todo[w] : /\ Advance(w, d) /\ db' = [db EXCEPT ![w] = d]
        BY <1>11 DEF WideConnect
    <2>2. /\ todo'[w] = todo[w] \ {d} /\ db'[w] = d /\ found'[w] = found[w]
          /\ Wide(w)' = Wide(w) /\ Wide(w) /\ Current(w)' = Current(w)
          /\ pc[w] = "loop" /\ pc'[w] \in {"exec", "out"}
        BY <1>11, <2>1, AtWorker
           DEF WideConnect, Advance, GiveUp, Wide, Current, Local, LabelInv, IInv, TypeOK
    <2>3. ret'[w] # SYSINFO_RET_OK
        BY <1>11, <2>2 DEF WideConnect, AnswerInv
    <2> QED BY <1>1, <2>2, <2>3
<1>12. CASE WideRows(w)
    <2>1. /\ pc[w] = "exec" /\ pc'[w] = "next" /\ Wide(w) /\ Wide(w)' = Wide(w)
          /\ found'[w] = found[w] \union {db[w]} /\ todo'[w] = todo[w]
          /\ db'[w] = db[w] /\ db[w] \in Databases
        BY <1>12, AtWorker
           DEF WideRows, Calling, Wide, Current, Local, LabelInv, IInv, TypeOK
    <2> QED BY <1>1, <2>1
<1>13. CASE WideFinish(w)
    <2>1. /\ pc[w] = "loop" /\ pc'[w] = "out" /\ todo[w] = {} /\ found'[w] = found[w]
          /\ Wide(w) /\ Wide(w)' = Wide(w) /\ Current(w)' = Current(w)
        BY <1>13, AtWorker
           DEF WideFinish, Wide, Current, Local, LabelInv, IInv, TypeOK
    <2> QED BY <1>1, <2>1 DEF Wide
<1>14. CASE WideClose(w)
    <2>1. /\ pc[w] = "out" /\ pc'[w] = "done" /\ found'[w] = found[w] /\ ret'[w] = ret[w]
          /\ Wide(w)' = Wide(w)
        BY <1>14 DEF WideClose, Wide, Current, IInv, TypeOK
    <2> QED BY <1>1, <2>1
<1> QED BY <1>2, <1>3, <1>4, <1>5, <1>6, <1>7, <1>8, <1>9, <1>10, <1>11, <1>12, <1>13,
           <1>14 DEF Work

\* When a request arrives, the databases to account for are those of this moment, and
\* its handler does not start with the walk.
LEMMA ReceiveWide ==
    ASSUME IInv, NEW w \in Workers, NEW item \in Items, Receive(w, item)
    PROVE  WideInv(w)'
<1>1. Sound(Handler(item.key, item.p))
    BY ItemsAssumption, HandlersSound
<1>2. pc'[w] = "call" /\ ~Wide(w)' /\ steady'[w] = dbs /\ dbs' = dbs
    BY <1>1 DEF Receive, Goto, serverVars, IInv, TypeOK, Sound, Wide, Current
<1> QED BY <1>2 DEF WideInv

-----------------------------------------------------------------------------
(***************************************************************************)
(* The invariant.                                                          *)
(***************************************************************************)
\* It holds before the first request.
LEMMA InitServed == Init => ServedInv
BY DEF Init, PostgresInit, ServedInv, AnswerInv, HeapInv, WideInv, NoBlocks, NoParams,
       Blocks, Live

\* Every step of the workers and the server keeps it.
LEMMA NextServed ==
    ASSUME IInv, SentInv, ServedInv, [Next]_vars
    PROVE  ServedInv'
<1> USE DEF ServedInv
<1>1. ASSUME NEW w \in Workers, Work(w) \/ \E item \in Items : Receive(w, item)
      PROVE  ServedInv'
    <2>1. AnswerInv(w)' /\ HeapInv(w)' /\ WideInv(w)'
        BY <1>1, WorkAnswer, WorkHeap, WorkWide, ReceiveWide
    <2>2. dbs' = dbs
        BY <1>1, WorkDatabases DEF Receive, serverVars
    <2>3. ASSUME NEW v \in Workers \ {w}
          PROVE  AnswerInv(v)' /\ HeapInv(v)' /\ WideInv(v)'
        <3>1. Kept(v) /\ AnswerInv(v) /\ HeapInv(v) /\ WideInv(v)
            BY <1>1, Elsewhere
        <3>2. AnswerInv(v)' /\ WideInv(v)'
            BY <2>2, <3>1 DEF Kept, Same, AnswerInv, Failed, WideInv, Wide, Current
        <3>3. HeapInv(v)'
            BY <3>1 DEF Kept, Same, HeapInv, CallHeap, RunHeap, OutHeap, WideOutHeap,
                        DoneHeap, CopiesOnly, Wide, Current
        <3> QED BY <3>2, <3>3
    <2> QED BY <2>1, <2>3
<1>2. CASE Environment
    <2> SUFFICES ASSUME NEW v \in Workers
                 PROVE  AnswerInv(v)' /\ HeapInv(v)' /\ WideInv(v)'
        OBVIOUS
    <2>1. AnswerInv(v)'
        BY <1>2 DEF Environment, requestVars, AnswerInv, Failed, Current
    <2>2. HeapInv(v)'
        BY <1>2 DEF Environment, requestVars, HeapInv, CallHeap, RunHeap, OutHeap,
                    WideOutHeap, DoneHeap, CopiesOnly, Wide, Current
    <2>3. steady'[v] = steady[v] \intersect dbs'
        BY <1>2 DEF Environment
    <2>4. WideInv(v)'
        BY <1>2, <2>3 DEF Environment, requestVars, WideInv, Wide, Current
    <2> QED BY <2>1, <2>2, <2>4
<1>3. CASE UNCHANGED vars
    BY <1>3 DEF vars, serverVars, requestVars, AnswerInv, Failed, HeapInv, CallHeap, RunHeap,
                OutHeap, WideOutHeap, DoneHeap, CopiesOnly, WideInv, Wide, Current
<1> QED BY <1>1, <1>2, <1>3 DEF Next

\* What the agent is given, what is allocated and which databases are accounted for, at
\* each label: the invariant behind the three properties below.
THEOREM ServedInvariant == Spec => []ServedInv
<1>1. IInv /\ SentInv /\ ServedInv /\ [Next]_vars => ServedInv'
    BY NextServed
<1> QED BY <1>1, InitServed, InductiveInvariant, SentInvariant, PTL DEF Spec

\* Every request is answered with one value or with one error, never with both or with
\* neither; only a setting the server does not know fails without a message.
THEOREM AnswerWellFormedAlways == Spec => []AnswerWellFormed
<1>1. IInv /\ ServedInv => AnswerWellFormed
    <2> SUFFICES ASSUME IInv, ServedInv, NEW w \in Workers, pc[w] = "done"
                 PROVE  IF ret[w] = SYSINFO_RET_OK
                        THEN answer[w] = [msgs |-> 0, values |-> 1]
                        ELSE /\ answer[w].values = 0
                             /\ \/ answer[w].msgs = 1
                                \/ answer[w].msgs = 0 /\ Calling(w, {"PG_SETTING"})
        BY DEF AnswerWellFormed
    <2>1. CASE ret[w] = SYSINFO_RET_OK
        BY <2>1 DEF ServedInv, AnswerInv, Value
    <2>2. CASE ret[w] # SYSINFO_RET_OK
        <3>1. Failed(w)
            BY <2>2 DEF ServedInv, AnswerInv, IInv, TypeOK
        <3> QED BY <2>2, <3>1, CallingIs DEF Failed, Error, Empty
    <2> QED BY <2>1, <2>2
<1> QED BY <1>1, InductiveInvariant, ServedInvariant, PTL

\* What a finished request leaves allocated: a success nothing but the copies PG_SETTING
\* and PG_STAT_ALL_INDEXES never free, a failure also parameters that no statement was
\* sent with, and the JSON buffer and the result of a deep discovery.
THEOREM LeakLedgerAlways == Spec => []LeakLedger
<1>1. IInv /\ ServedInv => LeakLedger
    BY CallingIs DEF ServedInv, HeapInv, DoneHeap, CopiesOnly, Wide, LeakLedger
<1> QED BY <1>1, InductiveInvariant, ServedInvariant, PTL

\* A deep discovery that succeeds lists every database that was connectable all along,
\* whatever databases come and go meanwhile.
THEOREM WideCompleteAlways == Spec => []WideComplete
<1>1. IInv /\ ServedInv => WideComplete
    BY CallingIs DEF ServedInv, WideInv, Wide, WideComplete
<1> QED BY <1>1, InductiveInvariant, ServedInvariant, PTL

-----------------------------------------------------------------------------
(***************************************************************************)
(* ItemService.                                                            *)
(***************************************************************************)
Serving == Labels \ {"idle", "done"}

\* A request is taken by an idle worker, and its answer delivered; in between the worker
\* is serving, until it is done.
LEMMA PhaseSteps ==
    ASSUME IInv, NEW w \in Workers, Work(w) \/ \E item \in Items : Receive(w, item)
    PROVE  \/ pc[w] = "idle" /\ pc'[w] = "call"
           \/ pc[w] = "done" /\ pc'[w] = "idle"
           \/ pc[w] \in Serving /\ pc'[w] \in Serving \union {"done"}
<1> USE DEF Serving, Labels, Goto
<1>1. CASE Deliver(w) \/ \E item \in Items : Receive(w, item)
    BY <1>1 DEF Deliver, Receive, IInv, TypeOK
<1>2. CASE RejectRequest(w) \/ ModuleVersion(w) \/ param_append(w)
    BY <1>2 DEF RejectRequest, ModuleVersion, param_append, IInv, TypeOK
<1>3. CASE Connect(w) \/ PgConnect(w)
    BY <1>3 DEF Connect, PgConnect, IInv, TypeOK
<1>4. CASE \/ QueryFails(w) \/ NoRows(w) \/ ScalarRow(w) \/ DatabaseRows(w)
           \/ DiscoveryRows(w) \/ CopiedRow(w) \/ WideRows(w)
    BY <1>4 DEF QueryFails, NoRows, ScalarRow, DatabaseRows, DiscoveryRows, CopiedRow,
                WideRows, IInv, TypeOK
<1>5. CASE Close(w)
    BY <1>5 DEF Close, IInv, TypeOK
<1>6. CASE WideBegin(w) \/ WideConnect(w) \/ WideNext(w) \/ WideFinish(w) \/ WideClose(w)
    BY <1>6 DEF WideBegin, WideConnect, GiveUp, WideNext, WideFinish, WideClose, IInv, TypeOK
<1> QED BY <1>1, <1>2, <1>3, <1>4, <1>5, <1>6 DEF Work

\* What a label says of the service.
LEMMA PhaseAt ==
    ASSUME NEW w \in Workers
    PROVE  /\ pc[w] = "idle" => PhaseOf(w) = "idle"
           /\ pc[w] = "done" => PhaseOf(w) = "answered"
           /\ pc[w] \in Serving => PhaseOf(w) = "serving"
           /\ pc[w] # "done" => OutcomeOf(w) = "none"
           /\ pc[w] = "done" => OutcomeOf(w) \in {"value", "error"}
           /\ pc'[w] = "idle" => PhaseOf(w)' = "idle"
           /\ pc'[w] = "done" => PhaseOf(w)' = "answered"
           /\ pc'[w] \in Serving => PhaseOf(w)' = "serving"
           /\ pc'[w] # "done" => OutcomeOf(w)' = "none"
           /\ pc'[w] = "done" => OutcomeOf(w)' \in {"value", "error"}
<1>1. /\ pc[w] = "idle" => PhaseOf(w) = "idle"
      /\ pc'[w] = "idle" => PhaseOf(w)' = "idle"
    BY DEF PhaseOf
<1>2. /\ pc[w] = "done" => PhaseOf(w) = "answered"
      /\ pc'[w] = "done" => PhaseOf(w)' = "answered"
    BY DEF PhaseOf
<1>3. /\ pc[w] \in Serving => PhaseOf(w) = "serving"
      /\ pc'[w] \in Serving => PhaseOf(w)' = "serving"
    BY DEF PhaseOf, Serving, Labels
<1>4. /\ pc[w] # "done" => OutcomeOf(w) = "none"
      /\ pc'[w] # "done" => OutcomeOf(w)' = "none"
    BY DEF OutcomeOf
<1>5. /\ pc[w] = "done" => OutcomeOf(w) \in {"value", "error"}
      /\ pc'[w] = "done" => OutcomeOf(w)' \in {"value", "error"}
    BY DEF OutcomeOf
<1> QED BY <1>1, <1>2, <1>3, <1>4, <1>5

\* The state of the service, from the state of the workers.
PhaseMap   == [w \in Workers |-> PhaseOf(w)]
OutcomeMap == [w \in Workers |-> OutcomeOf(w)]

\* A step of a worker is a step of the service.
LEMMA WorkServes ==
    ASSUME IInv, IInv', NEW w \in Workers,
           Work(w) \/ \E item \in Items : Receive(w, item)
    PROVE  Service!Next \/ UNCHANGED Service!serviceVars
<1>1. /\ handles \in [Workers -> Nat] /\ handles' \in [Workers -> Nat]
      /\ \A v \in Workers \ {w} : /\ PhaseOf(v)' = PhaseOf(v) /\ handles'[v] = handles[v]
                                  /\ OutcomeOf(v)' = OutcomeOf(v)
    <2>1. ASSUME NEW v \in Workers \ {w}
          PROVE  pc'[v] = pc[v] /\ ret'[v] = ret[v] /\ handles'[v] = handles[v]
        BY Elsewhere DEF Kept, Same
    <2> QED BY <2>1 DEF IInv, TypeOK, PhaseOf, OutcomeOf
<1>2. /\ PhaseMap' = [PhaseMap EXCEPT ![w] = PhaseOf(w)']
      /\ OutcomeMap' = [OutcomeMap EXCEPT ![w] = OutcomeOf(w)']
      /\ handles' = [handles EXCEPT ![w] = handles'[w]]
      /\ PhaseMap[w] = PhaseOf(w) /\ OutcomeMap[w] = OutcomeOf(w)
    BY <1>1 DEF PhaseMap, OutcomeMap
<1>3. /\ PhaseOf(w)' = PhaseOf(w) => PhaseMap' = PhaseMap
      /\ OutcomeOf(w)' = OutcomeOf(w) => OutcomeMap' = OutcomeMap
      /\ handles'[w] = handles[w] => handles' = handles
    BY <1>1 DEF PhaseMap, OutcomeMap
<1>4. /\ handles[w] \in {0, 1} /\ handles'[w] \in {0, 1}
      /\ pc[w] \in {"idle", "call", "done"} => handles[w] = 0
      /\ pc'[w] \in {"idle", "call", "done"} => handles'[w] = 0
    BY DEF IInv, ConnInv, Live
<1>5. CASE pc[w] = "idle" /\ pc'[w] = "call"
    <2>1. /\ PhaseMap[w] = "idle" /\ PhaseMap' = [PhaseMap EXCEPT ![w] = "serving"]
          /\ OutcomeMap' = OutcomeMap /\ handles' = handles
        BY <1>2, <1>3, <1>4, <1>5, PhaseAt DEF Serving, Labels
    <2>2. Service!Begin(w)
        BY <2>1 DEF Service!Begin, PhaseMap, OutcomeMap
    <2> QED BY <2>2 DEF Service!Next
<1>6. CASE pc[w] = "done" /\ pc'[w] = "idle"
    <2>1. /\ PhaseMap[w] = "answered" /\ PhaseMap' = [PhaseMap EXCEPT ![w] = "idle"]
          /\ OutcomeMap' = [OutcomeMap EXCEPT ![w] = "none"] /\ handles' = handles
        BY <1>2, <1>3, <1>4, <1>6, PhaseAt
    <2>2. Service!Forget(w)
        BY <2>1 DEF Service!Forget, PhaseMap, OutcomeMap
    <2> QED BY <2>2 DEF Service!Next
<1>7. CASE pc[w] \in Serving /\ pc'[w] = "done"
    <2>1. /\ PhaseMap[w] = "serving" /\ PhaseMap' = [PhaseMap EXCEPT ![w] = "answered"]
          /\ handles' = [handles EXCEPT ![w] = 0]
          /\ \E result \in {"value", "error"} :
                OutcomeMap' = [OutcomeMap EXCEPT ![w] = result]
        BY <1>2, <1>4, <1>7, PhaseAt
    <2>2. Service!Answer(w)
        BY <2>1 DEF Service!Answer, PhaseMap, OutcomeMap
    <2> QED BY <2>2 DEF Service!Next
<1>8. CASE pc[w] \in Serving /\ pc'[w] \in Serving
    <2>1. /\ PhaseMap[w] = "serving" /\ PhaseMap' = PhaseMap /\ OutcomeMap' = OutcomeMap
        BY <1>2, <1>3, <1>8, PhaseAt DEF Serving
    <2>2. CASE handles[w] = handles'[w]
        BY <1>3, <2>1, <2>2 DEF Service!serviceVars, PhaseMap, OutcomeMap
    <2>3. CASE handles[w] = 0 /\ handles'[w] = 1
        <3>1. Service!Open(w)
            BY <1>2, <2>1, <2>3 DEF Service!Open, PhaseMap, OutcomeMap
        <3> QED BY <3>1 DEF Service!Next
    <2>4. CASE handles[w] = 1 /\ handles'[w] = 0
        <3>1. Service!Release(w)
            BY <1>2, <2>1, <2>4 DEF Service!Release, PhaseMap, OutcomeMap
        <3> QED BY <3>1 DEF Service!Next
    <2> QED BY <1>4, <2>2, <2>3, <2>4
<1> QED BY <1>5, <1>6, <1>7, <1>8, PhaseSteps

\* Each worker serves one request at a time with one connection at a time, and gives one
\* answer, with every connection closed: the workers implement ItemService, but for the
\* fairness of its specification.
THEOREM ImplementsItemService == Spec => Service!Spec
<1>1. Init => Service!Init
    <2> SUFFICES ASSUME Init PROVE Service!Init
        OBVIOUS
    <2>1. \A w \in Workers : PhaseOf(w) = "idle" /\ OutcomeOf(w) = "none"
        BY PhaseAt DEF Init
    <2> QED BY <2>1 DEF Init, Service!Init
<1>2. IInv /\ IInv' /\ [Next]_vars => [Service!Next]_Service!serviceVars
    <2> SUFFICES ASSUME IInv, IInv', [Next]_vars
                 PROVE  Service!Next \/ UNCHANGED Service!serviceVars
        OBVIOUS
    <2>1. CASE Environment \/ UNCHANGED vars
        BY <2>1 DEF Environment, requestVars, vars, Service!serviceVars, PhaseOf, OutcomeOf
    <2> QED BY <2>1, WorkServes DEF Next
<1> QED BY <1>1, <1>2, InductiveInvariant, PTL DEF Spec, Service!Spec

-----------------------------------------------------------------------------
(***************************************************************************)
(* DatabaseWalk.                                                           *)
(***************************************************************************)
DeepCalls == {"pg_get_discovery_wide"}

\* Where worker w is in the walk of its deep discovery, if it has one; and where a step
\* takes it.
At(w, phase, left, current) ==
    WalkPhaseOf(w) = phase /\ TodoOf(w) = left /\ CurrentOf(w) = current
To(w, phase, left, current) ==
    WalkPhaseOf(w)' = phase /\ TodoOf(w)' = left /\ CurrentOf(w)' = current

WalkState(w) ==
    /\ ~Calling(w, DeepCalls) \/ pc[w] = "call" => At(w, "listing", {}, NoDb)
    /\ Calling(w, DeepCalls) /\ pc[w] = "loop" => At(w, "walking", todo[w], NoDb)
    /\ Calling(w, DeepCalls) /\ pc[w] \in {"exec", "next"} =>
          At(w, "walking", todo[w], db[w])
    /\ Calling(w, DeepCalls) /\ pc[w] \in {"out", "done"} /\ ret[w] = SYSINFO_RET_OK =>
          At(w, "complete", {}, NoDb)
    /\ Calling(w, DeepCalls) /\ pc[w] \in {"out", "done"} /\ ret[w] # SYSINFO_RET_OK =>
          At(w, "failed", {}, NoDb)

\* What a label says of the walk.
LEMMA WalkAt == \A w \in Workers : WalkState(w) /\ WalkState(w)'
BY DEF WalkState, At, WalkPhaseOf, TodoOf, CurrentOf, DeepCalls

\* The step of the walk that a step of worker w is.
WalkStep(w) ==
    \/ To(w, WalkPhaseOf(w), TodoOf(w), CurrentOf(w))
    \/ /\ At(w, "listing", {}, NoDb)
       /\ \E list \in (SUBSET Databases) \ {{}} : To(w, "walking", list, NoDb)
    \/ /\ At(w, "walking", TodoOf(w), NoDb)
       /\ \E d \in TodoOf(w) : To(w, "walking", TodoOf(w) \ {d}, d)
    \/ \E d \in Databases :
          At(w, "walking", TodoOf(w), d) /\ To(w, "walking", TodoOf(w), NoDb)
    \/ At(w, "walking", {}, NoDb) /\ To(w, "complete", {}, NoDb)
    \/ WalkPhaseOf(w) \in {"listing", "walking"} /\ To(w, "failed", {}, NoDb)
    \/ /\ At(w, "complete", {}, NoDb) \/ At(w, "failed", {}, NoDb)
       /\ To(w, "listing", {}, NoDb)

\* A step of a worker is a step of its walk.
LEMMA WorkWalks ==
    ASSUME IInv, ServedInv, NEW w \in Workers,
           Work(w) \/ \E item \in Items : Receive(w, item)
    PROVE  WalkStep(w)
<1> USE DEF Goto, Return
<1>1. WalkState(w) /\ WalkState(w)'
    BY WalkAt
<1>2. WideInv(w) /\ AnswerInv(w) /\ todo[w] \subseteq Databases
    BY DEF ServedInv, IInv, TypeOK
<1>3. pc[w] # "idle" => (Calling(w, DeepCalls) <=> Wide(w))
    BY CallingIs DEF DeepCalls, Wide
<1>4. script'[w] = script[w] => (Calling(w, DeepCalls)' <=> Calling(w, DeepCalls))
    BY DEF Calling, Current
<1> DEFINE Outside == ~Calling(w, DeepCalls) \/ pc[w] = "call"
<1>5. Outside /\ Outside' => WalkStep(w)
    BY <1>1 DEF WalkState, At, To, WalkStep
<1>6. CASE \E item \in Items : Receive(w, item)
    <2>1. pc[w] = "idle" /\ pc'[w] = "call"
        BY <1>6 DEF Receive, IInv, TypeOK
    <2> QED BY <1>2, <1>5, <2>1 DEF WideInv, Calling
<1>7. CASE Deliver(w)
    <2>1. pc[w] = "done" /\ ~Calling(w, DeepCalls)'
        BY <1>7 DEF Deliver, Calling, IInv, TypeOK
    <2> QED BY <1>1, <1>5, <2>1 DEF WalkState, At, To, WalkStep
<1>8. CASE \/ RejectRequest(w) \/ ModuleVersion(w) \/ Connect(w) \/ PgConnect(w)
           \/ NoRows(w) \/ ScalarRow(w) \/ DatabaseRows(w) \/ DiscoveryRows(w) \/ CopiedRow(w)
    <2>1. script'[w] = script[w]
        BY <1>8 DEF RejectRequest, ModuleVersion, Connect, PgConnect, NoRows, ScalarRow,
                    DatabaseRows, DiscoveryRows, CopiedRow
    <2>2. ~Calling(w, DeepCalls)
        BY <1>8 DEF RejectRequest, ModuleVersion, Connect, PgConnect, NoRows, ScalarRow,
                    DatabaseRows, DiscoveryRows, CopiedRow, Calling, DeepCalls, PgCalls,
                    SelfConnecting
    <2> QED BY <1>4, <1>5, <2>1, <2>2
<1>9. CASE param_append(w)
    <2>1. pc[w] = "call" /\ pc'[w] = "call"
        BY <1>9 DEF param_append
    <2> QED BY <1>5, <2>1
<1>10. CASE Close(w)
    <2>1. ~Calling(w, DeepCalls)
        BY <1>10 DEF Close, Calling, DeepCalls, PgCalls
    <2>2. pc'[w] = "call" \/ script'[w] = script[w]
        BY <1>10 DEF Close, IInv, TypeOK
    <2> QED BY <1>4, <1>5, <2>1, <2>2
<1>11. CASE QueryFails(w)
    <2>1. /\ pc[w] = "exec" /\ pc'[w] = "out" /\ ret'[w] # SYSINFO_RET_OK
          /\ script'[w] = script[w]
        BY <1>11 DEF QueryFails, set_err_result, IInv, TypeOK, SYSINFO_RET_OK,
                     SYSINFO_RET_FAIL
    <2> QED BY <1>1, <1>4, <1>5, <2>1 DEF WalkState, At, To, WalkStep
<1>12. CASE WideBegin(w)
    <2>1. /\ pc[w] = "call" /\ pc'[w] = "loop" /\ todo'[w] = todo[w] /\ script'[w] = script[w]
          /\ Calling(w, DeepCalls)
        BY <1>12 DEF WideBegin, DeepCalls, IInv, TypeOK
    <2>2. todo[w] \in (SUBSET Databases) \ {{}}
        BY <1>2, <1>3, <2>1 DEF WideInv
    <2>3. At(w, "listing", {}, NoDb) /\ To(w, "walking", todo[w], NoDb)
        BY <1>1, <1>4, <2>1 DEF WalkState, At, To
    <2> QED BY <2>2, <2>3 DEF WalkStep
<1>13. CASE WideConnect(w)
    <2>1. PICK d \in todo[w] : Advance(w, d) /\ db' = [db EXCEPT ![w] = d]
        BY <1>13 DEF WideConnect
    <2>2. /\ pc[w] = "loop" /\ script'[w] = script[w] /\ ret'[w] = ret[w]
          /\ todo'[w] = todo[w] \ {d} /\ db'[w] = d /\ pc'[w] \in {"exec", "out"}
        BY <1>13, <2>1 DEF WideConnect, Advance, GiveUp, IInv, TypeOK
    <2>3. Calling(w, DeepCalls) /\ ret[w] # SYSINFO_RET_OK
        BY <1>2, <1>3, <2>2, AtWorker
           DEF AnswerInv, Local, LabelInv, Wide, SYSINFO_RET_OK, SYSINFO_RET_FAIL
    <2>4. At(w, "walking", todo[w], NoDb)
        BY <1>1, <2>2, <2>3 DEF WalkState
    <2>5. CASE pc'[w] = "exec"
        <3>1. To(w, "walking", todo[w] \ {d}, d)
            BY <1>1, <1>4, <2>2, <2>3, <2>5 DEF WalkState, At, To
        <3> QED BY <2>4, <3>1 DEF WalkStep, At
    <2>6. CASE pc'[w] = "out"
        <3>1. To(w, "failed", {}, NoDb)
            BY <1>1, <1>4, <2>2, <2>3, <2>6 DEF WalkState, At, To
        <3> QED BY <2>4, <3>1 DEF WalkStep, At
    <2> QED BY <2>2, <2>5, <2>6
<1>14. CASE WideRows(w)
    <2>1. /\ pc[w] = "exec" /\ pc'[w] = "next" /\ todo'[w] = todo[w] /\ db'[w] = db[w]
          /\ script'[w] = script[w] /\ Calling(w, DeepCalls)
        BY <1>14 DEF WideRows, DeepCalls, IInv, TypeOK
    <2>2. At(w, "walking", todo[w], db[w]) /\ To(w, "walking", todo[w], db[w])
        BY <1>1, <1>4, <2>1 DEF WalkState, At, To
    <2> QED BY <2>2 DEF WalkStep, At
<1>15. CASE WideNext(w)
    <2>1. /\ pc[w] = "next" /\ pc'[w] = "loop" /\ todo'[w] = todo[w]
          /\ script'[w] = script[w]
        BY <1>15 DEF WideNext, IInv, TypeOK
    <2>2. Calling(w, DeepCalls) /\ db[w] \in Databases
        BY <1>2, <1>3, <2>1, AtWorker DEF WideInv, Local, LabelInv, Wide
    <2>3. At(w, "walking", todo[w], db[w]) /\ To(w, "walking", todo[w], NoDb)
        BY <1>1, <1>4, <2>1, <2>2 DEF WalkState, At, To
    <2> QED BY <2>2, <2>3 DEF WalkStep, At
<1>16. CASE WideFinish(w)
    <2>1. /\ pc[w] = "loop" /\ todo[w] = {} /\ pc'[w] = "out" /\ ret'[w] = SYSINFO_RET_OK
          /\ script'[w] = script[w]
        BY <1>16 DEF WideFinish, IInv, TypeOK
    <2>2. Calling(w, DeepCalls)
        BY <1>3, <2>1, AtWorker DEF Local, LabelInv, Wide
    <2>3. At(w, "walking", {}, NoDb) /\ To(w, "complete", {}, NoDb)
        BY <1>1, <1>4, <2>1, <2>2 DEF WalkState, At, To
    <2> QED BY <2>3 DEF WalkStep
<1>17. CASE WideClose(w)
    <2>1. /\ pc[w] = "out" /\ pc'[w] = "done" /\ ret'[w] = ret[w] /\ script'[w] = script[w]
        BY <1>17 DEF WideClose, IInv, TypeOK
    <2> QED BY <1>1, <1>4, <1>5, <2>1 DEF WalkState, At, To, WalkStep
<1> QED BY <1>6, <1>7, <1>8, <1>9, <1>10, <1>11, <1>12, <1>13, <1>14, <1>15, <1>16,
           <1>17 DEF Work

\* The state of the walks, from the state of the workers.
WalkMap    == [w \in Workers |-> WalkPhaseOf(w)]
TodoMap    == [w \in Workers |-> TodoOf(w)]
CurrentMap == [w \in Workers |-> CurrentOf(w)]

\* A step of one worker's walk is a step of the walks.
LEMMA WalkLifts ==
    ASSUME NEW w \in Workers, WalkStep(w),
           \A v \in Workers \ {w} : To(v, WalkPhaseOf(v), TodoOf(v), CurrentOf(v))
    PROVE  Walk!Next \/ UNCHANGED Walk!walkVars
<1> USE DEF WalkMap, TodoMap, CurrentMap
<1>1. ASSUME NEW phase, NEW left, NEW current, To(w, phase, left, current)
      PROVE  /\ WalkMap' = [WalkMap EXCEPT ![w] = phase]
             /\ TodoMap' = [TodoMap EXCEPT ![w] = left]
             /\ CurrentMap' = [CurrentMap EXCEPT ![w] = current]
             /\ phase = WalkPhaseOf(w) => WalkMap' = WalkMap
             /\ left = TodoOf(w) => TodoMap' = TodoMap
             /\ current = CurrentOf(w) => CurrentMap' = CurrentMap
    BY <1>1 DEF To
<1>2. WalkMap[w] = WalkPhaseOf(w) /\ TodoMap[w] = TodoOf(w) /\ CurrentMap[w] = CurrentOf(w)
    OBVIOUS
<1>3. CASE To(w, WalkPhaseOf(w), TodoOf(w), CurrentOf(w))
    BY <1>1, <1>3 DEF Walk!walkVars
<1>4. CASE /\ At(w, "listing", {}, NoDb)
           /\ \E list \in (SUBSET Databases) \ {{}} : To(w, "walking", list, NoDb)
    <2>1. Walk!List(w)
        BY <1>1, <1>2, <1>4 DEF Walk!List, At
    <2> QED BY <2>1 DEF Walk!Next
<1>5. CASE /\ At(w, "walking", TodoOf(w), NoDb)
           /\ \E d \in TodoOf(w) : To(w, "walking", TodoOf(w) \ {d}, d)
    <2>1. PICK d \in TodoOf(w) : To(w, "walking", TodoOf(w) \ {d}, d)
        BY <1>5
    <2>2. WalkMap[w] = "walking" /\ CurrentMap[w] = NoDb /\ TodoMap[w] = TodoOf(w)
        BY <1>2, <1>5 DEF At
    <2>3. /\ CurrentMap' = [CurrentMap EXCEPT ![w] = d]
          /\ TodoMap' = [TodoMap EXCEPT ![w] = TodoOf(w) \ {d}]
          /\ WalkMap' = WalkMap
        BY <1>1, <1>2, <2>1, <2>2
    <2>4. Walk!Visit(w)
        BY <2>2, <2>3 DEF Walk!Visit
    <2> QED BY <2>4 DEF Walk!Next, Walk!Step
<1>6. CASE \E d \in Databases :
              At(w, "walking", TodoOf(w), d) /\ To(w, "walking", TodoOf(w), NoDb)
    <2>1. Walk!Leave(w)
        BY <1>1, <1>2, <1>6, NoDbAssumption DEF Walk!Leave, At
    <2> QED BY <2>1 DEF Walk!Next, Walk!Step
<1>7. CASE At(w, "walking", {}, NoDb) /\ To(w, "complete", {}, NoDb)
    <2>1. Walk!Complete(w)
        BY <1>1, <1>2, <1>7 DEF Walk!Complete, At
    <2> QED BY <2>1 DEF Walk!Next, Walk!Step
<1>8. CASE WalkPhaseOf(w) \in {"listing", "walking"} /\ To(w, "failed", {}, NoDb)
    <2>1. Walk!Fail(w)
        BY <1>1, <1>2, <1>8 DEF Walk!Fail
    <2> QED BY <2>1 DEF Walk!Next
<1>9. CASE /\ At(w, "complete", {}, NoDb) \/ At(w, "failed", {}, NoDb)
           /\ To(w, "listing", {}, NoDb)
    <2>1. Walk!Again(w)
        BY <1>1, <1>2, <1>9 DEF Walk!Again, At
    <2> QED BY <2>1 DEF Walk!Next
<1> QED BY <1>3, <1>4, <1>5, <1>6, <1>7, <1>8, <1>9 DEF WalkStep

\* Each deep discovery visits the databases of the list it was given one at a time and
\* each of them once, and succeeds only when none is left: the workers implement
\* DatabaseWalk, but for the fairness of its specification.
THEOREM ImplementsDatabaseWalk == Spec => Walk!Spec
<1>1. Init => Walk!Init
    <2> SUFFICES ASSUME Init PROVE Walk!Init
        OBVIOUS
    <2>1. \A w \in Workers : At(w, "listing", {}, NoDb)
        BY WalkAt DEF Init, Calling, WalkState
    <2> QED BY <2>1 DEF Walk!Init, At
<1>2. IInv /\ ServedInv /\ [Next]_vars => [Walk!Next]_Walk!walkVars
    <2> SUFFICES ASSUME IInv, ServedInv, [Next]_vars
                 PROVE  Walk!Next \/ UNCHANGED Walk!walkVars
        OBVIOUS
    <2>1. ASSUME NEW w \in Workers, Work(w) \/ \E item \in Items : Receive(w, item)
          PROVE  Walk!Next \/ UNCHANGED Walk!walkVars
        <3>1. ASSUME NEW v \in Workers \ {w}
              PROVE  To(v, WalkPhaseOf(v), TodoOf(v), CurrentOf(v))
            <4>1. /\ pc'[v] = pc[v] /\ script'[v] = script[v] /\ ret'[v] = ret[v]
                  /\ todo'[v] = todo[v] /\ db'[v] = db[v]
                BY <2>1, Elsewhere DEF Kept, Same
            <4> QED BY <4>1 DEF To, WalkPhaseOf, TodoOf, CurrentOf, Calling, Current
        <3> QED BY <2>1, <3>1, WorkWalks, WalkLifts
    <2>2. CASE Environment \/ UNCHANGED vars
        BY <2>2 DEF Environment, requestVars, vars, Walk!walkVars, WalkPhaseOf, TodoOf,
                    CurrentOf, Calling, Current
    <2> QED BY <2>1, <2>2 DEF Next
<1> QED BY <1>1, <1>2, InductiveInvariant, ServedInvariant, PTL DEF Spec, Walk!Spec

=============================================================================

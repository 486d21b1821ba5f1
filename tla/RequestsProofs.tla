--------------------------- MODULE RequestsProofs ---------------------------
(***************************************************************************)
(* The workers, for every number of them, every set of databases, versions *)
(* and requests, and every max_connections. First IInv, and with it        *)
(* TypeOK, OneConnection and PointersSafe. Then what the workers send the  *)
(* server, and what the server's counts tell them: every statement carries *)
(* as many parameters as its text has placeholders, its text parses on the *)
(* version the handler asked for, and a count of backends is right however *)
(* the other workers come and go.                                          *)
(***************************************************************************)
EXTENDS Requests, ItemKeysProofs

-----------------------------------------------------------------------------
(***************************************************************************)
(* Scripts as the workers run through them.                                *)
(***************************************************************************)
\* The rest of a script after a step that leads to another one.
LEMMA RestOfScript ==
    ASSUME NEW s \in Seq(Steps), WellFormed(s), Head(s).call \in Leading
    PROVE  /\ Tail(s) \in Seq(Steps) /\ WellFormed(Tail(s))
           /\ Deep(Tail(s)) => Deep(s)
<1>1. s # <<>> /\ Len(s) \in Nat /\ Head(s) = s[1] /\ 1 \in DOMAIN s
    BY DEF WellFormed
<1>2. 1 < Len(s)
    BY <1>1 DEF WellFormed, Leading
<1>3. /\ Tail(s) \in Seq(Steps) /\ Len(Tail(s)) = Len(s) - 1
      /\ \A i \in 1 .. Len(s) - 1 : Tail(s)[i] = s[i + 1]
    BY <1>1
<1>4. \A i \in DOMAIN Tail(s) : i \in 1 .. Len(s) - 1 /\ i + 1 \in DOMAIN s
    BY <1>2, <1>3
<1>5. Deep(Tail(s)) => Deep(s)
    BY <1>3, <1>4 DEF Deep
<1>6. Tail(s) # <<>>
    <2>1. Len(Tail(s)) # 0
        BY <1>1, <1>2, <1>3
    <2>2. Len(<<>>) = 0
        OBVIOUS
    <2> QED BY <2>1, <2>2
<1>7. ASSUME NEW i \in DOMAIN Tail(s), Tail(s)[i].call \in Leading
      PROVE  i < Len(Tail(s))
    <2>1. i + 1 \in DOMAIN s /\ s[i + 1].call \in Leading /\ i \in Nat
        BY <1>3, <1>4, <1>7
    <2>2. i + 1 < Len(s)
        BY <2>1 DEF WellFormed, Leading
    <2> QED BY <1>1, <1>3, <2>1, <2>2
<1>8. \A i \in DOMAIN Tail(s) : Tail(s)[i].call = "pg_version" => Tail(s)[i] = pg_version
    BY <1>3, <1>4 DEF WellFormed
<1>9. Deep(Tail(s)) => \A i \in DOMAIN Tail(s) : Tail(s)[i].call # "param_append"
    BY <1>3, <1>4, <1>5 DEF WellFormed
<1> QED BY <1>3, <1>5, <1>6, <1>7, <1>8, <1>9 DEF WellFormed, Leading

\* The step being run is one, and tells whether the script is a deep discovery's.
LEMMA CurrentStep ==
    ASSUME NEW s \in Seq(Steps), WellFormed(s)
    PROVE  /\ s # <<>> /\ Head(s) \in Steps
           /\ Head(s).call = "pg_get_discovery_wide" => Deep(s)
           /\ Deep(s) => Head(s).call # "param_append"
           /\ Head(s).call = "pg_version" => Head(s) = pg_version
<1>1. s # <<>> /\ Head(s) = s[1] /\ 1 \in DOMAIN s /\ s[1] \in Steps
    BY DEF WellFormed
<1> QED BY <1>1 DEF WellFormed, Deep

-----------------------------------------------------------------------------
(***************************************************************************)
(* Blocks.                                                                 *)
(***************************************************************************)
LEMMA LiveType == \A x : Live(x) \in {0, 1} /\ (Live(x) = 1 <=> x = "live")
BY DEF Live

\* Allocating keeps the counts of blocks natural numbers, and takes no block away.
LEMMA MallocHeap ==
    ASSUME NEW h \in [Blocks -> Nat], NEW b \in Blocks, NEW n \in Nat
    PROVE  /\ Malloc(h, b, n) \in [Blocks -> Nat]
           /\ \A c \in Blocks : Malloc(h, b, n)[c] = IF c = b THEN h[c] + n ELSE h[c]
BY DEF Malloc

\* Freeing what is allocated keeps the counts of blocks natural numbers.
LEMMA FreeHeap ==
    ASSUME NEW h \in [Blocks -> Nat], NEW b \in Blocks, NEW n \in Nat, n <= h[b]
    PROVE  /\ Free(h, b, n) \in [Blocks -> Nat]
           /\ \A c \in Blocks : Free(h, b, n)[c] = IF c = b THEN h[c] - n ELSE h[c]
BY DEF Free

\* zbx_free, which accepts NULL, keeps the counts of blocks natural numbers.
LEMMA zbx_freeHeap ==
    ASSUME NEW h \in [Blocks -> Nat], NEW b \in Blocks
    PROVE  /\ zbx_free(h, b) \in [Blocks -> Nat]
           /\ \A c \in Blocks \ {b} : zbx_free(h, b)[c] = h[c]
BY FreeHeap DEF zbx_free, Free

-----------------------------------------------------------------------------
(***************************************************************************)
(* A step of one worker leaves the others alone.                           *)
(***************************************************************************)
Local(v) == LabelInv(v) /\ ConnInv(v) /\ ParamsInv(v) /\ BlocksInv(v)

Same(v) ==
    /\ pc'[v] = pc[v] /\ script'[v] = script[v] /\ ret'[v] = ret[v] /\ reply'[v] = reply[v]
    /\ conn'[v] = conn[v] /\ res'[v] = res[v] /\ params'[v] = params[v]
    /\ handles'[v] = handles[v] /\ heap'[v] = heap[v] /\ sessions'[v] = sessions[v]
    /\ db'[v] = db[v]

\* A worker none of whose variables a step changes keeps its part of the invariant.
LEMMA Untouched ==
    ASSUME NEW v \in Workers, Local(v), Same(v)
    PROVE  Local(v)'
BY DEF Local, Same, LabelInv, ConnInv, ParamsInv, BlocksInv, Current

\* A step that changes worker w's variables only has to re-establish w's part.
LEMMA OneWorkerSteps ==
    ASSUME IInv, TypeOK', NEW w \in Workers, Local(w)',
           \A v \in Workers \ {w} : Same(v)
    PROVE  IInv'
<1>1. \A v \in Workers : Local(v)'
    BY Untouched DEF IInv, Local
<1> QED BY <1>1 DEF IInv, Local

-----------------------------------------------------------------------------
\* The invariant holds before the first request.
LEMMA InitIInv == Init => IInv
<1> SUFFICES ASSUME Init PROVE IInv
    OBVIOUS
<1>1. TypeOK
    BY PostgresAssumption
       DEF Init, PostgresInit, TypeOK, PostgresTypeOK, Labels, Pointers, NoParams, NoBlocks,
           Empty, SYSINFO_RET_OK, SYSINFO_RET_FAIL
<1>2. \A w \in Workers : LabelInv(w) /\ ConnInv(w) /\ ParamsInv(w) /\ BlocksInv(w)
    BY DEF Init, PostgresInit, LabelInv, ConnInv, ParamsInv, BlocksInv, NoParams, NoBlocks,
           Live, Blocks
<1> QED BY <1>1, <1>2 DEF IInv

\* A request handed to an idle worker keeps the invariant: its script is well formed.
LEMMA ReceiveStep ==
    ASSUME IInv, NEW w \in Workers, NEW item \in Items, Receive(w, item)
    PROVE  IInv'
<1>1. Handler(item.key, item.p) \in Seq(Steps) /\ WellFormed(Handler(item.key, item.p))
    BY ItemsAssumption, HandlersWellFormed
<1>2. TypeOK'
    BY <1>1, SMTT(30) DEF IInv, TypeOK, PostgresTypeOK, serverVars, Receive, Goto, Return, Labels,
                Pointers, NoParams, NoBlocks, Empty, SYSINFO_RET_OK, SYSINFO_RET_FAIL
<1>3. \A v \in Workers \ {w} : Same(v)
    BY DEF IInv, TypeOK, Same, serverVars, Receive, Goto, Return
<1>4. Local(w)'
    BY <1>1 DEF IInv, TypeOK, Receive, Goto, Return, Local, LabelInv, ConnInv, ParamsInv,
                BlocksInv, NoParams, NoBlocks, Blocks, serverVars, Current
<1> QED BY <1>2, <1>3, <1>4, OneWorkerSteps

\* An answer taken by the agent keeps the invariant.
LEMMA DeliverStep ==
    ASSUME IInv, NEW w \in Workers, Deliver(w)
    PROVE  IInv'
<1>1. TypeOK'
    BY DEF IInv, TypeOK, PostgresTypeOK, serverVars, Deliver, Goto, Labels
<1>2. \A v \in Workers \ {w} : Same(v)
    BY DEF IInv, TypeOK, Same, serverVars, Deliver, Goto
<1>3. Local(w)'
    BY DEF IInv, TypeOK, serverVars, Deliver, Goto, Local, LabelInv, ConnInv, ParamsInv,
           BlocksInv, Current
<1> QED BY <1>1, <1>2, <1>3, OneWorkerSteps

-----------------------------------------------------------------------------
(***************************************************************************)
(* Steps that need no server.                                              *)
(***************************************************************************)
\* What the invariant says of the worker that takes the step.
LEMMA AtWorker ==
    ASSUME IInv, NEW w \in Workers
    PROVE  /\ Local(w)
           /\ script[w] \in Seq(Steps) /\ heap[w] \in [Blocks -> Nat]
           /\ handles[w] \in Nat /\ sessions[w] \in Nat
           /\ params[w] \in [ptr: Pointers, n: Nat]
           /\ pc[w] # "idle" =>
                 /\ WellFormed(script[w]) /\ script[w] # <<>> /\ Current(w) \in Steps
                 /\ Current(w).call = "pg_get_discovery_wide" => Deep(script[w])
                 /\ Deep(script[w]) => Current(w).call # "param_append"
                 /\ Current(w).call = "pg_version" => Current(w) = pg_version
BY CurrentStep DEF IInv, TypeOK, PostgresTypeOK, Local, LabelInv, Current

\* The agent's result stays one.
LEMMA AnswerType ==
    ASSUME TypeOK, NEW w \in Workers, Message(w) \/ SetResult(w)
    PROVE  answer' \in [Workers -> [msgs: Nat, values: Nat]]
<1>1. /\ answer \in [Workers -> [msgs: Nat, values: Nat]]
      /\ answer[w].msgs + 1 \in Nat /\ answer[w].values + 1 \in Nat
    BY DEF TypeOK
<1>2. CASE Message(w)
    BY <1>1, <1>2 DEF Message
<1>3. CASE SetResult(w)
    BY <1>1, <1>3 DEF SetResult
<1> QED BY <1>2, <1>3

\* A handler that refuses its parameters keeps the invariant.
LEMMA RejectRequestStep ==
    ASSUME IInv, NEW w \in Workers, RejectRequest(w)
    PROVE  IInv'
<1> USE DEF RejectRequest, set_err_result, Return, Goto, serverVars
<1>1. TypeOK'
    BY AnswerType DEF IInv, TypeOK, PostgresTypeOK, Labels, SYSINFO_RET_FAIL
<1>2. \A v \in Workers \ {w} : Same(v)
    BY DEF IInv, TypeOK, Same
<1>3. Local(w)'
    BY DEF IInv, TypeOK, Local, LabelInv, ConnInv, ParamsInv, BlocksInv, Current
<1> QED BY <1>1, <1>2, <1>3, OneWorkerSteps

\* MODVER keeps the invariant.
LEMMA ModuleVersionStep ==
    ASSUME IInv, NEW w \in Workers, ModuleVersion(w)
    PROVE  IInv'
<1> USE DEF ModuleVersion, Return, Goto, serverVars
<1>1. TypeOK'
    BY AnswerType DEF IInv, TypeOK, PostgresTypeOK, Labels, SYSINFO_RET_OK
<1>2. \A v \in Workers \ {w} : Same(v)
    BY DEF IInv, TypeOK, Same
<1>3. Local(w)'
    BY DEF IInv, TypeOK, Local, LabelInv, ConnInv, ParamsInv, BlocksInv, Current
<1> QED BY <1>1, <1>2, <1>3, OneWorkerSteps

\* param_append keeps the invariant: a pointer that is not NULL has its array.
LEMMA param_appendStep ==
    ASSUME IInv, NEW w \in Workers, param_append(w)
    PROVE  IInv'
<1> USE DEF param_append, NextStep, serverVars
<1> DEFINE n == Current(w).n
           m == 1 - Live(params[w].ptr)
           h == Malloc(heap[w], "params", m)
<1>1. /\ pc[w] = "call" /\ Current(w).call = "param_append" /\ n \in Nat /\ m \in Nat
      /\ m = 1 <=> params[w].ptr # "live"
    BY AtWorker, LiveType DEF Calling, Steps
<1>2. /\ ~Deep(script[w]) /\ ~Deep(script'[w])
      /\ script'[w] \in Seq(Steps) /\ WellFormed(script'[w])
    BY <1>1, AtWorker, RestOfScript DEF IInv, TypeOK, Leading, Current
<1>3. /\ h \in [Blocks -> Nat]
      /\ \A c \in Blocks : h[c] = IF c = "params" THEN heap[w][c] + m ELSE heap[w][c]
    <2>1. heap[w] \in [Blocks -> Nat] /\ "params" \in Blocks
        BY AtWorker DEF Blocks
    <2>2. m \in Nat
        BY <1>1
    <2> HIDE DEF m
    <2> QED BY <2>1, <2>2, MallocHeap
<1>4. /\ heap'[w] \in [Blocks -> Nat] /\ params'[w] \in [ptr: Pointers, n: Nat]
      /\ \A c \in Blocks \ {"params"} : heap'[w][c] = heap[w][c]
      /\ params'[w].ptr = "live" => heap'[w]["params"] > 0
      /\ params'[w].ptr # "dangling"
    <2>1. CASE n = 0
        BY <1>1, <2>1, AtWorker DEF Local, ParamsInv
    <2>2. CASE n # 0
        <3>1. heap'[w] = h /\ params'[w] = [ptr |-> "live", n |-> params[w].n + n]
            BY <2>2 DEF IInv, TypeOK
        <3>2. h["params"] > 0
            BY <1>1, <1>3, AtWorker DEF Local, ParamsInv, Blocks
        <3> QED BY <1>1, <1>3, <3>1, <3>2, AtWorker DEF Pointers
    <2> QED BY <2>1, <2>2
<1>5. TypeOK'
    <2>1. heap' \in [Workers -> [Blocks -> Nat]] /\ params' \in [Workers -> [ptr: Pointers, n: Nat]]
        BY <1>4 DEF IInv, TypeOK
    <2>2. script' \in [Workers -> Seq(Steps)]
        BY <1>2 DEF IInv, TypeOK
    <2> QED BY <2>1, <2>2 DEF IInv, TypeOK, PostgresTypeOK
<1>6. \A v \in Workers \ {w} : Same(v)
    BY DEF IInv, TypeOK, Same
<1>7. Local(w)'
    <2>1. LabelInv(w)' /\ ConnInv(w)'
        BY <1>1, <1>2, AtWorker DEF Local, LabelInv, ConnInv
    <2>2. ParamsInv(w)'
        BY <1>2, <1>4 DEF ParamsInv
    <2>3. BlocksInv(w)'
        BY <1>1, <1>4, AtWorker DEF Local, BlocksInv, Blocks
    <2> QED BY <2>1, <2>2, <2>3 DEF Local
<1> QED BY <1>5, <1>6, <1>7, OneWorkerSteps

-----------------------------------------------------------------------------
(***************************************************************************)
(* Connecting.                                                             *)
(***************************************************************************)
LEMMA Connected ==
    ASSUME IInv, NEW w \in Workers, pg_connect_ok(w), conn[w] = "NULL"
    PROVE  /\ PostgresTypeOK'
           /\ conn' \in [Workers -> Pointers] /\ handles' \in [Workers -> Nat]
           /\ conn'[w] = "live" /\ handles'[w] = 1 /\ sessions'[w] <= 1
           /\ \A v \in Workers \ {w} : /\ conn'[v] = conn[v] /\ handles'[v] = handles[v]
                                       /\ sessions'[v] = sessions[v]
<1>1. handles[w] = 0 /\ sessions[w] = 0
    BY AtWorker DEF Local, ConnInv, Live
<1>2. PostgresTypeOK' /\ sessions'[w] = 1
    BY <1>1 DEF IInv, TypeOK, PostgresTypeOK, pg_connect_ok, Accept
<1> QED BY <1>1, <1>2 DEF IInv, TypeOK, PostgresTypeOK, pg_connect_ok, Accept, Pointers

\* A failed pg_connect leaves no connection behind.
LEMMA NotConnected ==
    ASSUME IInv, NEW w \in Workers, pg_connect_fails(w), conn[w] = "NULL"
    PROVE  /\ PostgresTypeOK'
           /\ conn' \in [Workers -> Pointers] /\ handles' \in [Workers -> Nat]
           /\ conn'[w] = "NULL" /\ handles'[w] = 0 /\ sessions'[w] <= 0
           /\ \A v \in Workers \ {w} : /\ conn'[v] = conn[v] /\ handles'[v] = handles[v]
                                       /\ sessions'[v] = sessions[v]
<1>1. handles[w] = 0 /\ sessions[w] = 0
    BY AtWorker DEF Local, ConnInv, Live
<1> QED BY <1>1 DEF IInv, TypeOK, PostgresTypeOK, pg_connect_fails, serverVars, Pointers

\* pg_connect_request keeps the invariant, whether or not it connects.
LEMMA ConnectStep ==
    ASSUME IInv, NEW w \in Workers, Connect(w)
    PROVE  IInv'
<1> USE DEF Connect, Return, Goto
<1>1. pc[w] = "call" /\ conn[w] = "NULL" /\ Current(w).call \in PgCalls
    BY AtWorker DEF Local, ConnInv, Calling
<1>2. \/ pg_connect_ok(w) /\ Goto(w, "exec") /\ UNCHANGED answer
      \/ pg_connect_fails(w) /\ Message(w) /\ Goto(w, "out")
    OBVIOUS
<1>3. /\ PostgresTypeOK'
      /\ conn' \in [Workers -> Pointers] /\ handles' \in [Workers -> Nat]
      /\ handles'[w] = Live(conn'[w]) /\ sessions'[w] <= handles'[w]
      /\ \/ pc'[w] = "exec" /\ conn'[w] = "live"
         \/ pc'[w] = "out" /\ conn'[w] = "NULL"
      /\ \A v \in Workers \ {w} : /\ conn'[v] = conn[v] /\ handles'[v] = handles[v]
                                  /\ sessions'[v] = sessions[v]
    BY <1>1, <1>2, Connected, NotConnected DEF IInv, TypeOK, Live
<1>4. TypeOK'
    <2>1. answer' \in [Workers -> [msgs: Nat, values: Nat]]
        BY <1>2, AnswerType DEF IInv, TypeOK
    <2>2. pc' \in [Workers -> Labels] /\ ret' \in [Workers -> {SYSINFO_RET_OK, SYSINFO_RET_FAIL}]
        BY <1>2 DEF IInv, TypeOK, Labels
    <2> QED BY <1>3, <2>1, <2>2 DEF IInv, TypeOK
<1>5. \A v \in Workers \ {w} : Same(v)
    BY <1>2, <1>3 DEF IInv, TypeOK, Same
<1>6. Local(w)'
    BY <1>1, <1>3, AtWorker
       DEF IInv, TypeOK, Local, LabelInv, ConnInv, ParamsInv, BlocksInv, Current, PgCalls,
           SYSINFO_RET_FAIL, SYSINFO_RET_OK
<1> QED BY <1>4, <1>5, <1>6, OneWorkerSteps

\* PG_CONNECT keeps the invariant, whether or not it connects.
LEMMA PgConnectStep ==
    ASSUME IInv, NEW w \in Workers, PgConnect(w)
    PROVE  IInv'
<1> USE DEF PgConnect, Return, Goto
<1>1. pc[w] = "call" /\ conn[w] = "NULL" /\ Current(w).call = "PG_CONNECT"
    BY AtWorker DEF Local, ConnInv, Calling
<1>2. /\ PostgresTypeOK'
      /\ conn' \in [Workers -> Pointers] /\ handles' \in [Workers -> Nat]
      /\ handles'[w] = Live(conn'[w]) /\ sessions'[w] <= handles'[w]
      /\ conn'[w] \in {"live", "NULL"}
      /\ \A v \in Workers \ {w} : /\ conn'[v] = conn[v] /\ handles'[v] = handles[v]
                                  /\ sessions'[v] = sessions[v]
    BY <1>1, Connected, NotConnected DEF IInv, TypeOK, Live
<1>3. TypeOK'
    <2>1. answer' \in [Workers -> [msgs: Nat, values: Nat]]
        BY AnswerType DEF IInv
    <2>2. /\ pc' \in [Workers -> Labels] /\ reply' \in [Workers -> Int]
          /\ ret' \in [Workers -> {SYSINFO_RET_OK, SYSINFO_RET_FAIL}]
        BY SMTT(30) DEF IInv, TypeOK, Labels
    <2> QED BY <1>2, <2>1, <2>2 DEF IInv, TypeOK
<1>4. \A v \in Workers \ {w} : Same(v)
    BY <1>2 DEF IInv, TypeOK, Same
<1>5. Local(w)'
    BY <1>1, <1>2, AtWorker
       DEF IInv, TypeOK, Local, LabelInv, ConnInv, ParamsInv, BlocksInv, Current
<1> QED BY <1>3, <1>4, <1>5, OneWorkerSteps

-----------------------------------------------------------------------------
(***************************************************************************)
(* Executing.                                                              *)
(***************************************************************************)
\* pg_exec frees the parameters it was passed and nothing else; a deep discovery, which
\* executes many times, passes none.
LEMMA Executed ==
    ASSUME IInv, NEW w \in Workers, pc[w] = "exec",
           NEW b \in Blocks, NEW n \in Nat, pg_exec(w, b, n)
    PROVE  /\ res' \in [Workers -> Pointers]
           /\ params' \in [Workers -> [ptr: Pointers, n: Nat]]
           /\ heap' \in [Workers -> [Blocks -> Nat]]
           /\ res'[w] = "live" /\ heap'[w]["PGresult"] > 0
           /\ heap'[w]["json"] >= heap[w]["json"]
           /\ heap'[w]["connstring"] >= heap[w]["connstring"]
           /\ pc'[w] = "out" /\ script'[w] = script[w] => ParamsInv(w)'
           /\ Deep(script[w]) => params'[w].ptr = "NULL"
           /\ \A v \in Workers \ {w} :
                 res'[v] = res[v] /\ params'[v] = params[v] /\ heap'[v] = heap[v]
<1> DEFINE h == ParamsFreed(w)
           h1 == Malloc(h, "PGresult", 1)
           h2 == Malloc(h1, b, n)
<1>1. /\ params[w] \in [ptr: Pointers, n: Nat] /\ heap[w] \in [Blocks -> Nat]
      /\ params[w].ptr \in {"NULL", "live"}
      /\ params[w].ptr = "live" => heap[w]["params"] > 0
      /\ Deep(script[w]) => params[w].ptr = "NULL"
    BY AtWorker DEF Local, ParamsInv, Pointers
<1>2. /\ h \in [Blocks -> Nat]
      /\ \A c \in Blocks \ {"params"} : h[c] = heap[w][c]
      /\ ~Passed(w) => h = heap[w]
    <2>1. CASE Passed(w)
        <3>1. "params" \in Blocks /\ 1 <= heap[w]["params"] /\ 1 \in Nat
            BY <1>1, <2>1 DEF Passed, Blocks
        <3>2. h = Free(heap[w], "params", 1)
            BY <2>1 DEF ParamsFreed
        <3> QED BY <1>1, <2>1, <3>1, <3>2, FreeHeap
    <2>2. CASE ~Passed(w)
        BY <1>1, <2>2 DEF ParamsFreed
    <2> QED BY <2>1, <2>2
<1> HIDE DEF h
<1>3. /\ h1 \in [Blocks -> Nat] /\ h1["PGresult"] > 0
      /\ \A c \in Blocks : h1[c] >= h[c]
    <2>1. "PGresult" \in Blocks /\ 1 \in Nat
        BY DEF Blocks
    <2>2. \A c \in Blocks : h[c] \in Nat
        BY <1>2
    <2>3. /\ h1 \in [Blocks -> Nat]
          /\ \A c \in Blocks : h1[c] = IF c = "PGresult" THEN h[c] + 1 ELSE h[c]
        BY <1>2, <2>1, MallocHeap
    <2> HIDE DEF h1
    <2> QED BY <2>1, <2>2, <2>3
<1> HIDE DEF h1
<1>4. /\ h2 \in [Blocks -> Nat]
      /\ \A c \in Blocks : h2[c] >= h1[c]
    <2>1. \A c \in Blocks : h1[c] \in Nat
        BY <1>3
    <2>2. /\ h2 \in [Blocks -> Nat]
          /\ \A c \in Blocks : h2[c] = IF c = b THEN h1[c] + n ELSE h1[c]
        BY <1>3, MallocHeap
    <2> HIDE DEF h2
    <2> QED BY <2>1, <2>2
<1>5. /\ heap' = [heap EXCEPT ![w] = h2] /\ res' = [res EXCEPT ![w] = "live"]
      /\ params' = [params EXCEPT ![w].ptr = IF Passed(w) THEN "dangling" ELSE @]
    BY DEF pg_exec, h, h1
<1> HIDE DEF h2
<1>6. /\ heap' \in [Workers -> [Blocks -> Nat]] /\ heap'[w] = h2
      /\ res' \in [Workers -> Pointers] /\ res'[w] = "live"
      /\ \A v \in Workers \ {w} : heap'[v] = heap[v] /\ res'[v] = res[v]
    BY <1>4, <1>5 DEF IInv, TypeOK, Pointers
<1>7. /\ params' \in [Workers -> [ptr: Pointers, n: Nat]]
      /\ params'[w].ptr = IF Passed(w) THEN "dangling" ELSE params[w].ptr
      /\ \A v \in Workers \ {w} : params'[v] = params[v]
    BY <1>5, ZenonT(60) DEF IInv, TypeOK, Pointers
<1>8. \A c \in {"PGresult", "json", "connstring"} :
         c \in Blocks /\ c # "params" /\ heap'[w][c] \in Nat
    BY <1>4, <1>6 DEF Blocks
<1>9. /\ heap'[w]["PGresult"] > 0
      /\ heap'[w]["json"] >= heap[w]["json"]
      /\ heap'[w]["connstring"] >= heap[w]["connstring"]
    BY <1>1, <1>2, <1>3, <1>4, <1>6, <1>8
<1>10. Deep(script[w]) => params'[w].ptr = "NULL"
    BY <1>1, <1>7 DEF Passed
<1>11. params'[w].ptr = "live" => heap'[w]["params"] > 0
    <2> SUFFICES ASSUME params'[w].ptr = "live" PROVE heap'[w]["params"] > 0
        OBVIOUS
    <2>1. ~Passed(w) /\ params[w].ptr = "live"
        BY <1>7
    <2>2. "params" \in Blocks /\ h["params"] > 0 /\ h["params"] \in Nat
        BY <1>1, <1>2, <2>1 DEF Blocks
    <2> QED BY <1>3, <1>4, <1>6, <2>2
<1>12. params'[w].ptr = "dangling" => Current(w).call \in {"pg_get_result", "pg_get_discovery"}
    <2> SUFFICES ASSUME params'[w].ptr = "dangling"
                 PROVE  Current(w).call \in {"pg_get_result", "pg_get_discovery"}
        OBVIOUS
    <2>1. Passed(w) /\ ~Deep(script[w])
        BY <1>1, <1>7, <1>10
    <2>2. Current(w).call # "pg_get_discovery_wide"
        BY <2>1, AtWorker
    <2> QED BY <2>1, <2>2 DEF Passed, Calling, TakesParams
<1>13. pc'[w] = "out" /\ script'[w] = script[w] => ParamsInv(w)'
    BY <1>10, <1>11, <1>12 DEF ParamsInv, Current
<1> QED BY <1>6, <1>7, <1>9, <1>10, <1>13

\* Every outcome of a statement but the rows of a deep discovery leads to "out:", with a
\* version to return if it was pg_version that succeeded.
LEMMA OutcomeSteps ==
    ASSUME IInv, NEW w \in Workers, pc[w] = "exec",
           NEW b \in Blocks, NEW n \in Nat, pg_exec(w, b, n),
           Goto(w, "out"), UNCHANGED <<serverVars, script, conn, handles, version, db, found,
                                       steady>>,
           ret' \in [Workers -> {SYSINFO_RET_OK, SYSINFO_RET_FAIL}],
           answer' \in [Workers -> [msgs: Nat, values: Nat]],
           todo' \in [Workers -> SUBSET Databases], reply' \in [Workers -> Int],
           seen' \in [Workers -> [apps: Nat, slots: Int]],
           \A v \in Workers \ {w} : ret'[v] = ret[v] /\ reply'[v] = reply[v],
           Current(w).call = "pg_version" /\ ret'[w] = SYSINFO_RET_OK => reply'[w] \in Versions
    PROVE  IInv'
<1>1. /\ res' \in [Workers -> Pointers]
      /\ params' \in [Workers -> [ptr: Pointers, n: Nat]]
      /\ heap' \in [Workers -> [Blocks -> Nat]]
      /\ res'[w] = "live" /\ heap'[w]["PGresult"] > 0
      /\ pc'[w] = "out" /\ script'[w] = script[w] => ParamsInv(w)'
      /\ \A v \in Workers \ {w} :
            res'[v] = res[v] /\ params'[v] = params[v] /\ heap'[v] = heap[v]
    BY Executed
<1>2. /\ pc' \in [Workers -> Labels] /\ pc'[w] = "out"
      /\ \A v \in Workers \ {w} : pc'[v] = pc[v]
    BY DEF IInv, TypeOK, Goto, Labels
<1>3. TypeOK'
    BY <1>1, <1>2 DEF IInv, TypeOK, PostgresTypeOK, serverVars
<1>4. \A v \in Workers \ {w} : Same(v)
    BY <1>1, <1>2 DEF Same, serverVars
<1>5. LabelInv(w)'
    BY <1>2, AtWorker DEF Local, LabelInv, Current
<1>6. ConnInv(w)'
    BY <1>2, AtWorker DEF Local, ConnInv, serverVars
<1>7. BlocksInv(w)'
    BY <1>1, <1>2 DEF BlocksInv
<1>8. Local(w)'
    BY <1>1, <1>2, <1>5, <1>6, <1>7 DEF Local
<1> QED BY <1>3, <1>4, <1>8, OneWorkerSteps

\* A statement that fails keeps the invariant.
LEMMA QueryFailsStep ==
    ASSUME IInv, NEW w \in Workers, QueryFails(w)
    PROVE  IInv'
<1>1. answer' \in [Workers -> [msgs: Nat, values: Nat]]
    BY AnswerType DEF IInv, QueryFails, set_err_result
<1>2. "PGresult" \in Blocks /\ 0 \in Nat
    BY DEF Blocks
<1>3. /\ ret' \in [Workers -> {SYSINFO_RET_OK, SYSINFO_RET_FAIL}]
      /\ ret'[w] # SYSINFO_RET_OK
      /\ \A v \in Workers \ {w} : ret'[v] = ret[v]
    BY DEF IInv, TypeOK, QueryFails, set_err_result, Return, SYSINFO_RET_FAIL, SYSINFO_RET_OK
<1> QED BY <1>1, <1>2, <1>3, OutcomeSteps DEF IInv, TypeOK, QueryFails

\* A statement without rows keeps the invariant.
LEMMA NoRowsStep ==
    ASSUME IInv, NEW w \in Workers, NoRows(w)
    PROVE  IInv'
<1>1. answer' \in [Workers -> [msgs: Nat, values: Nat]]
    BY AnswerType DEF IInv, TypeOK, NoRows, set_err_result
<1>2. "PGresult" \in Blocks /\ 0 \in Nat
    BY DEF Blocks
<1>3. /\ ret' \in [Workers -> {SYSINFO_RET_OK, SYSINFO_RET_FAIL}]
      /\ \A v \in Workers \ {w} : ret'[v] = ret[v]
    BY DEF IInv, TypeOK, NoRows, set_err_result, Return, SYSINFO_RET_FAIL, SYSINFO_RET_OK
<1>4. Current(w).call # "pg_version"
    BY DEF NoRows, Calling
<1> QED BY <1>1, <1>2, <1>3, <1>4, OutcomeSteps DEF IInv, TypeOK, NoRows

\* pg_version's answer is the version of a server, and every figure is a number.
LEMMA FigureType ==
    ASSUME PostgresTypeOK, NEW question
    PROVE  Figures(question) \subseteq Int /\ Figures("version") \subseteq Versions
BY PostgresAssumption DEF PostgresTypeOK, Figures, AllBackends, MatchingBackends, FreeBackends

\* pg_scalar's answer keeps the invariant.
LEMMA ScalarRowStep ==
    ASSUME IInv, NEW w \in Workers, ScalarRow(w)
    PROVE  IInv'
<1>1. "PGresult" \in Blocks /\ 0 \in Nat
    BY DEF Blocks
<1>2. /\ ret' \in [Workers -> {SYSINFO_RET_OK, SYSINFO_RET_FAIL}]
      /\ \A v \in Workers \ {w} : ret'[v] = ret[v]
    BY DEF IInv, TypeOK, ScalarRow, Return
<1>3. /\ reply' \in [Workers -> Int]
      /\ reply'[w] \in Figures(Current(w).stmt.asks)
      /\ \A v \in Workers \ {w} : reply'[v] = reply[v]
    BY FigureType DEF IInv, TypeOK, ScalarRow
<1>4. seen' \in [Workers -> [apps: Nat, slots: Int]]
    BY DEF IInv, TypeOK, PostgresTypeOK, ScalarRow
<1>5. Current(w).call = "pg_version" => Current(w).stmt.asks = "version"
    BY AtWorker DEF ScalarRow, pg_version, Step, Asking, OneText
<1> QED BY <1>1, <1>2, <1>3, <1>4, <1>5, FigureType, OutcomeSteps
        DEF IInv, TypeOK, ScalarRow

\* pg_get_databases's answer keeps the invariant.
LEMMA DatabaseRowsStep ==
    ASSUME IInv, NEW w \in Workers, DatabaseRows(w)
    PROVE  IInv'
<1>1. "databases" \in Blocks /\ 1 \in Nat
    BY DEF Blocks
<1>2. /\ ret' \in [Workers -> {SYSINFO_RET_OK, SYSINFO_RET_FAIL}]
      /\ \A v \in Workers \ {w} : ret'[v] = ret[v]
    BY DEF IInv, TypeOK, DatabaseRows, Return
<1>3. todo' \in [Workers -> SUBSET Databases]
    BY DEF IInv, TypeOK, PostgresTypeOK, DatabaseRows
<1>4. Current(w).call # "pg_version"
    BY DEF DatabaseRows, Calling
<1> QED BY <1>1, <1>2, <1>3, <1>4, OutcomeSteps DEF IInv, TypeOK, DatabaseRows

\* pg_get_discovery's answer keeps the invariant.
LEMMA DiscoveryRowsStep ==
    ASSUME IInv, NEW w \in Workers, DiscoveryRows(w)
    PROVE  IInv'
<1>1. answer' \in [Workers -> [msgs: Nat, values: Nat]]
    BY AnswerType DEF IInv, DiscoveryRows
<1>2. "json" \in Blocks /\ 0 \in Nat
    BY DEF Blocks
<1>3. /\ ret' \in [Workers -> {SYSINFO_RET_OK, SYSINFO_RET_FAIL}]
      /\ \A v \in Workers \ {w} : ret'[v] = ret[v]
    BY DEF IInv, TypeOK, DiscoveryRows, Return
<1>4. Current(w).call # "pg_version"
    BY DEF DiscoveryRows, Calling
<1> QED BY <1>1, <1>2, <1>3, <1>4, OutcomeSteps DEF IInv, TypeOK, DiscoveryRows

\* The answers of PG_SETTING and PG_STAT_ALL_INDEXES keep the invariant.
LEMMA CopiedRowStep ==
    ASSUME IInv, NEW w \in Workers, CopiedRow(w)
    PROVE  IInv'
<1>1. answer' \in [Workers -> [msgs: Nat, values: Nat]]
    BY AnswerType DEF IInv, CopiedRow
<1>2. PICK copies \in Nat : pg_exec(w, "strdup", copies)
    BY DEF CopiedRow
<1>3. "strdup" \in Blocks
    BY DEF Blocks
<1>4. /\ ret' \in [Workers -> {SYSINFO_RET_OK, SYSINFO_RET_FAIL}]
      /\ \A v \in Workers \ {w} : ret'[v] = ret[v]
    BY DEF IInv, TypeOK, CopiedRow, Return
<1>5. Current(w).call # "pg_version"
    BY DEF CopiedRow, Calling, SelfConnecting
<1> QED BY <1>1, <1>2, <1>3, <1>4, <1>5, OutcomeSteps DEF IInv, TypeOK, CopiedRow

-----------------------------------------------------------------------------
(***************************************************************************)
(* The "out:" label.                                                       *)
(***************************************************************************)
LEMMA Finished ==
    ASSUME IInv, NEW w \in Workers, conn[w] \in {"NULL", "live"}, PQfinish(w)
    PROVE  /\ PostgresTypeOK' /\ handles' \in [Workers -> Nat]
           /\ handles'[w] = 0 /\ sessions'[w] = 0
           /\ \A v \in Workers \ {w} : handles'[v] = handles[v] /\ sessions'[v] = sessions[v]
<1>1. /\ handles[w] = Live(conn[w]) /\ sessions[w] <= handles[w]
      /\ sessions[w] \in Nat /\ handles[w] \in Nat
    BY AtWorker DEF Local, ConnInv
<1>2. /\ handles' \in [Workers -> Nat] /\ handles'[w] = 0
      /\ \A v \in Workers \ {w} : handles'[v] = handles[v]
    BY <1>1 DEF IInv, TypeOK, PQfinish
<1>3. CASE conn[w] = "live"
    <2>1. Hangup(w) /\ sessions[w] \in {0, 1}
        BY <1>1, <1>3 DEF PQfinish, Live
    <2>2. CASE sessions[w] = 0
        BY <1>2, <2>1, <2>2 DEF IInv, TypeOK, PostgresTypeOK, Hangup
    <2>3. CASE sessions[w] = 1
        <3>1. /\ sessions' = [sessions EXCEPT ![w] = 0] /\ exiting' = exiting + 1
              /\ UNCHANGED <<up, server, dbs, apps, slots>>
            BY <2>1, <2>3 DEF Hangup
        <3>2. /\ sessions' \in [Workers -> Nat] /\ sessions'[w] = 0
              /\ \A v \in Workers \ {w} : sessions'[v] = sessions[v]
            BY <3>1 DEF IInv, TypeOK, PostgresTypeOK
        <3> QED BY <1>2, <3>1, <3>2 DEF IInv, TypeOK, PostgresTypeOK
    <2> QED BY <2>1, <2>2, <2>3
<1>4. CASE conn[w] = "NULL"
    BY <1>1, <1>2, <1>4 DEF IInv, TypeOK, PostgresTypeOK, PQfinish, Live, serverVars
<1> QED BY <1>3, <1>4

\* The clean-up of a routine that connected keeps the invariant.
LEMMA CloseStep ==
    ASSUME IInv, NEW w \in Workers, Close(w)
    PROVE  IInv'
<1> DEFINE h == Free(heap[w], "PGresult", Live(res[w]))
<1>1. /\ pc[w] = "out" /\ Current(w).call # "pg_get_discovery_wide"
      /\ conn[w] \in {"NULL", "live"} /\ res[w] \in {"NULL", "live"}
    BY AtWorker DEF Close, Calling, PgCalls, Local, ConnInv, BlocksInv, IInv, TypeOK, Pointers
<1>2. /\ PostgresTypeOK' /\ handles' \in [Workers -> Nat]
      /\ handles'[w] = 0 /\ sessions'[w] = 0
      /\ \A v \in Workers \ {w} : handles'[v] = handles[v] /\ sessions'[v] = sessions[v]
    BY <1>1, Finished DEF Close, FinishAtOut
<1>3. /\ h \in [Blocks -> Nat]
      /\ \A c \in Blocks \ {"PGresult"} : h[c] = heap[w][c]
    <2>1. /\ "PGresult" \in Blocks /\ heap[w] \in [Blocks -> Nat] /\ Live(res[w]) \in Nat
          /\ Live(res[w]) <= heap[w]["PGresult"]
        BY <1>1, AtWorker DEF Local, BlocksInv, Blocks, Live
    <2> QED BY <2>1, FreeHeap
<1> HIDE DEF h
<1>4. /\ heap' \in [Workers -> [Blocks -> Nat]] /\ heap'[w] = h
      /\ conn' \in [Workers -> Pointers] /\ conn'[w] = "NULL"
      /\ res' \in [Workers -> Pointers] /\ res'[w] = "NULL"
      /\ \A v \in Workers \ {w} : /\ heap'[v] = heap[v] /\ conn'[v] = conn[v]
                                  /\ res'[v] = res[v]
    BY <1>3 DEF IInv, TypeOK, Close, Pointers, h
<1>5. Continues(w) => /\ Current(w).call \in Leading /\ params[w].ptr # "dangling"
                      /\ Tail(script[w]) \in Seq(Steps) /\ WellFormed(Tail(script[w]))
                      /\ Deep(Tail(script[w])) => Deep(script[w])
    BY <1>1, AtWorker, RestOfScript
       DEF Continues, Calling, Leading, Local, ParamsInv, Current
<1>6. /\ pc' \in [Workers -> Labels] /\ script' \in [Workers -> Seq(Steps)]
      /\ \/ /\ Continues(w) /\ pc'[w] = "call" /\ script'[w] = Tail(script[w])
         \/ pc'[w] = "done" /\ script'[w] = script[w]
      /\ \A v \in Workers \ {w} : pc'[v] = pc[v] /\ script'[v] = script[v]
    BY <1>5 DEF IInv, TypeOK, Close, Goto, NextStep, Labels
<1>7. version' \in [Workers -> Versions \union {0}]
    BY <1>1, AtWorker DEF IInv, TypeOK, Close, Calling, Local, LabelInv
<1>8. answer' \in [Workers -> [msgs: Nat, values: Nat]]
    BY AnswerType DEF IInv, TypeOK, Close
<1>9. TypeOK'
    BY <1>2, <1>4, <1>6, <1>7, <1>8 DEF IInv, TypeOK, Close
<1>10. \A v \in Workers \ {w} : Same(v)
    BY <1>2, <1>4, <1>6 DEF Same, Close
<1>11. LabelInv(w)'
    BY <1>1, <1>5, <1>6, AtWorker DEF LabelInv
<1>12. ConnInv(w)'
    BY <1>2, <1>4, <1>6 DEF ConnInv, Live
<1>13. ParamsInv(w)'
    <2>1. params'[w] = params[w] /\ heap'[w]["params"] = heap[w]["params"]
        BY <1>3, <1>4 DEF Close, Blocks
    <2>2. /\ params[w].ptr = "live" => heap[w]["params"] > 0
          /\ Deep(script[w]) => params[w].ptr = "NULL"
        BY <1>1, AtWorker DEF Local, ParamsInv
    <2> QED BY <1>5, <1>6, <2>1, <2>2 DEF ParamsInv
<1>14. BlocksInv(w)'
    BY <1>4, <1>6 DEF BlocksInv
<1> QED BY <1>9, <1>10, <1>11, <1>12, <1>13, <1>14, OneWorkerSteps DEF Local

-----------------------------------------------------------------------------
(***************************************************************************)
(* A deep discovery.                                                       *)
(***************************************************************************)
LEMMA WideBeginStep ==
    ASSUME IInv, NEW w \in Workers, WideBegin(w)
    PROVE  IInv'
<1> DEFINE h == Malloc(heap[w], "json", 1)
<1>1. /\ pc[w] = "call" /\ Current(w).call = "pg_get_discovery_wide"
      /\ conn[w] = "NULL" /\ res[w] = "NULL" /\ params[w].ptr = "NULL"
    BY AtWorker DEF WideBegin, Calling, Local, ConnInv, BlocksInv, ParamsInv
<1>2. /\ h \in [Blocks -> Nat] /\ h["json"] > 0
    <2>1. "json" \in Blocks /\ 1 \in Nat /\ heap[w] \in [Blocks -> Nat]
        BY AtWorker DEF Blocks
    <2>2. h \in [Blocks -> Nat] /\ h["json"] = heap[w]["json"] + 1
        BY <2>1, MallocHeap
    <2> HIDE DEF h
    <2> QED BY <2>1, <2>2
<1> HIDE DEF h
<1>3. /\ heap' \in [Workers -> [Blocks -> Nat]] /\ heap'[w] = h
      /\ pc' \in [Workers -> Labels] /\ pc'[w] = "loop"
      /\ ret' \in [Workers -> {SYSINFO_RET_OK, SYSINFO_RET_FAIL}]
      /\ \A v \in Workers \ {w} : heap'[v] = heap[v] /\ pc'[v] = pc[v] /\ ret'[v] = ret[v]
    BY <1>2 DEF IInv, TypeOK, WideBegin, Goto, Return, Labels, h
<1>4. TypeOK'
    BY <1>3 DEF IInv, TypeOK, PostgresTypeOK, WideBegin, serverVars
<1>5. \A v \in Workers \ {w} : Same(v)
    BY <1>3 DEF Same, WideBegin, serverVars
<1>6. LabelInv(w)' /\ ConnInv(w)'
    BY <1>1, <1>3, AtWorker DEF WideBegin, Local, LabelInv, ConnInv, Current, serverVars
<1>7. ParamsInv(w)' /\ BlocksInv(w)'
    BY <1>1, <1>2, <1>3 DEF WideBegin, ParamsInv, BlocksInv
<1> QED BY <1>4, <1>5, <1>6, <1>7, OneWorkerSteps DEF Local

\* Connecting to the next database keeps the invariant.
LEMMA WideConnectStep ==
    ASSUME IInv, NEW w \in Workers, WideConnect(w)
    PROVE  IInv'
<1> DEFINE h == Malloc(heap[w], "connstring", 1)
<1>1. /\ pc[w] = "loop" /\ Current(w).call = "pg_get_discovery_wide"
      /\ conn[w] = "NULL" /\ (res[w] = "live" => heap[w]["PGresult"] > 0)
      /\ heap[w]["json"] > 0 /\ params[w].ptr = "NULL"
    BY AtWorker DEF WideConnect, Local, LabelInv, ConnInv, BlocksInv, ParamsInv
<1>2. /\ h \in [Blocks -> Nat] /\ h["connstring"] > 0
      /\ \A c \in Blocks \ {"connstring"} : h[c] = heap[w][c]
    <2>1. "connstring" \in Blocks /\ 1 \in Nat /\ heap[w] \in [Blocks -> Nat]
        BY AtWorker DEF Blocks
    <2>2. /\ h \in [Blocks -> Nat] /\ h["connstring"] = heap[w]["connstring"] + 1
          /\ \A c \in Blocks \ {"connstring"} : h[c] = heap[w][c]
        BY <2>1, MallocHeap
    <2> HIDE DEF h
    <2> QED BY <2>1, <2>2
<1> HIDE DEF h
<1>3. PICK d \in todo[w] :
         /\ Advance(w, d)
         /\ db' = [db EXCEPT ![w] = d]
         /\ \/ d \in dbs /\ pg_connect_ok(w) /\ Goto(w, "exec") /\ UNCHANGED answer
            \/ pg_connect_fails(w) /\ GiveUp(w)
    BY DEF WideConnect
<1>4. /\ PostgresTypeOK'
      /\ conn' \in [Workers -> Pointers] /\ handles' \in [Workers -> Nat]
      /\ handles'[w] = Live(conn'[w]) /\ sessions'[w] <= handles'[w]
      /\ \/ pc'[w] = "exec" /\ conn'[w] = "live"
         \/ pc'[w] = "out" /\ conn'[w] = "NULL"
      /\ \A v \in Workers \ {w} : /\ conn'[v] = conn[v] /\ handles'[v] = handles[v]
                                  /\ sessions'[v] = sessions[v]
    BY <1>1, <1>3, Connected, NotConnected DEF IInv, TypeOK, Live, Goto, GiveUp
<1>5. /\ heap' \in [Workers -> [Blocks -> Nat]] /\ heap'[w] = h
      /\ pc' \in [Workers -> Labels]
      /\ \A v \in Workers \ {w} : heap'[v] = heap[v] /\ pc'[v] = pc[v]
    BY <1>2, <1>3 DEF IInv, TypeOK, WideConnect, GiveUp, Goto, Labels, h
<1>6. /\ todo' \in [Workers -> SUBSET Databases]
      /\ db' \in [Workers -> Databases \union {NoDb}] /\ db'[w] \in Databases
      /\ \A v \in Workers \ {w} : db'[v] = db[v]
    BY <1>3 DEF IInv, TypeOK, Advance
<1>7. answer' \in [Workers -> [msgs: Nat, values: Nat]]
    BY <1>3, AnswerType DEF IInv, TypeOK, GiveUp
<1>8. TypeOK'
    BY <1>4, <1>5, <1>6, <1>7 DEF IInv, TypeOK, WideConnect
<1>9. \A v \in Workers \ {w} : Same(v)
    BY <1>4, <1>5, <1>6 DEF Same, WideConnect
<1>10. LabelInv(w)' /\ ConnInv(w)'
    BY <1>1, <1>4, <1>6, AtWorker DEF WideConnect, Local, LabelInv, ConnInv, Current
<1>11. ParamsInv(w)' /\ BlocksInv(w)'
    BY <1>1, <1>2, <1>4, <1>5, AtWorker
       DEF WideConnect, Local, ParamsInv, BlocksInv, Current, Blocks
<1> QED BY <1>8, <1>9, <1>10, <1>11, OneWorkerSteps DEF Local

\* The rows of one database keep the invariant.
LEMMA WideRowsStep ==
    ASSUME IInv, NEW w \in Workers, WideRows(w)
    PROVE  IInv'
<1>1. /\ pc[w] = "exec" /\ Current(w).call = "pg_get_discovery_wide"
      /\ conn[w] = "live" /\ Deep(script[w])
      /\ heap[w]["json"] > 0 /\ heap[w]["connstring"] > 0
      /\ heap[w] \in [Blocks -> Nat]
    BY AtWorker DEF WideRows, Calling, Local, ConnInv, BlocksInv
<1>2. "json" \in Blocks /\ "connstring" \in Blocks /\ 0 \in Nat
    BY DEF Blocks
<1>3. /\ res' \in [Workers -> Pointers]
      /\ params' \in [Workers -> [ptr: Pointers, n: Nat]]
      /\ heap' \in [Workers -> [Blocks -> Nat]]
      /\ res'[w] = "live" /\ heap'[w]["PGresult"] > 0
      /\ heap'[w]["json"] >= heap[w]["json"]
      /\ heap'[w]["connstring"] >= heap[w]["connstring"]
      /\ params'[w].ptr = "NULL"
      /\ \A v \in Workers \ {w} :
            res'[v] = res[v] /\ params'[v] = params[v] /\ heap'[v] = heap[v]
    BY <1>1, <1>2, Executed DEF WideRows
<1>4. /\ pc' \in [Workers -> Labels] /\ pc'[w] = "next"
      /\ found' \in [Workers -> SUBSET Databases]
      /\ \A v \in Workers \ {w} : pc'[v] = pc[v]
    <2>1. db[w] \in Databases
        BY <1>1, AtWorker DEF Local, LabelInv
    <2> QED BY <2>1 DEF IInv, TypeOK, WideRows, Goto, Labels
<1>5. TypeOK'
    BY <1>3, <1>4 DEF IInv, TypeOK, PostgresTypeOK, WideRows, serverVars
<1>6. \A v \in Workers \ {w} : Same(v)
    BY <1>3, <1>4 DEF Same, WideRows, serverVars
<1>7. LabelInv(w)' /\ ConnInv(w)'
    BY <1>1, <1>4, AtWorker DEF WideRows, Local, LabelInv, ConnInv, Current, serverVars
<1>8. heap'[w]["json"] > 0 /\ heap'[w]["connstring"] > 0
    BY <1>1, <1>2, <1>3
<1>9. ParamsInv(w)' /\ BlocksInv(w)'
    BY <1>3, <1>4, <1>8 DEF ParamsInv, BlocksInv
<1> QED BY <1>5, <1>6, <1>7, <1>9, OneWorkerSteps DEF Local

\* The clean-up that ends an iteration keeps the invariant: conn is reset.
LEMMA WideNextStep ==
    ASSUME IInv, NEW w \in Workers, WideNext(w)
    PROVE  IInv'
<1> DEFINE h1 == Free(heap[w], "connstring", 1)
           h2 == Free(h1, "PGresult", Live(res[w]))
<1>1. /\ pc[w] = "next" /\ conn[w] = "live" /\ res[w] = "live"
      /\ Current(w).call = "pg_get_discovery_wide" /\ params[w].ptr = "NULL"
      /\ heap[w] \in [Blocks -> Nat] /\ heap[w]["json"] > 0
      /\ heap[w]["connstring"] > 0 /\ heap[w]["PGresult"] > 0
    BY AtWorker DEF WideNext, Local, LabelInv, ConnInv, BlocksInv, ParamsInv
<1>2. /\ h1 \in [Blocks -> Nat]
      /\ \A c \in Blocks \ {"connstring"} : h1[c] = heap[w][c]
    <2>1. /\ heap[w] \in [Blocks -> Nat]
          /\ "connstring" \in Blocks /\ 1 \in Nat /\ 1 <= heap[w]["connstring"]
        BY <1>1 DEF Blocks
    <2>2. /\ h1 \in [Blocks -> Nat]
          /\ \A c \in Blocks :
                h1[c] = IF c = "connstring" THEN heap[w][c] - 1 ELSE heap[w][c]
        BY <2>1, FreeHeap
    <2> HIDE DEF h1
    <2> QED BY <2>2
<1> HIDE DEF h1
<1>3. h2 \in [Blocks -> Nat] /\ h2["json"] > 0
    <2>1. /\ "PGresult" \in Blocks /\ "json" \in Blocks /\ Live(res[w]) \in Nat
          /\ Live(res[w]) <= h1["PGresult"]
        BY <1>1, <1>2 DEF Blocks, Live
    <2>2. /\ h2 \in [Blocks -> Nat]
          /\ \A c \in Blocks \ {"PGresult"} : h2[c] = h1[c]
        BY <1>2, <2>1, FreeHeap
    <2> HIDE DEF h2
    <2> QED BY <1>1, <1>2, <2>1, <2>2
<1>4. heap' = [heap EXCEPT ![w] = h2]
    BY DEF WideNext, h1
<1> HIDE DEF h2
<1>5. /\ PostgresTypeOK' /\ handles' \in [Workers -> Nat]
      /\ handles'[w] = 0 /\ sessions'[w] = 0
      /\ \A v \in Workers \ {w} : handles'[v] = handles[v] /\ sessions'[v] = sessions[v]
    BY <1>1, Finished DEF WideNext
<1>6. /\ heap' \in [Workers -> [Blocks -> Nat]] /\ heap'[w] = h2
      /\ conn' \in [Workers -> Pointers] /\ conn'[w] = "NULL"
      /\ res' \in [Workers -> Pointers] /\ res'[w] = "dangling"
      /\ pc' \in [Workers -> Labels] /\ pc'[w] = "loop"
      /\ \A v \in Workers \ {w} : /\ heap'[v] = heap[v] /\ conn'[v] = conn[v]
                                  /\ res'[v] = res[v] /\ pc'[v] = pc[v]
    BY <1>3, <1>4 DEF IInv, TypeOK, WideNext, ResetConn, Goto, Pointers, Labels
<1>7. TypeOK'
    BY <1>5, <1>6 DEF IInv, TypeOK, WideNext
<1>8. \A v \in Workers \ {w} : Same(v)
    BY <1>5, <1>6 DEF Same, WideNext
<1>9. LabelInv(w)' /\ ConnInv(w)'
    <2>1. LabelInv(w)'
        BY <1>1, <1>6, AtWorker DEF WideNext, LabelInv, Current
    <2>2. ConnInv(w)'
        BY <1>5, <1>6 DEF ConnInv, Live
    <2> QED BY <2>1, <2>2
<1>10. ParamsInv(w)' /\ BlocksInv(w)'
    BY <1>1, <1>3, <1>6 DEF WideNext, ParamsInv, BlocksInv
<1> QED BY <1>7, <1>8, <1>9, <1>10, OneWorkerSteps DEF Local

\* The end of the walk keeps the invariant.
LEMMA WideFinishStep ==
    ASSUME IInv, NEW w \in Workers, WideFinish(w)
    PROVE  IInv'
<1> DEFINE h == Free(heap[w], "json", 1)
<1>1. /\ pc[w] = "loop" /\ conn[w] = "NULL" /\ params[w].ptr = "NULL"
      /\ Current(w).call = "pg_get_discovery_wide"
      /\ heap[w] \in [Blocks -> Nat] /\ heap[w]["json"] > 0
      /\ res[w] = "live" => heap[w]["PGresult"] > 0
    BY AtWorker DEF WideFinish, Local, LabelInv, ConnInv, BlocksInv, ParamsInv
<1>2. /\ h \in [Blocks -> Nat]
      /\ \A c \in Blocks \ {"json"} : h[c] = heap[w][c]
    <2>1. "json" \in Blocks /\ 1 \in Nat /\ 1 <= heap[w]["json"]
        BY <1>1 DEF Blocks
    <2> QED BY <1>1, <2>1, FreeHeap
<1> HIDE DEF h
<1>3. /\ heap' \in [Workers -> [Blocks -> Nat]] /\ heap'[w] = h
      /\ pc' \in [Workers -> Labels] /\ pc'[w] = "out"
      /\ ret' \in [Workers -> {SYSINFO_RET_OK, SYSINFO_RET_FAIL}]
      /\ \A v \in Workers \ {w} : heap'[v] = heap[v] /\ pc'[v] = pc[v] /\ ret'[v] = ret[v]
    BY <1>2 DEF IInv, TypeOK, WideFinish, Goto, Return, Labels, h
<1>4. answer' \in [Workers -> [msgs: Nat, values: Nat]]
    BY AnswerType DEF IInv, WideFinish
<1>5. TypeOK'
    BY <1>3, <1>4 DEF IInv, TypeOK, PostgresTypeOK, WideFinish, serverVars
<1>6. \A v \in Workers \ {w} : Same(v)
    BY <1>3 DEF Same, WideFinish, serverVars
<1>7. LabelInv(w)' /\ ConnInv(w)'
    BY <1>1, <1>3, AtWorker DEF WideFinish, Local, LabelInv, ConnInv, Current, serverVars
<1>8. ParamsInv(w)' /\ BlocksInv(w)'
    BY <1>1, <1>2, <1>3 DEF WideFinish, ParamsInv, BlocksInv, Current, Blocks
<1> QED BY <1>5, <1>6, <1>7, <1>8, OneWorkerSteps DEF Local

\* The out: label of pg_get_discovery_wide keeps the invariant.
LEMMA WideCloseStep ==
    ASSUME IInv, NEW w \in Workers, WideClose(w)
    PROVE  IInv'
<1> DEFINE h1 == zbx_free(heap[w], "connstring")
           h2 == zbx_free(h1, "databases")
<1>1. /\ pc[w] = "out" /\ conn[w] \in {"NULL", "live"} /\ params[w].ptr = "NULL"
      /\ heap[w] \in [Blocks -> Nat]
    BY AtWorker DEF WideClose, Calling, Local, ConnInv, ParamsInv
<1>2. h1 \in [Blocks -> Nat]
    BY <1>1, zbx_freeHeap DEF Blocks
<1> HIDE DEF h1
<1>3. h2 \in [Blocks -> Nat]
    BY <1>2, zbx_freeHeap DEF Blocks
<1>4. heap' = [heap EXCEPT ![w] = h2]
    BY DEF WideClose, h1
<1> HIDE DEF h2
<1>5. /\ PostgresTypeOK' /\ handles' \in [Workers -> Nat]
      /\ handles'[w] = 0 /\ sessions'[w] = 0
      /\ \A v \in Workers \ {w} : handles'[v] = handles[v] /\ sessions'[v] = sessions[v]
    BY <1>1, Finished DEF WideClose, FinishAtOut
<1>6. /\ heap' \in [Workers -> [Blocks -> Nat]]
      /\ conn' \in [Workers -> Pointers] /\ conn'[w] = "NULL"
      /\ res' \in [Workers -> Pointers] /\ res'[w] = "NULL"
      /\ pc' \in [Workers -> Labels] /\ pc'[w] = "done"
      /\ \A v \in Workers \ {w} : /\ heap'[v] = heap[v] /\ conn'[v] = conn[v]
                                  /\ res'[v] = res[v] /\ pc'[v] = pc[v]
    BY <1>3, <1>4 DEF IInv, TypeOK, WideClose, Goto, Pointers, Labels
<1>7. TypeOK'
    BY <1>5, <1>6 DEF IInv, TypeOK, WideClose
<1>8. \A v \in Workers \ {w} : Same(v)
    BY <1>5, <1>6 DEF Same, WideClose
<1>9. LabelInv(w)' /\ ConnInv(w)'
    BY <1>1, <1>5, <1>6, AtWorker DEF WideClose, LabelInv, ConnInv, Live
<1>10. ParamsInv(w)' /\ BlocksInv(w)'
    BY <1>1, <1>6 DEF WideClose, ParamsInv, BlocksInv
<1> QED BY <1>7, <1>8, <1>9, <1>10, OneWorkerSteps DEF Local

-----------------------------------------------------------------------------
(***************************************************************************)
(* What happens on the server takes sessions away and gives none.          *)
(***************************************************************************)
LEMMA PostgresStep ==
    ASSUME PostgresTypeOK, PostgresNext
    PROVE  /\ PostgresTypeOK'
           /\ \A w \in Workers : sessions'[w] \in {sessions[w], 0}
<1>1. CASE BackendExit
    BY <1>1 DEF PostgresTypeOK, BackendExit
<1>2. CASE AppConnect
    BY <1>2 DEF PostgresTypeOK, AppConnect
<1>3. CASE AppDisconnect
    BY <1>3 DEF PostgresTypeOK, AppDisconnect
<1>4. CASE Crash
    <2>1. /\ sessions' \in [Workers -> Nat]
          /\ \A w \in Workers : sessions'[w] = 0
        BY <1>4 DEF Crash
    <2>2. /\ up' = FALSE /\ server' = server /\ dbs' = dbs
          /\ apps' = 0 /\ exiting' = 0 /\ slots' = 0
        BY <1>4 DEF Crash
    <2>3. up' \in BOOLEAN
        BY <2>2
    <2>4. PostgresTypeOK'
        BY <2>1, <2>2, <2>3 DEF PostgresTypeOK
    <2> QED BY <2>1, <2>4
<1>5. CASE Restart
    BY <1>5 DEF PostgresTypeOK, Restart
<1>6. CASE ChangeDatabases
    BY <1>6 DEF PostgresTypeOK, ChangeDatabases
<1> QED BY <1>1, <1>2, <1>3, <1>4, <1>5, <1>6 DEF PostgresNext

\* Whatever the server does by itself keeps the invariant.
LEMMA EnvironmentStep ==
    ASSUME IInv, Environment
    PROVE  IInv'
<1>1. /\ PostgresTypeOK'
      /\ \A w \in Workers : sessions'[w] \in {sessions[w], 0}
    BY PostgresStep DEF IInv, TypeOK, Environment
<1>2. TypeOK'
    BY <1>1 DEF IInv, TypeOK, Environment, requestVars
<1>3. ASSUME NEW w \in Workers
      PROVE  LabelInv(w)' /\ ConnInv(w)' /\ ParamsInv(w)' /\ BlocksInv(w)'
    <2>1. LabelInv(w)' /\ ParamsInv(w)' /\ BlocksInv(w)'
        BY DEF IInv, Environment, requestVars, LabelInv, ParamsInv, BlocksInv, Current
    <2>2. ConnInv(w)'
        BY <1>1, AtWorker DEF Local, Environment, requestVars, ConnInv
    <2> QED BY <2>1, <2>2
<1> QED BY <1>2, <1>3 DEF IInv

\* A step that changes nothing keeps the invariant.
LEMMA StutterStep ==
    ASSUME IInv, UNCHANGED vars
    PROVE  IInv'
BY DEF vars, serverVars, requestVars, IInv, TypeOK, PostgresTypeOK, LabelInv, ConnInv,
       ParamsInv, BlocksInv, Current

-----------------------------------------------------------------------------
\* The invariant is inductive: every step of the workers and the server keeps it.
LEMMA NextStepIInv ==
    ASSUME IInv, [Next]_vars
    PROVE  IInv'
<1>1. ASSUME NEW w \in Workers, Work(w)
      PROVE  IInv'
    BY <1>1, DeliverStep, RejectRequestStep, ModuleVersionStep, param_appendStep, ConnectStep,
       PgConnectStep, QueryFailsStep, NoRowsStep, ScalarRowStep, DatabaseRowsStep,
       DiscoveryRowsStep, CopiedRowStep, CloseStep, WideBeginStep, WideConnectStep,
       WideRowsStep, WideNextStep, WideFinishStep, WideCloseStep
       DEF Work
<1> QED BY <1>1, ReceiveStep, EnvironmentStep, StutterStep DEF Next

\* The inductive invariant of the workers: which pointers and blocks go with each label.
THEOREM InductiveInvariant == Spec => []IInv
<1>1. IInv /\ [Next]_vars => IInv'
    BY NextStepIInv
<1> QED BY <1>1, InitIInv, PTL DEF Spec

\* Every variable keeps its type: in particular no count of blocks or connections goes
\* below zero, which is what a second free or PQfinish of the same one would make it.
THEOREM TypeCorrect == Spec => []TypeOK
BY InductiveInvariant, PTL DEF IInv

\* A worker never holds more than one connection, and none once its routine has returned.
THEOREM OneConnectionAlways == Spec => []OneConnection
<1>1. IInv => OneConnection
    <2> SUFFICES ASSUME IInv, NEW w \in Workers
                 PROVE  /\ handles[w] = (IF pc[w] \in {"exec", "out", "next"}
                                         THEN Live(conn[w]) ELSE 0)
                        /\ sessions[w] <= handles[w]
        BY DEF OneConnection
    <2>1. ConnInv(w) /\ pc[w] \in Labels
        BY DEF IInv, TypeOK
    <2> QED BY <2>1 DEF ConnInv, Labels, Live
<1> QED BY <1>1, InductiveInvariant, PTL

\* No statement is run over a connection or with parameters that were freed, and no
\* clean-up frees a result or a connection a second time.
THEOREM PointersSafeAlways == Spec => []PointersSafe
<1>1. IInv => PointersSafe
    BY DEF IInv, PointersSafe, LabelInv, ConnInv, ParamsInv, BlocksInv, Calling, PgCalls
<1> QED BY <1>1, InductiveInvariant, PTL

-----------------------------------------------------------------------------
(***************************************************************************)
(* The shape of a script, as far as its statements go.                     *)
(***************************************************************************)
\* A routine that is passed no params builds the ones its own text asks for.
BindsItsOwn(step) == step.call \in PgCalls \ TakesParams => step.n \in step.stmt.holes

\* One text for all versions.
SameText(step) == step.stmt.old = step.stmt.new

\* If there are two, the newer one needs a column of 9.2, and outlives the older one where
\* both parse.
ChosenByVersion(step) ==
    ~SameText(step) =>
        /\ step.stmt.new.since = V9_2
        /\ step.stmt.old.before <= V9_2 \/ step.stmt.old.before <= step.stmt.new.before

\* A text of the module's own, sent with the parameters bound for the request.
Sends(step) == step.call \in TakesParams /\ step.stmt.asks # "user"

SoundStep(step) == BindsItsOwn(step) /\ ChosenByVersion(step)

\* Nothing in the script binds a parameter.
BindsNone(s) == \A i \in DOMAIN s : s[i].call # "param_append"

\* What a handler may call once it has parameters: the last of them frees them all.
PlainCalls == {"pg_version", "param_append", "pg_get_result", "pg_get_discovery",
               "set_err_result"}
Plain(s) == \A i \in DOMAIN s : s[i].call \in PlainCalls

\* The list of databases is what a deep discovery starts from, and serves nothing else.
Paired(s) ==
    \A i \in DOMAIN s : i < Len(s) =>
        (s[i].call = "pg_get_databases" <=> s[i + 1].call = "pg_get_discovery_wide")

Tidy(s) ==
    /\ \A i \in DOMAIN s : SoundStep(s[i])
    /\ BindsNone(s) \/ Plain(s)
    /\ Paired(s)

\* With n parameters bound so far, a text of the module they are passed to gets as many as
\* it has placeholders: those, or those of the one param_append that comes before it.
Fits(s, n) ==
    \A k \in DOMAIN s : Sends(s[k]) =>
        \/ BindsNone(s) /\ n \in s[k].stmt.holes
        \/ /\ n = 0
           /\ \E i \in 1 .. k - 1 :
                 /\ s[i].call = "param_append" /\ s[i].n \in s[k].stmt.holes
                 /\ \A j \in DOMAIN s : s[j].call = "param_append" => j = i

\* With v read so far, 0 for none, a text that depends on the version comes after it.
AsksFirst(s, v) ==
    \A k \in DOMAIN s : ~SameText(s[k]) =>
        v # 0 \/ \E i \in 1 .. k - 1 : s[i].call = "pg_version"

\* A handler's script: no parameter is bound and no version known when it starts.
Sound(s) ==
    /\ Script(s) /\ Tidy(s) /\ Fits(s, 0) /\ AsksFirst(s, 0)
    /\ Head(s).call # "pg_get_discovery_wide"

-----------------------------------------------------------------------------
(***************************************************************************)
(* What goes on holding of the rest of the script while it is run.         *)
(***************************************************************************)
StatementInv(w) ==
    pc[w] # "idle" =>
        /\ Tidy(script[w])
        /\ Fits(script[w], params[w].n)
        /\ AsksFirst(script[w], version[w])
        /\ params[w].ptr = "live" => Plain(script[w])

\* The workers whose session the server has not lost, each in a slot of its own.
Active == {w \in Workers : sessions[w] > 0}

SlotsInv ==
    /\ IsFiniteSet(Active)
    /\ slots = apps + exiting + Cardinality(Active)
    /\ slots <= MaxConnections

\* CountsApplications, for one worker.
CountedInv(w) ==
    /\ Counted(w, "backends") =>
          /\ reply[w] >= seen[w].apps
          /\ seen[w].slots = seen[w].apps + 1 => reply[w] = seen[w].apps
    /\ Counted(w, "filtered") /\ seen[w].slots = seen[w].apps + 1 =>
          reply[w] \in 0 .. seen[w].apps
    /\ Counted(w, "free") => reply[w] \in 0 .. MaxConnections - seen[w].apps - 1

SentInv == (\A w \in Workers : StatementInv(w) /\ CountedInv(w)) /\ SlotsInv

-----------------------------------------------------------------------------
(***************************************************************************)
(* Handlers of one, two and three steps have sound scripts.                *)
(***************************************************************************)
\* A step that ends a script and is passed the n parameters bound before it.
Final(b, n) ==
    /\ Ending(b) /\ b.call \in PlainCalls /\ ChosenByVersion(b)
    /\ Sends(b) => n \in b.stmt.holes

\* One that may stand alone: its text is the same for every version.
Alone(a) ==
    /\ Ending(a) /\ BindsItsOwn(a) /\ a.call # "pg_get_discovery_wide"
    /\ SameText(a) /\ (Sends(a) => 0 \in a.stmt.holes)

\* A script of one step binds nothing and reads no version.
LEMMA AloneSound ==
    ASSUME NEW a, Alone(a)
    PROVE  Sound(<<a>>)
<1>1. Script(<<a>>)
    BY OneStep DEF Alone
<1>2. Tidy(<<a>>)
    BY DEF Alone, Ending, Leading, Tidy, SoundStep, ChosenByVersion, BindsNone, Paired
<1>3. Fits(<<a>>, 0) /\ AsksFirst(<<a>>, 0)
    BY DEF Alone, Ending, Leading, Fits, BindsNone, AsksFirst
<1> QED BY <1>1, <1>2, <1>3 DEF Sound, Alone

\* The steps that lead on send no text of their own but pg_version's.
LEMMA LeadingSound ==
    /\ \A n \in Nat : /\ SoundStep(Bind(n)) /\ SameText(Bind(n))
                      /\ Bind(n).n = n /\ Bind(n).call \notin TakesParams
    /\ SoundStep(pg_version) /\ SameText(pg_version)
    /\ pg_version.call \notin TakesParams
BY DEF SoundStep, BindsItsOwn, ChosenByVersion, SameText, Bind, pg_version, Step, Sql, SqlOn,
       Asking, OneText, PgCalls, TakesParams

\* Binding n parameters and then sending a text for every version.
LEMMA BoundSound ==
    ASSUME NEW n \in Nat, NEW b, Final(b, n), SameText(b)
    PROVE  Sound(<<Bind(n), b>>)
<1> DEFINE s == <<Bind(n), b>>
<1>1. /\ Bind(n).call = "param_append" /\ b.call # "param_append"
      /\ b.call \in PlainCalls /\ b.call \notin Leading /\ SoundStep(b)
    BY LeadingSteps
       DEF Final, Ending, Leading, PlainCalls, SoundStep, BindsItsOwn, PgCalls, TakesParams
<1>2. Script(s)
    BY <1>1, BoundScript DEF Final, PlainCalls
<1>3. s[1] = Bind(n) /\ s[2] = b /\ Len(s) = 2 /\ DOMAIN s = 1 .. 2 /\ Head(s) = Bind(n)
    OBVIOUS
<1>4. \A i \in DOMAIN s : i = 1 \/ i = 2
    BY <1>3
<1> HIDE DEF s
<1>5. \A i \in DOMAIN s : SoundStep(s[i])
    BY <1>1, <1>3, <1>4, LeadingSound
<1>6. Plain(s)
    BY <1>1, <1>3, <1>4 DEF Plain, PlainCalls
<1>7. Paired(s)
    BY <1>1, <1>3, <1>4 DEF Paired, PlainCalls
<1>8. Fits(s, 0)
    <2> SUFFICES ASSUME NEW k \in DOMAIN s, Sends(s[k])
                 PROVE  \E i \in 1 .. k - 1 :
                           /\ s[i].call = "param_append" /\ s[i].n \in s[k].stmt.holes
                           /\ \A j \in DOMAIN s : s[j].call = "param_append" => j = i
        BY DEF Fits
    <2>1. k = 2 /\ n \in b.stmt.holes
        BY <1>1, <1>3, <1>4, LeadingSound DEF Final, Sends
    <2>2. \A j \in DOMAIN s : s[j].call = "param_append" => j = 1
        BY <1>1, <1>3, <1>4
    <2> QED BY <1>1, <1>3, <2>1, <2>2, LeadingSound
<1>9. AsksFirst(s, 0)
    BY <1>3, <1>4, LeadingSound DEF AsksFirst
<1>10. Head(s).call # "pg_get_discovery_wide"
    BY <1>1, <1>3
<1> QED BY <1>2, <1>5, <1>6, <1>7, <1>8, <1>9, <1>10 DEF Sound, Tidy, s

\* Asking for the version and then sending the text it calls for.
LEMMA VersionSound ==
    ASSUME NEW b, Final(b, 0)
    PROVE  Sound(<<pg_version, b>>)
<1> DEFINE s == <<pg_version, b>>
<1>1. /\ pg_version \in Steps /\ pg_version.call = "pg_version" /\ b.call # "param_append"
      /\ b.call \in PlainCalls /\ b.call \notin Leading /\ SoundStep(b)
    BY LeadingSteps
       DEF Final, Ending, Leading, PlainCalls, SoundStep, BindsItsOwn, PgCalls, TakesParams
<1>2. Script(s)
    BY <1>1, TwoSteps DEF Final, PlainCalls
<1>3. s[1] = pg_version /\ s[2] = b /\ Len(s) = 2 /\ DOMAIN s = 1 .. 2 /\ Head(s) = pg_version
    OBVIOUS
<1>4. \A i \in DOMAIN s : i = 1 \/ i = 2
    BY <1>3
<1> HIDE DEF s
<1>5. \A i \in DOMAIN s : SoundStep(s[i])
    BY <1>1, <1>3, <1>4, LeadingSound
<1>6. BindsNone(s)
    BY <1>1, <1>3, <1>4 DEF BindsNone
<1>7. Paired(s)
    BY <1>1, <1>3, <1>4 DEF Paired, PlainCalls
<1>8. Fits(s, 0)
    BY <1>3, <1>4, <1>6, LeadingSound DEF Fits, Sends, Final
<1>9. AsksFirst(s, 0)
    <2> SUFFICES ASSUME NEW k \in DOMAIN s, ~SameText(s[k])
                 PROVE  \E i \in 1 .. k - 1 : s[i].call = "pg_version"
        BY DEF AsksFirst
    <2>1. k = 2
        BY <1>3, <1>4, LeadingSound
    <2> QED BY <1>1, <1>3, <2>1
<1>10. Head(s).call # "pg_get_discovery_wide"
    BY <1>1, <1>3
<1> QED BY <1>2, <1>5, <1>6, <1>7, <1>8, <1>9, <1>10 DEF Sound, Tidy, s

\* Asking for the version and binding, in either order, before the statement.
LEMMA FilteredByVersionSound ==
    ASSUME NEW n \in Nat, NEW c, Final(c, n), NEW a, NEW b,
           \/ a = pg_version /\ b = Bind(n)
           \/ a = Bind(n) /\ b = pg_version /\ c.call # "set_err_result"
    PROVE  Sound(<<a, b, c>>)
<1> DEFINE s == <<a, b, c>>
<1>1. /\ a \in Steps /\ b \in Steps
      /\ \/ a = pg_version /\ a.call = "pg_version" /\ b = Bind(n) /\ b.call = "param_append"
         \/ a = Bind(n) /\ a.call = "param_append" /\ b = pg_version /\ b.call = "pg_version"
      /\ c.call # "param_append"
      /\ c.call \in PlainCalls /\ c.call \notin Leading /\ SoundStep(c)
    BY LeadingSteps
       DEF Final, Ending, Leading, PlainCalls, SoundStep, BindsItsOwn, PgCalls, TakesParams
<1>2. Script(s)
    BY <1>1, ThreeSteps DEF Final, PlainCalls
<1>3. /\ s[1] = a /\ s[2] = b /\ s[3] = c /\ Len(s) = 3 /\ DOMAIN s = 1 .. 3 /\ Head(s) = a
    OBVIOUS
<1>4. \A i \in DOMAIN s : i = 1 \/ i = 2 \/ i = 3
    BY <1>3
<1> HIDE DEF s
<1>5. \A i \in DOMAIN s : SoundStep(s[i])
    BY <1>1, <1>3, <1>4, LeadingSound
<1>6. Plain(s)
    BY <1>1, <1>3, <1>4 DEF Plain, PlainCalls
<1>7. Paired(s)
    BY <1>1, <1>3, <1>4 DEF Paired, PlainCalls
<1>8. Fits(s, 0)
    <2> SUFFICES ASSUME NEW k \in DOMAIN s, Sends(s[k])
                 PROVE  \E i \in 1 .. k - 1 :
                           /\ s[i].call = "param_append" /\ s[i].n \in s[k].stmt.holes
                           /\ \A j \in DOMAIN s : s[j].call = "param_append" => j = i
        BY DEF Fits
    <2>1. k = 3 /\ n \in c.stmt.holes
        BY <1>1, <1>3, <1>4, LeadingSound DEF Final, Sends
    <2>2. CASE b = Bind(n)
        <3>1. \A j \in DOMAIN s : s[j].call = "param_append" => j = 2
            BY <1>1, <1>3, <1>4, <2>2, LeadingSteps
        <3>2. s[2].call = "param_append" /\ s[2].n \in s[k].stmt.holes /\ 2 \in 1 .. k - 1
            BY <1>3, <2>1, <2>2, LeadingSteps, LeadingSound
        <3> QED BY <3>1, <3>2
    <2>3. CASE a = Bind(n)
        <3>1. \A j \in DOMAIN s : s[j].call = "param_append" => j = 1
            BY <1>1, <1>3, <1>4, <2>3, LeadingSteps
        <3>2. s[1].call = "param_append" /\ s[1].n \in s[k].stmt.holes /\ 1 \in 1 .. k - 1
            BY <1>3, <2>1, <2>3, LeadingSteps, LeadingSound
        <3> QED BY <3>1, <3>2
    <2> QED BY <2>2, <2>3
<1>9. AsksFirst(s, 0)
    <2> SUFFICES ASSUME NEW k \in DOMAIN s, ~SameText(s[k])
                 PROVE  \E i \in 1 .. k - 1 : s[i].call = "pg_version"
        BY DEF AsksFirst
    <2>1. k = 3
        BY <1>1, <1>3, <1>4, LeadingSound
    <2>2. 1 \in 1 .. k - 1 /\ 2 \in 1 .. k - 1
        BY <2>1
    <2> QED BY <1>1, <1>3, <2>2
<1>10. Head(s).call # "pg_get_discovery_wide"
    BY <1>1, <1>3
<1> QED BY <1>2, <1>5, <1>6, <1>7, <1>8, <1>9, <1>10 DEF Sound, Tidy, s

\* The list of databases and the walk over them.
LEMMA WideSound == Sound(pg_get_discovery_wide(Sql(0)))
<1> DEFINE list == Step("pg_get_databases", NoType, Asking("databases"), 0)
           wide == Step("pg_get_discovery_wide", AR_STRING, Sql(0), 0)
           s == <<list, wide>>
<1>1. s = pg_get_discovery_wide(Sql(0))
    BY DEF pg_get_discovery_wide
<1>2. /\ list.call = "pg_get_databases" /\ wide.call = "pg_get_discovery_wide"
      /\ SameText(list) /\ SameText(wide) /\ wide.stmt.holes = {0}
      /\ SoundStep(list) /\ SoundStep(wide)
    BY DEF Step, Asking, Sql, SqlOn, OneText, SoundStep, BindsItsOwn, ChosenByVersion, SameText,
           PgCalls, TakesParams
<1>3. s[1] = list /\ s[2] = wide /\ Len(s) = 2 /\ DOMAIN s = 1 .. 2 /\ Head(s) = list
    OBVIOUS
<1>4. \A i \in DOMAIN s : i = 1 \/ i = 2
    BY <1>3
<1> HIDE DEF s, list, wide
<1>5. \A i \in DOMAIN s : SoundStep(s[i])
    BY <1>2, <1>3, <1>4
<1>6. BindsNone(s) /\ Paired(s)
    BY <1>2, <1>3, <1>4 DEF BindsNone, Paired
<1>7. Fits(s, 0)
    BY <1>2, <1>3, <1>4, <1>6 DEF Fits, Sends, TakesParams
<1>8. AsksFirst(s, 0)
    BY <1>2, <1>3, <1>4 DEF AsksFirst
<1>9. Head(s).call # "pg_get_discovery_wide"
    BY <1>2, <1>3
<1> QED BY <1>1, <1>5, <1>6, <1>7, <1>8, <1>9, WideScript DEF Sound, Tidy

-----------------------------------------------------------------------------
(***************************************************************************)
(* The shapes most handlers share.                                         *)
(***************************************************************************)
Kinds == {AR_STRING, AR_UINT64, AR_DOUBLE}

\* The steps that end most scripts, with the numbers of parameters they accept.
LEMMA FinalSteps ==
    /\ \A n : Final(Reject, n) /\ SameText(Reject) /\ Alone(Reject)
    /\ \A type \in Kinds, n \in Nat, window \in Windows :
          /\ Final(Get(type, SqlOn(n, window)), n) /\ SameText(Get(type, SqlOn(n, window)))
          /\ n = 0 => Alone(Get(type, SqlOn(n, window)))
    /\ \A n \in Nat : Final(Discover(Sql(n)), n) /\ SameText(Discover(Sql(n)))
    /\ Alone(Discover(Sql(0)))
<1>1. Ending(Reject) /\ Reject.call = "set_err_result" /\ SameText(Reject)
    BY EndingSteps DEF Reject, Step, Sql, SqlOn, OneText, SameText
<1>2. ASSUME NEW type \in Kinds, NEW n \in Nat, NEW window \in Windows
      PROVE  /\ Ending(Get(type, SqlOn(n, window))) /\ SameText(Get(type, SqlOn(n, window)))
             /\ Get(type, SqlOn(n, window)).call = "pg_get_result"
             /\ Get(type, SqlOn(n, window)).stmt.holes = {n}
    <2>1. Ending(Get(type, SqlOn(n, window)))
        BY StatementType, GetEnds DEF Kinds
    <2> QED BY <2>1 DEF Get, Step, SqlOn, OneText, SameText
<1>3. ASSUME NEW n \in Nat
      PROVE  /\ Ending(Discover(Sql(n))) /\ Discover(Sql(n)).call = "pg_get_discovery"
             /\ Discover(Sql(n)).stmt.holes = {n} /\ SameText(Discover(Sql(n)))
    <2>1. Ending(Discover(Sql(n)))
        BY StatementType, EndingSteps
    <2> QED BY <2>1 DEF Discover, Step, Sql, SqlOn, OneText, SameText
<1> USE DEF Final, Alone, PlainCalls, ChosenByVersion, BindsItsOwn, Sends, TakesParams, PgCalls
<1>4. \A n : Final(Reject, n) /\ SameText(Reject) /\ Alone(Reject)
    BY <1>1
<1>5. ASSUME NEW type \in Kinds, NEW n \in Nat, NEW window \in Windows
      PROVE  /\ Final(Get(type, SqlOn(n, window)), n) /\ SameText(Get(type, SqlOn(n, window)))
             /\ n = 0 => Alone(Get(type, SqlOn(n, window)))
    BY <1>2
<1>6. \A n \in Nat : Final(Discover(Sql(n)), n) /\ SameText(Discover(Sql(n)))
    BY <1>3
<1>7. Alone(Discover(Sql(0)))
    BY <1>3
<1> QED BY <1>4, <1>5, <1>6, <1>7

\* A value of a text over columns of every version.
LEMMA GetFinal ==
    ASSUME NEW type \in Kinds, NEW n \in Nat
    PROVE  Final(Get(type, Sql(n)), n) /\ SameText(Get(type, Sql(n)))
BY FinalSteps, WindowType DEF Sql

\* A fixed text, sent once; a request refused at once; a discovery of one database.
LEMMA FixedSound ==
    /\ \A type \in Kinds, window \in Windows : Sound(FixedOn(type, window))
    /\ \A type \in Kinds : Sound(Fixed(type))
    /\ Sound(<<Reject>>)
    /\ Sound(<<Discover(Sql(0))>>)
<1>1. \A type \in Kinds, window \in Windows : Sound(FixedOn(type, window))
    BY AloneSound, FinalSteps DEF FixedOn
<1> QED BY <1>1, AloneSound, FinalSteps, WindowType DEF Fixed

\* The handlers that filter by an optional name send it if and only if it is in the text.
LEMMA FilteredSound ==
    ASSUME NEW p, NEW type \in Kinds, NEW window \in Windows
    PROVE  Sound(FilteredOn(p, type, window))
<1> DEFINE name == get_rparam(p, 1)
           n == param_new(name)
<1>1. n \in Nat
    BY param_newType
<1>2. (IF strisnull(name) THEN SqlOn(0, window) ELSE SqlOn(1, window)) = SqlOn(n, window)
    BY DEF param_new
<1>3. FilteredOn(p, type, window) = <<Bind(n), Get(type, SqlOn(n, window))>>
    BY <1>2 DEF FilteredOn
<1> HIDE DEF n
<1>4. Sound(<<Bind(n), Get(type, SqlOn(n, window))>>)
    BY <1>1, FinalSteps, BoundSound
<1> QED BY <1>3, <1>4

\* Most of them look at columns every version has.
LEMMA FilteredAnywhereSound ==
    ASSUME NEW p, NEW type \in Kinds
    PROVE  Sound(Filtered(p, type))
BY FilteredSound, WindowType DEF Filtered

\* The handlers that demand a name send it to a text with one placeholder.
LEMMA RequiredSound ==
    ASSUME NEW p, NEW b, Final(b, 1), SameText(b)
    PROVE  Sound(Required(p, b))
<1>1. CASE strisnull(get_rparam(p, 1))
    BY <1>1, FixedSound DEF Required
<1>2. CASE ~strisnull(get_rparam(p, 1))
    <2>1. Required(p, b) = <<Bind(1), b>>
        BY <1>2 DEF Required, param_new
    <2> QED BY <2>1, BoundSound
<1> QED BY <1>1, <1>2

\* pg_get_percentage binds a value if and only if it filters by a column.
LEMMA RatioSound ==
    ASSUME NEW p, NEW column, column # ""
    PROVE  Sound(Ratio(p, column))
<1> DEFINE name == get_rparam(p, 1)
           n == param_new(name)
<1>1. n \in Nat
    BY param_newType
<1>2. Ratio(p, column) = <<Bind(n), Get(AR_DOUBLE, Sql(n))>>
    BY DEF Ratio, pg_get_percentage, param_new, strisnull
<1> HIDE DEF n
<1>3. Sound(<<Bind(n), Get(AR_DOUBLE, Sql(n))>>)
    BY <1>1, GetFinal, BoundSound DEF Kinds
<1> QED BY <1>2, <1>3

\* The discoveries with a mode parameter.
LEMMA DiscoverByModeSound ==
    ASSUME NEW p
    PROVE  Sound(DiscoverByMode(p))
BY WideSound, FixedSound DEF DiscoverByMode

-----------------------------------------------------------------------------
(***************************************************************************)
(* The handlers, file by file.                                             *)
(***************************************************************************)
\* The handlers of libzbxpgsql.c and pg_server.c.
LEMMA ServerSound ==
    ASSUME NEW p
    PROVE  /\ Sound(MODVER) /\ Sound(PG_CONNECT) /\ Sound(PG_VERSION)
           /\ Sound(PG_STARTTIME) /\ Sound(PG_UPTIME)
           /\ Sound(PG_PREPARED_XACTS_COUNT(p)) /\ Sound(PG_PREPARED_XACTS_RATIO)
           /\ Sound(PG_PREPARED_XACTS_AGE(p)) /\ Sound(PG_SETTING_DISCOVERY)
<1>1. ASSUME NEW call \in {"MODVER", "PG_CONNECT"}, NEW type \in Types
      PROVE  Alone(Step(call, type, Sql(0), 0))
    <2>1. Ending(Step(call, type, Sql(0), 0))
        BY StatementType, EndingSteps DEF Calls, Leading
    <2> QED BY <2>1 DEF Alone, BindsItsOwn, SameText, Sends, Step, Sql, SqlOn, OneText,
                        PgCalls, TakesParams
<1>2. Sound(MODVER) /\ Sound(PG_CONNECT)
    BY <1>1, AloneSound DEF MODVER, PG_CONNECT, Types
<1> QED BY <1>2, FixedSound, FilteredAnywhereSound
        DEF Kinds, PG_VERSION, PG_STARTTIME, PG_UPTIME, PG_PREPARED_XACTS_COUNT,
            PG_PREPARED_XACTS_RATIO, PG_PREPARED_XACTS_AGE, PG_SETTING_DISCOVERY

\* PG_SETTING builds the one parameter its text asks for.
LEMMA SettingSound ==
    ASSUME NEW p
    PROVE  Sound(PG_SETTING(p))
<1>1. CASE strisnull(get_rparam(p, 1))
    BY <1>1, FixedSound DEF PG_SETTING
<1>2. CASE ~strisnull(get_rparam(p, 1))
    <2>1. PG_SETTING(p) = <<Step("PG_SETTING", NoType, Sql(1), 1)>>
        BY <1>2 DEF PG_SETTING, param_new
    <2>2. Ending(Step("PG_SETTING", NoType, Sql(1), 1))
        BY StatementType, EndingSteps DEF Calls, PgCalls, Leading, Types
    <2>3. Alone(Step("PG_SETTING", NoType, Sql(1), 1))
        BY <2>2 DEF Alone, BindsItsOwn, SameText, Sends, Step, Sql, SqlOn, OneText,
                    PgCalls, TakesParams
    <2> QED BY <2>1, <2>3, AloneSound
<1> QED BY <1>1, <1>2

\* PG_QUERY sends the user's text, the same for every version.
LEMMA QuerySound ==
    ASSUME NEW key \in QueryKeys, NEW p \in Seq(STRING)
    PROVE  Sound(PG_QUERY(key, p))
<1> DEFINE given == {i \in 2 .. Len(p) : ~strisnull(p[i])}
           n == Cardinality(given)
<1>1. n \in Nat /\ UserSql(p) \in Statements
    BY QueryParamsType, StatementType
<1>2. SameText([stmt |-> UserSql(p)]) /\ UserSql(p).asks = "user"
    BY DEF SameText, UserSql, OneText
<1> HIDE DEF n, given
<1>3. ASSUME NEW type \in Kinds
      PROVE  Sound(<<Bind(n), Get(type, UserSql(p))>>)
    <2>1. Ending(Get(type, UserSql(p)))
        BY <1>1, GetEnds DEF Kinds
    <2>2. Final(Get(type, UserSql(p)), n) /\ SameText(Get(type, UserSql(p)))
        BY <1>2, <2>1 DEF Final, PlainCalls, ChosenByVersion, SameText, Sends, Get, Step
    <2> QED BY <1>1, <2>2, BoundSound
<1>4. Sound(<<Bind(n), Discover(UserSql(p))>>)
    <2>1. Ending(Discover(UserSql(p)))
        BY <1>1, EndingSteps
    <2>2. Final(Discover(UserSql(p)), n) /\ SameText(Discover(UserSql(p)))
        BY <1>2, <2>1 DEF Final, PlainCalls, ChosenByVersion, SameText, Sends, Discover, Step
    <2> QED BY <1>1, <2>2, BoundSound
<1> QED BY <1>3, <1>4, FixedSound DEF PG_QUERY, QueryKeys, Kinds, n, given

\* The activity clause has a placeholder for each filter that was bound, and the text it
\* completes is chosen after the version was read.
LEMMA BackendSound ==
    ASSUME NEW p
    PROVE  /\ Sound(PG_BACKENDS_COUNT(p)) /\ Sound(PG_BACKENDS_RATIO)
           /\ Sound(PG_BACKENDS_FREE) /\ Sound(PG_QUERIES_LONGEST(p))
<1> DEFINE n == Cardinality(GivenFilters(p))
<1>1. n \in Nat
    BY GivenFiltersType
<1>2. ASSUME NEW type \in Kinds, NEW question \in Questions, NEW m \in Nat,
             NEW window \in Windows
      PROVE  /\ Final(Get(type, PgStatActivity(question, m, window)), m)
             /\ Get(type, PgStatActivity(question, m, window)).call # "set_err_result"
    <2> DEFINE sql == PgStatActivity(question, m, window)
    <2>1. Ending(Get(type, sql))
        BY StatementType, GetEnds DEF Kinds
    <2>2. /\ sql.new.since = V9_2 /\ sql.old.before = V9_2 /\ sql.holes = {m}
        BY DEF PgStatActivity, Windows
    <2>3. Get(type, sql).stmt = sql /\ Get(type, sql).call = "pg_get_result"
        BY DEF Get, Step
    <2> HIDE DEF sql
    <2>4. Final(Get(type, sql), m)
        BY <2>1, <2>2, <2>3, WindowType DEF Final, PlainCalls, ChosenByVersion
    <2> QED BY <2>3, <2>4 DEF sql
<1>3. /\ ClauseParams(p) = Bind(n)
      /\ \A question : ActivitySql(p, question) = PgStatActivity(question, n, FilterColumns(p))
      /\ CountAsks(p) \in Questions /\ "other" \in Questions /\ FilterColumns(p) \in Windows
    BY WindowType DEF ClauseParams, ActivitySql, CountAsks, Questions
<1> HIDE DEF n
<1>4. Sound(PG_BACKENDS_COUNT(p))
    <2>1. Sound(<<pg_version, Bind(n), Get(AR_UINT64, ActivitySql(p, CountAsks(p)))>>)
        BY <1>1, <1>2, <1>3, FilteredByVersionSound DEF Kinds
    <2>2. Sound(<<pg_version, Bind(n), Reject>>)
        BY <1>1, FinalSteps, FilteredByVersionSound
    <2> QED BY <1>3, <2>1, <2>2 DEF PG_BACKENDS_COUNT, n
<1>5. Sound(PG_QUERIES_LONGEST(p))
    <2>1. Sound(<<Bind(n), pg_version, Get(AR_DOUBLE, ActivitySql(p, "other"))>>)
        BY <1>1, <1>2, <1>3, FilteredByVersionSound DEF Kinds
    <2>2. Sound(<<Bind(n), Reject>>)
        BY <1>1, FinalSteps, BoundSound
    <2> QED BY <1>3, <2>1, <2>2 DEF PG_QUERIES_LONGEST, n
<1>6. Sound(PG_BACKENDS_RATIO)
    BY <1>2, VersionSound, WindowType DEF PG_BACKENDS_RATIO, Kinds, Questions
<1>7. Sound(PG_BACKENDS_FREE)
    <2>1. Ending(Get(AR_DOUBLE, Asking("free")))
        BY StatementType, GetEnds DEF Questions
    <2>2. Alone(Get(AR_DOUBLE, Asking("free")))
        BY <2>1 DEF Alone, BindsItsOwn, SameText, Sends, Get, Step, Asking, OneText, PgCalls,
                    TakesParams
    <2> QED BY <2>2, AloneSound DEF PG_BACKENDS_FREE
<1> QED BY <1>4, <1>5, <1>6, <1>7

\* The handlers of pg_bgwriter.c.
LEMMA BgwriterSound ==
    ASSUME NEW key, NEW p
    PROVE  /\ Sound(PG_STAT_BGWRITER(key)) /\ Sound(PG_BG_STATS_RESET_INTERVAL)
           /\ Sound(PG_BG_AVG_INTERVAL) /\ Sound(PG_BG_TIME_RATIO(p))
<1>1. /\ \A type \in Kinds, v \in {V9_1, V9_2} : Sound(FixedOn(type, Since(v)))
      /\ \A type \in Kinds : Sound(Fixed(type))
      /\ AR_STRING \in Kinds /\ AR_UINT64 \in Kinds /\ AR_DOUBLE \in Kinds
    BY FixedSound, WindowType DEF Kinds
<1>2. Sound(PG_STAT_BGWRITER(key))
    BY <1>1 DEF PG_STAT_BGWRITER
<1>3. Sound(PG_BG_STATS_RESET_INTERVAL) /\ Sound(PG_BG_AVG_INTERVAL)
    BY <1>1 DEF PG_BG_STATS_RESET_INTERVAL, PG_BG_AVG_INTERVAL
<1>4. Sound(PG_BG_TIME_RATIO(p))
    <2>1. CASE get_rparam(p, 1) \in {"", "all", "write", "sync"}
        BY <1>1, <2>1 DEF PG_BG_TIME_RATIO
    <2>2. CASE get_rparam(p, 1) \notin {"", "all", "write", "sync"}
        BY <2>2, FixedSound DEF PG_BG_TIME_RATIO
    <2> QED BY <2>1, <2>2
<1> QED BY <1>2, <1>3, <1>4

\* The handlers of pg_database.c.
LEMMA DatabaseSound ==
    ASSUME NEW key, NEW p
    PROVE  /\ Sound(PG_DB_DISCOVERY) /\ Sound(PG_STAT_DATABASE(key, p))
           /\ Sound(PG_DB_BLKS_RATIO(p)) /\ Sound(PG_DB_SIZE(p))
           /\ Sound(PG_DB_XID_AGE(p))
<1>1. Sound(Required(p, Get(AR_STRING, SqlOn(1, Since(V9_1)))))
    BY FinalSteps, RequiredSound, WindowType DEF Kinds
<1>2. /\ Sound(Filtered(p, AR_UINT64)) /\ Sound(FilteredOn(p, AR_DOUBLE, Since(V9_2)))
      /\ \A v \in {V9_1, V9_2} : Sound(FilteredOn(p, AR_UINT64, Since(v)))
    BY FilteredSound, FilteredAnywhereSound, WindowType DEF Kinds
<1>3. Sound(PG_STAT_DATABASE(key, p))
    BY <1>1, <1>2 DEF PG_STAT_DATABASE
<1> QED BY <1>2, <1>3, FixedSound, RatioSound
        DEF PG_DB_DISCOVERY, PG_DB_BLKS_RATIO, PG_DB_SIZE, PG_DB_XID_AGE

\* The handlers of pg_namespace.c and pg_tablespace.c; a tablespace's location is asked
\* for only of a server known to have it.
LEMMA SpaceSound ==
    ASSUME NEW p
    PROVE  /\ Sound(PG_NAMESPACE_DISCOVERY(p)) /\ Sound(PG_NAMESPACE_SIZE(p))
           /\ Sound(PG_TABLESPACE_DISCOVERY) /\ Sound(PG_TABLESPACE_SIZE(p))
<1> DEFINE sql == [Sql(0) EXCEPT !.new = Since(V9_2)]
<1>1. sql \in Statements
    BY StatementType, WindowType DEF Statements
<1>2. Ending(Discover(sql))
    BY <1>1, EndingSteps
<1>3. Final(Discover(sql), 0)
    <2>1. /\ sql.new = Since(V9_2) /\ sql.old = Since(0) /\ sql.holes = {0}
        BY DEF Sql, SqlOn, OneText, AnyVersion
    <2>2. sql.new.since = V9_2 /\ sql.new.before = Beyond /\ sql.old.before = Beyond
        BY <2>1 DEF Since
    <2>3. Discover(sql).stmt = sql /\ Discover(sql).call = "pg_get_discovery"
        BY DEF Discover, Step
    <2>4. Beyond <= Beyond
        BY DEF Beyond
    <2> HIDE DEF sql
    <2> QED BY <1>2, <2>1, <2>2, <2>3, <2>4 DEF Final, PlainCalls, ChosenByVersion
<1>4. Sound(PG_TABLESPACE_DISCOVERY)
    BY <1>3, VersionSound DEF PG_TABLESPACE_DISCOVERY
<1>5. Sound(Required(p, Get(AR_UINT64, Sql(1))))
    BY GetFinal, RequiredSound DEF Kinds
<1> QED BY <1>4, <1>5, DiscoverByModeSound
        DEF PG_NAMESPACE_DISCOVERY, PG_NAMESPACE_SIZE, PG_TABLESPACE_SIZE

\* The handlers of pg_table.c.
LEMMA TableSound ==
    ASSUME NEW key, NEW p
    PROVE  /\ Sound(PG_TABLE_DISCOVERY(p)) /\ Sound(PG_TABLE_CHILDREN_DISCOVERY(p))
           /\ Sound(PG_STAT_ALL_TABLES(key, p)) /\ Sound(PG_TABLE_IDX_SCAN_RATIO(p))
           /\ Sound(PG_STATIO_ALL_TABLES(p)) /\ Sound(PG_TABLE_HEAP_BLKS_RATIO(p))
           /\ Sound(PG_TABLE_IDX_BLKS_RATIO(p)) /\ Sound(PG_TABLE_TOAST_BLKS_RATIO(p))
           /\ Sound(PG_TABLE_TIDX_BLKS_RATIO(p)) /\ Sound(PG_TABLE_SIZE(p))
           /\ Sound(PG_TABLE_ROWS(p)) /\ Sound(PG_TABLE_CHILDREN(p))
           /\ Sound(PG_TABLE_CHILDREN_SIZE(p)) /\ Sound(PG_TABLE_CHILDREN_ROWS(p))
<1>1. /\ Sound(Required(p, Get(AR_STRING, Sql(1)))) /\ Sound(Required(p, Get(AR_UINT64, Sql(1))))
      /\ Sound(Required(p, Discover(Sql(1))))
    BY FinalSteps, GetFinal, RequiredSound DEF Kinds
<1>2. /\ Sound(Filtered(p, AR_UINT64))
      /\ \A v \in {V9_1, V9_4} : Sound(FilteredOn(p, AR_UINT64, Since(v)))
    BY FilteredSound, FilteredAnywhereSound, WindowType DEF Kinds
<1>3. Sound(PG_STAT_ALL_TABLES(key, p))
    BY <1>1, <1>2 DEF PG_STAT_ALL_TABLES
<1> QED BY <1>1, <1>2, <1>3, RatioSound, DiscoverByModeSound
        DEF PG_TABLE_DISCOVERY, PG_TABLE_CHILDREN_DISCOVERY, PG_TABLE_IDX_SCAN_RATIO,
            PG_STATIO_ALL_TABLES, PG_TABLE_HEAP_BLKS_RATIO, PG_TABLE_IDX_BLKS_RATIO,
            PG_TABLE_TOAST_BLKS_RATIO, PG_TABLE_TIDX_BLKS_RATIO, PG_TABLE_SIZE,
            PG_TABLE_ROWS, PG_TABLE_CHILDREN, PG_TABLE_CHILDREN_SIZE, PG_TABLE_CHILDREN_ROWS

\* The handlers of pg_index.c; PG_STAT_ALL_INDEXES builds the parameter its text asks for.
LEMMA IndexSound ==
    ASSUME NEW p
    PROVE  /\ Sound(PG_INDEX_DISCOVERY(p)) /\ Sound(PG_STAT_ALL_INDEXES(p))
           /\ Sound(PG_STATIO_ALL_INDEXES(p)) /\ Sound(PG_INDEX_IDX_BLKS_RATIO(p))
           /\ Sound(PG_INDEX_SIZE(p)) /\ Sound(PG_INDEX_ROWS(p))
<1> DEFINE n == param_new(get_rparam(p, 1))
           step == Step("PG_STAT_ALL_INDEXES", AR_UINT64, Sql(n), n)
<1>1. PG_STAT_ALL_INDEXES(p) = <<step>>
    BY DEF PG_STAT_ALL_INDEXES, param_new
<1>2. n \in Nat
    BY param_newType
<1> HIDE DEF n
<1>3. Ending(step)
    BY <1>2, StatementType, EndingSteps DEF Calls, PgCalls, Leading, Types
<1>4. Alone(step)
    BY <1>2, <1>3 DEF Alone, BindsItsOwn, SameText, Sends, Step, Sql, SqlOn, OneText, PgCalls,
                      TakesParams
<1>5. Sound(PG_STAT_ALL_INDEXES(p))
    BY <1>1, <1>4, AloneSound
<1> QED BY <1>5, FilteredAnywhereSound, RatioSound, DiscoverByModeSound
        DEF PG_INDEX_DISCOVERY, PG_STATIO_ALL_INDEXES, PG_INDEX_IDX_BLKS_RATIO,
            PG_INDEX_SIZE, PG_INDEX_ROWS, Kinds

\* Whatever the key and its parameters, the handler (keys[], libzbxpgsql.c) binds as many
\* parameters as its statement has placeholders, asks for the version before it chooses a
\* text by it, and has bound nothing when it starts a deep discovery.
THEOREM HandlersSound ==
    ASSUME NEW key \in keys, NEW p \in Seq(STRING)
    PROVE  Sound(Handler(key, p))
<1>1. CASE key \in ServerKeys
    <2>1. Sound(ServerScript(key, p))
        BY <1>1, ServerSound, SettingSound, QuerySound, BackendSound, BgwriterSound
           DEF ServerScript, ServerKeys
    <2> QED BY <1>1, <2>1 DEF Handler
<1>2. CASE key \in AssetKeys /\ key \notin ServerKeys
    <2>1. Sound(AssetScript(key, p))
        BY <1>2, DatabaseSound, SpaceSound, TableSound, IndexSound DEF AssetScript, AssetKeys
    <2> QED BY <1>2, <2>1 DEF Handler
<1> QED BY <1>1, <1>2 DEF keys

-----------------------------------------------------------------------------
(***************************************************************************)
(* The rest of a script after a step that leads to another one.            *)
(***************************************************************************)
\* Where the steps of the rest were.
LEMMA TailSteps ==
    ASSUME NEW s \in Seq(Steps), WellFormed(s), Head(s).call \in Leading
    PROVE  /\ Head(s) = s[1] /\ 1 \in DOMAIN s /\ Len(s) \in Nat /\ 1 < Len(s)
           /\ Len(Tail(s)) = Len(s) - 1
           /\ \A i \in DOMAIN Tail(s) :
                 /\ i \in Nat /\ i + 1 \in DOMAIN s /\ Tail(s)[i] = s[i + 1]
                 /\ i <= Len(s) - 1
           /\ \A k \in DOMAIN s : k = 1 \/ (k - 1 \in DOMAIN Tail(s) /\ s[k] = Tail(s)[k - 1])
<1>1. s # <<>> /\ Len(s) \in Nat /\ Head(s) = s[1] /\ 1 \in DOMAIN s
    BY DEF WellFormed
<1>2. 1 < Len(s)
    BY <1>1 DEF WellFormed, Leading
<1>3. /\ Tail(s) \in Seq(Steps) /\ Len(Tail(s)) = Len(s) - 1
      /\ \A i \in 1 .. Len(s) - 1 : Tail(s)[i] = s[i + 1]
    BY <1>1
<1>4. DOMAIN Tail(s) = 1 .. Len(s) - 1 /\ DOMAIN s = 1 .. Len(s)
    BY <1>1, <1>3
<1> QED BY <1>1, <1>2, <1>3, <1>4

\* The rest of a tidy script is tidy.
LEMMA TailTidy ==
    ASSUME NEW s \in Seq(Steps), WellFormed(s), Head(s).call \in Leading, Tidy(s)
    PROVE  /\ Tidy(Tail(s))
           /\ Plain(s) => Plain(Tail(s))
           /\ Head(s).call = "param_append" => Plain(s)
           /\ Head(Tail(s)).call = "pg_get_discovery_wide" <=> Head(s).call = "pg_get_databases"
<1> DEFINE t == Tail(s)
<1>1. /\ Head(s) = s[1] /\ 1 \in DOMAIN s /\ Len(s) \in Nat /\ 1 < Len(s)
      /\ Len(t) = Len(s) - 1
      /\ \A i \in DOMAIN t : i \in Nat /\ i + 1 \in DOMAIN s /\ t[i] = s[i + 1]
    BY TailSteps
<1>2. t \in Seq(Steps) /\ t # <<>> /\ Head(t) = t[1] /\ t[1] = s[2]
    BY <1>1, RestOfScript DEF WellFormed
<1> HIDE DEF t
<1>3. \A i \in DOMAIN t : SoundStep(t[i])
    BY <1>1 DEF Tidy
<1>4. (BindsNone(s) => BindsNone(t)) /\ (Plain(s) => Plain(t))
    BY <1>1 DEF BindsNone, Plain
<1>5. Paired(t)
    <2> SUFFICES ASSUME NEW i \in DOMAIN t, i < Len(t)
                 PROVE  t[i].call = "pg_get_databases" <=> t[i + 1].call = "pg_get_discovery_wide"
        BY DEF Paired
    <2>1. i + 1 \in DOMAIN s /\ i + 1 < Len(s) /\ i + 1 \in DOMAIN t
        BY <1>1, <1>2
    <2>2. t[i] = s[i + 1] /\ t[i + 1] = s[(i + 1) + 1]
        BY <1>1, <2>1
    <2> QED BY <2>1, <2>2 DEF Tidy, Paired
<1>6. s[1].call = "pg_get_databases" <=> s[2].call = "pg_get_discovery_wide"
    BY <1>1 DEF Tidy, Paired
<1>7. Head(s).call = "param_append" => Plain(s)
    BY <1>1 DEF Tidy, BindsNone
<1> QED BY <1>1, <1>2, <1>3, <1>4, <1>5, <1>6, <1>7 DEF Tidy, t

\* param_append binds what the rest of the script needs; the other steps bind nothing.
LEMMA TailFits ==
    ASSUME NEW s \in Seq(Steps), WellFormed(s), Head(s).call \in Leading,
           NEW n \in Nat, Fits(s, n)
    PROVE  /\ Head(s).call = "param_append" => Fits(Tail(s), n + Head(s).n)
           /\ Head(s).call # "param_append" => Fits(Tail(s), n)
<1> DEFINE t == Tail(s)
<1>1. /\ Head(s) = s[1] /\ 1 \in DOMAIN s /\ Len(s) \in Nat /\ 1 < Len(s)
      /\ Len(t) = Len(s) - 1
      /\ \A i \in DOMAIN t : i \in Nat /\ i + 1 \in DOMAIN s /\ t[i] = s[i + 1]
      /\ \A k \in DOMAIN s : k = 1 \/ (k - 1 \in DOMAIN t /\ s[k] = t[k - 1])
    BY TailSteps
<1>2. Head(s).n \in Nat
    BY CurrentStep DEF Steps
<1> HIDE DEF t
<1>3. ASSUME Head(s).call = "param_append", NEW k \in DOMAIN t, Sends(t[k])
      PROVE  BindsNone(t) /\ n + Head(s).n \in t[k].stmt.holes
    <2>1. /\ n = 0
          /\ \E i \in 1 .. (k + 1) - 1 :
                /\ s[i].call = "param_append" /\ s[i].n \in s[k + 1].stmt.holes
                /\ \A j \in DOMAIN s : s[j].call = "param_append" => j = i
        BY <1>1, <1>3 DEF Fits, BindsNone
    <2>2. /\ s[1].n \in s[k + 1].stmt.holes
          /\ \A j \in DOMAIN s : s[j].call = "param_append" => j = 1
        BY <1>1, <1>3, <2>1
    <2>3. BindsNone(t)
        BY <1>1, <2>2 DEF BindsNone
    <2>4. n + Head(s).n = s[1].n
        BY <1>1, <1>2, <2>1
    <2> QED BY <1>1, <2>2, <2>3, <2>4
<1>4. ASSUME Head(s).call # "param_append", NEW k \in DOMAIN t, Sends(t[k])
      PROVE  \/ BindsNone(t) /\ n \in t[k].stmt.holes
             \/ /\ n = 0
                /\ \E i \in 1 .. k - 1 :
                      /\ t[i].call = "param_append" /\ t[i].n \in t[k].stmt.holes
                      /\ \A j \in DOMAIN t : t[j].call = "param_append" => j = i
    <2>1. k + 1 \in DOMAIN s /\ t[k] = s[k + 1] /\ k \in Nat
        BY <1>1
    <2>2. CASE BindsNone(s) /\ n \in s[k + 1].stmt.holes
        BY <1>1, <2>1, <2>2 DEF BindsNone
    <2>3. ASSUME n = 0, NEW i \in 1 .. (k + 1) - 1,
                 s[i].call = "param_append", s[i].n \in s[k + 1].stmt.holes,
                 \A j \in DOMAIN s : s[j].call = "param_append" => j = i
          PROVE  \E h \in 1 .. k - 1 :
                    /\ t[h].call = "param_append" /\ t[h].n \in t[k].stmt.holes
                    /\ \A j \in DOMAIN t : t[j].call = "param_append" => j = h
        <3>1. i # 1
            BY <1>1, <1>4, <2>3
        <3>2. i \in DOMAIN s /\ i - 1 \in 1 .. k - 1
            <4>1. DOMAIN s = 1 .. Len(s)
                OBVIOUS
            <4> QED BY <1>1, <2>1, <3>1, <4>1
        <3>3. i - 1 \in DOMAIN t /\ t[i - 1] = s[i]
            BY <1>1, <3>1, <3>2
        <3>4. \A j \in DOMAIN t : t[j].call = "param_append" => j = i - 1
            BY <1>1, <2>3
        <3> QED BY <2>1, <2>3, <3>2, <3>3, <3>4
    <2> QED BY <2>1, <2>2, <2>3, <1>4 DEF Fits
<1> QED BY <1>3, <1>4 DEF Fits, t

\* pg_version's answer is what a later text is chosen by; no other step reads a version.
LEMMA TailAsks ==
    ASSUME NEW s \in Seq(Steps), WellFormed(s), Head(s).call \in Leading,
           NEW v, AsksFirst(s, v)
    PROVE  /\ Head(s).call # "pg_version" => AsksFirst(Tail(s), v)
           /\ \A u : u # 0 => AsksFirst(Tail(s), u)
<1> DEFINE t == Tail(s)
<1>1. /\ Head(s) = s[1] /\ 1 \in DOMAIN s /\ Len(s) \in Nat
      /\ \A i \in DOMAIN t : i \in Nat /\ i + 1 \in DOMAIN s /\ t[i] = s[i + 1]
      /\ \A k \in DOMAIN s : k = 1 \/ (k - 1 \in DOMAIN t /\ s[k] = t[k - 1])
    BY TailSteps
<1> HIDE DEF t
<1>2. ASSUME Head(s).call # "pg_version", NEW k \in DOMAIN t, ~SameText(t[k]), v = 0
      PROVE  \E i \in 1 .. k - 1 : t[i].call = "pg_version"
    <2>1. k + 1 \in DOMAIN s /\ t[k] = s[k + 1] /\ k \in Nat
        BY <1>1
    <2>2. PICK i \in 1 .. (k + 1) - 1 : s[i].call = "pg_version"
        BY <1>2, <2>1 DEF AsksFirst
    <2>3. i # 1
        BY <1>1, <1>2, <2>2
    <2>4. i \in DOMAIN s /\ t[i - 1] = s[i] /\ i - 1 \in 1 .. k - 1
        BY <1>1, <2>1, <2>3
    <2> QED BY <2>2, <2>4
<1> QED BY <1>2 DEF AsksFirst, t

-----------------------------------------------------------------------------
(***************************************************************************)
(* A step of one worker leaves what the others know alone.                 *)
(***************************************************************************)
Kept(v) ==
    /\ Same(v) /\ answer'[v] = answer[v] /\ version'[v] = version[v] /\ todo'[v] = todo[v]
    /\ found'[v] = found[v] /\ seen'[v] = seen[v] /\ steady'[v] = steady[v]

\* pg_exec allocates and frees for the worker that calls it only.
LEMMA ExecElsewhere ==
    ASSUME IInv, NEW w, NEW v \in Workers \ {w}, NEW b, NEW n, pg_exec(w, b, n)
    PROVE  res'[v] = res[v] /\ params'[v] = params[v] /\ heap'[v] = heap[v]
BY DEF pg_exec, IInv, TypeOK

\* So do connecting and PQfinish.
LEMMA ConnElsewhere ==
    ASSUME IInv, NEW w, NEW v \in Workers \ {w}
    PROVE  /\ pg_connect_ok(w) \/ pg_connect_fails(w) =>
                 /\ conn'[v] = conn[v] /\ handles'[v] = handles[v]
                 /\ sessions'[v] = sessions[v]
           /\ PQfinish(w) => handles'[v] = handles[v] /\ sessions'[v] = sessions[v]
<1>1. pg_connect_ok(w) => /\ conn'[v] = conn[v] /\ handles'[v] = handles[v]
                          /\ sessions'[v] = sessions[v]
    BY DEF pg_connect_ok, Accept, IInv, TypeOK, PostgresTypeOK
<1>2. pg_connect_fails(w) => /\ conn'[v] = conn[v] /\ handles'[v] = handles[v]
                             /\ sessions'[v] = sessions[v]
    BY DEF pg_connect_fails, serverVars, IInv, TypeOK, PostgresTypeOK
<1>3. PQfinish(w) => handles'[v] = handles[v] /\ sessions'[v] = sessions[v]
    BY DEF PQfinish, Hangup, serverVars, IInv, TypeOK, PostgresTypeOK
<1> QED BY <1>1, <1>2, <1>3

\* Whatever a worker does, it changes no variable of another one.
LEMMA Elsewhere ==
    ASSUME IInv, NEW w \in Workers, NEW v \in Workers \ {w},
           Work(w) \/ \E item \in Items : Receive(w, item)
    PROVE  Kept(v)
<1> USE DEF Kept, Same, Goto, Return, Message, SetResult, NextStep, set_err_result
<1>1. CASE \E item \in Items : Receive(w, item)
    BY <1>1 DEF Receive, serverVars, IInv, TypeOK
<1>2. CASE Deliver(w) \/ RejectRequest(w) \/ ModuleVersion(w)
    BY <1>2 DEF Deliver, RejectRequest, ModuleVersion, serverVars, IInv, TypeOK
<1>3. CASE param_append(w)
    BY <1>3 DEF param_append, serverVars, IInv, TypeOK
<1>4. CASE Connect(w) \/ PgConnect(w)
    BY <1>4, ConnElsewhere DEF Connect, PgConnect, IInv, TypeOK
<1>5. CASE QueryFails(w)
    BY <1>5, ExecElsewhere DEF QueryFails, serverVars, IInv, TypeOK
<1>6. CASE NoRows(w)
    BY <1>6, ExecElsewhere DEF NoRows, serverVars, IInv, TypeOK
<1>7. CASE ScalarRow(w)
    BY <1>7, ExecElsewhere DEF ScalarRow, serverVars, IInv, TypeOK
<1>8. CASE DatabaseRows(w)
    BY <1>8, ExecElsewhere DEF DatabaseRows, serverVars, IInv, TypeOK
<1>9. CASE DiscoveryRows(w)
    BY <1>9, ExecElsewhere DEF DiscoveryRows, serverVars, IInv, TypeOK
<1>10. CASE CopiedRow(w)
    <2>1. PICK copies : pg_exec(w, "strdup", copies)
        BY <1>10 DEF CopiedRow
    <2> QED BY <1>10, <2>1, ExecElsewhere DEF CopiedRow, serverVars, IInv, TypeOK
<1>11. CASE Close(w)
    BY <1>11, ConnElsewhere, ZenonT(60) DEF Close, FinishAtOut, IInv, TypeOK
<1>12. CASE WideBegin(w) \/ WideFinish(w)
    BY <1>12 DEF WideBegin, WideFinish, serverVars, IInv, TypeOK
<1>13. CASE WideConnect(w)
    BY <1>13, ConnElsewhere DEF WideConnect, Advance, GiveUp, IInv, TypeOK
<1>14. CASE WideRows(w)
    BY <1>14, ExecElsewhere DEF WideRows, serverVars, IInv, TypeOK
<1>15. CASE WideNext(w)
    BY <1>15, ConnElsewhere DEF WideNext, ResetConn, IInv, TypeOK
<1>16. CASE WideClose(w)
    BY <1>16, ConnElsewhere DEF WideClose, FinishAtOut, IInv, TypeOK
<1> QED BY <1>1, <1>2, <1>3, <1>4, <1>5, <1>6, <1>7, <1>8, <1>9, <1>10, <1>11, <1>12,
           <1>13, <1>14, <1>15, <1>16 DEF Work

-----------------------------------------------------------------------------
(***************************************************************************)
(* The rest of the script goes on fitting what was bound and read.         *)
(***************************************************************************)
\* A step that leaves the script, the parameters bound and the version alone.
LEMMA SameStatements ==
    ASSUME NEW w, StatementInv(w), pc[w] # "idle", script'[w] = script[w],
           version'[w] = version[w], params'[w].n = params[w].n,
           params'[w].ptr = "live" => params[w].ptr = "live"
    PROVE  StatementInv(w)'
BY DEF StatementInv

\* pg_exec frees the parameters, and does not forget how many there were.
LEMMA ExecStatements ==
    ASSUME IInv, NEW w \in Workers, NEW b, NEW n, pg_exec(w, b, n)
    PROVE  /\ params'[w].n = params[w].n
           /\ params'[w].ptr = IF Passed(w) THEN "dangling" ELSE params[w].ptr
BY DEF pg_exec, IInv, TypeOK

\* A handler's script is sound when its request arrives.
LEMMA ReceiveStatements ==
    ASSUME IInv, NEW w \in Workers, NEW item \in Items, Receive(w, item)
    PROVE  StatementInv(w)'
<1>1. Sound(Handler(item.key, item.p))
    BY ItemsAssumption, HandlersSound
<1>2. script'[w] = Handler(item.key, item.p) /\ params'[w] = NoParams /\ version'[w] = 0
    BY DEF Receive, IInv, TypeOK
<1> QED BY <1>1, <1>2 DEF StatementInv, Sound, NoParams

\* param_append binds the parameters of the statement that comes last.
LEMMA param_appendStatements ==
    ASSUME IInv, NEW w \in Workers, StatementInv(w), param_append(w)
    PROVE  StatementInv(w)'
<1> DEFINE s == script[w]
<1>1. /\ s \in Seq(Steps) /\ WellFormed(s) /\ Head(s).call = "param_append"
      /\ Head(s).call \in Leading /\ Current(w) = Head(s) /\ Head(s).n \in Nat
      /\ params[w] \in [ptr: Pointers, n: Nat]
      /\ Tidy(s) /\ Fits(s, params[w].n) /\ AsksFirst(s, version[w])
    BY AtWorker DEF param_append, Calling, Current, Leading, StatementInv, Steps
<1>2. script'[w] = Tail(s) /\ version'[w] = version[w]
    BY DEF param_append, NextStep, IInv, TypeOK
<1>3. params'[w].n = params[w].n + Head(s).n
    <2>1. CASE Head(s).n = 0
        BY <1>1, <2>1 DEF param_append
    <2>2. CASE Head(s).n # 0
        BY <1>1, <2>2 DEF param_append, IInv, TypeOK
    <2> QED BY <2>1, <2>2
<1>4. Tidy(Tail(s)) /\ Plain(Tail(s))
    BY <1>1, TailTidy
<1>5. Fits(Tail(s), params[w].n + Head(s).n)
    BY <1>1, TailFits
<1>6. AsksFirst(Tail(s), version[w])
    BY <1>1, TailAsks
<1> QED BY <1>2, <1>3, <1>4, <1>5, <1>6 DEF StatementInv

\* What follows pg_version is chosen by a version, what follows the list of databases
\* binds nothing.
LEMMA CloseStatements ==
    ASSUME IInv, NEW w \in Workers, StatementInv(w), Close(w)
    PROVE  StatementInv(w)'
<1> DEFINE s == script[w]
<1>1. /\ pc[w] = "out" /\ params'[w] = params[w] /\ params[w].n \in Nat
      /\ s \in Seq(Steps) /\ WellFormed(s) /\ Current(w) = Head(s)
      /\ Tidy(s) /\ Fits(s, params[w].n) /\ AsksFirst(s, version[w])
      /\ params[w].ptr = "live" => Plain(s)
    BY AtWorker DEF Close, Current, StatementInv
<1>2. CASE ~Continues(w) /\ Head(s).call = "pg_version"
    BY <1>1, <1>2, SameStatements DEF Close, Continues, Calling
<1>3. CASE ~Continues(w) /\ Head(s).call # "pg_version"
    BY <1>1, <1>3, SameStatements DEF Close, Calling
<1>4. CASE Continues(w)
    <2>1. /\ Head(s).call \in {"pg_version", "pg_get_databases"} /\ Head(s).call \in Leading
          /\ script'[w] = Tail(s)
        BY <1>1, <1>4 DEF Continues, Calling, Close, NextStep, Leading, IInv, TypeOK
    <2>2. Tidy(Tail(s)) /\ (Plain(s) => Plain(Tail(s))) /\ Fits(Tail(s), params[w].n)
        BY <1>1, <2>1, TailTidy, TailFits
    <2>3. AsksFirst(Tail(s), version'[w])
        <3>1. CASE Head(s).call = "pg_version"
            <4>1. version'[w] = reply[w] /\ reply[w] \in Versions
                BY <1>1, <1>4, <3>1, AtWorker
                   DEF Close, Continues, Calling, Local, LabelInv, IInv, TypeOK
            <4>2. reply[w] # 0
                BY <4>1, PostgresAssumption
            <4> QED BY <1>1, <2>1, <4>1, <4>2, TailAsks
        <3>2. CASE Head(s).call # "pg_version"
            <4>1. version'[w] = version[w]
                BY <1>1, <3>2 DEF Close, Calling
            <4> QED BY <1>1, <2>1, <3>2, <4>1, TailAsks
        <3> QED BY <3>1, <3>2
    <2> QED BY <1>1, <2>1, <2>2, <2>3 DEF StatementInv
<1> QED BY <1>2, <1>3, <1>4

\* No step of a worker takes its statements and its parameters apart.
LEMMA WorkStatements ==
    ASSUME IInv, NEW w \in Workers, StatementInv(w), Work(w)
    PROVE  StatementInv(w)'
<1>1. CASE Deliver(w)
    BY <1>1 DEF Deliver, Goto, StatementInv, IInv, TypeOK
<1>2. CASE RejectRequest(w) \/ ModuleVersion(w) \/ Connect(w) \/ PgConnect(w)
    BY <1>2, SameStatements DEF RejectRequest, ModuleVersion, Connect, PgConnect
<1>3. CASE WideBegin(w) \/ WideConnect(w) \/ WideNext(w) \/ WideFinish(w) \/ WideClose(w)
    BY <1>3, SameStatements DEF WideBegin, WideConnect, WideNext, WideFinish, WideClose
<1>4. CASE \/ QueryFails(w) \/ NoRows(w) \/ ScalarRow(w) \/ DatabaseRows(w)
           \/ DiscoveryRows(w) \/ CopiedRow(w) \/ WideRows(w)
    <2>1. PICK b, n : pg_exec(w, b, n)
        BY <1>4 DEF QueryFails, NoRows, ScalarRow, DatabaseRows, DiscoveryRows, CopiedRow,
                    WideRows
    <2>2. /\ pc[w] = "exec" /\ script'[w] = script[w] /\ version'[w] = version[w]
        BY <1>4 DEF QueryFails, NoRows, ScalarRow, DatabaseRows, DiscoveryRows, CopiedRow,
                    WideRows
    <2> QED BY <2>1, <2>2, ExecStatements, SameStatements
<1> QED BY <1>1, <1>2, <1>3, <1>4, param_appendStatements, CloseStatements DEF Work

-----------------------------------------------------------------------------
(***************************************************************************)
(* Slots.                                                                  *)
(***************************************************************************)
\* A step changes the server only by connecting and by finishing a live connection.
LEMMA ServerSteps ==
    ASSUME NEW w \in Workers, Work(w) \/ \E item \in Items : Receive(w, item)
    PROVE  \/ Accept(w) /\ pc[w] \in {"call", "loop"}
           \/ Hangup(w)
           \/ UNCHANGED serverVars
<1>1. CASE \E item \in Items : Receive(w, item)
    BY <1>1 DEF Receive
<1>2. CASE Deliver(w) \/ RejectRequest(w) \/ ModuleVersion(w) \/ param_append(w)
    BY <1>2 DEF Deliver, RejectRequest, ModuleVersion, param_append
<1>3. CASE Connect(w) \/ PgConnect(w) \/ WideConnect(w)
    BY <1>3 DEF Connect, PgConnect, WideConnect, pg_connect_ok, pg_connect_fails
<1>4. CASE \/ QueryFails(w) \/ NoRows(w) \/ ScalarRow(w) \/ DatabaseRows(w)
           \/ DiscoveryRows(w) \/ CopiedRow(w) \/ WideRows(w)
    BY <1>4 DEF QueryFails, NoRows, ScalarRow, DatabaseRows, DiscoveryRows, CopiedRow,
                WideRows
<1>5. CASE Close(w) \/ WideNext(w) \/ WideClose(w)
    BY <1>5 DEF Close, WideNext, WideClose, FinishAtOut, PQfinish
<1>6. CASE WideBegin(w) \/ WideFinish(w)
    BY <1>6 DEF WideBegin, WideFinish
<1> QED BY <1>1, <1>2, <1>3, <1>4, <1>5, <1>6 DEF Work

\* A session is taken from a free slot, and one that ends keeps its slot until the
\* server process has gone.
LEMMA WorkSlots ==
    ASSUME IInv, SlotsInv, NEW w \in Workers,
           Work(w) \/ \E item \in Items : Receive(w, item)
    PROVE  SlotsInv'
<1>1. /\ sessions \in [Workers -> Nat] /\ sessions[w] \in {0, 1}
      /\ pc[w] \in {"call", "loop"} => sessions[w] = 0
      /\ apps \in Nat /\ exiting \in Nat /\ slots \in Int /\ MaxConnections \in Nat
    <2>1. /\ sessions[w] \in Nat /\ sessions[w] <= Live(conn[w]) /\ Live(conn[w]) \in {0, 1}
          /\ pc[w] \in {"call", "loop"} => Live(conn[w]) = 0
        BY AtWorker, LiveType DEF Local, ConnInv
    <2> QED BY <2>1, PostgresAssumption DEF IInv, TypeOK, PostgresTypeOK
<1>2. IsFiniteSet(Active) /\ Cardinality(Active) \in Nat
    BY FS_CardinalityType DEF SlotsInv
<1>3. CASE Accept(w) /\ pc[w] \in {"call", "loop"}
    <2>1. Active' = Active \union {w} /\ w \notin Active
        BY <1>1, <1>3 DEF Active, Accept
    <2>2. IsFiniteSet(Active') /\ Cardinality(Active') = Cardinality(Active) + 1
        BY <1>2, <2>1, FS_AddElement
    <2>3. /\ slots' = slots + 1 /\ slots < MaxConnections
          /\ apps' = apps /\ exiting' = exiting
        BY <1>3 DEF Accept
    <2> QED BY <1>1, <1>2, <2>2, <2>3 DEF SlotsInv
<1>4. CASE Hangup(w) /\ sessions[w] = 1
    <2>1. Active' = Active \ {w} /\ w \in Active
        BY <1>1, <1>4 DEF Active, Hangup
    <2>2. IsFiniteSet(Active') /\ Cardinality(Active') = Cardinality(Active) - 1
        BY <1>2, <2>1, FS_RemoveElement
    <2>3. slots' = slots /\ apps' = apps /\ exiting' = exiting + 1
        BY <1>4 DEF Hangup
    <2> QED BY <1>1, <1>2, <2>2, <2>3 DEF SlotsInv
<1>5. CASE UNCHANGED serverVars \/ (Hangup(w) /\ sessions[w] = 0)
    <2>1. sessions' = sessions /\ slots' = slots /\ apps' = apps /\ exiting' = exiting
        BY <1>1, <1>5 DEF Hangup, serverVars
    <2>2. Active' = Active
        BY <2>1 DEF Active
    <2> QED BY <2>1, <2>2 DEF SlotsInv
<1> QED BY <1>1, <1>3, <1>4, <1>5, ServerSteps

\* What happens on the server by itself keeps every process in a slot of its own.
LEMMA PostgresSlots ==
    ASSUME PostgresTypeOK, SlotsInv, PostgresNext
    PROVE  SlotsInv'
<1>1. /\ IsFiniteSet(Active) /\ Cardinality(Active) \in Nat
      /\ apps \in Nat /\ exiting \in Nat /\ slots \in Int /\ MaxConnections \in Nat
    BY FS_CardinalityType, PostgresAssumption DEF SlotsInv, PostgresTypeOK
<1>2. CASE BackendExit \/ AppConnect \/ AppDisconnect
    <2>1. Active' = Active
        BY <1>2 DEF Active, BackendExit, AppConnect, AppDisconnect
    <2> QED BY <1>1, <1>2, <2>1 DEF SlotsInv, BackendExit, AppConnect, AppDisconnect
<1>3. CASE Restart \/ ChangeDatabases
    <2>1. Active' = Active
        BY <1>3 DEF Active, Restart, ChangeDatabases
    <2> QED BY <1>1, <1>3, <2>1 DEF SlotsInv, Restart, ChangeDatabases
<1>4. CASE Crash
    <2>1. Active' = {}
        BY <1>4 DEF Active, Crash
    <2>2. IsFiniteSet(Active') /\ Cardinality(Active') = 0
        BY <2>1, FS_EmptySet
    <2> QED BY <1>1, <1>4, <2>2 DEF SlotsInv, Crash
<1> QED BY <1>2, <1>3, <1>4 DEF PostgresNext

-----------------------------------------------------------------------------
(***************************************************************************)
(* Counts.                                                                 *)
(***************************************************************************)
\* The answer to a counting question, given the slots it was computed from.
LEMMA ScalarRowCounted ==
    ASSUME IInv, SlotsInv, NEW w \in Workers, ScalarRow(w)
    PROVE  CountedInv(w)'
<1>1. /\ apps \in Nat /\ exiting \in Nat /\ slots \in Int /\ MaxConnections \in Nat
      /\ slots <= MaxConnections
    BY PostgresAssumption DEF IInv, TypeOK, PostgresTypeOK, SlotsInv
<1>2. slots >= apps + 1
    <2>1. IsFiniteSet(Active) /\ Cardinality(Active) \in Nat /\ w \in Active
        BY FS_CardinalityType DEF SlotsInv, ScalarRow, Answerable, Active
    <2>2. Cardinality(Active) # 0
        BY <2>1, FS_EmptySet
    <2> QED BY <1>1, <2>1, <2>2 DEF SlotsInv
<1>3. /\ reply'[w] \in Figures(Current(w).stmt.asks) /\ Current(w)' = Current(w)
      /\ Current(w).stmt.asks \in {"backends", "filtered", "free"} =>
            seen'[w].apps = apps /\ seen'[w].slots = slots
    BY DEF ScalarRow, Current, IInv, TypeOK
<1>4. ASSUME Current(w).stmt.asks = "backends"
      PROVE  reply'[w] = slots - 1 /\ seen'[w].apps = apps /\ seen'[w].slots = slots
    BY <1>3, <1>4 DEF Figures, AllBackends
<1>5. ASSUME Current(w).stmt.asks = "free"
      PROVE  reply'[w] = MaxConnections - slots /\ seen'[w].apps = apps
    BY <1>3, <1>5 DEF Figures, FreeBackends
<1>6. ASSUME Counted(w, "backends")'
      PROVE  /\ reply'[w] >= seen'[w].apps
             /\ seen'[w].slots = seen'[w].apps + 1 => reply'[w] = seen'[w].apps
    <2>1. reply'[w] = slots - 1 /\ seen'[w].apps = apps /\ seen'[w].slots = slots
        BY <1>3, <1>4, <1>6 DEF Counted
    <2> QED BY <1>1, <1>2, <2>1
<1>7. ASSUME Counted(w, "free")'
      PROVE  reply'[w] \in 0 .. MaxConnections - seen'[w].apps - 1
    <2>1. reply'[w] = MaxConnections - slots /\ seen'[w].apps = apps
        BY <1>3, <1>5, <1>7 DEF Counted
    <2> QED BY <1>1, <1>2, <2>1
<1>8. ASSUME Counted(w, "filtered")', seen'[w].slots = seen'[w].apps + 1
      PROVE  reply'[w] \in 0 .. seen'[w].apps
    <2>1. Current(w).stmt.asks = "filtered"
        BY <1>3, <1>8 DEF Counted
    <2>2. reply'[w] \in 0 .. slots - 1 /\ seen'[w].apps = apps /\ seen'[w].slots = slots
        BY <1>3, <2>1 DEF Figures, AllBackends, MatchingBackends
    <2> QED BY <1>1, <1>8, <2>2
<1> QED BY <1>6, <1>7, <1>8 DEF CountedInv

\* No other step leads to "out:" with an answer of pg_get_result.
LEMMA WorkCounted ==
    ASSUME IInv, SlotsInv, NEW w \in Workers, CountedInv(w),
           Work(w) \/ \E item \in Items : Receive(w, item)
    PROVE  CountedInv(w)'
<1> USE DEF CountedInv, Counted
<1>1. CASE ScalarRow(w)
    BY <1>1, ScalarRowCounted
<1>2. CASE \/ Deliver(w) \/ RejectRequest(w) \/ ModuleVersion(w) \/ Close(w)
           \/ WideBegin(w) \/ WideRows(w) \/ WideNext(w) \/ WideClose(w)
           \/ \E item \in Items : Receive(w, item)
    <2>1. pc'[w] # "out"
        BY <1>2 DEF Deliver, RejectRequest, ModuleVersion, Close, WideBegin, WideRows,
                    WideNext, WideClose, Receive, Goto, IInv, TypeOK
    <2> QED BY <2>1
<1>3. CASE param_append(w)
    <2>1. pc'[w] # "out"
        BY <1>3 DEF param_append
    <2> QED BY <2>1
<1>4. CASE Connect(w) \/ QueryFails(w)
    <2>1. ret'[w] # SYSINFO_RET_OK
        BY <1>4 DEF Connect, QueryFails, set_err_result, Return, IInv, TypeOK,
                    SYSINFO_RET_OK, SYSINFO_RET_FAIL
    <2> QED BY <2>1
<1>5. CASE NoRows(w)
    <2>1. CASE Calling(w, {"PG_SETTING"})
        BY <1>5, <2>1 DEF NoRows, Calling, Current
    <2>2. CASE ~Calling(w, {"PG_SETTING"})
        <3>1. ret'[w] # SYSINFO_RET_OK
            BY <1>5, <2>2 DEF NoRows, set_err_result, Return, IInv, TypeOK,
                              SYSINFO_RET_OK, SYSINFO_RET_FAIL
        <3> QED BY <3>1
    <2> QED BY <2>1, <2>2
<1>6. CASE PgConnect(w) \/ DatabaseRows(w) \/ DiscoveryRows(w) \/ CopiedRow(w)
    BY <1>6 DEF PgConnect, DatabaseRows, DiscoveryRows, CopiedRow, Calling, Current,
                SelfConnecting
<1>7. CASE WideConnect(w) \/ WideFinish(w)
    BY <1>7, AtWorker DEF WideConnect, WideFinish, Local, LabelInv, Calling, Current
<1> QED BY <1>1, <1>2, <1>3, <1>4, <1>5, <1>6, <1>7 DEF Work

-----------------------------------------------------------------------------
(***************************************************************************)
(* The invariant.                                                          *)
(***************************************************************************)
\* It holds before the first request.
LEMMA InitSent == Init => SentInv
<1> SUFFICES ASSUME Init PROVE SentInv
    OBVIOUS
<1>1. SlotsInv
    <2>1. Active = {} /\ slots = 0 /\ apps = 0 /\ exiting = 0
        BY DEF Init, PostgresInit, Active
    <2> QED BY <2>1, FS_EmptySet, PostgresAssumption DEF SlotsInv
<1>2. \A w \in Workers : StatementInv(w) /\ CountedInv(w)
    BY DEF Init, StatementInv, CountedInv, Counted
<1> QED BY <1>1, <1>2 DEF SentInv

\* Every step of the workers and the server keeps it.
LEMMA NextSent ==
    ASSUME IInv, SentInv, [Next]_vars
    PROVE  SentInv'
<1>1. ASSUME NEW w \in Workers, Work(w) \/ \E item \in Items : Receive(w, item)
      PROVE  SentInv'
    <2>1. SlotsInv'
        BY <1>1, WorkSlots DEF SentInv
    <2>2. StatementInv(w)' /\ CountedInv(w)'
        BY <1>1, WorkStatements, ReceiveStatements, WorkCounted DEF SentInv
    <2>3. ASSUME NEW v \in Workers \ {w}
          PROVE  StatementInv(v)' /\ CountedInv(v)'
        <3>1. Kept(v) /\ StatementInv(v) /\ CountedInv(v)
            BY <1>1, Elsewhere DEF SentInv
        <3> QED BY <3>1 DEF Kept, Same, StatementInv, CountedInv, Counted, Calling, Current
    <2> QED BY <2>1, <2>2, <2>3 DEF SentInv
<1>2. CASE Environment
    <2>1. SlotsInv'
        BY <1>2, PostgresSlots DEF Environment, SentInv, IInv, TypeOK
    <2>2. \A v \in Workers : StatementInv(v)' /\ CountedInv(v)'
        BY <1>2 DEF Environment, requestVars, SentInv, StatementInv, CountedInv, Counted,
                    Calling, Current
    <2> QED BY <2>1, <2>2 DEF SentInv
<1>3. CASE UNCHANGED vars
    BY <1>3 DEF vars, serverVars, requestVars, SentInv, StatementInv, CountedInv, Counted,
                Calling, Current, SlotsInv, Active
<1> QED BY <1>1, <1>2, <1>3 DEF Next

\* What has been bound and read fits the rest of every script, and every session of the
\* server holds one slot: the invariant behind the three properties below.
THEOREM SentInvariant == Spec => []SentInv
<1>1. IInv /\ SentInv /\ [Next]_vars => SentInv'
    BY NextSent
<1> QED BY <1>1, InitSent, InductiveInvariant, PTL DEF Spec

\* pg_exec is given as many parameters as a statement of the module has placeholders,
\* whatever the key and whichever of its optional parameters the request has.
THEOREM BindMatchesAlways == Spec => []BindMatches
<1>1. IInv /\ SentInv => BindMatches
    <2> SUFFICES ASSUME IInv, SentInv, NEW w \in Workers, pc[w] = "exec",
                        Current(w).stmt.asks # "user"
                 PROVE  BoundParams(w) \in Current(w).stmt.holes
        BY DEF BindMatches
    <2> DEFINE s == script[w]
    <2>1. /\ s # <<>> /\ Current(w) = s[1] /\ 1 \in DOMAIN s
          /\ s[1].call \in PgCalls \union {"pg_get_discovery_wide"}
          /\ Tidy(s) /\ Fits(s, params[w].n)
        BY AtWorker DEF Local, LabelInv, SentInv, StatementInv, Current
    <2>2. CASE s[1].call \in TakesParams
        BY <2>1, <2>2 DEF Fits, Sends, BoundParams, Calling
    <2>3. CASE s[1].call \notin TakesParams
        BY <2>1, <2>3 DEF Tidy, SoundStep, BindsItsOwn, BoundParams, Calling, TakesParams
    <2> QED BY <2>2, <2>3
<1> QED BY <1>1, InductiveInvariant, SentInvariant, PTL

\* If either text of a statement parses on the server pg_version asked, the one sent does,
\* for every key, whatever filters it has and whatever versions there are.
THEOREM StatementFitsVersionAlways == Spec => []StatementFitsVersion
<1>1. IInv /\ SentInv => StatementFitsVersion
    <2> SUFFICES ASSUME IInv, SentInv, NEW w \in Workers,
                        pc[w] = "exec", version[w] \in {0, server},
                        Parses(Current(w).stmt.old) \/ Parses(Current(w).stmt.new)
                 PROVE  Parses(Window(w))
        BY DEF StatementFitsVersion
    <2> DEFINE old == Current(w).stmt.old
               new == Current(w).stmt.new
    <2>1. /\ Current(w) = script[w][1] /\ 1 \in DOMAIN script[w]
          /\ Tidy(script[w]) /\ AsksFirst(script[w], version[w])
        BY AtWorker DEF SentInv, StatementInv, Current
    <2>2. /\ server \in Nat /\ server # 0 /\ V9_2 \in Nat
          /\ old.since \in Nat /\ old.before \in Nat /\ new.since \in Nat /\ new.before \in Nat
        <3>1. Current(w) \in Steps
            BY <2>1 DEF IInv, TypeOK
        <3>2. old \in Windows /\ new \in Windows
            BY <3>1 DEF Steps, Statements
        <3> QED BY <3>2, WindowType, PostgresAssumption
                DEF IInv, TypeOK, PostgresTypeOK, Windows
    <2>3. old # new => /\ version[w] # 0 /\ new.since = V9_2
                       /\ old.before <= V9_2 \/ old.before <= new.before
        BY <2>1 DEF Tidy, SoundStep, ChosenByVersion, AsksFirst, SameText
    <2>4. CASE old = new
        BY <2>4 DEF Window
    <2>5. CASE old # new /\ Before92(version[w])
        <3>1. Window(w) = old /\ ~(V9_2 <= server)
            BY <2>2, <2>3, <2>5 DEF Window, Before92
        <3> QED BY <2>3, <2>5, <3>1 DEF Parses
    <2>6. CASE old # new /\ ~Before92(version[w])
        <3>1. Window(w) = new /\ V9_2 <= server
            BY <2>2, <2>3, <2>6 DEF Window, Before92
        <3> QED BY <2>2, <2>3, <2>6, <3>1 DEF Parses
    <2> QED BY <2>4, <2>5, <2>6
<1> QED BY <1>1, InductiveInvariant, SentInvariant, PTL

\* A count of all backends misses no application and is exact when nobody else monitors,
\* one with filters then counts applications only, and the free ones include no slot that
\* is held, however workers and applications come and go between the connection and the
\* statement.
THEOREM CountsApplicationsAlways == Spec => []CountsApplications
<1>1. SentInv => CountsApplications
    BY DEF SentInv, CountedInv, CountsApplications
<1> QED BY <1>1, SentInvariant, PTL

=============================================================================

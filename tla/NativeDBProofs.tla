-------------------------- MODULE NativeDBProofs --------------------------
(***************************************************************************)
(* The hooks' contexts, the failed closes and the batches of NativeDB.c,   *)
(* for any number of threads, connections, contexts, statements and rows.  *)
(***************************************************************************)
EXTENDS NativeDB, SequenceTheorems, TLAPS

Owner(h) == IF h = "busy" THEN "busyHandler" ELSE IF h = "update" THEN "updateListener"
            ELSE "commitListener"
Changing(t) == call[t].op \in {"set", "close"}
Todo(t, i) == call[t].todo[i]
HookAt(t, i) == i \in DOMAIN call[t].todo /\ Todo(t, i).do = "hook"
SwapAt(t, i) == i \in DOMAIN call[t].todo /\ Todo(t, i).do = "swap"

\* Types.
Ops == {"idle", "set", "close", "prepare", "exec", "step", "batch"}
Verbs == {"hook", "swap", "close", "clear", "reset", "bind", "run"}
Steps == [do : Verbs, on : Fields \cup Hooks \cup {"none"}, ctx : Contexts \cup {Nil}]
CallType == [op : Ops, conn : Conns \cup {Nil}, stmt : Stmts \cup {Nil},
             at : {"none", "running"}, todo : Seq(Steps)]
DBType ==
  /\ pointer \in Conns \cup {Nil} /\ open \subseteq Conns
  /\ field \in [Fields -> Contexts \cup {Nil}]
  /\ hook \in [Conns -> [Hooks -> Contexts \cup {Nil}]]
  /\ live \subseteq Contexts /\ live \subseteq spent
  /\ DOMAIN stmt \subseteq Stmts
  /\ \A s \in DOMAIN stmt : stmt[s] \in [conn : Conns, row : BOOLEAN, by : Ops]
  /\ call \in [Threads -> CallType]
  /\ within \in [Threads -> Contexts \cup {Nil}]
  /\ mutex \in [Conns -> Threads \cup {Nil}]

\* Which steps are left to which call, and on which connection.
IdleCalls == \A t \in Threads : call[t].op = "idle" => call[t] = Idle
PlainCalls ==
  \A t \in Threads : ~Changing(t) =>
    \A i \in DOMAIN call[t].todo : Todo(t, i).do \in {"reset", "bind", "run"}
SetCalls ==
  \A t \in Threads : call[t].op = "set" =>
    \A i \in DOMAIN call[t].todo : Todo(t, i).do \in {"hook", "swap"}
CloseCalls ==
  \A t \in Threads : call[t].op = "close" =>
    \A i \in DOMAIN call[t].todo :
      /\ Todo(t, i).do \in {"hook", "swap", "close", "clear"}
      /\ Todo(t, i).do = "clear" <=> i = Len(call[t].todo)
Places ==
  \A t \in Threads : \A i \in DOMAIN call[t].todo :
    /\ Todo(t, i).do = "hook" => Todo(t, i).on \in Hooks
    /\ Todo(t, i).do = "swap" => Todo(t, i).on \in Fields
Connections ==
  \A t \in Threads :
    /\ call[t].op # "idle" => call[t].conn \in Conns
    /\ call[t].op \in {"set", "prepare", "exec"} => call[t].conn = pointer
    /\ call[t].op = "close" => pointer = IF call[t].todo = <<>> THEN Nil ELSE call[t].conn
OneChanges ==
  \A t, u \in Threads : t # u /\ Changing(t) =>
    ~Changing(u) /\ (call[t].op = "close" => call[u].op \notin {"prepare", "exec"})

\* What a setter has still to do.
OneContext ==
  \A t \in Threads : Changing(t) =>
    \A i, j \in DOMAIN call[t].todo :
      HookAt(t, i) \/ SwapAt(t, i) =>
        /\ Todo(t, i).ctx = Nil \/ (Todo(t, i).ctx \in live /\ \A f \in Fields : field[f] # Todo(t, i).ctx)
        /\ HookAt(t, j) \/ SwapAt(t, j) => Todo(t, j).ctx = Todo(t, i).ctx
        /\ call[t].op = "close" => Todo(t, i).ctx = Nil
        /\ SwapAt(t, i) /\ SwapAt(t, j) /\ i # j => Todo(t, i).ctx = Nil
HookThenSwap ==
  \A t \in Threads : Changing(t) => \A i \in DOMAIN call[t].todo :
    HookAt(t, i) /\ Todo(t, i).ctx # Nil =>
      \E j \in DOMAIN call[t].todo : i < j /\ SwapAt(t, j) /\ Todo(t, j).on = Owner(Todo(t, i).on)
SwapAfterHook ==
  \A t \in Threads : Changing(t) => \A i \in DOMAIN call[t].todo : SwapAt(t, i) =>
    \A h \in Hooks : Owner(h) = Todo(t, i).on =>
      \/ hook[call[t].conn][h] \in {Todo(t, i).ctx, Nil}
      \/ \E j \in DOMAIN call[t].todo : j < i /\ HookAt(t, j) /\ Todo(t, j).on = h
CloseClears ==
  \A t \in Threads : call[t].op = "close" =>
    /\ \A h \in Hooks : hook[call[t].conn][h] = Nil
                        \/ \E i \in DOMAIN call[t].todo : HookAt(t, i) /\ Todo(t, i).on = h
    /\ \A f \in Fields : field[f] = Nil
                         \/ \E i \in DOMAIN call[t].todo : SwapAt(t, i) /\ Todo(t, i).on = f

\* Where contexts are.
Pending(x) == \E t \in Threads : Changing(t) /\ \E i \in DOMAIN call[t].todo :
                SwapAt(t, i) /\ Todo(t, i).ctx = x
HooksOwned ==
  \A c \in Conns : \A h \in Hooks : hook[c][h] # Nil =>
    /\ c = pointer
    /\ \/ hook[c][h] = field[Owner(h)]
       \/ \E t \in Threads : Changing(t) /\ \E i \in DOMAIN call[t].todo :
            SwapAt(t, i) /\ Todo(t, i).on = Owner(h) /\ Todo(t, i).ctx = hook[c][h]
LiveOwned ==
  /\ \A f \in Fields : field[f] # Nil => field[f] \in live
  /\ \A f, g \in Fields : field[f] = field[g] /\ f # g => field[f] = Nil
  /\ \A x \in live : Pending(x) \/ \E f \in Fields : field[f] = x
  /\ pointer = Nil => \A f \in Fields : field[f] = Nil

\* Hooks run inside a call that holds the mutex.
Inside ==
  \A t \in Threads :
    /\ call[t].at = "running" =>
         /\ call[t].todo # <<>> /\ Head(call[t].todo).do = "run"
         /\ call[t].conn \in Conns /\ mutex[call[t].conn] = t
    /\ within[t] # Nil =>
         call[t].at = "running" /\ \E h \in Hooks : hook[call[t].conn][h] = within[t]

\* Statements: one call at a time, and a batch that stops in the middle resets.
OneUser ==
  /\ \A t \in Threads : call[t].stmt # Nil => call[t].stmt \in DOMAIN stmt
  /\ \A t, u \in Threads : t # u /\ call[t].stmt = call[u].stmt => call[t].stmt = Nil
BatchRows ==
  \A s \in DOMAIN stmt : stmt[s].by = "batch" /\ stmt[s].row =>
    \E t \in Threads : call[t].stmt = s /\ call[t].todo # <<>> /\ Todo(t, 1).do = "reset"

\* Closing.
CloseAhead(t) == \E i \in DOMAIN call[t].todo : Todo(t, i).do = "close"
CloseTold ==
  /\ CloseReported
  /\ \A t \in Threads : call[t].op = "close" /\ call[t].todo # <<>> /\ pointer \in open =>
       pointer \in reported \/ CloseAhead(t)

Wiring == IdleCalls /\ PlainCalls /\ SetCalls /\ CloseCalls /\ Places /\ Connections /\ OneChanges
Plans == OneContext /\ HookThenSwap /\ SwapAfterHook /\ CloseClears
Owned == HooksOwned /\ LiveOwned
Rowed == OneUser /\ BatchRows
DBInv == DBType /\ Wiring /\ Plans /\ Owned /\ Inside /\ Rowed /\ CloseTold

----------------------------------------------------------------------------
\* The first step of a call, and what is left after it.
LEMMA TailFacts ==
  ASSUME NEW S, NEW q \in Seq(S), q # <<>>
  PROVE  /\ 1 \in DOMAIN q /\ Head(q) = q[1]
         /\ Tail(q) \in Seq(S) /\ Len(Tail(q)) = Len(q) - 1
         /\ \A i \in DOMAIN Tail(q) : i + 1 \in DOMAIN q /\ Tail(q)[i] = q[i + 1]
         /\ \A i \in DOMAIN q : i # 1 => i - 1 \in DOMAIN Tail(q) /\ Tail(q)[i - 1] = q[i]
<1>1. Len(q) \in Nat /\ Len(q) > 0 /\ DOMAIN q = 1..Len(q)
  BY EmptySeq, LenProperties
<1>2. Tail(q) \in Seq(S) /\ Len(Tail(q)) = Len(q) - 1 /\ DOMAIN Tail(q) = 1..(Len(q) - 1)
  BY <1>1, HeadTailProperties, LenProperties
<1>3. \A i \in 1..Len(Tail(q)) : Tail(q)[i] = q[i + 1]
  BY HeadTailProperties
<1>4. Head(q) = q[1]
  BY HeadTailProperties
<1> QED BY <1>1, <1>2, <1>3, <1>4

LEMMA FirstStep ==
  ASSUME DBType, NEW t \in Threads, call[t].todo # <<>>
  PROVE  1 \in DOMAIN call[t].todo /\ Top(t) = Todo(t, 1) /\ Todo(t, 1) \in Steps
<1>1. call[t].todo \in Seq(Steps)
  BY DEF DBType, CallType
<1>2. 1 \in DOMAIN call[t].todo /\ Head(call[t].todo) = call[t].todo[1]
  BY <1>1, TailFacts
<1>3. DOMAIN call[t].todo = 1..Len(call[t].todo)
  BY <1>1
<1> QED BY <1>1, <1>2, <1>3 DEF Top, Todo

Shifted(t) ==
  /\ \A i \in DOMAIN call'[t].todo : i + 1 \in DOMAIN call[t].todo /\ call'[t].todo[i] = call[t].todo[i + 1]
  /\ \A i \in DOMAIN call[t].todo : i # 1 => i - 1 \in DOMAIN call'[t].todo /\ call'[t].todo[i - 1] = call[t].todo[i]
LEMMA Advances ==
  ASSUME DBType, NEW t \in Threads, call[t].todo # <<>>, Done(t)
  PROVE  /\ call' \in [Threads -> CallType]
         /\ \A u \in Threads : u # t => call'[u] = call[u]
         /\ call'[t].op = call[t].op /\ call'[t].conn = call[t].conn
         /\ call'[t].stmt = call[t].stmt /\ call'[t].at = call[t].at
         /\ Len(call'[t].todo) = Len(call[t].todo) - 1
         /\ Shifted(t)
<1>1. call \in [Threads -> CallType] /\ call[t] \in CallType /\ call[t].todo \in Seq(Steps)
  BY DEF DBType, CallType
<1> DEFINE rest == Tail(call[t].todo)
<1>2. rest \in Seq(Steps) /\ Len(rest) = Len(call[t].todo) - 1
  BY <1>1, TailFacts
<1>3. call' = [call EXCEPT ![t] = [@ EXCEPT !.todo = rest]]
  BY <1>1 DEF Done
<1> HIDE DEF rest
<1>4. /\ call'[t] = [call[t] EXCEPT !.todo = rest]
      /\ \A u \in Threads : u # t => call'[u] = call[u]
  BY <1>1, <1>3
<1>5. /\ call'[t].op = call[t].op /\ call'[t].conn = call[t].conn
      /\ call'[t].stmt = call[t].stmt /\ call'[t].at = call[t].at /\ call'[t].todo = rest
      /\ call'[t] \in CallType
  BY <1>1, <1>2, <1>4 DEF CallType
<1>6. call' \in [Threads -> CallType]
  BY <1>1, <1>3, <1>5
<1>7. Shifted(t)
  BY <1>1, <1>5, TailFacts DEF Shifted, rest
<1> QED BY <1>2, <1>4, <1>5, <1>6, <1>7

\* What a new call is going to do.
LEMMA Begins ==
  ASSUME DBType, NEW t \in Threads, NEW op \in Ops, NEW s, NEW todo \in Seq(Steps),
         s = Nil \/ s \in DOMAIN stmt, Begin(t, op, s, todo)
  PROVE  /\ call' \in [Threads -> CallType]
         /\ \A u \in Threads : u # t => call'[u] = call[u]
         /\ call'[t].op = op /\ call'[t].stmt = s /\ call'[t].at = "none" /\ call'[t].todo = todo
         /\ call'[t].conn = IF s = Nil THEN pointer ELSE stmt[s].conn
<1> DEFINE conn == IF s = Nil THEN pointer ELSE stmt[s].conn
           new == [op |-> op, conn |-> conn, stmt |-> s, at |-> "none", todo |-> todo]
<1>1. conn \in Conns \cup {Nil} /\ s \in Stmts \cup {Nil}
  BY DEF DBType
<1>2. call' = [call EXCEPT ![t] = new]
  BY DEF Begin
<1> HIDE DEF conn
<1>3. new \in CallType
  BY <1>1 DEF CallType
<1>4. call'[t] = new /\ \A u \in Threads : u # t => call'[u] = call[u]
  BY <1>2 DEF DBType
<1>5. call' \in [Threads -> CallType]
  BY <1>2, <1>3 DEF DBType
<1>6. /\ call'[t].op = op /\ call'[t].stmt = s /\ call'[t].at = "none" /\ call'[t].todo = todo
      /\ call'[t].conn = conn
  BY <1>4
<1> QED BY <1>4, <1>5, <1>6 DEF conn

LEMMA StepTypes ==
  /\ \A h \in Hooks, x \in Contexts \cup {Nil} : SetHook(h, x) \in Steps
  /\ \A f \in Fields, x \in Contexts \cup {Nil} : SetNewHandler(f, x) \in Steps
  /\ \A d \in Verbs : Do(d) \in Steps
BY DEF SetHook, SetNewHandler, Do, Steps, Verbs

\* A sequence after another.
LEMMA Joined ==
  ASSUME NEW S, NEW p \in Seq(S), NEW q \in Seq(S)
  PROVE  /\ p \o q \in Seq(S) /\ Len(p \o q) = Len(p) + Len(q)
         /\ \A i \in 1..Len(p) : (p \o q)[i] = p[i]
         /\ \A i \in 1..Len(q) : (p \o q)[Len(p) + i] = q[i]
<1>1. Len(p) \in Nat /\ Len(q) \in Nat
  BY LenProperties
<1> DEFINE r == p \o q
<1>2. /\ r \in Seq(S) /\ Len(r) = Len(p) + Len(q)
      /\ \A i \in 1..Len(p) + Len(q) : r[i] = IF i <= Len(p) THEN p[i] ELSE q[i - Len(p)]
  BY ConcatProperties
<1> HIDE DEF r
<1>3. \A i \in 1..Len(p) : r[i] = p[i]
  BY <1>1, <1>2
<1>4. ASSUME NEW i \in 1..Len(q) PROVE r[Len(p) + i] = q[i]
  <2>1. Len(p) + i \in 1..Len(p) + Len(q) /\ ~(Len(p) + i <= Len(p)) /\ (Len(p) + i) - Len(p) = i
    BY <1>1
  <2> QED BY <1>2, <2>1
<1> QED BY <1>2, <1>3, <1>4 DEF r

ClosePlan ==
  <<SetHook("busy", Nil), SetNewHandler("busyHandler", Nil),
    SetHook("commit", Nil), SetHook("rollback", Nil), SetNewHandler("commitListener", Nil),
    SetHook("update", Nil), SetNewHandler("updateListener", Nil), Do("close"), Do("clear")>>
LEMMA CloseSteps ==
  Close \in Seq(Steps) /\ Len(Close) = 9 /\ \A i \in 1..9 : Close[i] = ClosePlan[i]
<1> DEFINE a == ChangeBusyHandler(Nil)   b == SetCommitListener(Nil)
           c == SetUpdateListener(Nil)   d == <<Do("close"), Do("clear")>>
<1>1. /\ a \in Seq(Steps) /\ Len(a) = 2 /\ a[1] = SetHook("busy", Nil)
      /\ a[2] = SetNewHandler("busyHandler", Nil)
  BY StepTypes DEF ChangeBusyHandler, Hooks, Fields
<1>2. /\ b \in Seq(Steps) /\ Len(b) = 3 /\ b[1] = SetHook("commit", Nil)
      /\ b[2] = SetHook("rollback", Nil) /\ b[3] = SetNewHandler("commitListener", Nil)
  BY StepTypes DEF SetCommitListener, Hooks, Fields
<1>3. /\ c \in Seq(Steps) /\ Len(c) = 2 /\ c[1] = SetHook("update", Nil)
      /\ c[2] = SetNewHandler("updateListener", Nil)
  BY StepTypes DEF SetUpdateListener, Hooks, Fields
<1>4. d \in Seq(Steps) /\ Len(d) = 2 /\ d[1] = Do("close") /\ d[2] = Do("clear")
  BY StepTypes DEF Verbs
<1>5. Close = a \o b \o c \o d
  BY DEF Close
<1> HIDE DEF a, b, c, d
<1>0. \A p, q \in Seq(Steps) :
        /\ p \o q \in Seq(Steps) /\ Len(p \o q) = Len(p) + Len(q)
        /\ \A i \in 1..Len(p) : (p \o q)[i] = p[i]
        /\ \A i \in 1..Len(q) : (p \o q)[Len(p) + i] = q[i]
  BY Joined
<1> DEFINE ab == a \o b   abc == ab \o c
<1>6. /\ ab \in Seq(Steps) /\ Len(ab) = 5
      /\ ab[1] = a[1] /\ ab[2] = a[2] /\ ab[3] = b[1] /\ ab[4] = b[2] /\ ab[5] = b[3]
  <2>0. /\ ab \in Seq(Steps) /\ Len(ab) = Len(a) + Len(b)
        /\ \A i \in 1..Len(a) : ab[i] = a[i]
        /\ \A i \in 1..Len(b) : ab[Len(a) + i] = b[i]
    BY <1>1, <1>2, <1>0, Zenon
  <2> HIDE DEF ab
  <2>1. /\ ab \in Seq(Steps) /\ Len(ab) = 5
        /\ \A i \in 1..2 : ab[i] = a[i]
        /\ \A i \in 1..3 : ab[2 + i] = b[i]
    BY <2>0, <1>1, <1>2
  <2>2. ab[2 + 1] = b[1] /\ ab[2 + 2] = b[2] /\ ab[2 + 3] = b[3]
    BY <2>1
  <2> QED BY <2>1, <2>2
<1>7. Close = abc \o d
  BY <1>5
<1> HIDE DEF ab
<1>8. /\ abc \in Seq(Steps) /\ Len(abc) = 7
      /\ \A i \in 1..5 : abc[i] = ab[i]
      /\ abc[6] = c[1] /\ abc[7] = c[2]
  <2>0. /\ abc \in Seq(Steps) /\ Len(abc) = Len(ab) + Len(c)
        /\ \A i \in 1..Len(ab) : abc[i] = ab[i]
        /\ \A i \in 1..Len(c) : abc[Len(ab) + i] = c[i]
    BY <1>6, <1>3, <1>0, Zenon
  <2> HIDE DEF abc
  <2>1. /\ abc \in Seq(Steps) /\ Len(abc) = 7
        /\ \A i \in 1..5 : abc[i] = ab[i]
        /\ \A i \in 1..2 : abc[5 + i] = c[i]
    BY <2>0, <1>6, <1>3
  <2>2. abc[5 + 1] = c[1] /\ abc[5 + 2] = c[2]
    BY <2>1
  <2> QED BY <2>1, <2>2
<1> HIDE DEF abc
<1>9. /\ Close \in Seq(Steps) /\ Len(Close) = 9
      /\ \A i \in 1..7 : Close[i] = abc[i]
      /\ Close[8] = d[1] /\ Close[9] = d[2]
  <2>0. /\ Close \in Seq(Steps) /\ Len(Close) = Len(abc) + Len(d)
        /\ \A i \in 1..Len(abc) : Close[i] = abc[i]
        /\ \A i \in 1..Len(d) : Close[Len(abc) + i] = d[i]
    BY <1>7, <1>8, <1>4, <1>0, Zenon
  <2>1. /\ Close \in Seq(Steps) /\ Len(Close) = 9
        /\ \A i \in 1..7 : Close[i] = abc[i]
        /\ \A i \in 1..2 : Close[7 + i] = d[i]
    BY <2>0, <1>7, <1>8, <1>4, SMTT(30)
  <2>2. Close[7 + 1] = d[1] /\ Close[7 + 2] = d[2]
    BY <2>1
  <2> QED BY <2>1, <2>2
<1> QED BY <1>1, <1>2, <1>3, <1>4, <1>6, <1>8, <1>9 DEF ClosePlan

LEMMA BatchSteps ==
  /\ Batch \in Seq(Steps)
  /\ \A i \in DOMAIN Batch : Batch[i].do \in {"reset", "bind", "run"}
<1> DEFINE rows == [i \in 1..(3 * Rows) |-> BatchRow[((i - 1) % 3) + 1]]
<1>1. 3 * Rows \in Nat
  BY RowsAssumption
<1>2. \A i \in 1..(3 * Rows) : ((i - 1) % 3) + 1 \in 1..3
  BY <1>1
<1>3. \A j \in 1..3 : BatchRow[j] \in Steps /\ BatchRow[j].do \in {"reset", "bind", "run"}
  <2>1. BatchRow[1] = Do("reset") /\ BatchRow[2] = Do("bind") /\ BatchRow[3] = Do("run")
    BY DEF BatchRow
  <2>2. \A d \in {"reset", "bind", "run"} : Do(d) \in Steps /\ Do(d).do = d
    BY StepTypes DEF Do, Verbs
  <2> QED BY <2>1, <2>2
<1>4. rows \in Seq(Steps) /\ Len(rows) = 3 * Rows
  BY <1>1, <1>2, <1>3
<1>5. \A i \in 1..Len(rows) : rows[i].do \in {"reset", "bind", "run"}
  BY <1>2, <1>3, <1>4
<1> HIDE DEF rows
<1>6. Do("reset") \in Steps /\ Do("reset").do = "reset"
  BY StepTypes DEF Do, Verbs
<1>7. Batch = rows \o <<Do("reset")>>
  BY DEF Batch, rows
<1> DEFINE last == <<Do("reset")>>
<1>8. last \in Seq(Steps) /\ Len(last) = 1 /\ last[1] = Do("reset")
  BY <1>6
<1> HIDE DEF last
<1>9. /\ Batch \in Seq(Steps) /\ Len(Batch) = Len(rows) + 1
      /\ \A i \in 1..Len(rows) : Batch[i] = rows[i]
      /\ Batch[Len(rows) + 1] = last[1]
  BY <1>4, <1>7, <1>8, ConcatProperties DEF last
<1> QED BY <1>4, <1>5, <1>6, <1>8, <1>9

\* Idle is a call, with nothing left to do.
LEMMA IdleCall ==
  /\ Idle \in CallType /\ Idle.op = "idle" /\ Idle.conn = Nil /\ Idle.stmt = Nil
  /\ Idle.at = "none" /\ Idle.todo = <<>>
BY DEF Idle, CallType, Ops

----------------------------------------------------------------------------
\* A step of a call that changes no hook, or the return of one that did.
PlainDoing(t) == \A i \in DOMAIN call[t].todo : Todo(t, i).do \in {"reset", "bind", "run"}
PlainUse(t) ==
  /\ ~Changing(t) /\ PlainDoing(t)
  /\ call[t].op # "idle" => call[t].conn \in Conns
  /\ call[t].op = "idle" => call[t] = Idle
  /\ call[t].op \in {"prepare", "exec"} =>
       call[t].conn = pointer /\ \A u \in Threads : u # t => call[u].op # "close"
LEMMA PlainStep ==
  ASSUME DBInv, NEW t \in Threads, UNCHANGED <<pointer, field, hook, live, open, reported>>,
         \A u \in Threads : u # t => call'[u] = call[u],
         ~Changing(t) \/ call[t].todo = <<>>, PlainUse(t)'
  PROVE  Wiring' /\ Plans' /\ Owned' /\ CloseTold'
<1> USE DEF DBInv
<1>1. \A u \in Threads : Changing(u)' => u # t /\ Changing(u) /\ call'[u] = call[u]
  BY DEF PlainUse, Changing
<1>2. \A u \in Threads : Changing(u) => u = t \/ Changing(u)'
  BY DEF Changing
<1>3. \A u \in Threads : \A i : SwapAt(u, i) /\ Changing(u) => Changing(u)' /\ SwapAt(u, i)' /\ Todo(u, i)' = Todo(u, i)
  BY <1>2 DEF SwapAt, Todo
<1>4. Wiring'
  <2>1. IdleCalls' /\ PlainCalls'
    BY DEF Wiring, IdleCalls, PlainCalls, PlainUse, PlainDoing, Todo, Changing
  <2>2. SetCalls' /\ CloseCalls'
    BY DEF Wiring, SetCalls, CloseCalls, PlainUse, Todo, Changing
  <2>3. Places'
    BY DEF Wiring, Places, PlainUse, PlainDoing, Todo
  <2>4. Connections'
    BY DEF Wiring, Connections, PlainUse, Changing
  <2>5. OneChanges'
    BY DEF Wiring, OneChanges, PlainUse, Changing
  <2> QED BY <2>1, <2>2, <2>3, <2>4, <2>5 DEF Wiring
<1>5. Plans'
  <2>1. OneContext'
    BY <1>1 DEF Plans, OneContext, HookAt, SwapAt, Todo
  <2>2. HookThenSwap'
    BY <1>1 DEF Plans, HookThenSwap, HookAt, SwapAt, Todo
  <2>3. SwapAfterHook'
    BY <1>1 DEF Plans, SwapAfterHook, HookAt, SwapAt, Todo
  <2>4. CloseClears'
    BY <1>1 DEF Plans, CloseClears, HookAt, SwapAt, Todo, Changing
  <2> QED BY <2>1, <2>2, <2>3, <2>4 DEF Plans
<1>6. Owned'
  <2>1. HooksOwned'
    BY <1>3 DEF Owned, HooksOwned
  <2>2. \A x : Pending(x) => Pending(x)'
    BY <1>3 DEF Pending, SwapAt
  <2>3. LiveOwned'
    BY <2>2 DEF Owned, LiveOwned
  <2> QED BY <2>1, <2>3 DEF Owned
<1>7. CloseTold'
  BY <1>1 DEF CloseTold, CloseReported, CloseAhead, Changing, Todo
<1> QED BY <1>4, <1>5, <1>6, <1>7

LEMMA Untouched ==
  ASSUME DBInv, UNCHANGED <<pointer, field, hook, live, open, reported, call>>
  PROVE  Wiring' /\ Plans' /\ Owned' /\ CloseTold'
<1> USE DEF DBInv, Todo, Changing
<1>1. Wiring'
  BY DEF Wiring, IdleCalls, PlainCalls, SetCalls, CloseCalls, Places, Connections, OneChanges
<1>2. Plans'
  BY DEF Plans, OneContext, HookThenSwap, SwapAfterHook, CloseClears, HookAt, SwapAt
<1>3. Owned'
  BY DEF Owned, HooksOwned, LiveOwned, Pending, SwapAt
<1>4. CloseTold'
  BY DEF CloseTold, CloseReported, CloseAhead
<1> QED BY <1>1, <1>2, <1>3, <1>4

\* A call with steps left that is not a setter or a close is plain, and the other way round.
LEMMA PlainFirst ==
  ASSUME DBInv, NEW t \in Threads, call[t].todo # <<>>, Top(t).do \in {"reset", "bind", "run"}
  PROVE  ~Changing(t) /\ PlainUse(t) /\ call[t].op # "idle" /\ call[t].conn \in Conns
<1>1. 1 \in DOMAIN call[t].todo /\ Todo(t, 1).do \in {"reset", "bind", "run"}
  BY FirstStep DEF DBInv
<1>2. ~Changing(t)
  BY <1>1 DEF DBInv, Wiring, SetCalls, CloseCalls, Changing
<1>3. PlainDoing(t)
  BY <1>2 DEF DBInv, Wiring, PlainCalls, PlainDoing
<1>4. call[t].op # "idle"
  BY IdleCall DEF DBInv, Wiring, IdleCalls
<1>5. call[t].conn \in Conns
  BY <1>4 DEF DBInv, Wiring, Connections
<1>6. call[t].op \in {"prepare", "exec"} =>
        call[t].conn = pointer /\ \A u \in Threads : u # t => call[u].op # "close"
  BY DEF DBInv, Wiring, Connections, OneChanges, Changing
<1> QED BY <1>2, <1>3, <1>4, <1>5, <1>6 DEF PlainUse

LEMMA ChangingFirst ==
  ASSUME DBInv, NEW t \in Threads, call[t].todo # <<>>, Top(t).do \notin {"reset", "bind", "run"}
  PROVE  /\ Changing(t) /\ call[t].conn \in Conns /\ call[t].conn = pointer
         /\ call[t].at = "none" /\ within[t] = Nil
         /\ \A u \in Threads : u # t => ~Changing(u)
<1>1. 1 \in DOMAIN call[t].todo /\ Todo(t, 1).do \notin {"reset", "bind", "run"}
  BY FirstStep DEF DBInv
<1>2. Changing(t)
  BY <1>1 DEF DBInv, Wiring, PlainCalls
<1>3. call[t].conn \in Conns /\ call[t].conn = pointer
  BY <1>2 DEF DBInv, Wiring, Connections, Changing
<1>4. call[t].at # "running"
  BY DEF DBInv, Inside, Top
<1>5. call[t].at = "none" /\ within[t] = Nil
  BY <1>4 DEF DBInv, Inside, DBType, CallType
<1>6. \A u \in Threads : u # t => ~Changing(u)
  BY <1>2 DEF DBInv, Wiring, OneChanges
<1> QED BY <1>2, <1>3, <1>5, <1>6

\* A thread that is in no call has no statement and is in no hook.
LEMMA IdleThread ==
  ASSUME DBInv, NEW t \in Threads, call[t] = Idle
  PROVE  /\ call[t].op = "idle" /\ call[t].stmt = Nil /\ call[t].at = "none" /\ call[t].todo = <<>>
         /\ within[t] = Nil /\ ~Changing(t)
BY IdleCall DEF DBInv, Inside, Changing

----------------------------------------------------------------------------
\* The operations that leave hooks and contexts alone.
LEMMA OneRun ==
  <<Do("run")>> \in Seq(Steps) /\ \A i \in DOMAIN <<Do("run")>> : <<Do("run")>>[i].do = "run"
<1>1. Do("run") \in Steps /\ Do("run").do = "run"
  BY StepTypes DEF Verbs, Do
<1> QED BY <1>1

\* A call that begins has held no mutex and used no statement, and starts outside SQLite.
LEMMA BeginsOutside ==
  ASSUME DBInv, NEW t \in Threads, call[t] = Idle,
         NEW op \in Ops, NEW s, NEW todo \in Seq(Steps),
         s = Nil \/ (s \in DOMAIN stmt /\ Unused(s)), Begin(t, op, s, todo),
         UNCHANGED <<hook, stmt, within, mutex>>
  PROVE  Inside' /\ Rowed'
<1>1. /\ call[t].stmt = Nil /\ call[t].todo = <<>> /\ within[t] = Nil
  BY IdleThread
<1>2. /\ \A u \in Threads : u # t => call'[u] = call[u]
      /\ call'[t].stmt = s /\ call'[t].at = "none"
  BY Begins DEF DBInv
<1>3. Inside'
  BY <1>1, <1>2 DEF DBInv, Inside
<1>4. OneUser'
  BY <1>1, <1>2 DEF DBInv, Rowed, OneUser, Unused
<1>5. BatchRows'
  <2>1. SUFFICES ASSUME NEW r \in DOMAIN stmt, stmt[r].by = "batch", stmt[r].row
                 PROVE  \E u \in Threads : call'[u].stmt = r /\ call'[u].todo # <<>> /\ Todo(u, 1)'.do = "reset"
    BY DEF BatchRows
  <2>2. PICK u \in Threads : call[u].stmt = r /\ call[u].todo # <<>> /\ Todo(u, 1).do = "reset"
    BY <2>1 DEF DBInv, Rowed, BatchRows
  <2>3. u # t
    BY <2>2, <1>1
  <2> QED BY <2>2, <2>3, <1>2 DEF Todo
<1> QED BY <1>3, <1>4, <1>5 DEF Rowed

LEMMA PreparePreserves ==
  ASSUME DBInv, NEW t \in Threads, Prepare(t)
  PROVE  DBInv'
<1>1. /\ call[t] = Idle /\ pointer # Nil /\ pointer \in Conns
      /\ \A u \in Threads : call[u].op # "close"
  BY DEF Prepare, Apart, OpenOrClose, DBInv, DBType
<1>2. PICK op \in {"prepare", "exec"} : Begin(t, op, Nil, <<Do("run")>>)
  BY DEF Prepare
<1>3. UNCHANGED <<pointer, field, open, hook, live, stmt, within, mutex, reported, spent>>
  BY DEF Prepare
<1>4. ~Changing(t)
  BY <1>1, IdleThread
<1>5. /\ call' \in [Threads -> CallType]
      /\ \A u \in Threads : u # t => call'[u] = call[u]
      /\ call'[t].op = op /\ call'[t].conn = pointer /\ call'[t].todo = <<Do("run")>>
  BY <1>2, Begins, OneRun, ZenonT(30) DEF DBInv, Ops
<1>6. PlainUse(t)'
  BY <1>1, <1>3, <1>5, OneRun DEF PlainUse, PlainDoing, Changing, Todo
<1>7. Wiring' /\ Plans' /\ Owned' /\ CloseTold'
  BY <1>3, <1>4, <1>5, <1>6, PlainStep
<1>8. Inside' /\ Rowed'
  BY <1>1, <1>2, <1>3, BeginsOutside, OneRun DEF Ops
<1>9. DBType'
  BY <1>3, <1>5 DEF DBInv, DBType
<1> QED BY <1>7, <1>8, <1>9 DEF DBInv

LEMMA StepPreserves ==
  ASSUME DBInv, NEW t \in Threads, Step(t)
  PROVE  DBInv'
<1>1. call[t] = Idle /\ ~Changing(t)
  BY IdleThread DEF Step
<1>2. PICK s \in DOMAIN stmt : /\ Unused(s)
                               /\ Begin(t, "step", s, <<Do("run")>>) \/ Begin(t, "batch", s, Batch)
  BY DEF Step
<1>3. UNCHANGED <<pointer, field, open, hook, live, stmt, within, mutex, reported, spent>>
  BY DEF Step
<1>4. stmt[s].conn \in Conns /\ s # Nil
  BY <1>2, NilAssumption DEF DBInv, DBType
<1>5. PICK op \in {"step", "batch"} : Begin(t, op, s, IF op = "step" THEN <<Do("run")>> ELSE Batch)
  BY <1>2
<1> DEFINE todo == IF op = "step" THEN <<Do("run")>> ELSE Batch
<1>6. todo \in Seq(Steps) /\ \A i \in DOMAIN todo : todo[i].do \in {"reset", "bind", "run"}
  BY OneRun, BatchSteps
<1> HIDE DEF todo
<1>7. Begin(t, op, s, todo)
  BY <1>5 DEF todo
<1>8. /\ call' \in [Threads -> CallType]
      /\ \A u \in Threads : u # t => call'[u] = call[u]
      /\ call'[t].op = op /\ call'[t].conn = stmt[s].conn /\ call'[t].todo = todo
  BY <1>4, <1>6, <1>7, Begins DEF DBInv, Ops
<1>9. PlainUse(t)'
  BY <1>4, <1>6, <1>8 DEF PlainUse, PlainDoing, Changing, Todo
<1>10. Wiring' /\ Plans' /\ Owned' /\ CloseTold'
  BY <1>1, <1>3, <1>8, <1>9, PlainStep
<1>11. Inside' /\ Rowed'
  BY <1>1, <1>2, <1>3, <1>6, <1>7, BeginsOutside DEF Ops
<1>12. DBType'
  BY <1>3, <1>8 DEF DBInv, DBType
<1> QED BY <1>10, <1>11, <1>12 DEF DBInv

LEMMA CallBackPreserves ==
  ASSUME DBInv, NEW t \in Threads, CallBack(t) \/ CallBackEnds(t)
  PROVE  DBInv'
<1>1. UNCHANGED <<pointer, field, open, hook, live, stmt, call, mutex, reported, spent>>
  BY DEF CallBack, CallBackEnds
<1>2. Wiring' /\ Plans' /\ Owned' /\ CloseTold'
  BY <1>1, Untouched
<1>3. Rowed'
  BY <1>1 DEF DBInv, Rowed, OneUser, BatchRows, Todo
<1>4. within' \in [Threads -> Contexts \cup {Nil}] /\ Inside'
  <2>1. CASE CallBack(t)
    <3>1. call[t].at = "running" /\ call[t].conn \in Conns
      BY <2>1 DEF CallBack, DBInv, Inside
    <3>2. PICK h \in Hooks : within' = [within EXCEPT ![t] = hook[call[t].conn][h]]
      BY <2>1 DEF CallBack
    <3>3. hook[call[t].conn][h] \in Contexts \cup {Nil}
      BY <3>1 DEF DBInv, DBType
    <3> QED BY <1>1, <3>1, <3>2, <3>3 DEF DBInv, DBType, Inside
  <2>2. CASE CallBackEnds(t)
    BY <1>1, <2>2 DEF DBInv, DBType, Inside, CallBackEnds
  <2> QED BY <2>1, <2>2
<1>5. DBType'
  BY <1>1, <1>4 DEF DBInv, DBType
<1> QED BY <1>2, <1>3, <1>4, <1>5 DEF DBInv

\* What becomes of a statement that is executed or reset.
StmtType == [conn : Conns, row : BOOLEAN, by : Ops]
OnlyRow(s) ==
  /\ DOMAIN stmt' = DOMAIN stmt
  /\ \A r \in DOMAIN stmt : stmt'[r] \in StmtType
  /\ \A r \in DOMAIN stmt : r # s => stmt'[r] = stmt[r]
LEMMA RowChanges ==
  ASSUME DBType, NEW s, NEW row \in BOOLEAN, stmt' = [stmt EXCEPT ![s].row = row]
  PROVE  OnlyRow(s) /\ (s \in DOMAIN stmt => stmt'[s].row = row)
<1>1. DOMAIN stmt' = DOMAIN stmt
  OBVIOUS
<1>2. \A r \in DOMAIN stmt : r # s => stmt'[r] = stmt[r]
  OBVIOUS
<1>3. ASSUME s \in DOMAIN stmt PROVE stmt'[s] = [stmt[s] EXCEPT !.row = row]
  BY <1>3
<1>4. ASSUME NEW x \in StmtType
      PROVE  [x EXCEPT !.row = row] \in StmtType /\ [x EXCEPT !.row = row].row = row
  BY DEF StmtType
<1>5. \A r \in DOMAIN stmt : stmt[r] \in StmtType
  BY DEF DBType, StmtType
<1>6. ASSUME s \in DOMAIN stmt PROVE stmt'[s] \in StmtType /\ stmt'[s].row = row
  BY <1>3, <1>4, <1>5, <1>6
<1> QED BY <1>1, <1>2, <1>5, <1>6 DEF OnlyRow

LEMMA RowAndUserChange ==
  ASSUME DBType, NEW s, NEW row \in BOOLEAN, NEW op \in Ops,
         stmt' = [stmt EXCEPT ![s].row = row, ![s].by = op]
  PROVE  OnlyRow(s) /\ (s \in DOMAIN stmt => stmt'[s].row = row /\ stmt'[s].by = op)
<1>1. DOMAIN stmt' = DOMAIN stmt
  OBVIOUS
<1>2. \A r \in DOMAIN stmt : r # s => stmt'[r] = stmt[r]
  OBVIOUS
<1>3. ASSUME s \in DOMAIN stmt PROVE stmt'[s] = [stmt[s] EXCEPT !.row = row, !.by = op]
  BY <1>3
<1>4. ASSUME NEW x \in StmtType
      PROVE  LET y == [x EXCEPT !.row = row, !.by = op]
             IN  y \in StmtType /\ y.row = row /\ y.by = op
  BY <1>4 DEF StmtType
<1>5. \A r \in DOMAIN stmt : stmt[r] \in StmtType
  BY DEF DBType, StmtType
<1>6. ASSUME s \in DOMAIN stmt PROVE stmt'[s] \in StmtType /\ stmt'[s].row = row /\ stmt'[s].by = op
  BY <1>3, <1>4, <1>5, <1>6
<1> QED BY <1>1, <1>2, <1>5, <1>6 DEF OnlyRow

\* Only the call's own statement changes; what it leaves of a batch is going to be reset.
LEMMA RowsKept ==
  ASSUME DBInv, NEW t \in Threads, OnlyRow(call[t].stmt),
         \A u \in Threads : u # t => call'[u] = call[u],
         call'[t].stmt = call[t].stmt,
         call[t].stmt \in DOMAIN stmt /\ stmt'[call[t].stmt].by = "batch" /\ stmt'[call[t].stmt].row =>
           call'[t].todo # <<>> /\ call'[t].todo[1].do = "reset"
  PROVE  Rowed'
<1>1. OneUser'
  BY DEF DBInv, Rowed, OneUser, OnlyRow
<1>2. BatchRows'
  <2>1. SUFFICES ASSUME NEW r \in DOMAIN stmt, stmt'[r].by = "batch", stmt'[r].row
                 PROVE  \E u \in Threads : call'[u].stmt = r /\ call'[u].todo # <<>> /\ call'[u].todo[1].do = "reset"
    BY DEF BatchRows, OnlyRow, Todo
  <2>2. CASE r = call[t].stmt
    BY <2>1, <2>2
  <2>3. CASE r # call[t].stmt
    <3>1. stmt[r].by = "batch" /\ stmt[r].row
      BY <2>1, <2>3 DEF OnlyRow
    <3>2. PICK u \in Threads : call[u].stmt = r /\ call[u].todo # <<>> /\ Todo(u, 1).do = "reset"
      BY <3>1 DEF DBInv, Rowed, BatchRows
    <3> QED BY <3>2, <2>3 DEF Todo
  <2> QED BY <2>2, <2>3
<1> QED BY <1>1, <1>2 DEF Rowed

\* Before a bind or a run, a batch's statement is not in the middle of its results.
LEMMA RowDone ==
  ASSUME DBInv, NEW t \in Threads, call[t].todo # <<>>, Top(t).do # "reset",
         call[t].stmt \in DOMAIN stmt, stmt[call[t].stmt].by = "batch"
  PROVE  ~stmt[call[t].stmt].row
<1>1. SUFFICES ASSUME stmt[call[t].stmt].row PROVE FALSE
  OBVIOUS
<1>2. PICK u \in Threads : call[u].stmt = call[t].stmt /\ call[u].todo # <<>> /\ Todo(u, 1).do = "reset"
  BY <1>1 DEF DBInv, Rowed, BatchRows
<1>3. call[t].stmt # Nil
  BY NilAssumption DEF DBInv, DBType
<1>4. u = t
  BY <1>2, <1>3 DEF DBInv, Rowed, OneUser
<1> QED BY <1>2, <1>4, FirstStep DEF DBInv

LEMMA FinalizePreserves ==
  ASSUME DBInv, NEW t \in Threads, Finalize(t)
  PROVE  DBInv'
<1>1. UNCHANGED <<pointer, field, open, hook, live, call, within, mutex, reported, spent>>
  BY DEF Finalize
<1>2. Wiring' /\ Plans' /\ Owned' /\ CloseTold' /\ Inside'
  BY <1>1, Untouched DEF DBInv, Inside
<1>3. PICK s \in DOMAIN stmt :
        /\ Unused(s)
        /\ \/ stmt' = [u \in DOMAIN stmt \ {s} |-> stmt[u]]
           \/ stmt' = [stmt EXCEPT ![s].row = FALSE]
  BY DEF Finalize
<1>4. /\ DOMAIN stmt' \subseteq DOMAIN stmt
      /\ \A r \in DOMAIN stmt' : stmt'[r] \in StmtType
      /\ \A r \in DOMAIN stmt : r # s => r \in DOMAIN stmt' /\ stmt'[r] = stmt[r]
      /\ s \in DOMAIN stmt' => stmt'[s].row = FALSE
  <2>1. CASE stmt' = [u \in DOMAIN stmt \ {s} |-> stmt[u]]
    BY <2>1 DEF DBInv, DBType, StmtType
  <2>2. CASE stmt' = [stmt EXCEPT ![s].row = FALSE]
    BY <2>2, RowChanges DEF DBInv, OnlyRow
  <2> QED BY <1>3, <2>1, <2>2
<1>5. DBType'
  BY <1>1, <1>4 DEF DBInv, DBType, StmtType
<1>6. OneUser'
  BY <1>1, <1>3, <1>4 DEF DBInv, Rowed, OneUser, Unused
<1>7. BatchRows'
  BY <1>1, <1>3, <1>4 DEF DBInv, Rowed, BatchRows, Todo
<1> QED BY <1>2, <1>5, <1>6, <1>7 DEF DBInv, Rowed

LEMMA ResetPreserves ==
  ASSUME DBInv, NEW t \in Threads, ResetStep(t)
  PROVE  DBInv'
<1>1. call[t].todo # <<>> /\ Top(t).do = "reset" /\ Done(t)
  BY DEF ResetStep, Doing
<1>2. UNCHANGED <<pointer, field, open, hook, live, within, mutex, reported, spent>>
  BY DEF ResetStep
<1>3. stmt' = [stmt EXCEPT ![call[t].stmt].row = FALSE]
  BY DEF ResetStep
<1>4. OnlyRow(call[t].stmt) /\ (call[t].stmt \in DOMAIN stmt => stmt'[call[t].stmt].row = FALSE)
  BY <1>3, RowChanges DEF DBInv
<1>5. /\ call' \in [Threads -> CallType]
      /\ \A u \in Threads : u # t => call'[u] = call[u]
      /\ call'[t].op = call[t].op /\ call'[t].conn = call[t].conn
      /\ call'[t].stmt = call[t].stmt /\ call'[t].at = call[t].at
      /\ Shifted(t)
  BY <1>1, Advances DEF DBInv
<1>6. ~Changing(t) /\ PlainUse(t) /\ call[t].op # "idle" /\ call[t].conn \in Conns
  BY <1>1, PlainFirst
<1>7. PlainUse(t)'
  BY <1>2, <1>5, <1>6 DEF PlainUse, PlainDoing, Changing, Todo, Shifted
<1>8. Wiring' /\ Plans' /\ Owned' /\ CloseTold'
  BY <1>2, <1>5, <1>6, <1>7, PlainStep
<1>9. Rowed'
  BY <1>4, <1>5, RowsKept
<1>10. Inside'
  BY <1>1, <1>2, <1>5 DEF DBInv, Inside, Top
<1>11. DBType'
  BY <1>2, <1>4, <1>5 DEF DBInv, DBType, OnlyRow, StmtType
<1> QED BY <1>8, <1>9, <1>10, <1>11 DEF DBInv

\* What a call that fails, enters SQLite or leaves it looks like afterwards.
SameCall(t) ==
  /\ call' \in [Threads -> CallType]
  /\ \A u \in Threads : u # t => call'[u] = call[u]
  /\ call'[t].op = call[t].op /\ call'[t].conn = call[t].conn /\ call'[t].stmt = call[t].stmt
LEMMA CallLeaves ==
  ASSUME DBType, NEW t \in Threads, NEW q \in Seq(Steps), NEW at \in {"none", "running"},
         call' = [call EXCEPT ![t].todo = q, ![t].at = at]
  PROVE  SameCall(t) /\ call'[t].todo = q /\ call'[t].at = at
<1>1. call \in [Threads -> CallType]
  BY DEF DBType
<1>2. /\ call'[t] = [call[t] EXCEPT !.todo = q, !.at = at]
      /\ \A u \in Threads : u # t => call'[u] = call[u]
      /\ DOMAIN call' = Threads
  BY <1>1
<1>3. ASSUME NEW x \in CallType, NEW y, y = [x EXCEPT !.todo = q, !.at = at]
      PROVE  /\ y \in CallType /\ y.todo = q /\ y.at = at
             /\ y.op = x.op /\ y.conn = x.conn /\ y.stmt = x.stmt
  BY <1>3 DEF CallType
<1>4. /\ call'[t] \in CallType /\ call'[t].todo = q /\ call'[t].at = at
      /\ call'[t].op = call[t].op /\ call'[t].conn = call[t].conn /\ call'[t].stmt = call[t].stmt
  BY <1>1, <1>2, <1>3
<1>5. call' \in [Threads -> CallType]
  BY <1>1, <1>2, <1>4
<1> QED BY <1>2, <1>4, <1>5 DEF SameCall

LEMMA CallFails ==
  ASSUME DBType, NEW t \in Threads, call' = [call EXCEPT ![t].todo = <<>>]
  PROVE  SameCall(t) /\ call'[t].todo = <<>> /\ call'[t].at = call[t].at
<1>1. call \in [Threads -> CallType] /\ <<>> \in Seq(Steps)
  BY DEF DBType
<1>2. /\ call'[t] = [call[t] EXCEPT !.todo = <<>>]
      /\ \A u \in Threads : u # t => call'[u] = call[u]
      /\ DOMAIN call' = Threads
  BY <1>1
<1>3. ASSUME NEW x \in CallType, NEW y, y = [x EXCEPT !.todo = <<>>]
      PROVE  /\ y \in CallType /\ y.todo = <<>> /\ y.at = x.at
             /\ y.op = x.op /\ y.conn = x.conn /\ y.stmt = x.stmt
  BY <1>1, <1>3 DEF CallType
<1>4. /\ call'[t] \in CallType /\ call'[t].todo = <<>> /\ call'[t].at = call[t].at
      /\ call'[t].op = call[t].op /\ call'[t].conn = call[t].conn /\ call'[t].stmt = call[t].stmt
  BY <1>1, <1>2, <1>3
<1>5. call' \in [Threads -> CallType]
  BY <1>1, <1>2, <1>4
<1> QED BY <1>2, <1>4, <1>5 DEF SameCall

LEMMA CallEnters ==
  ASSUME DBType, NEW t \in Threads, call' = [call EXCEPT ![t].at = "running"]
  PROVE  SameCall(t) /\ call'[t].todo = call[t].todo /\ call'[t].at = "running"
<1>1. call \in [Threads -> CallType] /\ call[t].todo \in Seq(Steps)
  BY DEF DBType, CallType
<1>2. call' = [call EXCEPT ![t].todo = call[t].todo, ![t].at = "running"]
  BY <1>1 DEF CallType
<1> QED BY <1>1, <1>2, CallLeaves

LEMMA BindPreserves ==
  ASSUME DBInv, NEW t \in Threads, BindStep(t)
  PROVE  DBInv'
<1>1. call[t].todo # <<>> /\ Top(t).do = "bind"
  BY DEF BindStep, Doing
<1>2. UNCHANGED <<pointer, field, open, hook, live, stmt, within, mutex, reported, spent>>
  BY DEF BindStep
<1>3. ~Changing(t) /\ PlainUse(t) /\ call[t].op # "idle" /\ call[t].conn \in Conns
  BY <1>1, PlainFirst
<1>4. call[t].at # "running"
  BY <1>1 DEF DBInv, Inside, Top
<1>5. SameCall(t) /\ call'[t].at = call[t].at /\ PlainUse(t)'
  <2>1. CASE Done(t)
    <3>1. SameCall(t) /\ call'[t].at = call[t].at /\ Shifted(t)
      BY <1>1, <2>1, Advances DEF DBInv, SameCall
    <3> QED BY <3>1, <1>2, <1>3 DEF PlainUse, PlainDoing, Changing, Todo, Shifted, SameCall
  <2>2. CASE call' = [call EXCEPT ![t].todo = <<>>]
    <3>1. SameCall(t) /\ call'[t].at = call[t].at /\ call'[t].todo = <<>>
      BY <2>2, CallFails DEF DBInv
    <3> QED BY <3>1, <1>2, <1>3 DEF PlainUse, PlainDoing, Changing, Todo, SameCall
  <2> QED BY <2>1, <2>2 DEF BindStep
<1>6. Wiring' /\ Plans' /\ Owned' /\ CloseTold'
  BY <1>2, <1>3, <1>5, PlainStep DEF SameCall
<1>7. OnlyRow(call[t].stmt)
  BY <1>2 DEF DBInv, DBType, OnlyRow, StmtType
<1>8. Rowed'
  BY <1>1, <1>2, <1>5, <1>7, RowsKept, RowDone DEF SameCall
<1>9. Inside'
  BY <1>2, <1>4, <1>5 DEF DBInv, Inside, SameCall
<1>10. DBType'
  BY <1>2, <1>5 DEF DBInv, DBType, SameCall
<1> QED BY <1>6, <1>8, <1>9, <1>10 DEF DBInv

LEMMA RunPreserves ==
  ASSUME DBInv, NEW t \in Threads, RunStep(t)
  PROVE  DBInv'
<1>1. call[t].todo # <<>> /\ Top(t).do = "run" /\ mutex[call[t].conn] = Nil
  BY DEF RunStep, Doing, Free
<1>2. UNCHANGED <<pointer, field, open, hook, live, stmt, within, reported, spent>>
  BY DEF RunStep
<1>3. ~Changing(t) /\ PlainUse(t) /\ call[t].op # "idle" /\ call[t].conn \in Conns
  BY <1>1, PlainFirst
<1>4. SameCall(t) /\ call'[t].todo = call[t].todo /\ call'[t].at = "running"
  BY CallEnters DEF DBInv, RunStep
<1>5. PlainUse(t)'
  BY <1>2, <1>3, <1>4 DEF PlainUse, PlainDoing, Changing, Todo, SameCall
<1>6. Wiring' /\ Plans' /\ Owned' /\ CloseTold'
  BY <1>2, <1>3, <1>4, <1>5, PlainStep DEF SameCall
<1>7. OnlyRow(call[t].stmt)
  BY <1>2 DEF DBInv, DBType, OnlyRow, StmtType
<1>8. Rowed'
  BY <1>1, <1>2, <1>4, <1>7, RowsKept, RowDone DEF SameCall
<1>9. mutex' = [mutex EXCEPT ![call[t].conn] = t] /\ call[t].at = "none" /\ within[t] = Nil
  BY DEF RunStep, DBInv, Inside
<1>10. Inside'
  <2>1. SUFFICES ASSUME NEW u \in Threads
                 PROVE  /\ call'[u].at = "running" =>
                             /\ call'[u].todo # <<>> /\ Head(call'[u].todo).do = "run"
                             /\ call'[u].conn \in Conns /\ mutex'[call'[u].conn] = u
                        /\ within'[u] # Nil =>
                             call'[u].at = "running" /\ \E h \in Hooks : hook'[call'[u].conn][h] = within'[u]
    BY DEF Inside
  <2>2. CASE u = t
    BY <1>1, <1>2, <1>3, <1>4, <1>9, <2>2 DEF SameCall, Top, DBInv, DBType
  <2>3. CASE u # t
    BY <1>1, <1>2, <1>4, <1>9, <2>3, NilAssumption DEF SameCall, DBInv, DBType, Inside
  <2> QED BY <2>2, <2>3
<1>11. DBType'
  BY <1>2, <1>3, <1>4, <1>9 DEF DBInv, DBType, SameCall
<1> QED BY <1>6, <1>8, <1>10, <1>11 DEF DBInv

\* How sqlite3_step, sqlite3_exec and sqlite3_prepare_v2 end: what is left to the call, and
\* what has become of the statements.
LEMMA RunOutcomes ==
  ASSUME DBInv, NEW t \in Threads, RunEnds(t)
  PROVE  \E q \in Seq(Steps) :
           /\ call' = [call EXCEPT ![t].todo = q, ![t].at = "none"]
           /\ \A i \in DOMAIN q : q[i].do \in {"reset", "bind", "run"}
           /\ \/ UNCHANGED <<stmt, spent>> /\ call[t].stmt = Nil
              \/ \E r \in Stmts :
                   /\ stmt' = [v \in DOMAIN stmt \cup {r} |->
                                 IF v = r THEN [conn |-> call[t].conn, row |-> FALSE, by |-> "prepare"]
                                 ELSE stmt[v]]
                   /\ spent' = spent \cup {r} /\ r \notin spent
              \/ \E row \in BOOLEAN :
                   /\ stmt' = [stmt EXCEPT ![call[t].stmt].row = row, ![call[t].stmt].by = call[t].op]
                   /\ UNCHANGED spent
                   /\ call[t].op = "batch" /\ row => q = <<Do("reset")>>
<1>1. call[t].todo # <<>> /\ Top(t).do = "run"
  BY DEF RunEnds, DBInv, Inside, Top
<1>2. PlainUse(t) /\ call[t].todo \in Seq(Steps)
  BY <1>1, PlainFirst DEF DBInv, DBType, CallType
<1> DEFINE rest == Tail(call[t].todo)
<1>3. rest \in Seq(Steps) /\ \A i \in DOMAIN rest : rest[i].do \in {"reset", "bind", "run"}
  <2>1. /\ rest \in Seq(Steps)
        /\ \A i \in DOMAIN rest : i + 1 \in DOMAIN call[t].todo /\ rest[i] = call[t].todo[i + 1]
    BY <1>1, <1>2, TailFacts
  <2> QED BY <2>1, <1>2 DEF PlainUse, PlainDoing, Todo
<1>4. /\ <<>> \in Seq(Steps) /\ \A i \in DOMAIN <<>> : <<>>[i].do \in {"reset", "bind", "run"}
  OBVIOUS
<1>5. /\ BatchFails \in Seq(Steps) /\ \A i \in DOMAIN BatchFails : BatchFails[i].do \in {"reset", "bind", "run"}
      /\ BatchFails = <<Do("reset")>>
  BY StepTypes DEF BatchFails, Verbs, Do
<1> DEFINE Leave(todo) == call' = [call EXCEPT ![t].todo = todo, ![t].at = "none"]
<1>6. CASE call[t].stmt = Nil /\ Leave(<<>>) /\ UNCHANGED <<stmt, spent>>
  BY <1>4, <1>6
<1>7. CASE /\ call[t].op = "prepare" /\ Leave(<<>>)
           /\ \E u \in Stmts \ spent :
                /\ stmt' = [v \in DOMAIN stmt \cup {u} |->
                              IF v = u THEN [conn |-> call[t].conn, row |-> FALSE, by |-> "prepare"]
                              ELSE stmt[v]]
                /\ spent' = spent \cup {u}
  BY <1>4, <1>7
<1>8. CASE /\ call[t].stmt # Nil /\ UNCHANGED spent
           /\ stmt' = [stmt EXCEPT ![call[t].stmt].row = FALSE, ![call[t].stmt].by = call[t].op]
           /\ Leave(rest)
  BY <1>3, <1>8
<1>9. CASE /\ call[t].stmt # Nil /\ UNCHANGED spent
           /\ \E row \in BOOLEAN :
                stmt' = [stmt EXCEPT ![call[t].stmt].row = row, ![call[t].stmt].by = call[t].op]
           /\ Leave(IF call[t].op = "batch" THEN BatchFails ELSE <<>>)
  <2>1. PICK row \in BOOLEAN :
          stmt' = [stmt EXCEPT ![call[t].stmt].row = row, ![call[t].stmt].by = call[t].op]
    BY <1>9
  <2>2. CASE call[t].op = "batch"
    BY <1>5, <1>9, <2>1, <2>2
  <2>3. CASE call[t].op # "batch"
    BY <1>4, <1>9, <2>1, <2>3
  <2> QED BY <2>2, <2>3
<1> QED BY <1>6, <1>7, <1>8, <1>9 DEF RunEnds

LEMMA RunEndsPreserves ==
  ASSUME DBInv, NEW t \in Threads, RunEnds(t)
  PROVE  DBInv'
<1>1. /\ call[t].todo # <<>> /\ Top(t).do = "run" /\ call[t].at = "running"
      /\ mutex[call[t].conn] = t /\ within[t] = Nil
  BY DEF RunEnds, DBInv, Inside, Top
<1>2. /\ UNCHANGED <<pointer, field, open, hook, live, within, reported>>
      /\ mutex' = [mutex EXCEPT ![call[t].conn] = Nil]
  BY DEF RunEnds
<1>3. ~Changing(t) /\ PlainUse(t) /\ call[t].op # "idle" /\ call[t].conn \in Conns
  BY <1>1, PlainFirst
<1>4. PICK q \in Seq(Steps) :
           /\ call' = [call EXCEPT ![t].todo = q, ![t].at = "none"]
           /\ \A i \in DOMAIN q : q[i].do \in {"reset", "bind", "run"}
           /\ \/ UNCHANGED <<stmt, spent>> /\ call[t].stmt = Nil
              \/ \E r \in Stmts :
                   /\ stmt' = [v \in DOMAIN stmt \cup {r} |->
                                 IF v = r THEN [conn |-> call[t].conn, row |-> FALSE, by |-> "prepare"]
                                 ELSE stmt[v]]
                   /\ spent' = spent \cup {r} /\ r \notin spent
              \/ \E row \in BOOLEAN :
                   /\ stmt' = [stmt EXCEPT ![call[t].stmt].row = row, ![call[t].stmt].by = call[t].op]
                   /\ UNCHANGED spent
                   /\ call[t].op = "batch" /\ row => q = <<Do("reset")>>
  BY RunOutcomes
<1>5. SameCall(t) /\ call'[t].todo = q /\ call'[t].at = "none"
  BY <1>4, CallLeaves DEF DBInv
<1>6. PlainUse(t)'
  BY <1>2, <1>3, <1>4, <1>5 DEF PlainUse, PlainDoing, Changing, Todo, SameCall
<1>7. Wiring' /\ Plans' /\ Owned' /\ CloseTold'
  BY <1>2, <1>3, <1>5, <1>6, PlainStep DEF SameCall
<1>8. Inside'
  BY <1>1, <1>2, <1>3, <1>5, NilAssumption DEF DBInv, DBType, Inside, SameCall
<1>9. /\ Rowed' /\ live \subseteq spent' /\ DOMAIN stmt' \subseteq Stmts
      /\ \A s \in DOMAIN stmt' : stmt'[s] \in StmtType
  <2>1. CASE UNCHANGED <<stmt, spent>> /\ call[t].stmt = Nil
    <3>1. OnlyRow(call[t].stmt) /\ call[t].stmt \notin DOMAIN stmt
      BY <2>1, NilAssumption DEF DBInv, DBType, OnlyRow, StmtType
    <3> QED BY <2>1, <3>1, <1>5, RowsKept DEF SameCall, OnlyRow, DBInv, DBType
  <2>2. CASE \E r \in Stmts :
                   /\ stmt' = [v \in DOMAIN stmt \cup {r} |->
                                 IF v = r THEN [conn |-> call[t].conn, row |-> FALSE, by |-> "prepare"]
                                 ELSE stmt[v]]
                   /\ spent' = spent \cup {r} /\ r \notin spent
    <3>1. PICK r \in Stmts :
                   /\ stmt' = [v \in DOMAIN stmt \cup {r} |->
                                 IF v = r THEN [conn |-> call[t].conn, row |-> FALSE, by |-> "prepare"]
                                 ELSE stmt[v]]
                   /\ spent' = spent \cup {r}
      BY <2>2
    <3>2. /\ DOMAIN stmt' = DOMAIN stmt \cup {r}
          /\ \A v \in DOMAIN stmt : v # r => stmt'[v] = stmt[v]
          /\ stmt'[r] = [conn |-> call[t].conn, row |-> FALSE, by |-> "prepare"]
      BY <3>1
    <3>3. stmt'[r] \in StmtType /\ stmt'[r].by = "prepare"
      BY <3>2, <1>3 DEF StmtType, Ops
    <3>4. \A v \in DOMAIN stmt : stmt[v] \in StmtType
      BY DEF DBInv, DBType, StmtType
    <3>5. OneUser'
      BY <3>2, <1>5 DEF DBInv, Rowed, OneUser, SameCall
    <3>6. BatchRows'
      <4>1. SUFFICES ASSUME NEW v \in DOMAIN stmt, v # r, stmt[v].by = "batch", stmt[v].row
                     PROVE  \E u \in Threads : call'[u].stmt = v /\ call'[u].todo # <<>> /\ call'[u].todo[1].do = "reset"
        BY <3>2, <3>3 DEF BatchRows, Todo
      <4>2. PICK u \in Threads : call[u].stmt = v /\ call[u].todo # <<>> /\ Todo(u, 1).do = "reset"
        BY <4>1 DEF DBInv, Rowed, BatchRows
      <4>3. u # t
        BY <4>2, <1>1, FirstStep DEF DBInv
      <4> QED BY <4>2, <4>3, <1>5 DEF Todo, SameCall
    <3> QED BY <3>1, <3>2, <3>3, <3>4, <3>5, <3>6 DEF Rowed, DBInv, DBType
  <2>3. CASE \E row \in BOOLEAN :
                   /\ stmt' = [stmt EXCEPT ![call[t].stmt].row = row, ![call[t].stmt].by = call[t].op]
                   /\ UNCHANGED spent
                   /\ call[t].op = "batch" /\ row => q = <<Do("reset")>>
    <3>1. PICK row \in BOOLEAN :
                   /\ stmt' = [stmt EXCEPT ![call[t].stmt].row = row, ![call[t].stmt].by = call[t].op]
                   /\ UNCHANGED spent
                   /\ call[t].op = "batch" /\ row => q = <<Do("reset")>>
      BY <2>3
    <3>2. call[t].op \in Ops
      BY DEF DBInv, DBType, CallType
    <3>3. /\ OnlyRow(call[t].stmt)
          /\ call[t].stmt \in DOMAIN stmt =>
               stmt'[call[t].stmt].row = row /\ stmt'[call[t].stmt].by = call[t].op
      BY <3>1, <3>2, RowAndUserChange DEF DBInv
    <3>4. call[t].stmt \in DOMAIN stmt /\ stmt'[call[t].stmt].by = "batch" /\ stmt'[call[t].stmt].row =>
            q = <<Do("reset")>>
      BY <3>1, <3>3
    <3>5. <<Do("reset")>> # <<>> /\ <<Do("reset")>>[1].do = "reset"
      BY DEF Do
    <3>6. Rowed'
      BY <3>3, <3>4, <3>5, <1>5, RowsKept DEF SameCall
    <3> QED BY <3>1, <3>3, <3>6 DEF OnlyRow, DBInv, DBType
  <2> QED BY <1>4, <2>1, <2>2, <2>3
<1>10. DBType'
  BY <1>2, <1>3, <1>5, <1>9 DEF DBInv, DBType, SameCall, StmtType
<1> QED BY <1>7, <1>8, <1>9, <1>10 DEF DBInv

LEMMA ReturnPreserves ==
  ASSUME DBInv, NEW t \in Threads, Return(t)
  PROVE  DBInv'
<1>1. call[t].todo = <<>> /\ call' = [call EXCEPT ![t] = Idle]
  BY DEF Return
<1>2. UNCHANGED <<pointer, field, open, hook, live, stmt, within, mutex, reported, spent>>
  BY DEF Return
<1>3. /\ call' \in [Threads -> CallType] /\ call'[t] = Idle
      /\ \A u \in Threads : u # t => call'[u] = call[u]
  BY <1>1, IdleCall DEF DBInv, DBType
<1>4. PlainUse(t)'
  BY <1>3, IdleCall DEF PlainUse, PlainDoing, Changing, Todo
<1>5. Wiring' /\ Plans' /\ Owned' /\ CloseTold'
  BY <1>1, <1>2, <1>3, <1>4, PlainStep
<1>6. Inside'
  BY <1>1, <1>2, <1>3, IdleCall DEF DBInv, Inside
<1>7. OneUser'
  BY <1>2, <1>3, IdleCall DEF DBInv, Rowed, OneUser
<1>8. BatchRows'
  BY <1>1, <1>2, <1>3 DEF DBInv, Rowed, BatchRows, Todo
<1>9. DBType'
  BY <1>2, <1>3 DEF DBInv, DBType
<1> QED BY <1>5, <1>6, <1>7, <1>8, <1>9 DEF DBInv, Rowed

\* Before an open, nothing is set and nobody uses a handle.
LEMMA OpenPreserves ==
  ASSUME DBInv, NEW t \in Threads, Open(t)
  PROVE  DBInv'
<1> USE DEF DBInv, Todo, Changing
<1>1. pointer = Nil /\ \A u \in Threads : call[u].op # "close"
  BY DEF Open, Apart, OpenOrClose
<1>2. PICK c \in Conns : pointer' = c /\ open' = open \cup {c} /\ spent' = spent \cup {c}
  BY DEF Open
<1>3. UNCHANGED <<field, hook, live, stmt, call, within, mutex, reported>>
  BY DEF Open
<1>4. \A u \in Threads : call[u].op \notin {"set", "prepare", "exec", "close"}
  BY <1>1, NilAssumption DEF Wiring, Connections
<1>5. \A d \in Conns : \A h \in Hooks : hook[d][h] = Nil
  BY <1>1, NilAssumption DEF Owned, HooksOwned
<1>6. \A f \in Fields : field[f] = Nil
  BY <1>1 DEF Owned, LiveOwned
<1>7. DBType'
  BY <1>2, <1>3 DEF DBType
<1>8. Wiring'
  BY <1>3, <1>4 DEF Wiring, IdleCalls, PlainCalls, SetCalls, CloseCalls, Places, Connections, OneChanges
<1>9. Plans'
  BY <1>3, <1>4 DEF Plans, OneContext, HookThenSwap, SwapAfterHook, CloseClears
<1>10. Owned'
  BY <1>3, <1>5, <1>6 DEF Owned, HooksOwned, LiveOwned, Pending, SwapAt
<1>11. Inside' /\ Rowed'
  BY <1>3 DEF Inside, Rowed, OneUser, BatchRows
<1>12. CloseTold'
  BY <1>1, <1>2, <1>3, <1>4, NilAssumption DEF CloseTold, CloseReported, DBType
<1> QED BY <1>7, <1>8, <1>9, <1>10, <1>11, <1>12

----------------------------------------------------------------------------
\* The steps of setters and of a close: the wiring they keep.
ChangeStep(t) ==
  /\ call[t].todo # <<>> /\ Top(t).do \in {"hook", "swap", "close", "clear"} /\ Done(t)
  /\ pointer' = IF Top(t).do = "clear" THEN Nil ELSE pointer
  /\ UNCHANGED <<stmt, within, mutex, spent>>
  /\ \A c \in Conns : mutex[c] = Nil \/ hook'[c] = hook[c]
LEMMA ChangeFacts ==
  ASSUME DBInv, NEW t \in Threads, ChangeStep(t)
  PROVE  /\ SameCall(t) /\ Shifted(t) /\ call'[t].at = "none" /\ within'[t] = Nil
         /\ Changing(t) /\ Changing(t)'
         /\ call[t].conn \in Conns /\ call[t].conn = pointer
         /\ \A u \in Threads : u # t => ~Changing(u) /\ ~Changing(u)'
         /\ 1 \in DOMAIN call[t].todo /\ Top(t) = Todo(t, 1) /\ Todo(t, 1) \in Steps
         /\ call[t].op = "close" => ((call'[t].todo = <<>>) <=> (Top(t).do = "clear"))
         /\ Top(t).do \in {"close", "clear"} => call[t].op = "close"
<1>1. call[t].todo # <<>> /\ Top(t).do \in {"hook", "swap", "close", "clear"} /\ Done(t)
      /\ within' = within
  BY DEF ChangeStep
<1>2. /\ Changing(t) /\ call[t].conn \in Conns /\ call[t].conn = pointer
      /\ call[t].at = "none" /\ within[t] = Nil
      /\ \A u \in Threads : u # t => ~Changing(u)
  BY <1>1, ChangingFirst
<1>3. SameCall(t) /\ Shifted(t) /\ call'[t].at = call[t].at /\ Len(call'[t].todo) = Len(call[t].todo) - 1
  BY <1>1, Advances DEF DBInv, SameCall
<1>4. 1 \in DOMAIN call[t].todo /\ Top(t) = Todo(t, 1) /\ Todo(t, 1) \in Steps
  BY <1>1, FirstStep DEF DBInv
<1>5. ASSUME call[t].op = "close" PROVE (call'[t].todo = <<>>) <=> (Top(t).do = "clear")
  <2>1. (Top(t).do = "clear") <=> (1 = Len(call[t].todo))
    BY <1>4, <1>5 DEF DBInv, Wiring, CloseCalls
  <2>2. call'[t].todo \in Seq(Steps) /\ call[t].todo \in Seq(Steps)
    BY <1>3 DEF SameCall, CallType, DBInv, DBType
  <2>3. (call'[t].todo = <<>>) <=> (Len(call'[t].todo) = 0)
    BY <2>2, EmptySeq
  <2>4. Len(call[t].todo) \in Nat
    BY <2>2, LenProperties
  <2> QED BY <2>1, <2>3, <2>4, <1>3
<1>6. Top(t).do \in {"close", "clear"} => call[t].op = "close"
  BY <1>2, <1>4 DEF DBInv, Wiring, SetCalls, Changing
<1>7. Changing(t)' /\ \A u \in Threads : u # t => ~Changing(u)'
  BY <1>2, <1>3 DEF Changing, SameCall
<1> QED BY <1>1, <1>2, <1>3, <1>4, <1>5, <1>6, <1>7

LEMMA ChangeWiring ==
  ASSUME DBInv, NEW t \in Threads, ChangeStep(t)
  PROVE  Wiring' /\ Inside' /\ Rowed'
<1>1. /\ SameCall(t) /\ Shifted(t) /\ call'[t].at = "none" /\ within'[t] = Nil
      /\ Changing(t) /\ Changing(t)'
      /\ call[t].conn \in Conns /\ call[t].conn = pointer
      /\ \A u \in Threads : u # t => ~Changing(u) /\ ~Changing(u)'
      /\ Top(t) = Todo(t, 1)
      /\ call[t].op = "close" => ((call'[t].todo = <<>>) <=> (Top(t).do = "clear"))
      /\ Top(t).do \in {"close", "clear"} => call[t].op = "close"
  BY ChangeFacts
<1>2. /\ pointer' = IF Top(t).do = "clear" THEN Nil ELSE pointer
      /\ UNCHANGED <<stmt, within, mutex, spent>>
      /\ call[t].todo # <<>> /\ Top(t).do # "reset"
  BY DEF ChangeStep
<1>3. IdleCalls' /\ PlainCalls'
  BY <1>1 DEF DBInv, Wiring, IdleCalls, PlainCalls, SameCall, Changing, Todo
<1>4. SetCalls'
  BY <1>1 DEF DBInv, Wiring, SetCalls, SameCall, Shifted, Changing, Todo
<1>5. CloseCalls'
  <2>1. SUFFICES ASSUME call[t].op = "close", NEW i \in DOMAIN call'[t].todo
                 PROVE  /\ call'[t].todo[i].do \in {"hook", "swap", "close", "clear"}
                        /\ (call'[t].todo[i].do = "clear") <=> (i = Len(call'[t].todo))
    BY <1>1 DEF CloseCalls, SameCall, Changing, Todo
  <2>2. i + 1 \in DOMAIN call[t].todo /\ call'[t].todo[i] = call[t].todo[i + 1]
    BY <1>1 DEF Shifted
  <2>3. /\ call[t].todo[i + 1].do \in {"hook", "swap", "close", "clear"}
        /\ (call[t].todo[i + 1].do = "clear") <=> (i + 1 = Len(call[t].todo))
    BY <2>1, <2>2 DEF DBInv, Wiring, CloseCalls, Todo
  <2>4. Len(call'[t].todo) = Len(call[t].todo) - 1 /\ Len(call[t].todo) \in Nat /\ i \in Nat
    <3>1. call'[t].todo \in Seq(Steps) /\ call[t].todo \in Seq(Steps)
      BY <1>1 DEF SameCall, CallType, DBInv, DBType
    <3>2. Len(call'[t].todo) = Len(call[t].todo) - 1
      BY <1>2, Advances DEF DBInv, ChangeStep
    <3> QED BY <3>1, <3>2, LenProperties
  <2> QED BY <2>2, <2>3, <2>4
<1>6. Places'
  BY <1>1 DEF DBInv, Wiring, Places, SameCall, Shifted, Todo
<1>7. Connections'
  <2>1. \A u \in Threads : u # t /\ Top(t).do = "clear" => call[u].op \notin {"set", "prepare", "exec", "close"}
    BY <1>1 DEF DBInv, Wiring, OneChanges, Changing
  <2> QED BY <1>1, <1>2, <2>1 DEF DBInv, Wiring, Connections, SameCall, Changing
<1>8. OneChanges'
  BY <1>1 DEF DBInv, Wiring, OneChanges, SameCall, Changing
<1>9. Inside'
  BY <1>1, <1>2, NilAssumption DEF DBInv, Inside, SameCall, ChangeStep
<1>10. Rowed'
  <2>1. OnlyRow(call[t].stmt)
    BY <1>2 DEF DBInv, DBType, OnlyRow, StmtType
  <2> QED BY <1>1, <1>2, <2>1, RowsKept, RowDone DEF SameCall
<1> QED BY <1>3, <1>4, <1>5, <1>6, <1>7, <1>8, <1>9, <1>10 DEF Wiring

\* What was planned after the first step is what is planned now.
LEMMA PlanMoves ==
  ASSUME DBInv, NEW t \in Threads, ChangeStep(t)
  PROVE  /\ \A i : HookAt(t, i)' => HookAt(t, i + 1) /\ Todo(t, i)' = Todo(t, i + 1) /\ i \in Nat
         /\ \A i : SwapAt(t, i)' => SwapAt(t, i + 1) /\ Todo(t, i)' = Todo(t, i + 1) /\ i \in Nat
         /\ \A i : HookAt(t, i) /\ i # 1 => HookAt(t, i - 1)' /\ Todo(t, i - 1)' = Todo(t, i) /\ i \in Nat
         /\ \A i : SwapAt(t, i) /\ i # 1 => SwapAt(t, i - 1)' /\ Todo(t, i - 1)' = Todo(t, i) /\ i \in Nat
         /\ \A i \in DOMAIN call'[t].todo : i \in Nat /\ i >= 1
         /\ \A i \in DOMAIN call[t].todo : i \in Nat /\ i >= 1
<1>1. SameCall(t) /\ Shifted(t)
  BY ChangeFacts
<1>2. call'[t].todo \in Seq(Steps) /\ call[t].todo \in Seq(Steps)
  BY <1>1 DEF SameCall, CallType, DBInv, DBType
<1>3. /\ \A i \in DOMAIN call'[t].todo : i \in Nat /\ i >= 1
      /\ \A i \in DOMAIN call[t].todo : i \in Nat /\ i >= 1
  BY <1>2
<1> QED BY <1>1, <1>3 DEF Shifted, HookAt, SwapAt, Todo

LEMMA HookPreserves ==
  ASSUME DBInv, NEW t \in Threads, HookStep(t)
  PROVE  DBInv'
<1> DEFINE c == call[t].conn
           x == Top(t).ctx
<1>1. /\ HookAt(t, 1) /\ Top(t) = Todo(t, 1) /\ c \in Conns /\ c = pointer /\ Changing(t)
      /\ Top(t).on \in Hooks /\ x \in Contexts \cup {Nil}
  <2>1. call[t].todo # <<>> /\ Top(t).do = "hook"
    BY DEF HookStep, Doing
  <2>2. 1 \in DOMAIN call[t].todo /\ Top(t) = Todo(t, 1) /\ Todo(t, 1) \in Steps
    BY <2>1, FirstStep DEF DBInv
  <2>3. Top(t).on \in Hooks
    BY <2>1, <2>2 DEF DBInv, Wiring, Places
  <2> QED BY <2>1, <2>2, <2>3, ChangingFirst DEF HookAt, Steps
<1>2. /\ UNCHANGED <<pointer, field, open, live, stmt, within, mutex, reported, spent>>
      /\ mutex[c] = Nil /\ hook' = [hook EXCEPT ![c][Top(t).on] = x]
  BY DEF HookStep, Free
<1>3. /\ hook' \in [Conns -> [Hooks -> Contexts \cup {Nil}]]
      /\ hook'[c][Top(t).on] = x
      /\ \A h \in Hooks : h # Top(t).on => hook'[c][h] = hook[c][h]
      /\ \A d \in Conns : d # c => hook'[d] = hook[d]
  BY <1>1, <1>2 DEF DBInv, DBType
<1> HIDE DEF c
<1>4. ChangeStep(t)
  BY <1>2, <1>3 DEF HookStep, Doing, ChangeStep, c
<1>5. /\ SameCall(t) /\ Changing(t) /\ \A u \in Threads : u # t => ~Changing(u) /\ ~Changing(u)'
  BY <1>4, ChangeFacts
<1>6. /\ \A i : HookAt(t, i)' => HookAt(t, i + 1) /\ Todo(t, i)' = Todo(t, i + 1) /\ i \in Nat
      /\ \A i : SwapAt(t, i)' => SwapAt(t, i + 1) /\ Todo(t, i)' = Todo(t, i + 1) /\ i \in Nat
      /\ \A i : HookAt(t, i) /\ i # 1 => HookAt(t, i - 1)' /\ Todo(t, i - 1)' = Todo(t, i) /\ i \in Nat
      /\ \A i : SwapAt(t, i) /\ i # 1 => SwapAt(t, i - 1)' /\ Todo(t, i - 1)' = Todo(t, i) /\ i \in Nat
      /\ \A i \in DOMAIN call'[t].todo : i \in Nat /\ i >= 1
  BY <1>4, PlanMoves
<1>7. ~SwapAt(t, 1)
  BY <1>1 DEF HookAt, SwapAt
<1>8. OneContext'
  <2>1. SUFFICES ASSUME NEW i, NEW j, HookAt(t, i)' \/ SwapAt(t, i)'
                 PROVE  /\ \/ Todo(t, i)'.ctx = Nil
                           \/ Todo(t, i)'.ctx \in live /\ \A f \in Fields : field[f] # Todo(t, i)'.ctx
                        /\ HookAt(t, j)' \/ SwapAt(t, j)' => Todo(t, j)'.ctx = Todo(t, i)'.ctx
                        /\ call[t].op = "close" => Todo(t, i)'.ctx = Nil
                        /\ SwapAt(t, i)' /\ SwapAt(t, j)' /\ i # j => Todo(t, i)'.ctx = Nil
    BY <1>2, <1>5 DEF OneContext, SameCall
  <2> QED BY <1>5, <1>6, <2>1 DEF DBInv, Plans, OneContext, HookAt, SwapAt
<1>9. HookThenSwap'
  <2>1. SUFFICES ASSUME NEW i, HookAt(t, i)', Todo(t, i)'.ctx # Nil
                 PROVE  \E j \in DOMAIN call'[t].todo : i < j /\ SwapAt(t, j)' /\ Todo(t, j)'.on = Owner(Todo(t, i)'.on)
    BY <1>5 DEF HookThenSwap
  <2>2. PICK j \in DOMAIN call[t].todo : i + 1 < j /\ SwapAt(t, j) /\ Todo(t, j).on = Owner(Todo(t, i + 1).on)
    BY <1>5, <1>6, <2>1 DEF DBInv, Plans, HookThenSwap, HookAt
  <2>3. SwapAt(t, j - 1)' /\ Todo(t, j - 1)' = Todo(t, j) /\ i < j - 1
    BY <1>6, <2>1, <2>2
  <2> QED BY <1>6, <2>1, <2>2, <2>3 DEF SwapAt
<1>10. SwapAfterHook'
  <2>1. SUFFICES ASSUME NEW i, SwapAt(t, i)', NEW h \in Hooks, Owner(h) = Todo(t, i)'.on,
                        hook'[c][h] \notin {Todo(t, i)'.ctx, Nil}
                 PROVE  \E j \in DOMAIN call'[t].todo : j < i /\ HookAt(t, j)' /\ Todo(t, j)'.on = h
    BY <1>5 DEF SwapAfterHook, SameCall, c
  <2>2. SwapAt(t, i + 1) /\ Todo(t, i)' = Todo(t, i + 1) /\ i \in Nat
    BY <1>6, <2>1
  <2>3. x = Todo(t, i + 1).ctx
    BY <1>1, <2>2 DEF DBInv, Plans, OneContext, HookAt, SwapAt
  <2>4. h # Top(t).on /\ hook'[c][h] = hook[c][h]
    BY <1>3, <2>1, <2>2, <2>3
  <2>5. PICK j \in DOMAIN call[t].todo : j < i + 1 /\ HookAt(t, j) /\ Todo(t, j).on = h
    BY <1>5, <2>1, <2>2, <2>4 DEF DBInv, Plans, SwapAfterHook, SwapAt, c
  <2>6. HookAt(t, j - 1)' /\ Todo(t, j - 1)' = Todo(t, j) /\ j - 1 < i
    BY <1>1, <1>6, <2>2, <2>4, <2>5
  <2> QED BY <2>5, <2>6 DEF HookAt
<1>11. CloseClears'
  <2>1. SUFFICES ASSUME call[t].op = "close"
                 PROVE  /\ \A h \in Hooks : hook'[c][h] = Nil
                             \/ \E i \in DOMAIN call'[t].todo : HookAt(t, i)' /\ Todo(t, i)'.on = h
                        /\ \A f \in Fields : field[f] = Nil
                             \/ \E i \in DOMAIN call'[t].todo : SwapAt(t, i)' /\ Todo(t, i)'.on = f
    BY <1>2, <1>5 DEF CloseClears, SameCall, Changing, c
  <2>2. x = Nil
    BY <1>1, <1>5, <2>1 DEF DBInv, Plans, OneContext, HookAt
  <2>3. ASSUME NEW h \in Hooks, hook'[c][h] # Nil
        PROVE  \E i \in DOMAIN call'[t].todo : HookAt(t, i)' /\ Todo(t, i)'.on = h
    <3>1. h # Top(t).on /\ hook[c][h] # Nil
      BY <1>3, <2>2, <2>3
    <3>2. PICK i \in DOMAIN call[t].todo : HookAt(t, i) /\ Todo(t, i).on = h
      BY <2>1, <3>1 DEF DBInv, Plans, CloseClears, c
    <3>3. HookAt(t, i - 1)' /\ Todo(t, i - 1)' = Todo(t, i)
      BY <1>1, <1>6, <3>1, <3>2
    <3> QED BY <3>2, <3>3 DEF HookAt
  <2>4. ASSUME NEW f \in Fields, field[f] # Nil
        PROVE  \E i \in DOMAIN call'[t].todo : SwapAt(t, i)' /\ Todo(t, i)'.on = f
    <3>1. PICK i \in DOMAIN call[t].todo : SwapAt(t, i) /\ Todo(t, i).on = f
      BY <2>1, <2>4 DEF DBInv, Plans, CloseClears
    <3>2. SwapAt(t, i - 1)' /\ Todo(t, i - 1)' = Todo(t, i)
      BY <1>6, <1>7, <3>1
    <3> QED BY <3>1, <3>2 DEF SwapAt
  <2> QED BY <2>3, <2>4
<1>12. HooksOwned'
  <2>1. SUFFICES ASSUME NEW d \in Conns, NEW h \in Hooks, hook'[d][h] # Nil
                 PROVE  /\ d = pointer
                        /\ \/ hook'[d][h] = field[Owner(h)]
                           \/ \E i \in DOMAIN call'[t].todo :
                                SwapAt(t, i)' /\ Todo(t, i)'.on = Owner(h) /\ Todo(t, i)'.ctx = hook'[d][h]
    BY <1>2, <1>5, ChangeFacts, <1>4 DEF HooksOwned
  <2>2. CASE d = c /\ h = Top(t).on
    <3>1. hook'[d][h] = x /\ x # Nil
      BY <1>3, <2>1, <2>2
    <3>2. PICK j \in DOMAIN call[t].todo : 1 < j /\ SwapAt(t, j) /\ Todo(t, j).on = Owner(h)
      BY <1>1, <2>2, <3>1 DEF DBInv, Plans, HookThenSwap, HookAt
    <3>3. Todo(t, j).ctx = x
      BY <1>1, <3>2 DEF DBInv, Plans, OneContext, HookAt, SwapAt
    <3>4. SwapAt(t, j - 1)' /\ Todo(t, j - 1)' = Todo(t, j)
      BY <1>6, <3>2
    <3> QED BY <1>1, <2>2, <3>1, <3>2, <3>3, <3>4 DEF SwapAt
  <2>3. CASE ~(d = c /\ h = Top(t).on)
    <3>1. hook'[d][h] = hook[d][h]
      BY <1>3, <2>3
    <3>2. /\ d = pointer
          /\ \/ hook[d][h] = field[Owner(h)]
             \/ \E i \in DOMAIN call[t].todo :
                  SwapAt(t, i) /\ Todo(t, i).on = Owner(h) /\ Todo(t, i).ctx = hook[d][h]
      BY <1>5, <2>1, <3>1 DEF DBInv, Owned, HooksOwned
    <3>3. CASE \E i \in DOMAIN call[t].todo :
                  SwapAt(t, i) /\ Todo(t, i).on = Owner(h) /\ Todo(t, i).ctx = hook[d][h]
      <4>1. PICK i \in DOMAIN call[t].todo :
                  SwapAt(t, i) /\ Todo(t, i).on = Owner(h) /\ Todo(t, i).ctx = hook[d][h]
        BY <3>3
      <4>2. SwapAt(t, i - 1)' /\ Todo(t, i - 1)' = Todo(t, i)
        BY <1>6, <1>7, <4>1
      <4> QED BY <3>1, <3>2, <4>1, <4>2 DEF SwapAt
    <3> QED BY <3>1, <3>2, <3>3
  <2> QED BY <2>2, <2>3
<1>13. LiveOwned'
  <2>1. ASSUME NEW y, Pending(y) PROVE Pending(y)'
    <3>1. PICK i \in DOMAIN call[t].todo : SwapAt(t, i) /\ Todo(t, i).ctx = y
      BY <1>5, <2>1 DEF Pending
    <3>2. SwapAt(t, i - 1)' /\ Todo(t, i - 1)' = Todo(t, i)
      BY <1>6, <1>7, <3>1
    <3> QED BY <3>1, <3>2, <1>4, ChangeFacts DEF SwapAt, Pending
  <2> QED BY <1>2, <2>1 DEF DBInv, Owned, LiveOwned
<1>14. CloseTold'
  <2>1. ASSUME CloseAhead(t) PROVE CloseAhead(t)'
    <3>1. PICK i \in DOMAIN call[t].todo : Todo(t, i).do = "close"
      BY <2>1 DEF CloseAhead
    <3>2. i # 1
      BY <1>1, <3>1 DEF HookAt
    <3> QED BY <3>1, <3>2, <1>4, ChangeFacts DEF CloseAhead, Shifted, Todo
  <2> QED BY <1>2, <1>5, <2>1, <1>4 DEF DBInv, CloseTold, CloseReported, SameCall, Changing, ChangeStep
<1>15. DBType'
  BY <1>2, <1>3, <1>5 DEF DBInv, DBType, SameCall
<1>16. Wiring' /\ Inside' /\ Rowed'
  BY <1>4, ChangeWiring
<1> QED BY <1>8, <1>9, <1>10, <1>11, <1>12, <1>13, <1>14, <1>15, <1>16 DEF DBInv, Plans, Owned

LEMMA SwapPreserves ==
  ASSUME DBInv, NEW t \in Threads, SwapStep(t)
  PROVE  DBInv'
<1> DEFINE c == call[t].conn
           x == Top(t).ctx
           g == Top(t).on
<1>1. /\ SwapAt(t, 1) /\ Top(t) = Todo(t, 1) /\ c \in Conns /\ c = pointer /\ Changing(t)
      /\ g \in Fields /\ x \in Contexts \cup {Nil}
  <2>1. call[t].todo # <<>> /\ Top(t).do = "swap"
    BY DEF SwapStep, Doing
  <2>2. 1 \in DOMAIN call[t].todo /\ Top(t) = Todo(t, 1) /\ Todo(t, 1) \in Steps
    BY <2>1, FirstStep DEF DBInv
  <2>3. Top(t).on \in Fields
    BY <2>1, <2>2 DEF DBInv, Wiring, Places
  <2> QED BY <2>1, <2>2, <2>3, ChangingFirst DEF SwapAt, Steps
<1>2. /\ UNCHANGED <<pointer, open, hook, stmt, within, mutex, reported, spent>>
      /\ live' = live \ {field[g]} /\ field' = [field EXCEPT ![g] = x]
  BY DEF SwapStep
<1>3. /\ field' \in [Fields -> Contexts \cup {Nil}] /\ field'[g] = x
      /\ \A f \in Fields : f # g => field'[f] = field[f]
  BY <1>1, <1>2 DEF DBInv, DBType
<1>4. ChangeStep(t)
  BY <1>2 DEF SwapStep, Doing, ChangeStep
<1>5. /\ SameCall(t) /\ Changing(t) /\ Changing(t)'
      /\ \A u \in Threads : u # t => ~Changing(u) /\ ~Changing(u)'
  BY <1>4, ChangeFacts
<1>6. /\ \A i : HookAt(t, i)' => HookAt(t, i + 1) /\ Todo(t, i)' = Todo(t, i + 1) /\ i \in Nat
      /\ \A i : SwapAt(t, i)' => SwapAt(t, i + 1) /\ Todo(t, i)' = Todo(t, i + 1) /\ i \in Nat
      /\ \A i : HookAt(t, i) /\ i # 1 => HookAt(t, i - 1)' /\ Todo(t, i - 1)' = Todo(t, i) /\ i \in Nat
      /\ \A i : SwapAt(t, i) /\ i # 1 => SwapAt(t, i - 1)' /\ Todo(t, i - 1)' = Todo(t, i) /\ i \in Nat
      /\ \A i \in DOMAIN call'[t].todo : i \in Nat /\ i >= 1
      /\ \A i \in DOMAIN call[t].todo : i \in Nat /\ i >= 1
  BY <1>4, PlanMoves
<1> HIDE DEF c, x, g
<1>7. ~HookAt(t, 1)
  BY <1>1 DEF HookAt, SwapAt
\* The new context is in no field yet, and no other swap brings it.
<1>8. /\ x = Nil \/ (x \in live /\ \A f \in Fields : field[f] # x)
      /\ call[t].op = "close" => x = Nil
      /\ \A i : HookAt(t, i) \/ SwapAt(t, i) => Todo(t, i).ctx = x
      /\ \A i : SwapAt(t, i) /\ i # 1 => x = Nil
  BY <1>1 DEF DBInv, Plans, OneContext, HookAt, SwapAt, x
<1>9. ASSUME NEW i, HookAt(t, i) \/ SwapAt(t, i), i # 1 PROVE Todo(t, i).ctx = Nil
  <2>1. CASE SwapAt(t, i)
    BY <1>8, <1>9, <2>1
  <2>2. CASE HookAt(t, i)
    <3>1. SUFFICES ASSUME Todo(t, i).ctx # Nil PROVE FALSE
      OBVIOUS
    <3>2. PICK j \in DOMAIN call[t].todo : i < j /\ SwapAt(t, j)
      BY <1>1, <2>2, <3>1 DEF DBInv, Plans, HookThenSwap, HookAt
    <3>3. i \in Nat /\ i >= 1 /\ j \in Nat
      BY <1>6, <2>2 DEF HookAt
    <3>4. j # 1
      BY <3>2, <3>3
    <3> QED BY <1>8, <2>2, <3>1, <3>2, <3>4
  <2> QED BY <1>9, <2>1, <2>2
<1>10. ASSUME NEW i, HookAt(t, i)' \/ SwapAt(t, i)' PROVE Todo(t, i)'.ctx = Nil
  <2>1. i \in Nat /\ i >= 1
    BY <1>6, <1>10 DEF HookAt, SwapAt
  <2> QED BY <1>6, <1>9, <1>10, <2>1
<1>11. OneContext' /\ HookThenSwap'
  BY <1>5, <1>10 DEF OneContext, HookThenSwap, HookAt, SwapAt
<1>12. SwapAfterHook'
  <2>1. SUFFICES ASSUME NEW i, SwapAt(t, i)', NEW h \in Hooks, Owner(h) = Todo(t, i)'.on,
                        hook[c][h] \notin {Todo(t, i)'.ctx, Nil}
                 PROVE  \E j \in DOMAIN call'[t].todo : j < i /\ HookAt(t, j)' /\ Todo(t, j)'.on = h
    BY <1>2, <1>5 DEF SwapAfterHook, SameCall, c
  <2>2. SwapAt(t, i + 1) /\ Todo(t, i)' = Todo(t, i + 1) /\ i \in Nat
    BY <1>6, <2>1
  <2>3. PICK j \in DOMAIN call[t].todo : j < i + 1 /\ HookAt(t, j) /\ Todo(t, j).on = h
    BY <1>1, <2>1, <2>2 DEF DBInv, Plans, SwapAfterHook, SwapAt, c
  <2>4. HookAt(t, j - 1)' /\ Todo(t, j - 1)' = Todo(t, j) /\ j - 1 < i
    BY <1>6, <1>7, <2>2, <2>3
  <2> QED BY <2>3, <2>4 DEF HookAt
<1>13. CloseClears'
  <2>1. SUFFICES ASSUME call[t].op = "close"
                 PROVE  /\ \A h \in Hooks : hook[c][h] = Nil
                             \/ \E i \in DOMAIN call'[t].todo : HookAt(t, i)' /\ Todo(t, i)'.on = h
                        /\ \A f \in Fields : field'[f] = Nil
                             \/ \E i \in DOMAIN call'[t].todo : SwapAt(t, i)' /\ Todo(t, i)'.on = f
    BY <1>2, <1>5 DEF CloseClears, SameCall, Changing, c
  <2>2. ASSUME NEW h \in Hooks, hook[c][h] # Nil
        PROVE  \E i \in DOMAIN call'[t].todo : HookAt(t, i)' /\ Todo(t, i)'.on = h
    <3>1. PICK i \in DOMAIN call[t].todo : HookAt(t, i) /\ Todo(t, i).on = h
      BY <2>1, <2>2 DEF DBInv, Plans, CloseClears, c
    <3>2. HookAt(t, i - 1)' /\ Todo(t, i - 1)' = Todo(t, i)
      BY <1>6, <1>7, <3>1
    <3> QED BY <3>1, <3>2 DEF HookAt
  <2>3. ASSUME NEW f \in Fields, field'[f] # Nil
        PROVE  \E i \in DOMAIN call'[t].todo : SwapAt(t, i)' /\ Todo(t, i)'.on = f
    <3>1. f # g /\ field[f] # Nil
      BY <1>3, <1>8, <2>1, <2>3
    <3>2. PICK i \in DOMAIN call[t].todo : SwapAt(t, i) /\ Todo(t, i).on = f
      BY <2>1, <3>1 DEF DBInv, Plans, CloseClears
    <3>3. SwapAt(t, i - 1)' /\ Todo(t, i - 1)' = Todo(t, i)
      BY <1>1, <1>6, <3>1, <3>2 DEF g
    <3> QED BY <3>2, <3>3 DEF SwapAt
  <2> QED BY <2>2, <2>3
\* SQLite already holds the new context wherever the old one was.
<1>14. HooksOwned'
  <2>1. SUFFICES ASSUME NEW d \in Conns, NEW h \in Hooks, hook[d][h] # Nil
                 PROVE  /\ d = pointer
                        /\ \/ hook[d][h] = field'[Owner(h)]
                           \/ \E i \in DOMAIN call'[t].todo :
                                SwapAt(t, i)' /\ Todo(t, i)'.on = Owner(h) /\ Todo(t, i)'.ctx = hook[d][h]
    BY <1>2, <1>5 DEF HooksOwned
  <2>2. /\ d = pointer
        /\ \/ hook[d][h] = field[Owner(h)]
           \/ \E i \in DOMAIN call[t].todo :
                SwapAt(t, i) /\ Todo(t, i).on = Owner(h) /\ Todo(t, i).ctx = hook[d][h]
    BY <1>5, <2>1 DEF DBInv, Owned, HooksOwned
  <2>3. CASE Owner(h) = g
    <3>1. hook[c][h] \in {x, Nil} \/ \E j \in DOMAIN call[t].todo : j < 1 /\ HookAt(t, j)
      BY <1>1, <2>3 DEF DBInv, Plans, SwapAfterHook, SwapAt, c, x, g
    <3> QED BY <1>1, <1>3, <1>6, <2>1, <2>2, <2>3, <3>1
  <2>4. CASE Owner(h) # g
    <3>1. Owner(h) \in Fields /\ field'[Owner(h)] = field[Owner(h)]
      BY <1>3, <2>4 DEF Owner, Fields
    <3>2. CASE \E i \in DOMAIN call[t].todo :
                SwapAt(t, i) /\ Todo(t, i).on = Owner(h) /\ Todo(t, i).ctx = hook[d][h]
      <4>1. PICK i \in DOMAIN call[t].todo :
                SwapAt(t, i) /\ Todo(t, i).on = Owner(h) /\ Todo(t, i).ctx = hook[d][h]
        BY <3>2
      <4>2. i # 1
        BY <1>1, <2>4, <4>1 DEF g
      <4>3. SwapAt(t, i - 1)' /\ Todo(t, i - 1)' = Todo(t, i)
        BY <1>6, <4>1, <4>2
      <4> QED BY <2>2, <4>1, <4>3 DEF SwapAt
    <3> QED BY <2>2, <3>1, <3>2
  <2> QED BY <2>3, <2>4
<1>15. LiveOwned'
  <2>1. \A f \in Fields : field'[f] # Nil => field'[f] \in live'
    BY <1>1, <1>2, <1>3, <1>8 DEF DBInv, Owned, LiveOwned
  <2>2. \A f, e \in Fields : field'[f] = field'[e] /\ f # e => field'[f] = Nil
    BY <1>1, <1>3, <1>8 DEF DBInv, Owned, LiveOwned
  <2>3. ASSUME NEW y \in live' PROVE Pending(y)' \/ \E f \in Fields : field'[f] = y
    <3>1. y \in live /\ y # field[g]
      BY <1>2, <2>3
    <3>2. CASE Pending(y)
      <4>1. PICK i \in DOMAIN call[t].todo : SwapAt(t, i) /\ Todo(t, i).ctx = y
        BY <1>5, <3>2 DEF Pending
      <4>2. CASE i = 1
        BY <1>1, <1>3, <4>1, <4>2 DEF x
      <4>3. CASE i # 1
        BY <1>5, <1>6, <4>1, <4>3 DEF SwapAt, Pending
      <4> QED BY <4>2, <4>3
    <3>3. CASE \E f \in Fields : field[f] = y
      BY <1>3, <3>1, <3>3
    <3> QED BY <3>1, <3>2, <3>3 DEF DBInv, Owned, LiveOwned
  <2>4. pointer' # Nil
    BY <1>1, <1>2, NilAssumption
  <2> QED BY <2>1, <2>2, <2>3, <2>4 DEF LiveOwned
<1>16. CloseTold'
  <2>1. ASSUME CloseAhead(t) PROVE CloseAhead(t)'
    <3>1. PICK i \in DOMAIN call[t].todo : Todo(t, i).do = "close"
      BY <2>1 DEF CloseAhead
    <3>2. i # 1
      BY <1>1, <3>1 DEF SwapAt
    <3> QED BY <3>1, <3>2, <1>4, ChangeFacts DEF CloseAhead, Shifted, Todo
  <2> QED BY <1>2, <1>5, <2>1, <1>4 DEF DBInv, CloseTold, CloseReported, SameCall, Changing, ChangeStep
<1>17. DBType'
  BY <1>2, <1>3, <1>5 DEF DBInv, DBType, SameCall
<1>18. Wiring' /\ Inside' /\ Rowed'
  BY <1>4, ChangeWiring
<1> QED BY <1>11, <1>12, <1>13, <1>14, <1>15, <1>16, <1>17, <1>18 DEF DBInv, Plans, Owned

LEMMA ClosePreserves ==
  ASSUME DBInv, NEW t \in Threads, CloseStep(t)
  PROVE  DBInv'
<1>1. /\ call[t].todo # <<>> /\ Top(t).do = "close"
      /\ UNCHANGED <<pointer, field, hook, live, stmt, within, mutex, spent>>
  BY DEF CloseStep, Doing
<1>2. ChangeStep(t)
  BY <1>1 DEF CloseStep, ChangeStep
<1>3. /\ SameCall(t) /\ Changing(t) /\ Changing(t)' /\ Shifted(t) /\ call[t].op = "close"
      /\ \A u \in Threads : u # t => ~Changing(u) /\ ~Changing(u)'
      /\ Top(t) = Todo(t, 1) /\ call'[t].todo # <<>> /\ call[t].conn = pointer /\ pointer \in Conns
  BY <1>1, <1>2, ChangeFacts
<1>4. /\ \A i : HookAt(t, i)' => HookAt(t, i + 1) /\ Todo(t, i)' = Todo(t, i + 1) /\ i \in Nat
      /\ \A i : SwapAt(t, i)' => SwapAt(t, i + 1) /\ Todo(t, i)' = Todo(t, i + 1) /\ i \in Nat
      /\ \A i : HookAt(t, i) /\ i # 1 => HookAt(t, i - 1)' /\ Todo(t, i - 1)' = Todo(t, i) /\ i \in Nat
      /\ \A i : SwapAt(t, i) /\ i # 1 => SwapAt(t, i - 1)' /\ Todo(t, i - 1)' = Todo(t, i) /\ i \in Nat
      /\ \A i \in DOMAIN call'[t].todo : i \in Nat /\ i >= 1
  BY <1>2, PlanMoves
<1>5. ~HookAt(t, 1) /\ ~SwapAt(t, 1)
  BY <1>1, <1>3 DEF HookAt, SwapAt
<1>6. \A i : HookAt(t, i) \/ SwapAt(t, i) => Todo(t, i).ctx = Nil
  BY <1>3 DEF DBInv, Plans, OneContext, HookAt, SwapAt
<1>7. \A i : HookAt(t, i)' \/ SwapAt(t, i)' => Todo(t, i)'.ctx = Nil
  BY <1>4, <1>6
<1>8. OneContext' /\ HookThenSwap'
  BY <1>3, <1>7 DEF OneContext, HookThenSwap, HookAt, SwapAt
<1>9. SwapAfterHook'
  <2>1. SUFFICES ASSUME NEW i, SwapAt(t, i)', NEW h \in Hooks, Owner(h) = Todo(t, i)'.on,
                        hook[call[t].conn][h] \notin {Todo(t, i)'.ctx, Nil}
                 PROVE  \E j \in DOMAIN call'[t].todo : j < i /\ HookAt(t, j)' /\ Todo(t, j)'.on = h
    BY <1>1, <1>3 DEF SwapAfterHook, SameCall
  <2>2. SwapAt(t, i + 1) /\ Todo(t, i)' = Todo(t, i + 1) /\ i \in Nat
    BY <1>4, <2>1
  <2>3. PICK j \in DOMAIN call[t].todo : j < i + 1 /\ HookAt(t, j) /\ Todo(t, j).on = h
    BY <1>3, <2>1, <2>2 DEF DBInv, Plans, SwapAfterHook, SwapAt
  <2>4. HookAt(t, j - 1)' /\ Todo(t, j - 1)' = Todo(t, j) /\ j - 1 < i
    BY <1>4, <1>5, <2>2, <2>3
  <2> QED BY <2>3, <2>4 DEF HookAt
<1>10. CloseClears'
  <2>1. ASSUME NEW h \in Hooks, hook[call[t].conn][h] # Nil
        PROVE  \E i \in DOMAIN call'[t].todo : HookAt(t, i)' /\ Todo(t, i)'.on = h
    <3>1. PICK i \in DOMAIN call[t].todo : HookAt(t, i) /\ Todo(t, i).on = h
      BY <1>3, <2>1 DEF DBInv, Plans, CloseClears
    <3>2. HookAt(t, i - 1)' /\ Todo(t, i - 1)' = Todo(t, i)
      BY <1>4, <1>5, <3>1
    <3> QED BY <3>1, <3>2 DEF HookAt
  <2>2. ASSUME NEW f \in Fields, field[f] # Nil
        PROVE  \E i \in DOMAIN call'[t].todo : SwapAt(t, i)' /\ Todo(t, i)'.on = f
    <3>1. PICK i \in DOMAIN call[t].todo : SwapAt(t, i) /\ Todo(t, i).on = f
      BY <1>3, <2>2 DEF DBInv, Plans, CloseClears
    <3>2. SwapAt(t, i - 1)' /\ Todo(t, i - 1)' = Todo(t, i)
      BY <1>4, <1>5, <3>1
    <3> QED BY <3>1, <3>2 DEF SwapAt
  <2> QED BY <1>1, <1>3, <2>1, <2>2 DEF CloseClears, SameCall, Changing
<1>11. ASSUME NEW i, SwapAt(t, i)
       PROVE  i - 1 \in DOMAIN call'[t].todo /\ SwapAt(t, i - 1)' /\ Todo(t, i - 1)' = Todo(t, i)
  BY <1>4, <1>5, <1>11 DEF SwapAt
<1>12. Owned'
  <2>1. HooksOwned'
    BY <1>1, <1>3, <1>11 DEF DBInv, Owned, HooksOwned
  <2>2. ASSUME NEW y, Pending(y) PROVE Pending(y)'
    BY <1>3, <1>11, <2>2 DEF Pending
  <2>3. LiveOwned'
    BY <1>1, <2>2 DEF DBInv, Owned, LiveOwned
  <2> QED BY <2>1, <2>3 DEF Owned
\* A refused close is reported; otherwise the connection is gone.
<1>13. CloseTold' /\ open' \subseteq open
  <2>1. \/ open' = open /\ reported' = reported \cup {pointer}
        \/ open' = open \ {pointer} /\ reported' = reported
    BY <1>3 DEF CloseStep, SqliteClose, CloseOutcome
  <2>2. pointer \in open' => pointer \in reported'
    BY <2>1
  <2>3. CloseReported'
    BY <1>1, <2>1 DEF DBInv, CloseTold, CloseReported
  <2> QED BY <1>1, <2>1, <2>2, <2>3 DEF CloseTold
<1>14. DBType'
  BY <1>1, <1>3, <1>13 DEF DBInv, DBType, SameCall
<1>15. Wiring' /\ Inside' /\ Rowed'
  BY <1>2, ChangeWiring
<1> QED BY <1>8, <1>9, <1>10, <1>12, <1>13, <1>14, <1>15 DEF DBInv, Plans

LEMMA ClearPreserves ==
  ASSUME DBInv, NEW t \in Threads, ClearStep(t)
  PROVE  DBInv'
<1>1. /\ call[t].todo # <<>> /\ Top(t).do = "clear" /\ pointer' = Nil
      /\ UNCHANGED <<field, open, hook, live, stmt, within, mutex, reported, spent>>
  BY DEF ClearStep, Doing
<1>2. ChangeStep(t)
  BY <1>1 DEF ClearStep, ChangeStep
<1>3. /\ SameCall(t) /\ call[t].op = "close" /\ call'[t].todo = <<>>
      /\ \A u \in Threads : u # t => ~Changing(u) /\ ~Changing(u)'
      /\ Top(t) = Todo(t, 1) /\ call[t].conn = pointer /\ Shifted(t)
  BY <1>1, <1>2, ChangeFacts
<1>4. \A i \in DOMAIN call[t].todo : i = 1
  BY <1>3 DEF Shifted
<1>5. \A i \in DOMAIN call[t].todo : ~HookAt(t, i) /\ ~SwapAt(t, i) /\ Todo(t, i).do # "close"
  BY <1>1, <1>3, <1>4 DEF HookAt, SwapAt
\* Everything has been cleared.
<1>6. /\ \A h \in Hooks : hook[pointer][h] = Nil
      /\ \A f \in Fields : field[f] = Nil
  BY <1>3, <1>5 DEF DBInv, Plans, CloseClears
<1>7. \A y : ~Pending(y)
  BY <1>3, <1>5 DEF Pending
<1>8. live = {}
  BY <1>6, <1>7, NilAssumption DEF DBInv, Owned, LiveOwned, DBType
<1>9. \A d \in Conns, h \in Hooks : hook[d][h] = Nil
  BY <1>6 DEF DBInv, Owned, HooksOwned
<1>10. Plans'
  BY <1>1, <1>3, <1>6, <1>9 DEF Plans, OneContext, HookThenSwap, SwapAfterHook, CloseClears, SameCall, Changing
<1>11. Owned'
  BY <1>1, <1>6, <1>8, <1>9 DEF Owned, HooksOwned, LiveOwned
<1>12. CloseTold'
  <2>1. pointer \in open => pointer \in reported
    BY <1>1, <1>3, <1>5 DEF DBInv, CloseTold, CloseAhead
  <2> QED BY <1>1, <1>3, <2>1 DEF DBInv, CloseTold, CloseReported, SameCall, Changing
<1>13. DBType'
  BY <1>1, <1>3 DEF DBInv, DBType, SameCall
<1>14. Wiring' /\ Inside' /\ Rowed'
  BY <1>2, ChangeWiring
<1> QED BY <1>10, <1>11, <1>12, <1>13, <1>14 DEF DBInv

----------------------------------------------------------------------------
\* What a setter or a close plans when it begins, for the context x.
GoodPlan(todo, x) ==
  /\ todo \in Seq(Steps)
  /\ \A i \in DOMAIN todo :
       /\ todo[i].do \in {"hook", "swap"} => todo[i].ctx = x
       /\ todo[i].do = "hook" => todo[i].on \in Hooks
       /\ todo[i].do = "swap" =>
            /\ todo[i].on \in Fields
            /\ \A h \in Hooks : Owner(h) = todo[i].on =>
                 \E j \in DOMAIN todo : j < i /\ todo[j].do = "hook" /\ todo[j].on = h
  /\ x # Nil =>
       /\ \A i, j \in DOMAIN todo : todo[i].do = "swap" /\ todo[j].do = "swap" => i = j
       /\ \A i \in DOMAIN todo : todo[i].do = "hook" =>
            \E j \in DOMAIN todo : i < j /\ todo[j].do = "swap" /\ todo[j].on = Owner(todo[i].on)
       /\ \E i \in DOMAIN todo : todo[i].do = "swap"

LEMMA SetterPlans ==
  ASSUME NEW x \in Contexts \cup {Nil},
         NEW todo \in {ChangeBusyHandler(x), SetUpdateListener(x), SetCommitListener(x)}
  PROVE  GoodPlan(todo, x) /\ \A i \in DOMAIN todo : todo[i].do \in {"hook", "swap"}
<1> USE StepTypes DEF GoodPlan, SetHook, SetNewHandler, Hooks, Fields, Owner
<1>1. CASE todo = ChangeBusyHandler(x)
  BY <1>1 DEF ChangeBusyHandler
<1>2. CASE todo = SetUpdateListener(x)
  BY <1>2 DEF SetUpdateListener
<1>3. CASE todo = SetCommitListener(x)
  BY <1>3 DEF SetCommitListener
<1> QED BY <1>1, <1>2, <1>3

LEMMA TimeoutPlan ==
  GoodPlan(BusyTimeout, Nil) /\ \A i \in DOMAIN BusyTimeout : BusyTimeout[i].do \in {"hook", "swap"}
BY StepTypes DEF BusyTimeout, GoodPlan, SetHook, Hooks, Fields

LEMMA ClosingPlan ==
  /\ GoodPlan(Close, Nil) /\ Close # <<>>
  /\ \A i \in DOMAIN Close : /\ Close[i].do \in {"hook", "swap", "close", "clear"}
                             /\ (Close[i].do = "clear") <=> (i = Len(Close))
  /\ \A h \in Hooks : \E i \in DOMAIN Close : Close[i].do = "hook" /\ Close[i].on = h
  /\ \A f \in Fields : \E i \in DOMAIN Close : Close[i].do = "swap" /\ Close[i].on = f
  /\ \E i \in DOMAIN Close : Close[i].do = "close"
<1>1. Close \in Seq(Steps) /\ Len(Close) = 9 /\ \A i \in 1..9 : Close[i] = ClosePlan[i]
  BY CloseSteps
<1>2. DOMAIN Close = 1..9
  BY <1>1
<1>3. /\ Close[1] = SetHook("busy", Nil) /\ Close[2] = SetNewHandler("busyHandler", Nil)
      /\ Close[3] = SetHook("commit", Nil) /\ Close[4] = SetHook("rollback", Nil)
      /\ Close[5] = SetNewHandler("commitListener", Nil)
      /\ Close[6] = SetHook("update", Nil) /\ Close[7] = SetNewHandler("updateListener", Nil)
      /\ Close[8] = Do("close") /\ Close[9] = Do("clear")
  BY <1>1 DEF ClosePlan
<1>4. \A i \in 1..9 : i \in {1, 2, 3, 4, 5, 6, 7, 8, 9}
  OBVIOUS
<1> USE DEF SetHook, SetNewHandler, Do
<1>5. \A h \in Hooks : \E i \in DOMAIN Close : Close[i].do = "hook" /\ Close[i].on = h
  BY <1>2, <1>3 DEF Hooks
<1>6. \A f \in Fields : \E i \in DOMAIN Close : Close[i].do = "swap" /\ Close[i].on = f
  BY <1>2, <1>3 DEF Fields
<1>7. \A i \in DOMAIN Close : /\ Close[i].do \in {"hook", "swap", "close", "clear"}
                              /\ (Close[i].do = "clear") <=> (i = 9)
  BY <1>2, <1>3, <1>4
<1>8. ASSUME NEW i \in DOMAIN Close
      PROVE  /\ Close[i].do \in {"hook", "swap"} => Close[i].ctx = Nil
             /\ Close[i].do = "hook" => Close[i].on \in Hooks
             /\ Close[i].do = "swap" =>
                  /\ Close[i].on \in Fields
                  /\ \A h \in Hooks : Owner(h) = Close[i].on =>
                       \E j \in DOMAIN Close : j < i /\ Close[j].do = "hook" /\ Close[j].on = h
  <2>1. CASE i \notin {2, 5, 7}
    BY <1>2, <1>3, <1>4, <2>1 DEF Hooks
  <2>2. CASE i \in {2, 5, 7}
    BY <1>2, <1>3, <2>2 DEF Hooks, Fields, Owner
  <2> QED BY <2>1, <2>2
<1>9. GoodPlan(Close, Nil)
  BY <1>1, <1>8 DEF GoodPlan
<1>10. \E i \in DOMAIN Close : Close[i].do = "close"
  <2>1. 8 \in DOMAIN Close /\ Close[8].do = "close"
    BY <1>2, <1>3
  <2> QED BY <2>1
<1>11. Close # <<>>
  BY <1>1, EmptySeq
<1> QED BY <1>1, <1>5, <1>6, <1>7, <1>9, <1>10, <1>11

\* A setter or a close begins: nobody else is changing a hook.
LEMMA ChangeBegins ==
  ASSUME DBInv, NEW t \in Threads, NEW op \in {"set", "close"}, NEW todo, NEW x \in Contexts \cup {Nil},
         call[t] = Idle, pointer # Nil, \A u \in Threads : call[u].op \notin {"set", "close"},
         op = "close" => \A u \in Threads : call[u].op \notin {"prepare", "exec"},
         GoodPlan(todo, x), Begin(t, op, Nil, todo),
         op = "set" => \A i \in DOMAIN todo : todo[i].do \in {"hook", "swap"},
         op = "close" =>
           /\ todo # <<>> /\ x = Nil
           /\ \A i \in DOMAIN todo : /\ todo[i].do \in {"hook", "swap", "close", "clear"}
                                     /\ (todo[i].do = "clear") <=> (i = Len(todo))
           /\ \A h \in Hooks : \E i \in DOMAIN todo : todo[i].do = "hook" /\ todo[i].on = h
           /\ \A f \in Fields : \E i \in DOMAIN todo : todo[i].do = "swap" /\ todo[i].on = f
           /\ \E i \in DOMAIN todo : todo[i].do = "close",
         live' = live \cup ({x} \ {Nil}), spent' = spent \cup ({x} \ {Nil}),
         x # Nil => x \notin spent,
         UNCHANGED <<pointer, field, open, hook, stmt, within, mutex, reported>>
  PROVE  DBInv'
<1>1. pointer \in Conns
  BY DEF DBInv, DBType
<1>2. /\ call' \in [Threads -> CallType]
      /\ \A u \in Threads : u # t => call'[u] = call[u]
      /\ call'[t].op = op /\ call'[t].todo = todo /\ call'[t].conn = pointer
      /\ todo \in Seq(Steps)
  BY Begins DEF DBInv, Ops, GoodPlan
<1>3. \A u \in Threads : ~Changing(u) /\ (u # t => ~Changing(u)')
  BY <1>2 DEF Changing
<1>4. Changing(t)'
  BY <1>2 DEF Changing
<1>5. /\ \A i : HookAt(t, i)' => i \in DOMAIN todo /\ todo[i].do = "hook"
      /\ \A i : SwapAt(t, i)' => i \in DOMAIN todo /\ todo[i].do = "swap"
      /\ \A i \in DOMAIN todo : todo[i].do = "hook" => HookAt(t, i)'
      /\ \A i \in DOMAIN todo : todo[i].do = "swap" => SwapAt(t, i)'
      /\ \A i \in DOMAIN todo : Todo(t, i)' = todo[i]
  BY <1>2 DEF HookAt, SwapAt, Todo
<1>6. Wiring'
  <2>1. IdleCalls' /\ PlainCalls' /\ SetCalls' /\ CloseCalls'
    BY <1>2, <1>3 DEF DBInv, Wiring, IdleCalls, PlainCalls, SetCalls, CloseCalls, Todo, Changing
  <2>2. Places'
    BY <1>2 DEF DBInv, Wiring, Places, Todo, GoodPlan
  <2>3. Connections'
    BY <1>1, <1>2, <1>3 DEF DBInv, Wiring, Connections, Changing
  <2>4. OneChanges'
    BY <1>2, <1>3 DEF OneChanges, Changing
  <2> QED BY <2>1, <2>2, <2>3, <2>4 DEF Wiring
\* The context is new.
<1>7. x # Nil => x \in live' /\ \A f \in Fields : field[f] # x
  BY DEF DBInv, DBType, Owned, LiveOwned
<1>8. OneContext'
  BY <1>2, <1>3, <1>5, <1>7 DEF OneContext, GoodPlan
<1>9. HookThenSwap'
  BY <1>2, <1>3, <1>5 DEF HookThenSwap, GoodPlan
<1>10. SwapAfterHook'
  BY <1>2, <1>3, <1>5 DEF SwapAfterHook, GoodPlan
<1>11. CloseClears'
  BY <1>2, <1>3, <1>5 DEF CloseClears, Changing
<1>12. HooksOwned'
  BY <1>3 DEF DBInv, Owned, HooksOwned
<1>13. LiveOwned'
  <2>1. x # Nil => Pending(x)'
    BY <1>2, <1>4, <1>5 DEF Pending, GoodPlan
  <2>2. \A y : ~Pending(y)
    BY <1>3 DEF Pending
  <2> QED BY <2>1, <2>2 DEF DBInv, Owned, LiveOwned
<1>14. Inside' /\ Rowed'
  BY <1>2, BeginsOutside DEF Ops
<1>15. CloseTold'
  BY <1>2, <1>3 DEF DBInv, CloseTold, CloseReported, CloseAhead, Todo, Changing
<1>16. DBType'
  BY <1>2 DEF DBInv, DBType
<1> QED BY <1>6, <1>8, <1>9, <1>10, <1>11, <1>12, <1>13, <1>14, <1>15, <1>16 DEF DBInv, Plans, Owned

LEMMA SetPreserves ==
  ASSUME DBInv, NEW t \in Threads, Set(t)
  PROVE  DBInv'
<1>1. /\ call[t] = Idle /\ pointer # Nil /\ \A u \in Threads : call[u].op \notin {"set", "close"}
      /\ UNCHANGED <<pointer, field, open, hook, stmt, within, mutex, reported>>
  BY DEF Set, Apart, OpenOrClose
<1>2. CASE \E x \in Contexts \ spent :
             /\ live' = live \cup {x} /\ spent' = spent \cup {x}
             /\ \E todo \in {ChangeBusyHandler(x), SetUpdateListener(x), SetCommitListener(x)} :
                  Begin(t, "set", Nil, todo)
  <2>1. PICK x \in Contexts \ spent :
             /\ live' = live \cup {x} /\ spent' = spent \cup {x}
             /\ \E todo \in {ChangeBusyHandler(x), SetUpdateListener(x), SetCommitListener(x)} :
                  Begin(t, "set", Nil, todo)
    BY <1>2
  <2>2. PICK todo \in {ChangeBusyHandler(x), SetUpdateListener(x), SetCommitListener(x)} :
          Begin(t, "set", Nil, todo)
    BY <2>1
  <2>3. x # Nil /\ {x} \ {Nil} = {x}
    BY NilAssumption
  <2>4. GoodPlan(todo, x) /\ \A i \in DOMAIN todo : todo[i].do \in {"hook", "swap"}
    BY SetterPlans
  <2> QED BY <1>1, <2>1, <2>2, <2>3, <2>4, ChangeBegins
<1>3. CASE /\ UNCHANGED <<live, spent>>
           /\ \E todo \in {ChangeBusyHandler(Nil), SetUpdateListener(Nil), SetCommitListener(Nil),
                           BusyTimeout} :
                Begin(t, "set", Nil, todo)
  <2>1. PICK todo \in {ChangeBusyHandler(Nil), SetUpdateListener(Nil), SetCommitListener(Nil),
                       BusyTimeout} : Begin(t, "set", Nil, todo)
    BY <1>3
  <2>2. GoodPlan(todo, Nil) /\ \A i \in DOMAIN todo : todo[i].do \in {"hook", "swap"}
    BY SetterPlans, TimeoutPlan
  <2>3. live' = live \cup ({Nil} \ {Nil}) /\ spent' = spent \cup ({Nil} \ {Nil})
    BY <1>3
  <2> QED BY <1>1, <2>1, <2>2, <2>3, ChangeBegins
<1> QED BY <1>2, <1>3 DEF Set

LEMMA CloseDbPreserves ==
  ASSUME DBInv, NEW t \in Threads, CloseDb(t)
  PROVE  DBInv'
<1>1. /\ call[t] = Idle /\ pointer # Nil
      /\ \A u \in Threads : call[u].op \notin {"set", "close", "prepare", "exec"}
      /\ Begin(t, "close", Nil, Close)
      /\ UNCHANGED <<pointer, field, open, hook, live, stmt, within, mutex, reported, spent>>
  BY DEF CloseDb, Apart, OpenOrClose
<1>2. live' = live \cup ({Nil} \ {Nil}) /\ spent' = spent \cup ({Nil} \ {Nil})
  BY <1>1
<1> QED BY <1>1, <1>2, ClosingPlan, ChangeBegins

----------------------------------------------------------------------------
LEMMA DBInit == Init => DBInv
<1> SUFFICES ASSUME Init PROVE DBInv
  OBVIOUS
<1>1. /\ pointer = Nil /\ field = [f \in Fields |-> Nil] /\ open = {} /\ live = {} /\ reported = {}
      /\ hook = [c \in Conns |-> NoHooks] /\ stmt = [s \in {} |-> Nil] /\ spent = {}
      /\ call = [t \in Threads |-> Idle] /\ within = [t \in Threads |-> Nil]
      /\ mutex = [c \in Conns |-> Nil]
  BY DEF Init
<1>2. \A c \in Conns : \A h \in Hooks : hook[c][h] = Nil
  BY <1>1 DEF NoHooks
<1>3. ASSUME NEW t \in Threads
      PROVE  /\ call[t] = Idle /\ call[t].op = "idle" /\ call[t].todo = <<>>
             /\ call[t].at = "none" /\ call[t].stmt = Nil /\ within[t] = Nil
  <2>1. call[t] = Idle /\ within[t] = Nil
    BY <1>1
  <2> QED BY <2>1, IdleCall
<1>4. ASSUME NEW t \in Threads
      PROVE  ~Changing(t) /\ \A i : i \notin DOMAIN call[t].todo
  <2>1. \A i : i \notin DOMAIN <<>>
    OBVIOUS
  <2>2. call[t].op = "idle" /\ call[t].todo = <<>>
    BY <1>3
  <2> QED BY <2>1, <2>2 DEF Changing
<1>5. DOMAIN stmt = {}
  BY <1>1
<1>6. DBType
  BY <1>1, <1>5, IdleCall DEF DBType, NoHooks
<1>7. Wiring
  BY <1>3, <1>4 DEF Wiring, IdleCalls, PlainCalls, SetCalls, CloseCalls, Places, Connections, OneChanges
<1>8. Plans
  BY <1>3, <1>4 DEF Plans, OneContext, HookThenSwap, SwapAfterHook, CloseClears
<1>9. Owned
  BY <1>1, <1>2 DEF Owned, HooksOwned, LiveOwned
<1>10. Inside /\ Rowed /\ CloseTold
  BY <1>1, <1>3, <1>5 DEF Inside, Rowed, OneUser, BatchRows, CloseTold, CloseReported
<1> QED BY <1>6, <1>7, <1>8, <1>9, <1>10 DEF DBInv

LEMMA DBNext == DBInv /\ [Next]_vars => DBInv'
<1> SUFFICES ASSUME DBInv, [Next]_vars PROVE DBInv'
  OBVIOUS
<1>1. CASE UNCHANGED vars
  <2>1. UNCHANGED <<pointer, field, open, hook, live, stmt, call, within, mutex, reported, spent>>
    BY <1>1 DEF vars
  <2>2. Wiring' /\ Plans' /\ Owned' /\ CloseTold'
    BY <2>1, Untouched
  <2>3. DBType' /\ Inside' /\ Rowed'
    BY <2>1 DEF DBInv, DBType, Inside, Rowed, OneUser, BatchRows, Todo
  <2> QED BY <2>2, <2>3 DEF DBInv
<1>2. CASE Next
  <2>1. PICK t \in Threads :
          \/ Progress(t) \/ CallBack(t) \/ Open(t) \/ Set(t) \/ CloseDb(t) \/ Prepare(t) \/ Step(t)
          \/ Finalize(t)
    BY <1>2 DEF Next
  <2>2. CASE Progress(t)
    BY <2>2, HookPreserves, SwapPreserves, ClosePreserves, ClearPreserves, ResetPreserves,
       BindPreserves, RunPreserves, CallBackPreserves, RunEndsPreserves, ReturnPreserves
       DEF Progress
  <2>3. CASE CallBack(t) \/ Open(t) \/ Set(t) \/ CloseDb(t) \/ Prepare(t) \/ Step(t) \/ Finalize(t)
    BY <2>3, CallBackPreserves, OpenPreserves, SetPreserves, CloseDbPreserves, PreparePreserves,
       StepPreserves, FinalizePreserves
  <2> QED BY <2>1, <2>2, <2>3
<1> QED BY <1>1, <1>2

\* The inductive invariant: what each call has still to do, who owns each context, and
\* which statements a batch has left to reset.
THEOREM DBInvariant == Spec => []DBInv
<1> QED BY DBInit, DBNext, PTL DEF Spec

\* Types: the object's fields, the hooks and the calls of NativeDB.c keep their types.
THEOREM TypesCorrect == Spec => []TypeOK
<1>1. DBInv => TypeOK
  <2> SUFFICES ASSUME DBInv PROVE TypeOK
    OBVIOUS
  <2>1. \A t \in Threads : call[t] # Idle => call[t].conn \in Conns
    BY DEF DBInv, Wiring, IdleCalls, Connections
  <2> QED BY <2>1 DEF DBInv, DBType, TypeOK
<1> QED BY <1>1, DBInvariant, PTL

\* SQLite never holds, and no hook ever runs on, a context that set_new_handler has freed,
\* whichever threads are inside sqlite3_step while a handler is replaced.
THEOREM ContextsAreLive == Spec => []ContextsInUseLive
<1>1. DBInv => ContextsInUseLive
  <2> SUFFICES ASSUME DBInv PROVE ContextsInUseLive
    OBVIOUS
  <2>1. ASSUME NEW c \in Conns, NEW h \in Hooks, hook[c][h] # Nil PROVE hook[c][h] \in live
    <3>1. CASE hook[c][h] = field[Owner(h)]
      BY <2>1, <3>1 DEF DBInv, Owned, LiveOwned, Owner, Fields
    <3>2. CASE hook[c][h] # field[Owner(h)]
      <4>1. PICK t \in Threads : Changing(t) /\ \E i \in DOMAIN call[t].todo :
                                   SwapAt(t, i) /\ Todo(t, i).ctx = hook[c][h]
        BY <2>1, <3>2 DEF DBInv, Owned, HooksOwned
      <4> QED BY <2>1, <4>1 DEF DBInv, Plans, OneContext
    <3> QED BY <3>1, <3>2
  <2>2. \A c \in open : \A h \in Hooks : hook[c][h] \in live \cup {Nil}
    BY <2>1 DEF DBInv, DBType
  <2>3. \A t \in Threads : within[t] \in live \cup {Nil}
    BY <2>1, ZenonT(30) DEF DBInv, Inside
  <2> QED BY <2>2, <2>3 DEF ContextsInUseLive
<1> QED BY <1>1, DBInvariant, PTL

\* No context leaks: outside the setters and _close, the contexts not freed are the ones in
\* the object's fields, and there is none once the object is closed.
THEOREM NoContextLeaks == Spec => []NoContextLeak
<1>1. DBInv => NoContextLeak
  <2> SUFFICES ASSUME DBInv, AtRest PROVE NoContextLeak
    BY DEF NoContextLeak
  <2>1. \A x : ~Pending(x)
    BY DEF AtRest, Pending, Changing
  <2>2. /\ \A f \in Fields : field[f] # Nil => field[f] \in live
        /\ \A x \in live : \E f \in Fields : field[f] = x
        /\ pointer = Nil => \A f \in Fields : field[f] = Nil
    BY <2>1 DEF DBInv, Owned, LiveOwned
  <2>3. Nil \notin live
    BY NilAssumption DEF DBInv, DBType
  <2>4. live = {field[f] : f \in Fields} \ {Nil}
    BY <2>2, <2>3
  <2>5. pointer = Nil => live = {}
    BY <2>2, <2>3
  <2> QED BY <2>4, <2>5 DEF NoContextLeak
<1> QED BY <1>1, DBInvariant, PTL

\* A hook only ever reaches Java from the connection that is open in the object: after
\* _close none does, even from a connection that could not be closed.
THEOREM SilenceAfterClose == Spec => []SilentAfterClose
<1>1. DBInv => SilentAfterClose
  <2> SUFFICES ASSUME DBInv, NEW t \in Threads, within[t] # Nil PROVE call[t].conn = pointer
    BY DEF SilentAfterClose
  <2>1. call[t].conn \in Conns /\ \E h \in Hooks : hook[call[t].conn][h] = within[t]
    BY DEF DBInv, Inside
  <2> QED BY <2>1 DEF DBInv, Owned, HooksOwned
<1> QED BY <1>1, DBInvariant, PTL

\* A connection that sqlite3_close refused to close is never dropped without an exception.
THEOREM ClosesAreReported == Spec => []CloseReported
<1>1. DBInv => CloseReported
  BY DEF DBInv, CloseTold
<1> QED BY <1>1, DBInvariant, PTL

\* Whatever row of executeBatch fails, at a bind or at a step, the statement is left reset.
THEOREM BatchesAreReset == Spec => []BatchLeavesReset
<1>1. DBInv => BatchLeavesReset
  BY DEF DBInv, Rowed, BatchRows, BatchLeavesReset, Unused
<1> QED BY <1>1, DBInvariant, PTL

=============================================================================

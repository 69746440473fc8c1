------------------------------ MODULE NativeDB ------------------------------
(***************************************************************************)
(* native/sqlite/sqlite/NativeDB.c: the JNI functions behind one           *)
(* org.jetbrains.sqlite.NativeDB object.  They keep, in fields of the      *)
(* object, the connection and the malloc'ed contexts of the hooks that     *)
(* SQLite calls back from inside its own calls.  Several Java threads run  *)
(* statements; a call is a sequence of SQLite calls, and only each of      *)
(* those holds the connection's mutex (-DSQLITE_THREADSAFE=1).             *)
(***************************************************************************)
EXTENDS Integers, Sequences

CONSTANTS
  Threads,   \* Java threads
  Conns,     \* connections sqlite3_open_v2 can return (each at most once)
  Contexts,  \* contexts malloc can return (each at most once)
  Stmts,     \* statements sqlite3_prepare_v2 can return (each at most once)
  Rows,      \* queryCount of executeBatch
  Nil        \* NULL

ASSUME NilAssumption == Nil \notin Conns \cup Contexts \cup Stmts \cup Threads
ASSUME RowsAssumption == Rows \in Nat \ {0}

VARIABLES
  pointer,   \* NativeDB.pointer
  field,     \* NativeDB.busyHandler, updateListener, commitListener
  open,      \* connections SQLite has not closed
  hook,      \* connection -> hook -> the context SQLite passes to it
  live,      \* contexts malloc'ed and not freed
  stmt,      \* statement not finalized -> [conn, row, by]
  call,      \* thread -> the JNI function it is in
  within,    \* thread -> the context of the hook it is in
  mutex,     \* connection -> the thread inside a SQLite call that calls back
  reported,  \* connections whose failed close raised an exception
  spent      \* connections, contexts and statements used so far

vars == <<pointer, field, open, hook, live, stmt, call, within, mutex, reported, spent>>

Fields == {"busyHandler", "updateListener", "commitListener"}
Hooks == {"busy", "update", "commit", "rollback"}
NoHooks == [h \in Hooks |-> Nil]
Idle == [op |-> "idle", conn |-> Nil, stmt |-> Nil, at |-> "none", todo |-> <<>>]

Init ==
  /\ pointer = Nil /\ field = [f \in Fields |-> Nil]
  /\ open = {} /\ hook = [c \in Conns |-> NoHooks] /\ live = {}
  /\ stmt = [s \in {} |-> Nil]
  /\ call = [t \in Threads |-> Idle] /\ within = [t \in Threads |-> Nil]
  /\ mutex = [c \in Conns |-> Nil]
  /\ reported = {} /\ spent = {}

----------------------------------------------------------------------------
\* What the JNI functions do, as sequences of steps.
SetHook(h, x) == [do |-> "hook", on |-> h, ctx |-> x]
SetNewHandler(f, x) == [do |-> "swap", on |-> f, ctx |-> x]
Do(step) == [do |-> step, on |-> "none", ctx |-> Nil]

\* Mutant: the old context is freed before SQLite is told of the new one.
ChangeBusyHandlerLate(x) == <<SetNewHandler("busyHandler", x), SetHook("busy", x)>>

ChangeBusyHandler(x) == <<SetHook("busy", x), SetNewHandler("busyHandler", x)>>
SetUpdateListener(x) == <<SetHook("update", x), SetNewHandler("updateListener", x)>>
\* Mutant: clearing leaves the rollback hook as it is.
SetCommitListenerOnly(x) ==
  <<SetHook("commit", x)>> \o (IF x = Nil THEN <<>> ELSE <<SetHook("rollback", x)>>)
    \o <<SetNewHandler("commitListener", x)>>

SetCommitListener(x) ==
  <<SetHook("commit", x), SetHook("rollback", x), SetNewHandler("commitListener", x)>>
BusyTimeout == <<SetHook("busy", Nil)>>

\* Mutant: the update listener survives the close.
CloseKeepingUpdates ==
  ChangeBusyHandler(Nil) \o SetCommitListener(Nil) \o <<Do("close"), Do("clear")>>

Close ==
  ChangeBusyHandler(Nil) \o SetCommitListener(Nil) \o SetUpdateListener(Nil)
    \o <<Do("close"), Do("clear")>>

\* executeBatch: the bindings of a row are left out, but each may fail.
BatchRow == <<Do("reset"), Do("bind"), Do("run")>>
Batch == [i \in 1..(3 * Rows) |-> BatchRow[((i - 1) % 3) + 1]] \o <<Do("reset")>>

----------------------------------------------------------------------------
\* The calls.  The Java side of NativeDB (external) keeps the setters apart from each
\* other, and open and close from every call that needs the handle; statements run on
\* any thread, whatever the others do.
Apart(t, ops) == call[t] = Idle /\ \A u \in Threads : call[u].op \notin ops
OpenOrClose == {"open", "close"}
Begin(t, op, s, todo) ==
  call' = [call EXCEPT ![t] = [op |-> op, conn |-> IF s = Nil THEN pointer ELSE stmt[s].conn,
                               stmt |-> s, at |-> "none", todo |-> todo]]

Open(t) ==
  /\ Apart(t, OpenOrClose) /\ pointer = Nil
  /\ \E c \in Conns \ spent :
       /\ pointer' = c /\ open' = open \cup {c} /\ spent' = spent \cup {c}
  /\ UNCHANGED <<field, hook, live, stmt, call, within, mutex, reported>>

\* busy_handler, set_update_listener, set_commit_listener; enabling one allocates its
\* context (a listener is never set on a closed object: that would hand SQLite NULL).
Set(t) ==
  /\ Apart(t, OpenOrClose \cup {"set"}) /\ pointer # Nil
  /\ \/ \E x \in Contexts \ spent :
          /\ live' = live \cup {x} /\ spent' = spent \cup {x}
          /\ \E todo \in {ChangeBusyHandler(x), SetUpdateListener(x), SetCommitListener(x)} :
               Begin(t, "set", Nil, todo)
     \/ /\ UNCHANGED <<live, spent>>
        /\ \E todo \in {ChangeBusyHandler(Nil), SetUpdateListener(Nil), SetCommitListener(Nil),
                        BusyTimeout} :
             Begin(t, "set", Nil, todo)
  /\ UNCHANGED <<pointer, field, open, hook, stmt, within, mutex, reported>>

CloseDb(t) ==
  /\ Apart(t, OpenOrClose \cup {"set", "prepare", "exec"}) /\ pointer # Nil
  /\ Begin(t, "close", Nil, Close)
  /\ UNCHANGED <<pointer, field, open, hook, live, stmt, within, mutex, reported, spent>>

\* prepare_utf8 and _exec_utf8 need the handle; step and executeBatch a statement that
\* no other thread is using.
\* Mutant: the handle is not checked.
PrepareUnchecked(t) ==
  /\ Apart(t, OpenOrClose)
  /\ \E op \in {"prepare", "exec"} : Begin(t, op, Nil, <<Do("run")>>)
  /\ UNCHANGED <<pointer, field, open, hook, live, stmt, within, mutex, reported, spent>>

Prepare(t) ==
  /\ Apart(t, OpenOrClose) /\ pointer # Nil
  /\ \E op \in {"prepare", "exec"} : Begin(t, op, Nil, <<Do("run")>>)
  /\ UNCHANGED <<pointer, field, open, hook, live, stmt, within, mutex, reported, spent>>

Unused(s) == \A u \in Threads : call[u].stmt # s
Step(t) ==
  /\ call[t] = Idle
  /\ \E s \in DOMAIN stmt :
       /\ Unused(s)
       /\ Begin(t, "step", s, <<Do("run")>>) \/ Begin(t, "batch", s, Batch)
  /\ UNCHANGED <<pointer, field, open, hook, live, stmt, within, mutex, reported, spent>>

\* finalize, reset, clear_bindings and the rest of the one-line wrappers.
Finalize(t) ==
  /\ call[t] = Idle
  /\ \E s \in DOMAIN stmt :
       /\ Unused(s) /\ mutex[stmt[s].conn] = Nil
       /\ \/ stmt' = [u \in DOMAIN stmt \ {s} |-> stmt[u]]
          \/ stmt' = [stmt EXCEPT ![s].row = FALSE]
  /\ UNCHANGED <<pointer, field, open, hook, live, call, within, mutex, reported, spent>>

----------------------------------------------------------------------------
\* The steps of a call.  SQLite's functions wait for the connection's mutex.
Top(t) == Head(call[t].todo)
Doing(t, step) == call[t].todo # <<>> /\ Top(t).do = step
Free(t) == mutex[call[t].conn] = Nil
Done(t) == call' = [call EXCEPT ![t].todo = Tail(@)]

HookStep(t) ==
  /\ Doing(t, "hook") /\ Free(t)
  /\ hook' = [hook EXCEPT ![call[t].conn][Top(t).on] = Top(t).ctx]
  /\ Done(t)
  /\ UNCHANGED <<pointer, field, open, live, stmt, within, mutex, reported, spent>>

\* set_new_handler
SwapStep(t) ==
  /\ Doing(t, "swap")
  /\ live' = live \ {field[Top(t).on]}
  /\ field' = [field EXCEPT ![Top(t).on] = Top(t).ctx]
  /\ Done(t)
  /\ UNCHANGED <<pointer, open, hook, stmt, within, mutex, reported, spent>>

\* sqlite3_close refuses while a statement is not finalized, or a backup of the connection is
\* not finished, as one may be whose progress is being told to Java.
CloseOutcome(t, c, raises) ==
  \/ UNCHANGED open /\ reported' = IF raises THEN reported \cup {c} ELSE reported
  \/ /\ \A s \in DOMAIN stmt : stmt[s].conn # c
     /\ open' = open \ {c} /\ UNCHANGED reported
\* Mutant: the result of sqlite3_close is dropped.
SqliteCloseSilently(t, c) == CloseOutcome(t, c, FALSE)

SqliteClose(t, c) == CloseOutcome(t, c, TRUE)

CloseStep(t) ==
  /\ Doing(t, "close") /\ Free(t)
  /\ SqliteClose(t, call[t].conn)
  /\ Done(t)
  /\ UNCHANGED <<pointer, field, hook, live, stmt, within, mutex, spent>>

ClearStep(t) ==
  /\ Doing(t, "clear") /\ pointer' = Nil /\ Done(t)
  /\ UNCHANGED <<field, open, hook, live, stmt, within, mutex, reported, spent>>

ResetStep(t) ==
  /\ Doing(t, "reset") /\ Free(t)
  /\ stmt' = [stmt EXCEPT ![call[t].stmt].row = FALSE]
  /\ Done(t)
  /\ UNCHANGED <<pointer, field, open, hook, live, within, mutex, reported, spent>>

\* sqlite3_bind_int fails: executeBatch returns at once.
BindStep(t) ==
  /\ Doing(t, "bind") /\ Free(t)
  /\ Done(t) \/ call' = [call EXCEPT ![t].todo = <<>>]
  /\ UNCHANGED <<pointer, field, open, hook, live, stmt, within, mutex, reported, spent>>

\* sqlite3_step, sqlite3_prepare_v2, sqlite3_exec: the mutex is held throughout, hooks
\* are called with the context that is set at that moment, and Java code runs in them
\* (it does not use the connection: sqlite3.h forbids that).
RunStep(t) ==
  /\ Doing(t, "run") /\ call[t].at = "none" /\ Free(t)
  /\ mutex' = [mutex EXCEPT ![call[t].conn] = t]
  /\ call' = [call EXCEPT ![t].at = "running"]
  /\ UNCHANGED <<pointer, field, open, hook, live, stmt, within, reported, spent>>

CallBack(t) ==
  /\ call[t].at = "running" /\ within[t] = Nil
  /\ \E h \in Hooks : /\ hook[call[t].conn][h] # Nil
                      /\ within' = [within EXCEPT ![t] = hook[call[t].conn][h]]
  /\ UNCHANGED <<pointer, field, open, hook, live, stmt, call, mutex, reported, spent>>

CallBackEnds(t) ==
  /\ within[t] # Nil /\ within' = [within EXCEPT ![t] = Nil]
  /\ UNCHANGED <<pointer, field, open, hook, live, stmt, call, mutex, reported, spent>>

\* What follows sqlite3_step in executeBatch when it returns anything but DONE.
\* Mutant: the statement is not reset.
BatchFailsAsIs == <<>>
BatchFails == <<Do("reset")>>

RunEnds(t) ==
  LET c == call[t].conn
      s == call[t].stmt
      Leave(todo) == call' = [call EXCEPT ![t].todo = todo, ![t].at = "none"]
  IN /\ call[t].at = "running" /\ within[t] = Nil
     /\ mutex' = [mutex EXCEPT ![c] = Nil]
     /\ \/ /\ s = Nil /\ Leave(<<>>) /\ UNCHANGED <<stmt, spent>>   \* exec, failed prepare
        \/ /\ call[t].op = "prepare" /\ Leave(<<>>)
           /\ \E u \in Stmts \ spent :
                /\ stmt' = [v \in DOMAIN stmt \cup {u} |->
                              IF v = u THEN [conn |-> c, row |-> FALSE, by |-> "prepare"]
                              ELSE stmt[v]]
                /\ spent' = spent \cup {u}
        \/ /\ s # Nil /\ UNCHANGED spent          \* DONE
           /\ stmt' = [stmt EXCEPT ![s].row = FALSE, ![s].by = call[t].op]
           /\ Leave(Tail(call[t].todo))
        \/ /\ s # Nil /\ UNCHANGED spent          \* ROW or an error
           /\ \E row \in BOOLEAN :
                stmt' = [stmt EXCEPT ![s].row = row, ![s].by = call[t].op]
           /\ Leave(IF call[t].op = "batch" THEN BatchFails ELSE <<>>)
     /\ UNCHANGED <<pointer, field, open, hook, live, within, reported>>

Return(t) ==
  /\ call[t].op # "idle" /\ call[t].todo = <<>>
  /\ call' = [call EXCEPT ![t] = Idle]
  /\ UNCHANGED <<pointer, field, open, hook, live, stmt, within, mutex, reported, spent>>

Progress(t) ==
  \/ HookStep(t) \/ SwapStep(t) \/ CloseStep(t) \/ ClearStep(t) \/ ResetStep(t) \/ BindStep(t)
  \/ RunStep(t) \/ CallBackEnds(t) \/ RunEnds(t) \/ Return(t)

Next ==
  \E t \in Threads :
    Progress(t) \/ CallBack(t) \/ Open(t) \/ Set(t) \/ CloseDb(t) \/ Prepare(t) \/ Step(t)
      \/ Finalize(t)

Spec == Init /\ [][Next]_vars

----------------------------------------------------------------------------
TypeOK ==
  /\ pointer \in Conns \cup {Nil} /\ open \subseteq Conns
  /\ field \in [Fields -> Contexts \cup {Nil}]
  /\ hook \in [Conns -> [Hooks -> Contexts \cup {Nil}]]
  /\ live \subseteq Contexts
  /\ \A s \in DOMAIN stmt : s \in Stmts /\ stmt[s].conn \in Conns
  /\ \A t \in Threads : call[t] # Idle => call[t].conn \in Conns
  /\ within \in [Threads -> Contexts \cup {Nil}]
  /\ mutex \in [Conns -> Threads \cup {Nil}]

\* SQLite never holds, and no hook ever runs on, a context that was freed: a new
\* context is registered before the old one goes, and registering waits for the
\* statement inside which the old one may be in use.
ContextsInUseLive ==
  /\ \A c \in open : \A h \in Hooks : hook[c][h] \in live \cup {Nil}
  /\ \A t \in Threads : within[t] \in live \cup {Nil}

\* Outside the calls, the contexts not freed are exactly those in the object's fields,
\* and after close there is none (each holds a global reference to a Java object).
AtRest == \A t \in Threads : call[t].op \notin {"set", "close"}
NoContextLeak ==
  AtRest =>
    /\ live = {field[f] : f \in Fields} \ {Nil}
    /\ pointer = Nil => live = {}

\* Once _close has returned, no hook reaches Java for that connection, even if it had to
\* stay open because a statement was not finalized and is executed again.
SilentAfterClose ==
  \A t \in Threads :
    within[t] # Nil => call[t].conn = pointer

\* A connection that _close could not close is unreachable afterwards, so the caller
\* was told: the exception is the only trace of it.
CloseReported == open \ {pointer} \subseteq reported

\* Whatever row fails, executeBatch does not leave the statement in the middle of its
\* results, where it would hold a read transaction open.
BatchLeavesReset ==
  \A s \in DOMAIN stmt : Unused(s) /\ stmt[s].by = "batch" => ~stmt[s].row
=============================================================================

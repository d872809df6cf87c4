------------------------------ MODULE Execution ------------------------------
(***************************************************************************)
(* Running a Command: Command::execute and its callbacks                   *)
(* (src/src/sl3/command.cpp), on top of the handles of module Handles.     *)
(*                                                                         *)
(* execute is a loop around sqlite3_step that hands control to user code   *)
(* once per row.  The user code may call back into the library: use this   *)
(* or another Command, close the Database, destroy objects.  The state is  *)
(* the C++ call stack of active execute calls, the cursor sqlite keeps in  *)
(* each statement, and the parameter values sqlite holds by pointer.       *)
(***************************************************************************)
EXTENDS Handles, Integers

CONSTANTS
    RowCount,    \* how many rows each SQL text yields
    MaxDepth,    \* bound: how deep calls to execute nest through callbacks
    InCallback   \* what user code in a callback does to an object that is running

\* "reenter"    executes a Command that is running further out
\* "parameters" changes the parameters of such a Command
\* "move"       moves it
\* "destroy"    destroys it
\* "close"      destroys the Database it runs on
Intrusions == {"reenter", "parameters", "move", "destroy", "close"}

ASSUME ExecutionAssumption ==
    /\ RowCount \in [Sql -> Nat]
    /\ MaxDepth \in Nat \ {0}
    /\ InCallback \subseteq Intrusions

VARIABLES
    frames,    \* the calls to execute, outermost first
    depth,     \* how many there are
    pos,       \* sqlite: the cursor of each statement
    dangling,  \* statements with bound pointers into parameters changed since
    ub         \* undefined behaviour has happened

execVars == <<frames, depth, pos, dangling, ub>>
allVars  == <<vars, execVars>>

\* A cursor is 0 (reset), the number of the row it is on, or Halted: the last
\* step returned SQLITE_DONE or an error and sqlite3_reset has not been called.
Halted == -1

\* The parameters argument of a call: none (size 0), of the right size and types,
\* of a wrong size, or of the right size with a value its DbValue refuses.
Given == {"none", "fit", "unfit", "illtyped"}

Phases == {"none", "onStart", "step", "callback", "leaving", "throwing", "onEnd"}

NoFrame == [cmd |-> NoCommand, rowcb |-> FALSE, given |-> "none", phase |-> "none",
            guard |-> NoStmt, selfGone |-> FALSE, stmtGone |-> FALSE,
            last |-> 0, ordered |-> TRUE, clean |-> TRUE]

\* cmd       this: the Command slot
\* rowcb     called with a RowCallback, else with a Callback
\* guard     the statement the ResetGuard will reset
\* selfGone  *this has been destroyed since;  stmtGone  the guarded statement has
\* last      the row handed to the callback last;  ordered  rows came 1, 2, 3, ...
\* clean     no other call has run the guarded statement while this one was active
Frame == [cmd : Commands \cup {NoCommand}, rowcb : BOOLEAN, given : Given, phase : Phases,
          guard : Stmts \cup {NoStmt}, selfGone : BOOLEAN, stmtGone : BOOLEAN,
          last : Nat, ordered : BOOLEAN, clean : BOOLEAN]

\* Types, and the shape of the stack: onStart and onEnd of a RowCallback run
\* outside the scope of the ResetGuard (command.cpp, execute(RowCallback&)).
ExecTypeOK ==
    /\ TypeOK
    /\ frames \in [1..MaxDepth -> Frame]
    /\ depth \in 0..MaxDepth
    /\ pos \in [Stmts -> Nat \cup {Halted}]
    /\ dangling \in SUBSET Stmts
    /\ ub \in BOOLEAN
    /\ \A n \in 1..MaxDepth :
          /\ n <= depth <=> frames[n].phase # "none"
          /\ frames[n].phase \in {"onStart", "onEnd"} => frames[n].rowcb /\ frames[n].guard = NoStmt

\* The innermost active call, if there is one.
Top == IF depth = 0 THEN NoFrame ELSE frames[depth]

\* User code has control: outside every call, or in a callback of the innermost.
UserCode == ~ub /\ Top.phase \in {"none", "onStart", "callback", "onEnd"}

\* Some active call still needs the object c, or the statement it holds.
InUse(c) == \E n \in 1..depth :
               \/ frames[n].cmd = c /\ frames[n].phase # "onEnd"
               \/ frames[n].guard # NoStmt /\ frames[n].guard = cmdStmt[c]

May(intrusion, c) == InUse(c) => intrusion \in InCallback

-----------------------------------------------------------------------------
(* What the exit paths of execute have in common.                          *)

Pop == /\ depth' = depth - 1
       /\ frames' = [frames EXCEPT ![depth] = NoFrame]

\* The ResetGuard of the innermost call runs: sqlite3_reset, if there is a
\* statement, on whatever is at its address by now.
ResetGuard ==
    IF Top.guard = NoStmt THEN UNCHANGED <<pos, ub>>
    ELSE /\ ub' = Top.stmtGone
         /\ pos' = IF Top.stmtGone THEN pos ELSE [pos EXCEPT ![Top.guard] = 0]

-----------------------------------------------------------------------------
(* Entering execute.                                                       *)

\* setParameters, as execute calls it: what happens to sqlite's pointers.
Assigned(given, s) ==
    IF given \in {"fit", "illtyped"} /\ s # NoStmt THEN dangling \cup {s} ELSE dangling

\* sqlite refuses to bind to a statement that has been stepped and not reset.
BindRefused(c) == ParamCount[cmdSql[c]] > 0 /\ pos[cmdStmt[c]] # 0

\* A refused bind throws before the ResetGuard is made, so the cursor stays.
RefusedCursorBug(c) == [pos EXCEPT ![cmdStmt[c]] = 0]   \* Bug: the guard is made first
RefusedCursor(c) == pos

\* All parameters are bound again at every call.
ReboundBug(s) == dangling   \* Bug: only the first call binds
Rebound(s) == dangling \ {s}

\* The loop starts: every parameter is bound afresh, and a call further out on
\* the same statement now shares it.
EnterLoop(n, c, rowcb, given) ==
    LET s == cmdStmt[c] IN
    /\ depth' = n
    /\ frames' = [j \in 1..MaxDepth |->
                    IF j = n
                      THEN [NoFrame EXCEPT !.cmd = c, !.rowcb = rowcb, !.phase = "step",
                                           !.given = given, !.guard = s,
                                           !.clean = \A m \in 1..(n - 1) :
                                                         s = NoStmt \/ frames[m].guard # s]
                      ELSE [frames[j] EXCEPT
                              !.clean = @ /\ (s = NoStmt \/ frames[j].guard # s)]]
    /\ dangling' = Rebound(s)
    /\ UNCHANGED pos
    /\ Returns("execute", c, "ok")

\* execute(Callback, parameters) up to its loop, as the call at level n.  It
\* throws before there is a ResetGuard.
Begin(n, c, rowcb, given) ==
    LET Throw(err) == /\ depth' = n - 1
                      /\ frames' = [frames EXCEPT ![n] = NoFrame]
                      /\ Returns("execute", c, err)
    IN
    /\ UNCHANGED <<connVars, stmtVars, cmdVars, ub>>
    /\ \/ /\ sl3db[cmdConn[c]] # "open"
          /\ Throw("ErrNoConnection")
          /\ UNCHANGED <<dangling, pos>>
       \/ /\ sl3db[cmdConn[c]] = "open"
          /\ given \in {"unfit", "illtyped"}
          /\ Throw("ErrTypeMisMatch")
          /\ dangling' = Assigned(given, cmdStmt[c])
          /\ UNCHANGED pos
       \/ /\ sl3db[cmdConn[c]] = "open"
          /\ given \in {"none", "fit"}
          /\ BindRefused(c)
          /\ Throw("SQLite3Error")
          /\ dangling' = Assigned(given, cmdStmt[c])
          /\ pos' = RefusedCursor(c)
       \/ /\ sl3db[cmdConn[c]] = "open"
          /\ given \in {"none", "fit"}
          /\ ~BindRefused(c)
          /\ EnterLoop(n, c, rowcb, given)

\* What callers pass: values only to a Command with parameters, and new values
\* for a running Command only if callbacks intrude that far.
Passes(c, given) ==
    /\ given \in {"fit", "illtyped"} => ParamCount[cmdSql[c]] > 0
    /\ given \in {"fit", "illtyped"} => May("parameters", c)

\* User code calls execute or select with a Callback.
CallExecute(c, given) ==
    /\ UserCode /\ depth < MaxDepth
    /\ c \in made /\ cmdConn[c] # NoConn
    /\ May("reenter", c) /\ Passes(c, given)
    /\ Begin(depth + 1, c, FALSE, given)

\* User code calls execute with a RowCallback: onStart comes before anything else.
CallExecuteRow(c, given) ==
    /\ UserCode /\ depth < MaxDepth
    /\ c \in made /\ cmdConn[c] # NoConn
    /\ May("reenter", c) /\ Passes(c, given)
    /\ depth' = depth + 1
    /\ frames' = [frames EXCEPT ![depth + 1] =
                    [NoFrame EXCEPT !.cmd = c, !.rowcb = TRUE, !.phase = "onStart",
                                    !.given = given]]
    /\ UNCHANGED <<vars, pos, dangling, ub>>

OnStartReturns ==
    /\ ~ub /\ Top.phase = "onStart"
    /\ IF Top.selfGone \/ cmdConn[Top.cmd] = NoConn
         THEN ub' = TRUE /\ UNCHANGED <<vars, frames, depth, pos, dangling>>
         ELSE Begin(depth, Top.cmd, TRUE, Top.given)

-----------------------------------------------------------------------------
(* The loop.                                                               *)

\* sqlite3_step has a statement it can run, with parameters it can read.
CanStep ==
    /\ ~ub /\ Top.phase = "step"
    /\ ~Top.selfGone /\ cmdStmt[Top.cmd] # NoStmt /\ ~Top.stmtGone
    /\ ~(ParamCount[stmtSql[Top.guard]] > 0 /\ Top.guard \in dangling)

\* The row the next step comes to: a statement that was reset, or has halted and
\* resets itself, starts over.
NextRow == IF pos[Top.guard] = Halted THEN 1 ELSE pos[Top.guard] + 1

\* Bug: a step ahead of the loop, whose row no callback sees.
StepRowBug ==
    /\ CanStep
    /\ NextRow <= RowCount[stmtSql[Top.guard]]
    /\ pos' = [pos EXCEPT ![Top.guard] = NextRow]
    /\ frames' = IF Top.last = 0 /\ NextRow = 1 THEN frames
                 ELSE [frames EXCEPT ![depth].phase = "callback", ![depth].last = NextRow,
                                     ![depth].ordered = @ /\ NextRow = Top.last + 1]
    /\ UNCHANGED <<vars, depth, dangling, ub>>

StepRow ==
    /\ CanStep
    /\ NextRow <= RowCount[stmtSql[Top.guard]]
    /\ pos' = [pos EXCEPT ![Top.guard] = NextRow]
    /\ frames' = [frames EXCEPT ![depth].phase = "callback",
                                ![depth].last = NextRow,
                                ![depth].ordered = @ /\ NextRow = Top.last + 1]
    /\ UNCHANGED <<vars, depth, dangling, ub>>

\* Bug: SQLITE_DONE does not end the loop.
StepDoneBug ==
    /\ CanStep
    /\ NextRow > RowCount[stmtSql[Top.guard]]
    /\ pos' = [pos EXCEPT ![Top.guard] = Halted]
    /\ UNCHANGED <<vars, frames, depth, dangling, ub>>

StepDone ==
    /\ CanStep
    /\ NextRow > RowCount[stmtSql[Top.guard]]
    /\ pos' = [pos EXCEPT ![Top.guard] = Halted]
    /\ frames' = [frames EXCEPT ![depth].phase = "leaving"]
    /\ UNCHANGED <<vars, depth, dangling, ub>>

\* Bug: an error of sqlite ends the loop as SQLITE_DONE does.
StepFailsBug ==
    /\ CanStep
    /\ pos' = [pos EXCEPT ![Top.guard] = Halted]
    /\ frames' = [frames EXCEPT ![depth].phase = "leaving"]
    /\ UNCHANGED <<vars, depth, dangling, ub>>

\* Any step may report an error; execute throws.
StepFails ==
    /\ CanStep
    /\ pos' = [pos EXCEPT ![Top.guard] = Halted]
    /\ frames' = [frames EXCEPT ![depth].phase = "throwing"]
    /\ UNCHANGED <<vars, depth, dangling, ub>>

\* The callback moved *this away: sqlite3_step(NULL) is SQLITE_MISUSE.
StepNull ==
    /\ ~ub /\ Top.phase = "step"
    /\ ~Top.selfGone /\ cmdStmt[Top.cmd] = NoStmt
    /\ frames' = [frames EXCEPT ![depth].phase = "throwing"]
    /\ UNCHANGED <<vars, depth, pos, dangling, ub>>

\* The callback destroyed *this or its statement, or the parameter values that
\* sqlite still points to.
StepUndefined ==
    /\ ~ub /\ Top.phase = "step"
    /\ ~CanStep
    /\ Top.selfGone \/ cmdStmt[Top.cmd] # NoStmt
    /\ ub' = TRUE
    /\ UNCHANGED <<vars, frames, depth, pos, dangling>>

\* The callback returns true, returns false, or throws.
CallbackReturns(n) ==
    /\ ~ub /\ depth = n /\ Top.phase = "callback"
    /\ \E next \in {"step", "leaving", "throwing"} :
          frames' = [frames EXCEPT ![depth].phase = next]
    /\ UNCHANGED <<vars, depth, pos, dangling, ub>>

-----------------------------------------------------------------------------
(* Leaving execute.                                                        *)

\* Bug: onEnd is called before the statement is reset.
LeaveBug ==
    /\ ~ub /\ Top.phase = "leaving"
    /\ IF Top.rowcb
         THEN frames' = [frames EXCEPT ![depth].phase = "onEnd"] /\ UNCHANGED <<pos, ub, depth>>
         ELSE ResetGuard /\ Pop
    /\ Returns("execute", Top.cmd, "ok")
    /\ UNCHANGED <<connVars, stmtVars, cmdVars, dangling>>

\* The normal way out; a RowCallback gets its onEnd after that.
Leave ==
    /\ ~ub /\ Top.phase = "leaving"
    /\ ResetGuard
    /\ IF Top.rowcb
         THEN /\ frames' = [frames EXCEPT ![depth].phase = "onEnd",
                                          ![depth].guard = NoStmt]
              /\ UNCHANGED depth
         ELSE Pop
    /\ Returns("execute", Top.cmd, "ok")
    /\ UNCHANGED <<connVars, stmtVars, cmdVars, dangling>>

\* Bug: sqlite3_reset is called after the loop and not by a guard.
UnwindBug ==
    /\ ~ub /\ Top.phase = "throwing"
    /\ Pop
    /\ Returns("execute", Top.cmd, "SQLite3Error")
    /\ UNCHANGED <<connVars, stmtVars, cmdVars, pos, dangling, ub>>

\* The way out for an exception, of sqlite or of the callback.
Unwind ==
    /\ ~ub /\ Top.phase = "throwing"
    /\ ResetGuard
    /\ Pop
    /\ Returns("execute", Top.cmd, "SQLite3Error")
    /\ UNCHANGED <<connVars, stmtVars, cmdVars, dangling>>

\* onStart throws, or onEnd returns or throws: nothing is left to do.
RowCallbackLeaves(n) ==
    /\ ~ub /\ depth = n /\ Top.phase \in {"onStart", "onEnd"}
    /\ Pop
    /\ UNCHANGED <<vars, pos, dangling, ub>>

-----------------------------------------------------------------------------
(* What else user code does, at top level or in a callback.                *)

\* setParameters, resetParameters, or an assignment through getParameters: the
\* values move or change under the pointers sqlite was given.
ChangeParameters(c) ==
    /\ UserCode
    /\ c \in made /\ cmdStmt[c] # NoStmt /\ ParamCount[cmdSql[c]] > 0
    /\ sl3db[cmdConn[c]] = "open"
    /\ May("parameters", c)
    /\ dangling' = dangling \cup {cmdStmt[c]}
    /\ UNCHANGED <<vars, frames, depth, pos, ub>>

\* Active calls see what became of their Command and of their statement; sqlite
\* makes a statement with a fresh cursor and no bindings.
Witnessed ==
    /\ frames' = [n \in 1..MaxDepth |->
                    [frames[n] EXCEPT
                       !.selfGone = @ \/ (frames[n].cmd # NoCommand /\ frames[n].cmd \notin made'),
                       !.stmtGone = @ \/ (frames[n].guard # NoStmt /\
                                          stmtConn'[frames[n].guard] # stmtConn[frames[n].guard])]]
    /\ pos' = [s \in Stmts |-> IF stmtConn'[s] = stmtConn[s] THEN pos[s] ELSE 0]
    /\ dangling' = {s \in dangling : stmtConn'[s] = stmtConn[s]}
    /\ UNCHANGED <<depth, ub>>

ObjectOperation ==
    /\ UserCode
    /\ \/ \E d \in Databases, k \in Connections : OpenDatabase(d, k)
       \/ \E d \in Databases :
             /\ \A c \in Commands : cmdConn[c] = dbConn[d] => May("close", c)
             /\ CloseDatabase(d)
       \/ \E d \in Databases, c \in Commands, q \in Sql, s \in Stmts \cup {NoStmt} :
             Prepare(d, c, q, s)
       \/ \E c, e \in Commands : May("move", c) /\ MoveCommand(c, e)
       \/ \E c \in Commands : May("destroy", c) /\ DestroyCommand(c)
    /\ Witnessed

-----------------------------------------------------------------------------
(* The specification.  Operators named ...Bug are mistakes the properties   *)
(* must catch; nothing else uses them.                                      *)

ExecInit ==
    /\ Init
    /\ frames = [n \in 1..MaxDepth |-> NoFrame]
    /\ depth = 0
    /\ pos = [s \in Stmts |-> 0]
    /\ dangling = {}
    /\ ub = FALSE

\* What the library does on its own once it has control.
LibraryStep ==
    \/ StepRow \/ StepDone \/ StepFails \/ StepNull \/ StepUndefined
    \/ Leave \/ Unwind

CallStep ==
    \E c \in Commands :
        \/ \E given \in Given : CallExecute(c, given) \/ CallExecuteRow(c, given)
        \/ ChangeParameters(c)

ExecNext ==
    \/ LibraryStep
    \/ CallStep
    \/ OnStartReturns
    \/ \E n \in 1..MaxDepth : CallbackReturns(n) \/ RowCallbackLeaves(n)
    \/ ObjectOperation

ExecSpec == ExecInit /\ [][ExecNext]_allVars

\* The library runs on; a callback, and onStart and onEnd of a RowCallback, may
\* make any number of calls but return in the end.
Fairness ==
    /\ WF_allVars(LibraryStep)
    /\ \A n \in 1..MaxDepth :
          /\ SF_allVars(CallbackReturns(n))
          /\ SF_allVars(depth = n /\ (OnStartReturns \/ RowCallbackLeaves(n)))

FairExecSpec == ExecSpec /\ Fairness

-----------------------------------------------------------------------------
(* Properties.                                                             *)

\* A statement no active call is running is reset: however a call ended, and in
\* whatever order nested calls did, the next one starts at row 1, binds without
\* SQLITE_MISUSE, and no forgotten cursor holds a read lock.
IdleIsReset ==
    ~ub => \A s \in Stmts :
              pos[s] # 0 => \E n \in 1..depth : frames[n].guard = s

\* A call whose statement nobody else ran hands out the rows in order, from the
\* first, each once.
RowsInOrder ==
    \A n \in 1..depth : frames[n].clean => frames[n].ordered

\* Executing a running Command that has parameters throws before it touches the
\* cursor, so the outer call never skips or repeats a row.
ReentrySparesParameterized ==
    \A n \in 1..depth :
        /\ frames[n].guard # NoStmt /\ ~frames[n].stmtGone
        /\ ParamCount[stmtSql[frames[n].guard]] > 0
        => frames[n].ordered

\* While a callback runs, the Columns it was given read the row it was called for,
\* whatever it executes in between, another Command or, if there are parameters, this
\* one (columns.hpp: Columns have no row, only the statement).
ColumnsShowTheRow ==
    ~ub => \A n \in 1..depth :
              /\ frames[n].phase = "callback" /\ ~frames[n].stmtGone
              /\ frames[n].clean \/ ParamCount[stmtSql[frames[n].guard]] > 0
              => pos[frames[n].guard] = frames[n].last

\* No call steps or resets a finalized statement, uses a destroyed Command, or
\* lets sqlite read a parameter value that has been changed or freed.  Holds
\* when callbacks do no more than re-enter the Command (command.cpp, execute, checks
\* the connection once and then trusts the callbacks).
NoUndefined == ~ub

\* A call that returns because sqlite reported the end has handed out every row.
AllRowsSeen ==
    [][\A n \in 1..MaxDepth :
         /\ frames[n].phase = "step" /\ frames'[n].phase = "leaving" /\ frames[n].clean
         => frames[n].last = RowCount[stmtSql[frames[n].guard]]]_allVars

\* No active call re-enters a Command that is running further out.
NoReentry == \A n, m \in 1..depth : n # m => frames[n].cmd # frames[m].cmd

\* Every call ends, in whatever way calls nest, unless callbacks re-enter running
\* Commands for ever: each re-entry resets the outer call to its first row.
EveryCallEnds ==
    <>[]NoReentry => \A n \in 1..MaxDepth : depth >= n ~> depth < n
=============================================================================

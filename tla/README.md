# libsl3 in TLA+

libsl3 is a C++ layer over the SQLite C API: it turns `sqlite3*` and
`sqlite3_stmt*` into objects with owners, runs statements with callbacks, and
gives the dynamically typed values of SQLite a C++ type. This directory models
its state and its control flow in TLA+, checks them with TLC on small
instances, and proves the safety part of what the runs check with TLAPS.

Paths below are relative to the repository: `src/sl3` is the implementation,
`include/sl3` the public headers.

## 1. Inventory

| Component | State it keeps | Operations | What makes it correct |
|---|---|---|---|
| `internal::Connection` (`connection.hpp`) | `sl3db`, the raw handle, null once closed | construct, `isValid`, `ensureValid`, `close` (finalizes every statement, then closes), destructor | one owner closes an open handle, once; no statement outlives it |
| `Database` (`database.cpp`) | `shared_ptr<Connection>` | open, move, destroy, `prepare`, `execute`, `select`, `selectValue`, getters | always holds a Connection, after a move an invalid one; destruction closes the handle whoever shares it |
| `Database::Transaction` (`database.cpp`) | `_db`, a raw pointer to a Database *object* | `BEGIN` in the constructor, move, `commit`, `ROLLBACK` in the destructor | a transaction ends with its guard, durable exactly when `commit()` returned |
| `Command` (`command.cpp`) | `shared_ptr<Connection>`, raw `_stmt`, `_parameters` | construct, move, destroy, `execute` and `select`, parameters and their names | steps and finalizes its own statement only, never a dead one; leaves it reset |
| `RowCallback`, `Columns` (`rowcallback.cpp`, `columns.cpp`) | user code; the statement whose row it reads | `onStart`, `onRow`, `onEnd`; typed reads | rows come in order, each once; reads happen on a row |
| `Value` (`value.cpp`) | a tagged union over null, int, real, string, blob | copy, move, assignment per type, conversions, `eject`, orders | tag and living alternative agree; conversions lose nothing or throw; the orders are strict weak |
| `DbValue`, `DbValues` (`dbvalue.cpp`, `dbvalues.cpp`) | a value and its declared type; a row of them | assignment and `set` guarded by the type | a value is null or of its declared type; rows are assigned whole or not at all |
| `Dataset` (`dataset.cpp`) | field types, names, rows | fill by `select`, `merge`, `reset`, `sort` | rows fit the field types; a failed operation changes nothing |
| `Container`, `Types`, errors, `utils.hpp`, `config.cpp` | none of their own | wrappers, type tags, exception classes, helpers | - |
| SQLite (`sqlite/`) | statements, cursors, transactions | the C API | external: modelled from how libsl3 uses it |

How they interact. A Database and every Command prepared from it share one
Connection. The Connection is closed by the Database's destructor even while
Commands point to it; a Command learns of that by asking `isValid` or
`ensureValid` before it uses its raw statement pointer. `Command::execute`
calls user code once per row, and that code may use, move or destroy any object,
also those execute is working on. Parameters are bound by pointer
(`SQLITE_STATIC`) into the storage of the Command. A Transaction points to a
Database object and does not notice when that object is moved or destroyed.

What is hard here. Nothing in libsl3 starts a thread or stores anything by
itself; an object is used by one thread at a time, and the difficult behaviour
is *sequential*: long sequences of legal moves, destructions and address reuse;
callbacks that re-enter the library in the middle of `execute`; operations that
fail half way; destructors that run SQL; conversions at the edge of 64 bits.
`PROJECT.json` lists these hazards one by one, with the property that covers
each or the reason why none does.

`src/sqlite` is the sqlite amalgamation, some 237 thousand lines of vendored code,
and no subject of this verification; the other 5 300 lines of the implementation are.

## 2. Modules

| Module | Role |
|---|---|
| `Handles` | Connection, Database and Command as owners of sqlite handles |
| `Leases` | abstract: what a user sees of them, without pointers |
| `HandlesRefine` | the mapping under which `Handles` implements `Leases` |
| `HandlesProofs` | the theorems about `Handles` and their proofs |
| `Execution` | extends `Handles`: `Command::execute`, callbacks, nesting, parameter pointers |
| `Transactions` | extends `Handles`: the Transaction guard over sqlite's transactions |
| `Scopes` | abstract: a transaction scope with one owner |
| `Writes` | extends `Transactions`: what a program writes under its guards |
| `ExecutionProofs` | the theorems about `Execution` and their proofs |
| `TransactionsProofs` | the theorems about `Transactions` and `Writes` and their proofs |
| `Cells` | when a cell or a row may be assigned to another, and what is assigned then |
| `Values` | the lifetimes inside the tagged union of `sl3::Value` |
| `Boxes` | abstract: a Value as a box with one content |
| `ValuesProofs` | the theorems about `Values` and their proofs |
| `TypedRows` | extends `Cells`: cells with a declared type, rows of them, and the parameters of a Command as one |
| `TypedRowsProofs` | the theorems about `TypedRows` and their proofs |
| `Datasets` | extends `Cells` and `Orders`: Datasets filled by queries and merges, copied, moved, edited and sorted |
| `DatasetsProofs` | the theorems about `Datasets` and their proofs |
| `Numbers` | integers and doubles of any width, rounding, and the limits of conversions |
| `Orders` | extends `Numbers`: Values, the comparisons of Values and DbValues, and the one of sqlite |
| `OrdersProofs` | lemmas about `Orders`, which the proofs about `Numerics` and `Datasets` share |
| `Numerics` | extends `Orders`: numbers converted, bound to statements and read from columns |
| `NumericsProofs` | the theorems about `Numerics` and their proofs |
| `MCHandles`, `MCExecution`, `MCTransactions`, `MCValues`, `MCTypedRows`, `MCDatasets`, `MCNumbers`, `MCNumerics` | instances for TLC |

Operators whose name ends in `Bug` are plausible mistakes in the code. No
specification uses them; they show that each property can fail.

### Handles

An element of `Databases` or `Commands` is a *slot*: storage in which objects are
constructed, moved from and destroyed repeatedly. An element of `Connections` or
`Stmts` is a heap *address* that is handed out again after it was freed, so a
pointer that survives its object may come to denote another one.

| Variable | Code |
|---|---|
| `dbConn` | `Database::_connection` per slot |
| `sl3db` | `Connection::sl3db` per address: `open`, `null`, or `free` storage |
| `stmtConn`, `stmtSql` | sqlite: which connection a statement is on, and what it was compiled from |
| `made` | Command slots that hold a constructed object (moved-from ones too) |
| `cmdConn`, `cmdStmt` | `Command::_connection`, `Command::_stmt` |
| `cmdSql`, `outcome` | history: the SQL the object was prepared from; the last call and its result |

`Release` is what the `shared_ptr`s do after every change of ownership: a
Connection nobody points to is destroyed, and its destructor closes it. The
actions are `OpenDatabase`, `OpenFails`, `MoveDatabase` (the source keeps a new,
invalid Connection), `CloseDatabase`, `QueryDatabase`, `Prepare`, `PrepareWith`
(the count is checked after the statement exists; on a mismatch the constructor
throws and the statement stays on the connection), `PrepareFails`,
`MoveCommand`, `Execute`, `GetParameterNames`, `DestroyCommand`. `Execute` here
is one step: what it reaches through its pointer; its inside is `Execution`.

`database.hpp` says two things of a Command that outlives its Database: lines 335-340
that it stays connected, lines 350-353 that it throws when used. The code does the
second, and `CutForGood` says that it does so for ever.

### Execution

`frames` is the stack of active `execute` calls. A frame has the phase its call
is in - `onStart`, `step` (about to call `sqlite3_step`), `callback` (user code
has control), `leaving` and `throwing` (the two ways out), `onEnd` - and the
statement its ResetGuard holds. `pos` is sqlite's cursor per statement; a
statement that halted restarts at its next step, as `sqlite3_step` does.
`dangling` is the set of statements bound to parameter values that have changed
since. `ub` records undefined behaviour: a step on a destroyed Command, on a
finalized statement, or with a dangling parameter.

A frame also keeps the row its callback was called for, `last`, and
`ColumnsShowTheRow` compares it with the cursor: `Columns` has no data, it reads the
statement, so what a callback sees depends on what it executed before it looked.

`InCallback` says what user code may do to an object that is *running*:
`reenter`, `parameters`, `move`, `destroy`, `close`. To anything else it may do
everything at any time. The runs differ in this constant.

An observation that no run states: with `InCallback = {"close"}` TLC finds `NoUndefined`
violated. The connection is checked once, before the loop, so a callback that destroys
the Database leaves `execute` with a finalized statement, where `database.hpp:350-353`
promises an exception. A `Columns` can also be moved out of the callback and read
later; nothing in the code could notice, and the modelled callbacks do not do it.

### Transactions

`txDb` is `Transaction::_db`; `tx` and `fate` are sqlite's transactions. `begun`
and `promised` are history: which transaction a guard began, and for which
`commit()` returned. A destructor that throws sets `terminated` (it is
implicitly `noexcept`); one that uses an empty Database slot sets `undefined`.
`UnderGuard` says whether a Database may be moved or destroyed while a guard
points to it, `SqliteRollsBack` whether sqlite may end a transaction by itself, and
`RollbackFails` whether it may report an error for the `ROLLBACK` of an open one
(`Database::execute` throws for every error, also for lack of memory with the
transaction still open). `breached` remembers that one of the first two has happened,
`refused` the last.

`Reach` is the transaction that a guard's `COMMIT` or `ROLLBACK` would end at a given moment: whatever
is open on the connection of its Database, which the code does not compare with anything. What
the guard promises (`OneGuardPerTransaction`, `NoStrayTransaction`, `DurableIffCommitReturned`, `Scopes`) is
promised until `breached`, and `DestructorsAreSafe` says that a destructor throws for no
other reasons than that and `refused`, and reads a dead Database only after a breach.

After a breach guards do end transactions that are not their own: begin a guard on a Database, let sqlite
roll back by itself, begin a second guard there; both point to the same Database, and the destructor
or the `commit()` of the first ends the transaction of the second, whose own destructor then throws.
`WhoTakesATransaction` holds of every step, before a breach and after, and lists what can take a transaction from the guard that began
it: the guard itself, a move or a close of its Database, sqlite, or another guard that has lost its own in this way, and nothing else.

`Writes` adds `Database::execute`. A write remembers the transactions of the guards that
pointed to its Database and sqlite's transaction it was made in; the code does not
connect the two, and `WritesFollowTheirGuard` says that they have the same fate
all the same, until `breached`. An observation from beyond that point: after sqlite
has rolled back by itself, further writes under the guard are durable at once,
although its `commit()` then throws.

### Values

`store` describes the bytes of each slot: `tag` is `_type`, `alive` the string or
blob that is constructed in the union and not yet destroyed, `data` its payload.
What the code does to a member is a function on these bytes - `Ended` for an
explicit destructor call, `Placed` for placement new or the assignment of a
number, `Becomes` for a whole assignment, `MovedFrom` for what a move leaves -
and each sets `harm` for ever when it meets a member that is not alive, or
writes over one that is. `made` is the set of slots with a constructed object,
`call` names the last operation. Slots are reused: a destroyed Value's storage
can hold another.

With `AllocMayFail` a copy of a string or a blob may throw. Copy assignment has by
then destroyed the old member and set the new tag; assignment from a string or a
blob has destroyed the old member and kept the old tag (`HalfWay`). `failed`
remembers where that happened. The copy constructor is declared `noexcept` and
terminates instead.

`Boxes` says what the operations mean: a copy copies, a move leaves a null, a
swap exchanges, an ejection returns the content and leaves a null, and no other
box changes; also when both operands are the same object, which for a move
means that the value is lost.

An assignment is never refused: the box takes the content with its type, whatever was in
it. That is what the code does in all its assignment operators, and what `tests/value/valuetest.cpp:142`
tests ("every value can be assigned to any other value"). The comment at `value.hpp:89-94`, which is
copied to each of them, says otherwise: that they throw `ErrTypeMisMatch` "if getType is incompatible"
and that "the type does not change". It describes `DbValue`, not `Value`. `MemoryEnds` of `Boxes` is
`AllocMayFail` here: without it no assignment fails at all.

### TypedRows

`rows` maps every DbValues object to its cells, each a declared type
(`DbValue::_type`) and a value (`_value`, a type and a payload). One of the
objects, `Params`, is the `_parameters` of a Command whose SQL has `Width`
parameters; `getParameters()` hands out a reference to it, so that the program
may do to it what it does to any row. `bound` is what sqlite was last told about each
parameter, `last` the last call and its outcome.

The checks are those of the code, partly in `Cells`: `Accepts` for a plain value, `CanAssign` between
cells, where a source that is itself typed must have the same type even when it
is null, and `Compatible` for a row before its first cell is assigned.
`SetParameters` has no such check and assigns up to the cell that refuses.
`MoveRow`, `SwapRows` and `ResetParameters` exchange whole vectors, with the
declared types in them. `Execute` binds as many values as there are cells; the
other parameters of the statement keep what was bound before.

`displaced` remembers that the Command's own parameters have been moved away or
swapped. With `AllocMayFail` a row assignment may run out of memory between two
cells, or within one; a value half assigned (its payload is `Junk`) ends the
modelled program, as undefined behaviour does elsewhere. `Kinds` are the types of which the
program assigns plain values; `int` is apart from `int64_t` because it also fits a `Real`.

Observations that no run states. A Command whose parameters have been moved away or
swapped for fewer runs with the values sqlite was given before: `RunsWithItsParameters`, in the
module, is false, `KeptParametersRun` is what remains. Copy assignment of rows keeps the
declared types of the target, as `dbvalue.hpp:111-112` says of assignment ("the type
does not change"); move assignment (`dbvalues.cpp:81`) takes those of the source, so a
Command's parameters can become typed, or typed ones Variant. And the comment in
`dbvalues.cpp:47`, that both operands stay unchanged in case of an exception, is true
of a refused assignment (`RefusedAssignmentChangesNothing`) but not of one that
runs out of memory (`RowTorn`).

### Datasets

`ds` maps every Dataset to its field types (`_fieldtypes`), names (`_names`) and rows.
`Select` is `d = command.select(types)`: types are looked at when there is a row,
names come from the first row, and every cell must fit its field. `MergeSet`
compares names and types, not rows, and does not take names over; `MergeRow` compares
the row's declared types. `Verdict` is the comparator that `sort` makes of the list of
fields and of `dbval_lt` or `dbval_type_lt`. `SortReturns` leaves any arrangement it
allows, and any at all where it is no strict weak order, since `std::sort` promises
nothing then; where a comparison must meet a field that a row lacks `SortThrows` leaves the
rows in any order. `SortOrderIsWeak` names the exceptions, `Orderable`: for both comparisons a NaN, for
`dbval_lt` integers that no double has, for `dbval_type_lt` doubles that are almost equal
(see `Numerics` below).

`begin()`, `at()` and `operator[]` hand out the rows. `EditCell` assigns to a cell under
the guard of its declared type, `SwapRows` exchanges rows within or between Datasets with
their declared types, `TakeRow` moves a row out and leaves an empty one.

`CopyAssign` is the defaulted `operator=`. `std::vector` assigns row to row where
it has room, through `DbValues::operator=`, which keeps the declared types of its
target and may refuse; with a vector too small for the rows it makes new ones
(`CopyWhole`). `spoilt` remembers the Datasets with rows overwritten so, exchanged or taken away in place,
appended by a merge of a Dataset with itself (whose rows the growing vector has moved away before it
copies them), or lost in a sort.

Observations that no property states. A Dataset without types accepts rows of any
size, where `dataset.hpp:140` says that merge throws if "size differs from existing row
size". `sort` with a field that does not exist throws only if two rows are compared
that far, where `dataset.hpp:177` says it throws "if a given index is invalid"; when it
throws, a row may be left empty (with libstdc++ it takes three rows).

### Numbers, Orders and Numerics

A double is the integer that counts its *quanta*, the distances between the smallest
doubles; `One` quanta are 1.0. The greatest integers, the digits of the mantissa and the
greatest double are constants, and so is rounding, `Rounded`: the model says of it only what
any rounding to nearest does (`RoundingAssumption`). `AlmostEqual` is the comparison by
epsilon of `value.cpp`, `LosesFraction` and `OutOfLimits` are the two checks of
`losslessConvert1`, `Unrepresentable` tells where the cast after them is undefined.

`Numerics` follows numbers through a set of Value slots: constructed (`Construct`), taken out
as `int64_t` or `int` (`TakeWhole`, `WholeRefused`) or as `double` (`TakeReal`), bound as a
parameter and read back by `getValue` (`FetchValue`) or by the typed accessors of `Columns`
(`Fetch`). `held` keeps beside each Value the number it descends from. An undefined cast gives the
least integer (x86) or the greatest (ARM). `Bound` is what sqlite makes of a
parameter: a NaN becomes NULL, and an empty blob may, because the address of the first element of
an empty vector may be null. `getInt` takes the low bits, silently, as sqlite does.

What the properties say of conversions. `NumbersDoNotDrift`: along any sequence of conversions and
trips through sqlite a number is rounded at most once. `UndefinedOnlyAtTheEdge`: the limits
are compared as doubles, and the greatest `int64_t` converted to `double` is 2^63; a
Value with that double passes the check of `losslessConvert1`, and `int64_t(value)` is
undefined. No other number does. `ReadsAgree`: the accessors of `Columns` never refuse. Where
a Value can be taken for an `int64_t`, `getInt64` reads the same; `getInt` reads the same as the Value
exactly where that does not throw `ErrOutOfRange`, so for every number beyond an `int` it
silently returns a different one.

What they say of the relations on Values and DbValues, NaN apart:

- `TypeOrderIsWeak`: `value_type_lt` is a strict weak order although it
  compares an integer with a double after rounding and two integers without, since rounding
  never reverses. `value_lt` is not one (with 2^53 + 1, the double 2^53 and 2^53), and the run
  `sorted_like_sqlite` shows what that does to a Dataset.
- `OrdersAgree`: `value_eq` holds exactly where `value_lt` puts neither first. `value_type_eq` and `value_type_lt`
  do not agree that well, and the property says where: an infinity is not equal to itself, and
  doubles that are almost equal are equal although one is less than the other. Two doubles whose sum overflows,
  such as 1e308 and 1.7e308, count as almost equal. `value.hpp:278-287` promises
  "true if the type and the current value are equal, false otherwise".
- `OrderFollowsSqlite`: both orders are that of `ORDER BY` except between an integer that no
  double has and the double that it is rounded to. There `value_lt` puts neither first, and `value_type_lt` always
  puts the integer first, by `is_less_equal` (`value.cpp:696`): the integer 2^53 + 1 is less than the double 2^53,
  and `ORDER BY` has them the other way round. `value.hpp:292` says that `value_type_lt` has rules "which are equal to the sorting
  rules of sqlite". Where an integer and a double are equal it puts the integer first as well, as
  `value.hpp:296-299` says, and `ORDER BY` does not.
- `DeclaredOrderIsStrict`: for every value and every type it can be declared with, nulls declared `Int`, `Real`, `Text` or
  `Blob` among them (`Declared`; no DbValue is declared `Null`), `dbval_type_lt` puts two DbValues in exactly one order
  unless they are `dbval_type_eq`. It fails in two ways, which the property states exactly: an infinity is neither less than
  nor equal to itself, however declared, and a `Variant` with the lesser of two almost equal doubles is both less
  and greater than a `Real` with the other.

`RoundsTo`, `Infinite`, `Blurred` and `Clash` name these exceptions.

Observations that no property states. `operator double` rounds a great `int64_t` silently,
where `value.hpp:149-150` names `ErrOutOfRange` for it. A NaN is not less than any
double nor any less than it, which makes it equivalent to doubles that are not equivalent to each
other: rows with one are in no weak order. sqlite gives none, but a program can put one into a row.

## 3. Runs

| Run | States | Question and answer |
|---|---|---|
| `handles` | 16 834 | Do two Databases and two Commands, constructed, moved, used and destroyed in every order, leak a handle, close or finalize one twice, or touch one after its end? No; and they implement `Leases`. |
| `names_after_close` | - | Violation of `UseAfterCloseThrows`: prepare a statement with a parameter, destroy the Database, ask for the parameter names. `getParameterNames` passes a finalized statement to sqlite; `database.hpp` says a Command used after closing throws. |
| `execution` | 1.4 million | Nested calls whose callbacks do anything at all to running Commands: which guarantees of the loop survive? Up to the point of undefined behaviour statements are reset when idle, undisturbed calls see every row in order, the Columns of a callback show the row it was called for whatever it executes in between, and re-entering a Command with parameters is refused before it does harm. |
| `execution_reenter` | 229 thousand | If callbacks re-enter but do not move, destroy or close what runs, nor change its parameters, is anything undefined? No. Does every call end, nested or not? Yes, under the fairness below, unless running Commands are re-entered for ever: a re-entry resets the outer call, which then starts over. |
| `transactions` | 481 thousand | Guards begin, move, commit with and without success and die, scripts write, Databases are moved and destroyed under the guards, sqlite rolls back by itself and sometimes fails to roll back when it is told to: until such a disturbance, does each guard end the transaction that it began and no other, durable exactly when promised, and does what was written share the fate of the guard it was written under? Yes, and the guards implement `Scopes`. Can a destructor throw or read a dead Database before one? It can throw if sqlite refuses the `ROLLBACK`, and never otherwise. Who can take a transaction from its guard at all? After a breach also another guard that has lost its own, but nobody that `WhoTakesATransaction` does not name. |
| `auto_rollback` | - | Violation of `DestructorReturns`: after sqlite has rolled back by itself (disk full, I/O error, out of memory, a conflict clause `ROLLBACK`), `~Transaction` executes another `ROLLBACK`, which throws out of a destructor. |
| `values` | 62 thousand | Do constructions, assignments, moves, swaps, ejections and destructions of three Values, operands aliased or not, leak nothing, destroy nothing twice and change only what they name? Yes; they implement `Boxes`, in which no assignment is refused for its type, contrary to `value.hpp:89-94`. When copying a string or a blob fails half way, how far does the damage reach? Not beyond the Value that was assigned to. That Value may be left with a tag whose member is not alive; the model follows it to the first use or destruction, which is undefined. |
| `typed_rows` | 361 thousand | Can any sequence of operations on cells and rows, with assignments refused or torn by a lack of memory, put a value into a cell of another declared type, or mix the declared types of two rows? No. Does a refused assignment leave both operands alone, and a Command whose parameters stay in place run with exactly those? Yes. |
| `datasets` | 73 894 | Two Datasets are filled by queries with and without types, merged with rows, with each other and with themselves, reset, copied, moved, edited in place and sorted: do rows fit their fields, and names theirs? Yes, except rows that were overwritten or exchanged in place or that a sort has lost. Is the order given to `std::sort` a strict weak one for every list of fields and both comparisons? Yes, unless one of the numbers in `Orderable` is there. |
| `datasets_assigned` | - | Violation of `AssignmentCopies`: assigning a Dataset over one that has rows leaves the declared types of the old rows under the new field types (or throws with some rows assigned). |
| `sorted_like_sqlite` | - | Violation of `SortsLikeSqlite`: an integer that no double has and the double it is rounded to are equal for `dbval_lt`, and `sort` may leave the greater one first; `dataset.hpp:175` promises the rules of sqlite. |
| `numerics` | 31 834 | Numbers on both sides of every limit go from Value to Value and through sqlite by every conversion: are they ever rounded twice, or is there an undefined cast other than at 2^63? No. Do columns and Values read the same? Yes, except `getInt` beyond an `int`, where Values refuse. Where do the orders of Values and DbValues differ from each other, from the equalities and from `ORDER BY`? In the cases listed above and in no other, whatever the declared types. |

### Bounds

- `handles`: two slots of each kind are what a move needs; four Connections let
  both Databases be moved and an old Connection be kept alive by a Command while
  its successor is open; three statements are one more than the Commands, for the
  one a throwing constructor leaves behind. Addresses are reused without bound.
  The three SQL texts are one without parameters, one with one, and one that is
  blank (compiled to NULL). `MaxGiven = 2` allows counts too small and too large.
- `execution`: two Commands, nesting depth 2 (`MaxDepth`) and two rows per
  statement: enough for a callback to run its own or another Command, for a row to
  be skipped or repeated, and for a call to be interrupted between rows. One
  Database suffices: calls on different connections share nothing. Opening,
  closing, preparing and destroying stay enabled throughout.
- `transactions`: three guards and three transactions (`MaxTx`), two Databases,
  three Connections: a guard can be moved through every slot while another
  transaction runs on the second Database, and one Database can be moved over the other.
  No Command is in play. sqlite may roll back by itself and may refuse to; in `auto_rollback` it
  does the first and not the second, so that the violation is due to the first. One write (`MaxWrites`) is followed at a time: the property is
  about each by itself, and the model makes it at any moment.
- `values`: three slots, so that an operation on two has a
  bystander, and two payloads, so that a wrong one is noticed. Contents are
  otherwise never computed with.
- `typed_rows`: the parameters and one more row, of the layouts in `MCLayouts`: the
  two Variants a Command starts with, typed and half typed rows of that width, so
  that a row can be refused at its first cell or after it, and one of three cells, so that
  displaced parameters are too many for the SQL as well as too few. One payload and
  the types int, int64 and string (with Real as a declared type); a blob behaves as a
  string and a double as an int64 in all that is modelled here.
- `datasets`: two Datasets with three rows between them (`MaxRows`): what a
  sort needs to lose one, and a self merge or an assignment over other rows to go wrong.
  The queries have one field with a double and a null, two fields that order their rows differently, or no row;
  the given rows make an untyped Dataset hold rows of both sizes, and add a double almost
  equal to the one of the query, in a Real and in a Variant, and a NaN. Rows are edited in place while there are at most two (`MaxTouched`):
  an edit concerns one row or two. `sorted_like_sqlite` has one query with the two integers
  and the double that it takes.
- `numerics`: integers of five bits, an `int` of three, doubles of three digits, which are in the
  proportions of 64 and 53 bits: there are integers that no double has, and the greatest is
  one. The greatest double lies far enough above that a sum overflows. The Values given lie
  on both sides of each limit; three slots are what transitivity needs. `NumericsProofs`
  shows the same for every format.
- Slots and addresses are symmetric and the runs without liveness use that;
  `execution_reenter` uses no symmetry.

Deadlock is checked except where the modelled program really stops:
`execution`, `values` and `typed_rows`, which follow no program past
undefined behaviour, and `transactions`, where `std::terminate` ends it.

### Fairness

Only `execution_reenter` assumes any. The library's own steps are weakly fair: it
never waits. A callback, and `onStart` and `onEnd`, may call into the library any
number of times but return in the end; each time it returns, its `execute` frame
is at that moment the innermost one, and before and after the calls nested in it
are, so the assumption is strong fairness per depth. An endless loop in user
code is not a liveness failure of libsl3.

## 4. What is proved

Every invariant, every action property and every refinement that a passing run checks is a theorem;
the runs show the same on small instances, and that the interesting cases happen there. The type
invariants of `Handles`, `Transactions`, `Values`, `TypedRows` and `Numerics` (`TypeOK`, `TxTypeOK`, `ValuesTypeOK`,
`TypedTypeOK`, `NumericsTypeOK`) are theorems only and take no place in the runs.

`HandlesProofs` proves the following for every number of slots and addresses and
every choice of SQL, from `HandlesAssumption` alone (null pointers are no
addresses, blank SQL has no parameters, SQL texts differ from the answers).

| Theorem | Statement |
|---|---|
| `TypeCorrect` | `Spec => []TypeOK` |
| `Ownership` | `Spec => []HandlesInv`, the inductive invariant |
| `OpenHandlesHaveOneOwner` | `Spec => []OneOwner` |
| `ConnectionsAreCounted` | `Spec => []Counted` |
| `CommandsOwnTheirStatement` | `Spec => []OwnStatement` |
| `StatementsDieWithConnection` | `Spec => []StatementsDieFirst` |
| `CallsNeverDangle` | `Spec => []NeverDangles` |
| `CutOffStaysCutOff` | `Spec => CutForGood` |
| `StatementsEndWithTheirOwner` | `Spec => OnlyOwnStatementEnds` |
| `Refinement` | `Spec => ImplementsLeases` |

The argument. No part of `HandlesInv` is preserved without the others:

- `~Command` calls `sqlite3_finalize` when `isValid()` holds of its Connection.
  That the statement is then alive and not another's is `OwnStatement`.
- `OwnStatement` survives `~Database` because it claims nothing of Commands on a
  closed connection, and it survives the opening of a Database because a Command
  cannot point to the new Connection: by `Counted` its address is free only when
  nobody does.
- That destroying a Command never closes an *open* handle, which would take the
  statements of other Commands along, is `OneOwner`: an open handle has a Database.
- That a newly compiled statement is at an address no other Command on an open
  connection holds follows from `OwnStatement` again, since such an address is not free.
- `StatementsDieFirst` lets every finalized connection be forgotten: a Connection
  is freed only with no statement left on it.

`InvNext` proves the step, one case per action and under it one per conjunct the
action disturbs. The action properties follow from the invariant and a case
split. For `Refinement` each action is matched with a lease step or a stutter;
the invariant is needed where `Run` must return exactly the Command's SQL
(`ReachedOwn`), and where a destroyed Command must leave the sessions alone
(`DestroyKeepsOpen`).

`ExecutionProofs` proves, for any number of objects and addresses, any depth of nesting and any number of
rows, from `ExecutionAssumption` and `HandlesAssumption`:

| Theorem | Statement |
|---|---|
| `CallsAreNested` | `ExecSpec => []ExecInv`, the inductive invariant |
| `ExecutionTypes` | `ExecSpec => []ExecTypeOK` |
| `IdleStatementsAreReset` | `ExecSpec => []IdleIsReset` |
| `RowsComeInOrder` | `ExecSpec => []RowsInOrder` |
| `ReentryIsRefused` | `ExecSpec => []ReentrySparesParameterized` |
| `ColumnsKeepTheirRow` | `ExecSpec => []ColumnsShowTheRow` |
| `NoRowIsSkipped` | `ExecSpec => AllRowsSeen` |
| `ReentryIsDefined` | `InCallback \subseteq {"reenter"}` implies `ExecSpec => []NoUndefined` |

All but the last hold whatever callbacks do to the Commands that run. What a call hands out depends on a
cursor that is not its own, so the invariant says who may move it:

- `Sole` is a call whose statement nobody else has run, or which nobody else can run, because sqlite refuses
  to bind the parameters of a statement that is under way. `Alone` says that no other call on the stack holds the
  statement of such a call.
- `Follows` says that the cursor of a `Sole` call is on the row it handed out last. A step of another call
  preserves it by `Alone`, and a re-entry either ends `Sole` for the calls below it or finds parameters to bind and
  is refused.
- `Seated` ties a call to the objects it was made on: only the innermost one is inside sqlite, its Command
  still has the statement that its ResetGuard holds, unless `selfGone` or `stmtGone` say otherwise, and a call in
  a callback is on a row.
- `Compiled` is where the number of rows and parameters of a living statement comes from.

`HandlesInv` is part of it: that a newly prepared statement is not one that some call holds is
ownership again. `NoUndefined` takes more: that the Command of every call is there, on an open connection, with
the statement of its ResetGuard and no dangling parameter (`Intact`), which holds only while
callbacks leave what runs in place. The hypothesis of `ReentryIsDefined` is the one of the run
`execution_reenter`; with `"close"` or `"destroy"` added the statement is false (see `Execution` above).

`TransactionsProofs` proves, for any number of Databases, connections, guards, transactions and writes, whatever
`UnderGuard`, `SqliteRollsBack` and `RollbackFails` allow, from `TransactionsAssumption`, `WritesAssumption` and `HandlesAssumption`:

| Theorem | Statement |
|---|---|
| `GuardsHold` | `WritesSpec => [](TxInv /\ WritesKnown)`, the inductive invariant |
| `TransactionTypes` | `WritesSpec => []TxTypeOK` |
| `GuardsAreUnique` | `WritesSpec => []OneGuardPerTransaction` |
| `TransactionsAreTakenByForce` | `WritesSpec => WhoTakesATransaction` |
| `NoTransactionStrays` | `WritesSpec => []NoStrayTransaction` |
| `CommitsAreAnswered` | `WritesSpec => []DurableIffCommitReturned` |
| `DestructorsNeedABreach` | `WritesSpec => []DestructorsAreSafe` |
| `WritesShareTheirGuardsFate` | `WritesSpec => []WritesFollowTheirGuard` |
| `GuardsAreScopes` | `WritesSpec => ImplementsScopes` |

A guard holds the address of a Database, the transaction belongs to its connection; what ties
them is `Standing`: until `breached` the Database a guard points to is there, and its
connection is in the transaction that the guard began. With `Apart` (two connections never have one
transaction) and `OneOwner` of the handles (two Databases never have one open connection) it follows that a `COMMIT` or
`ROLLBACK` ends the guard's own transaction and no other's. `Numbered` says that
a new transaction has been nobody's before, and `BegunOnce`, which holds after a breach as well, that no two guards
began the same one. `TransactionsAreTakenByForce` needs no more of the invariant than `BegunOnce`, `OneOwner` and the types, since it
speaks of single steps: where a transaction leaves the connection of its guard, somebody has ended it there, and each action says who. `WritesKnown` makes `WritesFollowTheirGuard`
inductive: until `breached` the transaction a write was made in is the one of the guard it was made
under. For `GuardsAreScopes` every step is matched with one of a scope or a stutter, and the invariant shows that the
transaction that sqlite ends is the one its scope names.

`ValuesProofs` proves, for every set of slots and payloads and with or without
failing allocations, from `ValuesAssumption` (the content of an empty union is no
payload, and "no slot" is no slot):

| Theorem | Statement |
|---|---|
| `TagsTellTheTruth` | `ValuesSpec => []ValuesInv`, the inductive invariant |
| `UnionsDoNotLeak` | `ValuesSpec => []ValuesTypeOK` |
| `DamageStaysLocal` | `ValuesSpec => []DamageIsLocal` |
| `ValuesAreBoxes` | `ValuesSpec => ImplementsBoxes` |

The invariant joins the types, `DamageIsLocal`, and that a slot without a Value has a Null tag; the last is
what makes construction in a slot write over nothing. The
lemmas state for each function on bytes what it does to a sound object; the step
is then one case per action. `ValuesAreBoxes` follows action by action from what the same functions do
to a sound object's content; an assignment that runs out of memory is matched with `Spoil`, which concerns one box.

`TypedRowsProofs` proves, for any number of rows, any width and any set of
layouts, from `RowsAssumption` (the parameters are one of the rows, layouts are
sequences of types):

| Theorem | Statement |
|---|---|
| `RowsStayGood` | `Spec => []RowsInv`, the inductive invariant |
| `RowsTypeCorrect` | `Spec => []TypedTypeOK` |
| `TypesAreGuaranteed` | `Spec => []TypeGuarantee` |
| `LayoutsAreWhole` | `Spec => []LayoutsStayWhole` |
| `StatementsRunWithTheirParameters` | `Spec => []KeptParametersRun` |
| `RefusalsChangeNothing` | `Spec => RefusedAssignmentChangesNothing` |

A cell is *good* when its value fits its declared type. The lemmas show that every
guarded assignment makes good cells of good cells without touching the declared
type (`GiveGood`, `AssignGood`), that the loops over rows do so for each cell,
wherever they stop (`RowAssignGood`), and that replacing a cell or a row in a good
family of rows leaves it good (`CellReplaced`, `PutRow`); the steps combine these.
For `KeptParametersRun` a second invariant is needed, `Enough`: parameters in place
are never fewer than the SQL has (they may become more, when a wider row is moved
into parameters of width 0), so that each call binds every parameter afresh.

`NumericsProofs` proves, for integers and doubles of any width, any set of slots and of given
Values, and any rounding that is monotone, the same on both sides of zero, and exact for doubles and for
what an `int` holds (`FormatAssumption`, `RoundingAssumption`, `GivenAssumption`):

| Theorem | Statement |
|---|---|
| `NumericsTypeCorrect` | `Spec => []NumericsTypeOK` |
| `NumbersStayWhereTheyAre` | `Spec => []NumbersDoNotDrift` |
| `OneUndefinedCast` | `Spec => []UndefinedOnlyAtTheEdge` |
| `ColumnsReadLikeValues` | `Spec => []ReadsAgree` |
| `TypeOrderWeak` | `Spec => []TypeOrderIsWeak` |
| `OrdersInAgreement` | `Spec => []OrdersAgree` |
| `OrderLikeSqlite` | `Spec => []OrderFollowsSqlite` |
| `DeclaredOrderIsSafe` | `Spec => []DeclaredOrderIsStrict` |

The orders need no invariant but the types; what they say of single Values is in the lemmas of `OrdersProofs`. For `TypeOrderWeak` the lemma
`TypeOrderOfNumbers` turns `value_type_lt` on numbers into a lexicographic order: first the
number as a double, then integers before doubles, then the integers themselves; that the
last agrees with the first is that rounding is monotone (`RoundingKeepsSides`). For the conversions
`OnlyEdgeIsUndefined` shows that a double without fraction that passes both limits can be
cast or is the one above the greatest integer. `NumbersDoNotDrift` is not inductive as it
stands; `DriftInv` joins it with the types, with the descent of what is no number (it never becomes
one, or it would be a number that came from nowhere), and with `UndefinedOnlyAtTheEdge`.
A step keeps it because rounding twice is rounding once, and because what a cast returns, where it is
defined, is the number it was given.

`OrdersProofs` holds what those proofs and the next share: which comparison is a strict weak order, for which Values.
`OrdersFollowSqlite` compares both orders with that of sqlite, and `TypeEqualityAndOrder` the equality with the order.
`PlainOrderIsStrictWeak` says of `value_lt` that it is one on numbers that a double has, and `DeclaredOrderIsStrictWeak` of
`dbval_type_lt` where no two doubles are almost equal, which needs that the declared types break the ties that
values leave (`TypeOrderIsTotal`).

`DatasetsProofs` proves, for any set of Datasets, queries, rows, cells and lists of sort keys, from `DatasetsAssumption`
and the assumptions on numbers:

| Theorem | Statement |
|---|---|
| `DatasetsStaySound` | `Spec => []SetsInv`, the inductive invariant |
| `DatasetTypes` | `Spec => []DatasetTypeOK` |
| `RowsFitTheirFields` | `Spec => []RowsFit` |
| `NamesHaveFields` | `Spec => []NamesFitFields` |
| `SortOrders` | `Spec => []SortOrderIsWeak` |

`RowsFit` speaks of declared types, but a row gets them from other rows, and values arrive in cells whose types were
chosen long before; so the invariant (`Sound`) adds that every cell, spoilt or not, holds what its
declared type allows, and that every row of a Dataset that nobody spoilt fits. `AgreeingFit` is the step of
`merge`, which compares the types of two Datasets and never the rows.

`SortOrders` needs nothing but the cells. Where `Orderable` excludes the numbers that spoil them, cells are in a strict
weak order; `VerdictSettles` finds, by well-founded induction on the positions, the first key that tells
two rows apart, and a lexicographic comparison by strict weak orders is one (`VerdictIsWeak`).

Model-checked only: `EveryCallEnds`, since liveness under fairness is out of the prover's reach. The four
statements that are violated are counterexamples, which TLC gives. The bounds `MaxDepth`, `MaxTx`, `MaxWrites` and
`MaxRows` stay constants in the theorems, which hold for every value of them; that `MaxRows` is kept is the guards' doing
and no property.

## 5. Abstractions, and what is not modelled

- SQLite is external. A call on a NULL statement is `SQLITE_MISUSE`; a call on a
  dead statement is undefined; any step may fail; rows are numbered.
- An object that has been moved from may be moved again and destroyed. Using it
  (which dereferences a null `shared_ptr`) breaks the caller's contract and is not an
  action. The same holds for destroying an object in the middle of its own member
  function other than through a callback, and for use from several threads.
- `std::bad_alloc` is modelled where it leaves a Value half assigned (`Values`) or
  a row (`TypedRows`), and nowhere else.
- In `Values` a program ejects only what is there: `ejectText` on anything else
  throws before it changes anything, and so do the conversions and accessors,
  which change nothing at all and are not actions.
- Transactions are begun and ended through guards only. A program that also
  executes `COMMIT` or `ROLLBACK` as SQL text ends a guard's transaction as
  `AutoRollback` does, with the same consequence for the destructor.
- Parameter values have no contents in `Execution`: it tells only whether the
  storage sqlite points to is still the one that was bound, and takes it that every
  parameter is bound anew by each call, which is so while the parameters keep their
  number; `TypedRows` shows what happens otherwise.
- `TypedRows` runs a statement in one step: no callback and no error of sqlite.
  Payloads are not computed with; the conversion of an int to a Real keeps them.
- In `Datasets` `Type::Null` in a list of types (which makes a Variant) is left out. A query
  ends, or sqlite reports an error and `select` throws; user code cannot see a Dataset that is being filled.
- How sqlite reads a number from text, and a text from a number, is sqlite's; `Fetch` reads
  numeric columns only. Strings and blobs are places in their order.
- `Container` is `std::vector` behind an interface, `Types` a list of tags, the exception classes and
  the version strings have no state: there is no behaviour of their own to check.
  Wording of messages, streaming of values and `to_string` are left out.

## 6. Plan

In order of importance; the first nine are done.

1. `Handles`, `Leases`, `HandlesRefine`, `HandlesProofs`: ownership, proved.
2. `Execution`: the loop and its callbacks.
3. `Transactions`, `Scopes`: the guard.
4. `Values`, `Boxes`, `ValuesProofs`: the union in `Value`, proved.
5. `TypedRows`, `TypedRowsProofs`: declared types, rows and parameters, proved.
6. `Datasets`: filling by `Command::select`, `merge`, `reset`, copies, edits and `sort`.
7. `Numbers`, `Orders`, `Numerics`, `NumericsProofs`: conversions and orders, with the
   widths of integers and doubles as constants, proved.
8. `Writes`: what is written under a guard.
9. `TransactionsProofs`, `ExecutionProofs`, `OrdersProofs`, `DatasetsProofs`, and `ValuesAreBoxes`: every
   safety property of the runs, proved.
10. Left: which of the assumptions on the constants the proofs can do without, and theorems about the
   operators that no run states as a property, such as the limits of `Orderable` (that a strict weak order is lost
   beyond them) and what `Release` leaves of a Connection.

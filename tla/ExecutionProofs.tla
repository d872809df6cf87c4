--------------------------- MODULE ExecutionProofs ---------------------------
(***************************************************************************)
(* Theorems about Execution, for every number of objects, every depth of   *)
(* nested calls and all numbers of rows.                                   *)
(***************************************************************************)
EXTENDS Execution, HandlesProofs

-----------------------------------------------------------------------------
(* The invariant.                                                          *)

Looping == {"step", "callback", "leaving", "throwing"}

\* The call at level n has its statement to itself: nobody else has run it, or
\* nobody else can, since sqlite refuses to bind its parameters.
Sole(n) ==
    /\ frames[n].guard # NoStmt /\ ~frames[n].stmtGone
    /\ frames[n].clean \/ ParamCount[stmtSql[frames[n].guard]] > 0

\* The call at level n and the objects it was made on.
Seated(n) ==
    /\ frames[n].cmd \in Commands
    /\ n < depth => frames[n].phase \in {"onStart", "callback", "onEnd"}
    /\ ~frames[n].selfGone =>
          /\ frames[n].cmd \in made
          /\ frames[n].phase \in Looping => cmdStmt[frames[n].cmd] \in {NoStmt, frames[n].guard}
    /\ frames[n].guard # NoStmt /\ ~frames[n].stmtGone => stmtConn[frames[n].guard] # NoConn
    /\ frames[n].phase = "callback" => frames[n].guard # NoStmt /\ frames[n].last # 0

\* The cursor of a statement that the call has to itself follows the call.
Follows(n) ==
    Sole(n) =>
       /\ frames[n].ordered
       /\ frames[n].phase \in {"step", "callback"} =>
             /\ pos[frames[n].guard] = frames[n].last
             /\ frames[n].last <= RowCount[stmtSql[frames[n].guard]]

Alone ==
    \A n, m \in 1..depth :
        Sole(n) /\ ~frames[m].stmtGone /\ frames[m].guard = frames[n].guard => n = m

\* A statement that exists was compiled from some SQL.
Compiled == \A s \in Stmts : stmtConn[s] # NoConn => stmtSql[s] \in Sql

ExecInv ==
    /\ HandlesInv /\ ExecTypeOK /\ Compiled
    /\ IdleIsReset /\ RowsInOrder /\ Alone
    /\ \A n \in 1..depth : Seated(n) /\ Follows(n)

-----------------------------------------------------------------------------
(* Types.                                                                  *)

LEMMA NoFrameType == NoFrame \in Frame
BY DEF NoFrame, Frame, Phases, Given

\* What the type of the stack says of one level.
LEMMA LevelTypes ==
    ASSUME ExecTypeOK
    PROVE  /\ MaxDepth \in Nat /\ MaxDepth # 0 /\ depth \in Nat /\ depth <= MaxDepth
           /\ \A n \in 1..MaxDepth :
                 /\ frames[n] \in Frame
                 /\ n <= depth <=> frames[n].phase # "none"
                 /\ frames[n].phase \in {"onStart", "onEnd"} => frames[n].rowcb /\ frames[n].guard = NoStmt
           /\ depth = 0 => Top = NoFrame
           /\ depth # 0 => depth \in 1..MaxDepth /\ Top = frames[depth]
BY ExecutionAssumption DEF ExecTypeOK, Top

\* A call on a Command that ends, well or not, leaves the handles alone.
LEMMA CallHandles ==
    ASSUME HandlesInv, NEW c \in Commands, NEW res \in Answers,
           Returns("execute", c, res), UNCHANGED <<connVars, stmtVars, cmdVars>>
    PROVE  HandlesInv' /\ TypeOK'
<1>1. Types'
  BY DEF Returns, connVars, stmtVars, cmdVars, HandlesInv, Types, Ops
<1>2. HandlesInv'
  BY <1>1, InvQuiet
<1>. QED BY <1>2 DEF HandlesInv, TypeOK

LEMMA SameHandles ==
    ASSUME HandlesInv, UNCHANGED vars
    PROVE  HandlesInv' /\ TypeOK'
BY InvNext DEF HandlesInv, TypeOK

-----------------------------------------------------------------------------
(* The calls that a step is not about.                                     *)

\* A level that is left as it is stays right while its cursor does.
LEMMA LevelKept ==
    ASSUME NEW n \in 1..depth, Seated(n), Follows(n),
           frames'[n] = frames[n], UNCHANGED <<made, cmdStmt, stmtConn, stmtSql>>,
           n < depth' => frames[n].phase \in {"onStart", "callback", "onEnd"},
           Sole(n) => pos'[frames[n].guard] = pos[frames[n].guard]
    PROVE  Seated(n)' /\ Follows(n)' /\ (Sole(n)' <=> Sole(n))
BY DEF Seated, Follows, Sole

\* The innermost call ends; its ResetGuard has run.
LEMMA PopKeeps ==
    ASSUME ExecInv, ~ub, depth # 0, Pop,
           \/ Top.guard = NoStmt /\ UNCHANGED <<pos, ub>>
           \/ Top.guard # NoStmt /\ ResetGuard,
           HandlesInv', UNCHANGED <<made, cmdStmt, stmtConn, stmtSql>>,
           dangling' \in SUBSET Stmts
    PROVE  ExecInv'
<1>1. /\ depth \in 1..MaxDepth /\ depth' = depth - 1 /\ Top = frames[depth]
      /\ \A n \in 1..MaxDepth : frames'[n] = (IF n = depth THEN NoFrame ELSE frames[n])
      /\ DOMAIN frames' = 1..MaxDepth
      /\ frames[depth] \in Frame
  BY LevelTypes DEF ExecInv, ExecTypeOK, Pop
<1>2. /\ pos' \in [Stmts -> Nat \cup {Halted}] /\ ub' \in BOOLEAN
      /\ \A s \in Stmts : s # Top.guard => pos'[s] = pos[s]
      /\ ~ub' => \A s \in Stmts : s = Top.guard => pos'[s] = 0
      /\ Top.stmtGone => pos' = pos
  BY <1>1, HandlesAssumption DEF ResetGuard, ExecInv, ExecTypeOK, Frame
<1>3. ExecTypeOK'
  <2>1. frames' \in [1..MaxDepth -> Frame]
    BY <1>1, NoFrameType DEF Pop, ExecInv, ExecTypeOK
  <2>2. depth' \in 0..MaxDepth
    BY <1>1, LevelTypes DEF ExecInv
  <2>3. \A n \in 1..MaxDepth :
           /\ n <= depth' <=> frames'[n].phase # "none"
           /\ frames'[n].phase \in {"onStart", "onEnd"} => frames'[n].rowcb /\ frames'[n].guard = NoStmt
    <3>1. NoFrame.phase = "none"
      BY DEF NoFrame
    <3>. QED BY <1>1, <3>1, LevelTypes DEF ExecInv
  <2>. QED BY <1>2, <2>1, <2>2, <2>3 DEF ExecTypeOK, HandlesInv, TypeOK
<1>4. \A n \in 1..depth' : n \in 1..depth /\ n # depth /\ n \in 1..MaxDepth /\ frames'[n] = frames[n] /\ n < depth
  BY <1>1, LevelTypes DEF ExecInv
<1>5. ASSUME NEW n \in 1..depth' PROVE Seated(n)' /\ Follows(n)' /\ (Sole(n)' <=> Sole(n))
  <2>1. Seated(n) /\ Follows(n) /\ frames[n].phase \in {"onStart", "callback", "onEnd"}
    BY <1>4, <1>5 DEF ExecInv, Seated
  <2>2. ASSUME Sole(n) PROVE pos'[frames[n].guard] = pos[frames[n].guard]
    <3>1. frames[n].guard \in Stmts
      BY <1>4, <2>2, LevelTypes DEF Sole, Frame, ExecInv
    <3>2. CASE Top.stmtGone
      BY <1>2, <3>2
    <3>3. CASE ~Top.stmtGone
      <4>1. frames[n].guard # Top.guard
        BY <1>1, <1>4, <2>2, <3>3 DEF ExecInv, Alone
      <4>. QED BY <1>2, <3>1, <4>1
    <3>. QED BY <3>2, <3>3
  <2>. QED BY <1>4, <1>5, <2>1, <2>2, LevelKept
<1>6. Alone' /\ RowsInOrder'
  BY <1>4, <1>5 DEF ExecInv, Alone, RowsInOrder
<1>7. IdleIsReset'
  <2> SUFFICES ASSUME ~ub', NEW s \in Stmts, pos'[s] # 0
               PROVE  \E n \in 1..depth' : frames'[n].guard = s
    BY DEF IdleIsReset
  <2>1. s # Top.guard /\ pos[s] # 0
    BY <1>2
  <2>2. PICK n \in 1..depth : frames[n].guard = s
    BY <2>1 DEF ExecInv, IdleIsReset
  <2>3. n \in 1..depth'
    BY <1>1, <2>1, <2>2
  <2>. QED BY <1>4, <2>2, <2>3
<1>. QED BY <1>3, <1>5, <1>6, <1>7 DEF ExecInv, Compiled

\* The innermost call goes on: at most its own cursor moves.
LEMMA TopKeeps ==
    ASSUME ExecInv, ~ub, depth # 0, NEW f \in Frame,
           frames' = [frames EXCEPT ![depth] = f], depth' = depth,
           f.cmd = Top.cmd, f.selfGone = Top.selfGone, f.stmtGone = Top.stmtGone, f.clean = Top.clean,
           f.guard \in {Top.guard, NoStmt}, f.clean => f.ordered,
           f.phase # "none", f.phase \in {"onStart", "onEnd"} => f.rowcb /\ f.guard = NoStmt,
           pos' \in [Stmts -> Nat \cup {Halted}], ub' \in BOOLEAN,
           \A s \in Stmts : s # Top.guard => pos'[s] = pos[s],
           Top.stmtGone => pos' = pos,
           ~ub' /\ f.guard # Top.guard => pos'[Top.guard] = 0,
           HandlesInv', UNCHANGED <<made, cmdStmt, stmtConn, stmtSql>>, UNCHANGED dangling,
           Seated(depth)' /\ Follows(depth)'
    PROVE  ExecInv'
<1>1. /\ depth \in 1..MaxDepth /\ Top = frames[depth] /\ depth \in Nat
      /\ frames' \in [1..MaxDepth -> Frame]
      /\ \A n \in 1..MaxDepth : frames'[n] = (IF n = depth THEN f ELSE frames[n])
      /\ \A n \in 1..depth : n \in 1..MaxDepth /\ frames[n] \in Frame
  BY LevelTypes DEF ExecInv, ExecTypeOK
<1>2. ExecTypeOK'
  <2>1. \A n \in 1..MaxDepth :
           /\ n <= depth' <=> frames'[n].phase # "none"
           /\ frames'[n].phase \in {"onStart", "onEnd"} => frames'[n].rowcb /\ frames'[n].guard = NoStmt
    BY <1>1, LevelTypes DEF ExecInv
  <2>. QED BY <1>1, <2>1 DEF ExecInv, ExecTypeOK, HandlesInv, TypeOK
<1>3. ASSUME NEW n \in 1..depth, n # depth
      PROVE  frames'[n] = frames[n] /\ Seated(n)' /\ Follows(n)' /\ (Sole(n)' <=> Sole(n))
  <2>1. Seated(n) /\ Follows(n) /\ frames'[n] = frames[n] /\ n < depth
        /\ frames[n].phase \in {"onStart", "callback", "onEnd"}
    BY <1>1, <1>3 DEF ExecInv, Seated
  <2>2. ASSUME Sole(n) PROVE pos'[frames[n].guard] = pos[frames[n].guard]
    <3>1. frames[n].guard \in Stmts
      BY <1>1, <2>2 DEF Sole, Frame
    <3>2. Top.stmtGone \/ frames[n].guard # Top.guard
      BY <1>1, <1>3, <2>2 DEF ExecInv, Alone
    <3>. QED BY <3>1, <3>2
  <2>. QED BY <2>1, <2>2, LevelKept
<1>4. Sole(depth)' => Sole(depth) /\ f.guard = Top.guard
  BY <1>1 DEF Sole
<1>5. Alone'
  <2> SUFFICES ASSUME NEW n \in 1..depth, NEW m \in 1..depth, Sole(n)', ~frames'[m].stmtGone,
                      frames'[m].guard = frames'[n].guard
               PROVE  n = m
    BY DEF Alone
  <2>1. frames'[n].guard # NoStmt
    BY DEF Sole
  <2>2. Sole(n) /\ frames'[n].guard = frames[n].guard
    BY <1>1, <1>3, <1>4
  <2>3. frames'[m].guard = frames[m].guard /\ frames'[m].stmtGone = frames[m].stmtGone
    BY <1>1, <2>1
  <2>. QED BY <2>2, <2>3 DEF ExecInv, Alone
<1>6. RowsInOrder'
  BY <1>1 DEF ExecInv, RowsInOrder
<1>7. IdleIsReset'
  <2> SUFFICES ASSUME ~ub', NEW s \in Stmts, pos'[s] # 0
               PROVE  \E n \in 1..depth : frames'[n].guard = s
    BY DEF IdleIsReset
  <2>1. CASE s = Top.guard
    BY <1>1, <2>1
  <2>2. CASE s # Top.guard
    <3>1. PICK n \in 1..depth : frames[n].guard = s
      BY <2>2 DEF ExecInv, IdleIsReset
    <3>. QED BY <1>1, <2>2, <3>1
  <2>. QED BY <2>1, <2>2
<1>. QED BY <1>2, <1>3, <1>5, <1>6, <1>7 DEF ExecInv, Compiled

-----------------------------------------------------------------------------
(* The loop.                                                               *)

\* A step runs the statement that the call has bound, and no other call at the top
\* of the stack can.
LEMMA Stepping ==
    ASSUME ExecInv, CanStep
    PROVE  /\ depth # 0 /\ Top = frames[depth] /\ depth \in 1..depth /\ Top \in Frame
           /\ Seated(depth) /\ Follows(depth) /\ ~ub
           /\ Top.guard \in Stmts /\ ~Top.stmtGone /\ Top.phase = "step"
           /\ Sole(depth) => NextRow = Top.last + 1
           /\ pos[Top.guard] \in Nat \cup {Halted} /\ NextRow \in Nat /\ NextRow # 0
           /\ HandlesInv
<1>1. depth # 0
  BY LevelTypes DEF CanStep, NoFrame, ExecInv
<1>2. /\ Top = frames[depth] /\ depth \in 1..depth /\ Top \in Frame
      /\ Seated(depth) /\ Follows(depth) /\ ~ub /\ Top.phase = "step" /\ HandlesInv
  BY <1>1, LevelTypes DEF CanStep, ExecInv
<1>3. Top.guard \in Stmts /\ ~Top.stmtGone
  BY <1>2 DEF CanStep, Seated, Looping, Frame
<1>4. pos[Top.guard] \in Nat \cup {Halted}
  BY <1>3 DEF ExecInv, ExecTypeOK
<1>5. NextRow \in Nat /\ NextRow # 0
  BY <1>4 DEF NextRow, Halted
<1>6. ASSUME Sole(depth) PROVE NextRow = Top.last + 1
  <2>1. pos[Top.guard] = Top.last /\ Top.last \in Nat
    BY <1>2, <1>6 DEF Follows, Frame
  <2>. QED BY <2>1 DEF NextRow, Halted
<1>. QED BY <1>1, <1>2, <1>3, <1>4, <1>5, <1>6

LEMMA StepRowKeeps ==
    ASSUME ExecInv, StepRow
    PROVE  ExecInv'
<1>. DEFINE f == [Top EXCEPT !.phase = "callback", !.last = NextRow,
                             !.ordered = @ /\ NextRow = Top.last + 1]
<1>0. CanStep
  BY DEF StepRow
<1>1. /\ depth \in 1..MaxDepth /\ Top = frames[depth]
      /\ frames' = [frames EXCEPT ![depth] = f] /\ depth' = depth
      /\ pos' = [pos EXCEPT ![Top.guard] = NextRow]
      /\ UNCHANGED <<made, cmdStmt, stmtConn, stmtSql, dangling, ub>>
      /\ NextRow <= RowCount[stmtSql[Top.guard]]
  BY <1>0, Stepping, LevelTypes DEF StepRow, vars, ExecInv, ExecTypeOK
<1>2. /\ f \in Frame /\ f.cmd = Top.cmd /\ f.selfGone = Top.selfGone /\ f.stmtGone = Top.stmtGone
      /\ f.clean = Top.clean /\ f.guard = Top.guard /\ f.phase = "callback" /\ f.last = NextRow
      /\ f.ordered <=> Top.ordered /\ NextRow = Top.last + 1
  BY <1>0, Stepping DEF Frame, Phases
<1>3. /\ pos' \in [Stmts -> Nat \cup {Halted}] /\ pos'[Top.guard] = NextRow
      /\ \A s \in Stmts : s # Top.guard => pos'[s] = pos[s]
  BY <1>0, <1>1, Stepping DEF ExecInv, ExecTypeOK
<1>4. Seated(depth)' /\ Follows(depth)' /\ (f.clean => f.ordered)
  <2>. HIDE DEF f
  <2>1. frames'[depth] = f
    BY <1>1 DEF ExecInv, ExecTypeOK
  <2>2. Seated(depth) /\ NextRow # 0 /\ Top.guard # NoStmt /\ (Sole(depth) => NextRow = Top.last + 1)
    BY <1>0, Stepping, HandlesAssumption
  <2>3. Seated(depth)'
    BY <1>1, <1>2, <2>1, <2>2, <1>0, Stepping DEF Seated, Looping
  <2>4. Sole(depth)' => Sole(depth) /\ Top.ordered
    BY <1>1, <1>2, <2>1, <1>0, Stepping DEF Sole, Follows
  <2>5. Follows(depth)'
    BY <1>1, <1>2, <1>3, <2>1, <2>2, <2>4 DEF Follows
  <2>6. Top.clean => Sole(depth) /\ Top.ordered
    BY <1>0, Stepping, HandlesAssumption DEF Sole, Follows
  <2>. QED BY <1>2, <2>2, <2>3, <2>5, <2>6
<1>5. HandlesInv'
  BY SameHandles DEF StepRow, ExecInv
<1>. QED
  <2>. HIDE DEF f
  <2>. QED BY <1>0, <1>1, <1>2, <1>3, <1>4, <1>5, Stepping, TopKeeps DEF ExecInv, ExecTypeOK

\* A step that comes back without a row ends the loop.
LEMMA StepEndsKeeps ==
    ASSUME ExecInv, StepDone \/ StepFails
    PROVE  ExecInv'
<1>0. CanStep /\ HandlesInv'
  BY SameHandles DEF StepDone, StepFails, ExecInv
<1>1. PICK next \in {"leaving", "throwing"} : frames' = [frames EXCEPT ![depth].phase = next]
  BY DEF StepDone, StepFails
<1>. DEFINE f == [Top EXCEPT !.phase = next]
<1>2. /\ depth \in 1..MaxDepth /\ Top = frames[depth]
      /\ frames' = [frames EXCEPT ![depth] = f] /\ depth' = depth /\ frames'[depth] = f
      /\ pos' = [pos EXCEPT ![Top.guard] = Halted]
      /\ UNCHANGED <<made, cmdStmt, stmtConn, stmtSql, dangling, ub>>
  BY <1>0, <1>1, Stepping, LevelTypes DEF StepDone, StepFails, vars, ExecInv, ExecTypeOK
<1>3. /\ f \in Frame /\ f.cmd = Top.cmd /\ f.selfGone = Top.selfGone /\ f.stmtGone = Top.stmtGone
      /\ f.clean = Top.clean /\ f.guard = Top.guard /\ f.phase \in {"leaving", "throwing"}
      /\ f.last = Top.last /\ f.ordered = Top.ordered
  BY <1>0, Stepping DEF Frame, Phases
<1>4. /\ pos' \in [Stmts -> Nat \cup {Halted}]
      /\ \A s \in Stmts : s # Top.guard => pos'[s] = pos[s]
  BY <1>0, <1>2, Stepping DEF ExecInv, ExecTypeOK
<1>5. Seated(depth)' /\ Follows(depth)' /\ (f.clean => f.ordered)
  <2>. HIDE DEF f
  <2>1. Seated(depth)'
    BY <1>0, <1>2, <1>3, Stepping DEF Seated, Looping
  <2>2. Follows(depth)'
    BY <1>0, <1>2, <1>3, Stepping DEF Sole, Follows
  <2>3. Top.clean => Top.ordered
    BY <1>0, Stepping, HandlesAssumption DEF Sole, Follows
  <2>. QED BY <1>3, <2>1, <2>2, <2>3
<1>. QED
  <2>. HIDE DEF f
  <2>. QED BY <1>0, <1>2, <1>3, <1>4, <1>5, Stepping, TopKeeps DEF ExecInv, ExecTypeOK

\* Control comes back to the call without a step of sqlite.
LEMMA PhaseKeeps ==
    ASSUME ExecInv, ~ub, Top.phase \in {"step", "callback"}, NEW next \in {"step", "leaving", "throwing"},
           next = "step" => Top.phase = "callback",
           frames' = [frames EXCEPT ![depth].phase = next],
           UNCHANGED <<vars, depth, pos, dangling, ub>>
    PROVE  ExecInv'
<1>. DEFINE f == [Top EXCEPT !.phase = next]
<1>1. /\ depth # 0 /\ depth \in 1..depth /\ depth \in 1..MaxDepth /\ Top = frames[depth] /\ Top \in Frame
      /\ Seated(depth) /\ Follows(depth)
  BY LevelTypes DEF NoFrame, ExecInv
<1>2. /\ frames' = [frames EXCEPT ![depth] = f] /\ frames'[depth] = f
      /\ UNCHANGED <<made, cmdStmt, stmtConn, stmtSql>>
  BY <1>1 DEF vars, ExecInv, ExecTypeOK
<1>3. /\ f \in Frame /\ f.cmd = Top.cmd /\ f.selfGone = Top.selfGone /\ f.stmtGone = Top.stmtGone
      /\ f.clean = Top.clean /\ f.guard = Top.guard /\ f.phase = next
      /\ f.last = Top.last /\ f.ordered = Top.ordered
  BY <1>1 DEF Frame, Phases
<1>4. Seated(depth)' /\ Follows(depth)' /\ (f.clean => f.ordered)
  <2>. HIDE DEF f
  <2>1. Seated(depth)'
    BY <1>1, <1>2, <1>3 DEF Seated, Looping
  <2>2. Follows(depth)'
    BY <1>1, <1>2, <1>3 DEF Sole, Follows
  <2>. QED BY <1>1, <1>3, <2>1, <2>2 DEF ExecInv, RowsInOrder
<1>5. HandlesInv'
  BY SameHandles DEF ExecInv
<1>. QED
  <2>. HIDE DEF f
  <2>. QED BY <1>1, <1>2, <1>3, <1>4, <1>5, TopKeeps DEF ExecInv, ExecTypeOK

-----------------------------------------------------------------------------
(* Leaving execute.                                                        *)

\* On the way out there is a Command to report on.
LEMMA Leaving ==
    ASSUME ExecInv, Top.phase \in {"leaving", "throwing", "onStart", "onEnd"}
    PROVE  /\ depth # 0 /\ depth \in 1..depth /\ depth \in 1..MaxDepth /\ Top = frames[depth] /\ Top \in Frame
           /\ Seated(depth) /\ Follows(depth) /\ Top.cmd \in Commands /\ HandlesInv
           /\ Top.phase \in {"onStart", "onEnd"} => Top.guard = NoStmt
<1>1. /\ depth # 0 /\ depth \in 1..depth /\ depth \in 1..MaxDepth /\ Top = frames[depth] /\ Top \in Frame
      /\ Seated(depth) /\ Follows(depth) /\ HandlesInv
      /\ Top.phase \in {"onStart", "onEnd"} => Top.guard = NoStmt
  BY LevelTypes DEF NoFrame, ExecInv
<1>. QED BY <1>1 DEF Seated

\* A normal end of the loop under a RowCallback: reset first, onEnd then.
LEMMA ToOnEndKeeps ==
    ASSUME ExecInv, Leave, Top.rowcb
    PROVE  ExecInv'
<1>. DEFINE f == [Top EXCEPT !.phase = "onEnd", !.guard = NoStmt]
<1>1. /\ depth # 0 /\ depth \in 1..depth /\ depth \in 1..MaxDepth /\ Top = frames[depth] /\ Top \in Frame
      /\ Seated(depth) /\ Follows(depth) /\ Top.cmd \in Commands /\ HandlesInv
  BY Leaving DEF Leave
<1>2. HandlesInv' /\ TypeOK'
  BY <1>1, CallHandles DEF Leave, Answers
<1>3. /\ frames' = [frames EXCEPT ![depth] = f] /\ frames'[depth] = f /\ depth' = depth
      /\ UNCHANGED <<made, cmdStmt, stmtConn, stmtSql, dangling>>
  BY <1>1 DEF Leave, stmtVars, cmdVars, ExecInv, ExecTypeOK
<1>4. /\ f \in Frame /\ f.cmd = Top.cmd /\ f.selfGone = Top.selfGone /\ f.stmtGone = Top.stmtGone
      /\ f.clean = Top.clean /\ f.guard = NoStmt /\ f.phase = "onEnd" /\ f.rowcb
      /\ f.last = Top.last /\ f.ordered = Top.ordered
  BY <1>1 DEF Frame, Phases
<1>5. /\ pos' \in [Stmts -> Nat \cup {Halted}] /\ ub' \in BOOLEAN
      /\ \A s \in Stmts : s # Top.guard => pos'[s] = pos[s]
      /\ Top.stmtGone => pos' = pos
      /\ ~ub' /\ Top.guard # NoStmt => pos'[Top.guard] = 0
  BY <1>1 DEF Leave, ResetGuard, ExecInv, ExecTypeOK, Frame
<1>6. Seated(depth)' /\ Follows(depth)' /\ (f.clean => f.ordered)
  <2>. HIDE DEF f
  <2>1. Seated(depth)'
    BY <1>1, <1>3, <1>4 DEF Seated, Looping
  <2>2. Follows(depth)'
    BY <1>3, <1>4 DEF Sole, Follows
  <2>. QED BY <1>1, <1>4, <2>1, <2>2 DEF ExecInv, RowsInOrder
<1>. QED
  <2>. HIDE DEF f
  <2>. QED BY <1>1, <1>2, <1>3, <1>4, <1>5, <1>6, TopKeeps DEF Leave

LEMMA LeavingKeeps ==
    ASSUME ExecInv, NEW n \in 1..MaxDepth, Leave \/ Unwind \/ RowCallbackLeaves(n)
    PROVE  ExecInv'
<1>1. CASE Leave /\ Top.rowcb
  BY <1>1, ToOnEndKeeps
<1>2. CASE (Leave /\ ~Top.rowcb) \/ Unwind
  <2>1. depth # 0 /\ Top.cmd \in Commands /\ HandlesInv
    BY <1>2, Leaving DEF Leave, Unwind
  <2>2. HandlesInv' /\ TypeOK'
    BY <1>2, <2>1, CallHandles DEF Leave, Unwind, Answers
  <2>3. /\ ~ub /\ Pop /\ ResetGuard
        /\ UNCHANGED <<made, cmdStmt, stmtConn, stmtSql>> /\ dangling' \in SUBSET Stmts
    BY <1>2 DEF Leave, Unwind, stmtVars, cmdVars, ExecInv, ExecTypeOK
  <2>. QED BY <2>1, <2>2, <2>3, PopKeeps DEF ResetGuard
<1>3. CASE RowCallbackLeaves(n)
  <2>1. depth # 0 /\ Top.guard = NoStmt
    BY <1>3, Leaving DEF RowCallbackLeaves
  <2>2. HandlesInv'
    BY <1>3, SameHandles DEF RowCallbackLeaves, ExecInv
  <2>. QED
    BY <1>3, <2>1, <2>2, PopKeeps DEF RowCallbackLeaves, vars, ExecInv, ExecTypeOK
<1>. QED BY <1>1, <1>2, <1>3

-----------------------------------------------------------------------------
(* Entering execute.                                                       *)

\* Nothing happens to the active calls or to a cursor.
LEMMA QuietKeeps ==
    ASSUME ExecInv, ExecTypeOK', HandlesInv', depth' = depth, pos' = pos, ub => ub',
           UNCHANGED <<made, cmdStmt, stmtConn, stmtSql>>,
           \A n \in 1..depth : frames'[n] = frames[n]
    PROVE  ExecInv'
<1>1. ASSUME NEW n \in 1..depth PROVE Seated(n)' /\ Follows(n)' /\ (Sole(n)' <=> Sole(n))
  BY LevelKept DEF ExecInv, Seated
<1>2. IdleIsReset'
  BY DEF ExecInv, IdleIsReset
<1>3. RowsInOrder' /\ Alone'
  BY <1>1 DEF ExecInv, RowsInOrder, Alone
<1>. QED BY <1>1, <1>2, <1>3 DEF ExecInv, Compiled

\* A Command on an open connection: its statement, and when its cursor is at 0.
LEMMA OwnCursor ==
    ASSUME ExecInv, ~ub, NEW c \in Commands, cmdConn[c] # NoConn, sl3db[cmdConn[c]] = "open",
           cmdStmt[c] # NoStmt
    PROVE  /\ cmdStmt[c] \in Stmts /\ stmtConn[cmdStmt[c]] # NoConn
           /\ ~BindRefused(c) /\ ParamCount[stmtSql[cmdStmt[c]]] > 0 => pos[cmdStmt[c]] = 0
<1>1. cmdStmt[c] \in Stmts
  BY DEF ExecInv, HandlesInv, Types
<1>2. stmtConn[cmdStmt[c]] = cmdConn[c] /\ stmtSql[cmdStmt[c]] = cmdSql[c]
  BY DEF ExecInv, HandlesInv, OwnStatement
<1>. QED BY <1>1, <1>2 DEF BindRefused

\* The loop starts, as a new innermost call or after its onStart.
LEMMA EnterLoopKeeps ==
    ASSUME ExecInv, ~ub, NEW n \in 1..MaxDepth, NEW c \in Commands, NEW rowcb \in BOOLEAN,
           NEW given \in Given,
           (n = depth /\ Top.phase = "onStart") \/ n = depth + 1,
           \A m \in 1..(n - 1) : frames[m].phase \in {"onStart", "callback", "onEnd"},
           c \in made, cmdConn[c] # NoConn, sl3db[cmdConn[c]] = "open", ~BindRefused(c),
           EnterLoop(n, c, rowcb, given), UNCHANGED <<connVars, stmtVars, cmdVars, ub>>
    PROVE  ExecInv'
<1>. DEFINE s == cmdStmt[c]
            alone == \A m \in 1..(n - 1) : s = NoStmt \/ frames[m].guard # s
            f == [NoFrame EXCEPT !.cmd = c, !.rowcb = rowcb, !.phase = "step",
                                 !.given = given, !.guard = s, !.clean = alone]
            g(j) == [frames[j] EXCEPT !.clean = @ /\ (s = NoStmt \/ frames[j].guard # s)]
<1>1. /\ depth' = n /\ pos' = pos /\ ub' = ub /\ n \in Nat /\ depth \in Nat
      /\ frames' = [j \in 1..MaxDepth |-> IF j = n THEN f ELSE g(j)]
      /\ UNCHANGED <<made, cmdStmt, stmtConn, stmtSql>>
      /\ \A m \in 1..(n - 1) : m \in 1..depth /\ m \in 1..MaxDepth /\ m # n
      /\ \A m \in 1..n : m = n \/ m \in 1..(n - 1)
      /\ \A j \in 1..depth : j = n \/ j \in 1..(n - 1)
  <2>1. depth \in Nat /\ n \in Nat
    BY LevelTypes DEF ExecInv
  <2>2. n = depth \/ n = depth + 1
    OBVIOUS
  <2>3. /\ \A m \in 1..(n - 1) : m \in 1..depth /\ m \in 1..MaxDepth /\ m # n
        /\ \A m \in 1..n : m = n \/ m \in 1..(n - 1)
        /\ \A j \in 1..depth : j = n \/ j \in 1..(n - 1)
    <3>. HIDE DEF f, g
    <3>. QED BY <2>1, <2>2, ExecutionAssumption
  <2>. QED BY <2>1, <2>3 DEF EnterLoop, stmtVars, cmdVars
<1>2. /\ s \in Stmts \cup {NoStmt} /\ alone \in BOOLEAN
      /\ f \in Frame /\ f.cmd = c /\ f.phase = "step" /\ f.guard = s /\ f.selfGone = FALSE
      /\ f.stmtGone = FALSE /\ f.last = 0 /\ f.ordered = TRUE /\ f.clean = alone
  <2>1. s \in Stmts \cup {NoStmt} /\ alone \in BOOLEAN
    BY DEF ExecInv, HandlesInv, Types
  <2>. HIDE DEF alone, s
  <2>. QED BY <2>1 DEF NoFrame, Frame, Phases, Given
<1>3. ASSUME NEW j \in 1..MaxDepth
      PROVE  /\ g(j) \in Frame /\ g(j).cmd = frames[j].cmd /\ g(j).phase = frames[j].phase
             /\ g(j).guard = frames[j].guard /\ g(j).selfGone = frames[j].selfGone
             /\ g(j).stmtGone = frames[j].stmtGone /\ g(j).last = frames[j].last
             /\ g(j).ordered = frames[j].ordered /\ g(j).rowcb = frames[j].rowcb
             /\ g(j).clean <=> frames[j].clean /\ (s = NoStmt \/ frames[j].guard # s)
  <2>1. frames[j] \in Frame
    BY <1>3, LevelTypes DEF ExecInv
  <2>. HIDE DEF s
  <2>. QED BY <2>1 DEF Frame
<1>. HIDE DEF f, g
<1>4. frames'[n] = f /\ \A m \in 1..(n - 1) : frames'[m] = g(m)
  BY <1>1
\* The statement has a fresh cursor if nobody else is on it or if it has parameters.
<1>5. ASSUME s # NoStmt, alone \/ ParamCount[stmtSql[s]] > 0 PROVE pos[s] = 0
  <2>1. CASE ParamCount[stmtSql[s]] > 0
    BY <1>5, <2>1, OwnCursor
  <2>2. CASE alone
    <3> SUFFICES ASSUME pos[s] # 0 PROVE FALSE
      OBVIOUS
    <3>1. PICK j \in 1..depth : frames[j].guard = s
      BY <1>2, <1>5 DEF ExecInv, IdleIsReset
    <3>2. j \in 1..(n - 1)
      <4>1. j # n
        BY <1>1, <1>5, <3>1, LevelTypes DEF ExecInv
      <4>. QED BY <1>1, <4>1
    <3>. QED BY <1>5, <2>2, <3>1, <3>2
  <2>. QED BY <1>5, <2>1, <2>2
<1>6. Sole(n)' => s # NoStmt /\ (alone \/ ParamCount[stmtSql[s]] > 0)
  BY <1>1, <1>2, <1>4 DEF Sole
<1>7. Seated(n)' /\ Follows(n)'
  <2>1. s # NoStmt => s \in Stmts /\ stmtConn[s] # NoConn
    BY OwnCursor
  <2>2. Seated(n)'
    BY <1>1, <1>2, <1>4, <2>1 DEF Seated, Looping
  <2>3. ASSUME Sole(n)' PROVE RowCount[stmtSql'[s]] \in Nat
    <3>1. s \in Stmts /\ stmtConn[s] # NoConn
      BY <1>6, <2>1, <2>3
    <3>. QED BY <1>1, <3>1, ExecutionAssumption DEF ExecInv, Compiled
  <2>4. Follows(n)'
    BY <1>1, <1>2, <1>4, <1>5, <1>6, <2>3 DEF Follows
  <2>. QED BY <2>2, <2>4
<1>8. ASSUME NEW m \in 1..(n - 1)
      PROVE  /\ Seated(m)' /\ Follows(m)' /\ (Sole(m)' => Sole(m)) /\ m \in 1..depth
             /\ Sole(m)' /\ frames[m].guard = s => ParamCount[stmtSql[s]] > 0
             /\ s # NoStmt /\ frames[m].guard = s /\ ~frames[m].stmtGone => ~(ParamCount[stmtSql[s]] > 0)
  <2>1. /\ m \in 1..depth /\ m \in 1..MaxDepth /\ frames'[m] = g(m)
        /\ Seated(m) /\ Follows(m) /\ frames[m].phase \in {"onStart", "callback", "onEnd"}
    BY <1>1, <1>4, <1>8 DEF ExecInv
  <2>2. Seated(m)'
    BY <1>1, <1>3, <2>1 DEF Seated
  <2>3. Sole(m)' => Sole(m)
    BY <1>1, <1>3, <2>1 DEF Sole
  <2>4. Follows(m)'
    BY <1>1, <1>3, <2>1, <2>3 DEF Follows
  <2>5. Sole(m)' /\ frames[m].guard = s => ParamCount[stmtSql[s]] > 0
    BY <1>1, <1>3, <2>1 DEF Sole
  <2>6. ASSUME s # NoStmt, frames[m].guard = s, ~frames[m].stmtGone, ParamCount[stmtSql[s]] > 0
        PROVE  FALSE
    <3>1. frames[m].phase = "callback"
      BY <2>1, <2>6, LevelTypes DEF ExecInv
    <3>. QED BY <1>5, <2>1, <2>6, <3>1 DEF Seated, Follows, Sole
  <2>. QED BY <2>1, <2>2, <2>3, <2>4, <2>5, <2>6
<1>9. Alone'
  <2> SUFFICES ASSUME NEW i \in 1..n, NEW j \in 1..n, Sole(i)', ~frames'[j].stmtGone,
                      frames'[j].guard = frames'[i].guard
               PROVE  i = j
    BY <1>1 DEF Alone
  <2>1. CASE i # n /\ j # n
    BY <1>1, <1>3, <1>4, <1>8, <2>1 DEF ExecInv, Alone
  <2>2. CASE i = n /\ j # n
    <3>1. j \in 1..(n - 1) /\ frames[j].guard = s /\ ~frames[j].stmtGone
      BY <1>1, <1>2, <1>3, <1>4, <2>2
    <3>. QED BY <1>6, <1>8, <2>2, <3>1
  <2>3. CASE i # n /\ j = n
    <3>1. i \in 1..(n - 1) /\ frames[i].guard = s /\ Sole(i)
      BY <1>1, <1>2, <1>3, <1>4, <1>8, <2>3
    <3>. QED BY <1>8, <3>1 DEF Sole
  <2>. QED BY <2>1, <2>2, <2>3
<1>10. RowsInOrder'
  BY <1>1, <1>2, <1>3, <1>4 DEF ExecInv, RowsInOrder
<1>11. IdleIsReset'
  <2> SUFFICES ASSUME NEW t \in Stmts, pos[t] # 0 PROVE \E j \in 1..n : frames'[j].guard = t
    BY <1>1 DEF IdleIsReset
  <2>1. PICK j \in 1..depth : frames[j].guard = t
    BY DEF ExecInv, IdleIsReset
  <2>2. j # n
    BY <1>1, <2>1, LevelTypes, HandlesAssumption DEF ExecInv
  <2>3. j \in 1..(n - 1)
    BY <1>1, <2>2
  <2>. QED BY <1>1, <1>3, <1>4, <2>1, <2>3
<1>12. HandlesInv' /\ TypeOK' /\ dangling' \in SUBSET Stmts
  BY CallHandles DEF EnterLoop, Answers, Rebound, ExecInv, ExecTypeOK
<1>13. ExecTypeOK'
  <2>1. frames' \in [1..MaxDepth -> Frame]
    BY <1>1, <1>2, <1>3
  <2>2. ASSUME NEW j \in 1..MaxDepth
        PROVE  /\ j <= n <=> frames'[j].phase # "none"
               /\ frames'[j].phase \in {"onStart", "onEnd"} => frames'[j].rowcb /\ frames'[j].guard = NoStmt
    <3>1. CASE j = n
      BY <1>1, <1>2, <3>1
    <3>2. CASE j # n
      <4>1. frames'[j].phase = frames[j].phase /\ frames'[j].guard = frames[j].guard
            /\ frames'[j].rowcb = frames[j].rowcb
        BY <1>1, <1>3, <3>2
      <4>. QED BY <1>1, <3>2, <4>1, LevelTypes DEF ExecInv
    <3>. QED BY <3>1, <3>2
  <2>. QED BY <1>1, <1>12, <2>1, <2>2 DEF ExecTypeOK, ExecInv
<1>. QED
  <2>1. \A m \in 1..depth' : Seated(m)' /\ Follows(m)'
    BY <1>1, <1>7, <1>8
  <2>2. Compiled'
    BY <1>1 DEF ExecInv, Compiled
  <2>. QED BY <1>9, <1>10, <1>11, <1>12, <1>13, <2>1, <2>2 DEF ExecInv

\* The loop starts, or execute throws before it.
LEMMA BeginKeeps ==
    ASSUME ExecInv, ~ub, NEW n \in 1..MaxDepth, NEW c \in Commands, NEW rowcb \in BOOLEAN,
           NEW given \in Given,
           (n = depth /\ Top.phase = "onStart") \/ n = depth + 1,
           \A m \in 1..(n - 1) : frames[m].phase \in {"onStart", "callback", "onEnd"},
           c \in made, cmdConn[c] # NoConn, Begin(n, c, rowcb, given)
    PROVE  ExecInv'
<1>1. UNCHANGED <<connVars, stmtVars, cmdVars, ub>> /\ UNCHANGED <<made, cmdStmt, stmtConn, stmtSql>>
  BY DEF Begin, stmtVars, cmdVars
<1>2. CASE sl3db[cmdConn[c]] = "open" /\ ~BindRefused(c) /\ EnterLoop(n, c, rowcb, given)
  BY <1>1, <1>2, EnterLoopKeeps
<1>3. CASE \E err \in Answers : /\ depth' = n - 1 /\ frames' = [frames EXCEPT ![n] = NoFrame]
                                /\ Returns("execute", c, err)
                                /\ UNCHANGED pos /\ dangling' \in SUBSET Stmts
  <2>1. HandlesInv' /\ TypeOK'
    BY <1>1, <1>3, CallHandles DEF ExecInv
  <2>2. /\ depth \in Nat /\ depth <= MaxDepth /\ MaxDepth \in Nat
        /\ frames \in [1..MaxDepth -> Frame]
    BY LevelTypes DEF ExecInv, ExecTypeOK
  <2>3. CASE n = depth /\ Top.phase = "onStart"
    <3>1. depth # 0 /\ Top.guard = NoStmt
      BY <2>3, Leaving
    <3>2. Pop
      BY <1>3, <2>3 DEF Pop
    <3>. QED BY <1>1, <1>3, <2>1, <3>1, <3>2, PopKeeps
  <2>4. CASE n = depth + 1
    <3>1. depth' = depth /\ \A m \in 1..depth : frames'[m] = frames[m]
      BY <1>3, <2>2, <2>4
    <3>2. frames' \in [1..MaxDepth -> Frame] /\ frames'[n] = NoFrame
          /\ \A m \in 1..MaxDepth : m # n => frames'[m] = frames[m]
      BY <1>3, <2>2, NoFrameType
    <3>3. ASSUME NEW m \in 1..MaxDepth
          PROVE  /\ m <= depth <=> frames'[m].phase # "none"
                 /\ frames'[m].phase \in {"onStart", "onEnd"} => frames'[m].rowcb /\ frames'[m].guard = NoStmt
      <4>1. CASE m = n
        BY <2>2, <2>4, <3>2, <4>1 DEF NoFrame
      <4>2. CASE m # n
        BY <3>2, <4>2, LevelTypes DEF ExecInv
      <4>. QED BY <4>1, <4>2
    <3>4. ExecTypeOK'
      BY <1>1, <1>3, <2>1, <3>1, <3>2, <3>3 DEF ExecInv, ExecTypeOK
    <3>. QED BY <1>1, <1>3, <2>1, <3>1, <3>4, QuietKeeps
  <2>. QED BY <2>3, <2>4
<1>4. dangling \in SUBSET Stmts /\ Assigned(given, cmdStmt[c]) \in SUBSET Stmts
  BY DEF Assigned, ExecInv, ExecTypeOK, HandlesInv, Types
<1>. QED
  BY <1>2, <1>3, <1>4 DEF Begin, Answers, RefusedCursor

\* Where user code has control, all active calls are in their callbacks.
LEMMA InCallbacks ==
    ASSUME ExecInv, UserCode
    PROVE  /\ ~ub /\ depth \in Nat
           /\ \A m \in 1..depth : frames[m].phase \in {"onStart", "callback", "onEnd"}
<1>1. depth \in Nat /\ depth <= MaxDepth /\ MaxDepth \in Nat
  BY LevelTypes DEF ExecInv
<1>2. ASSUME NEW m \in 1..depth PROVE frames[m].phase \in {"onStart", "callback", "onEnd"}
  <2>1. CASE m < depth
    BY <2>1 DEF ExecInv, Seated
  <2>2. CASE m = depth
    BY <1>1, <2>2, LevelTypes DEF ExecInv, UserCode
  <2>. QED BY <1>1, <2>1, <2>2
<1>. QED BY <1>1, <1>2 DEF UserCode

LEMMA CallExecuteKeeps ==
    ASSUME ExecInv, NEW c \in Commands, NEW given \in Given, CallExecute(c, given)
    PROVE  ExecInv'
<1>1. /\ depth + 1 \in 1..MaxDepth /\ 1..((depth + 1) - 1) = 1..depth
  BY LevelTypes DEF CallExecute, ExecInv
<1>. QED BY <1>1, InCallbacks, BeginKeeps DEF CallExecute

LEMMA OnStartKeeps ==
    ASSUME ExecInv, OnStartReturns, ~ub'
    PROVE  ExecInv'
<1>1. /\ depth \in 1..MaxDepth /\ Top = frames[depth] /\ Top \in Frame /\ Top.cmd \in Commands
      /\ Seated(depth) /\ ~ub /\ Top.phase = "onStart"
  BY Leaving DEF OnStartReturns
<1>2. Top.cmd \in made /\ cmdConn[Top.cmd] # NoConn /\ Begin(depth, Top.cmd, TRUE, Top.given)
  BY <1>1 DEF OnStartReturns, Seated
<1>3. \A m \in 1..(depth - 1) : frames[m].phase \in {"onStart", "callback", "onEnd"}
  <2>1. \A m \in 1..(depth - 1) : m \in 1..depth /\ m < depth
    BY LevelTypes DEF ExecInv
  <2>. QED BY <2>1 DEF ExecInv, Seated
<1>4. Top.given \in Given
  BY <1>1 DEF Frame
<1>. QED BY <1>1, <1>2, <1>3, <1>4, BeginKeeps

LEMMA CallExecuteRowKeeps ==
    ASSUME ExecInv, NEW c \in Commands, NEW given \in Given, CallExecuteRow(c, given)
    PROVE  ExecInv'
<1>0. PICK n \in 1..MaxDepth : n = depth + 1
  BY LevelTypes DEF CallExecuteRow, ExecInv
<1>. DEFINE f == [NoFrame EXCEPT !.cmd = c, !.rowcb = TRUE, !.phase = "onStart", !.given = given]
<1>1. /\ depth \in Nat /\ n \in 1..MaxDepth /\ depth' = n /\ n # 0
      /\ \A m \in 1..depth : m \in 1..MaxDepth /\ m # n /\ m \in 1..n
      /\ \A m \in 1..n : m = n \/ m \in 1..depth
  BY <1>0, LevelTypes DEF CallExecuteRow, ExecInv
<1>2. /\ frames' = [frames EXCEPT ![n] = f]
      /\ UNCHANGED <<vars, pos, dangling, ub>> /\ UNCHANGED <<made, cmdStmt, stmtConn, stmtSql>>
      /\ c \in made
  BY <1>0 DEF CallExecuteRow, vars
<1>3. /\ f \in Frame /\ f.cmd = c /\ f.rowcb = TRUE /\ f.phase = "onStart" /\ f.guard = NoStmt
      /\ f.ordered = TRUE /\ f.selfGone = FALSE
  BY DEF NoFrame, Frame, Phases, Given
<1>. HIDE DEF f
<1>4. /\ frames' \in [1..MaxDepth -> Frame] /\ frames'[n] = f
      /\ \A m \in 1..MaxDepth : m # n => frames'[m] = frames[m]
  BY <1>1, <1>2, <1>3 DEF ExecInv, ExecTypeOK
<1>5. ~Sole(n)' /\ Seated(n)' /\ Follows(n)'
  BY <1>1, <1>2, <1>3, <1>4 DEF Sole, Seated, Follows, Looping
<1>6. ASSUME NEW m \in 1..depth PROVE Seated(m)' /\ Follows(m)' /\ (Sole(m)' <=> Sole(m))
  <2>1. Seated(m) /\ Follows(m) /\ frames[m].phase \in {"onStart", "callback", "onEnd"}
    BY InCallbacks DEF ExecInv, CallExecuteRow
  <2>2. frames'[m] = frames[m]
    BY <1>1, <1>4
  <2>. QED BY <1>2, <2>1, <2>2, LevelKept
<1>7. HandlesInv' /\ TypeOK'
  BY <1>2, SameHandles DEF ExecInv
<1>8. ExecTypeOK'
  <2>1. ASSUME NEW m \in 1..MaxDepth
        PROVE  /\ m <= n <=> frames'[m].phase # "none"
               /\ frames'[m].phase \in {"onStart", "onEnd"} => frames'[m].rowcb /\ frames'[m].guard = NoStmt
    <3>1. CASE m = n
      BY <1>1, <1>3, <1>4, <3>1
    <3>2. CASE m # n
      BY <1>1, <1>4, <3>2, LevelTypes DEF ExecInv
    <3>. QED BY <3>1, <3>2
  <2>. QED BY <1>1, <1>2, <1>4, <1>7, <2>1, ExecutionAssumption DEF ExecInv, ExecTypeOK
<1>9. Alone'
  <2> SUFFICES ASSUME NEW i \in 1..n, NEW j \in 1..n, Sole(i)', ~frames'[j].stmtGone,
                      frames'[j].guard = frames'[i].guard
               PROVE  i = j
    BY <1>1 DEF Alone
  <2>1. i \in 1..depth /\ j \in 1..depth
    BY <1>1, <1>3, <1>4, <1>5 DEF Sole
  <2>. QED BY <1>1, <1>4, <1>6, <2>1 DEF ExecInv, Alone
<1>10. RowsInOrder'
  BY <1>1, <1>3, <1>4 DEF ExecInv, RowsInOrder
<1>11. IdleIsReset'
  BY <1>1, <1>2, <1>4 DEF ExecInv, IdleIsReset
<1>. QED
  <2>1. Compiled'
    BY <1>2 DEF ExecInv, Compiled
  <2>2. \A m \in 1..depth' : Seated(m)' /\ Follows(m)'
    BY <1>1, <1>5, <1>6
  <2>. QED BY <1>7, <1>8, <1>9, <1>10, <1>11, <2>1, <2>2 DEF ExecInv

-----------------------------------------------------------------------------
(* What else user code does, and undefined behaviour.                      *)

\* Nothing moves but sqlite's view of the parameters, or the program is lost.
LEMMA StandingKeeps ==
    ASSUME ExecInv, UNCHANGED <<vars, frames, depth, pos>>, ub' \in {ub, TRUE},
           dangling' \in SUBSET Stmts
    PROVE  ExecInv'
<1>1. HandlesInv' /\ TypeOK' /\ UNCHANGED <<made, cmdStmt, stmtConn, stmtSql>>
  BY SameHandles DEF ExecInv, vars
<1>2. ub' \in BOOLEAN /\ (ub => ub')
  BY Zenon DEF ExecInv, ExecTypeOK
<1>3. ExecTypeOK'
  BY <1>1, <1>2 DEF ExecInv, ExecTypeOK
<1>4. depth' = depth /\ pos' = pos /\ \A n \in 1..depth : frames'[n] = frames[n]
  OBVIOUS
<1>. QED BY <1>1, <1>2, <1>3, <1>4, QuietKeeps

\* What an operation on objects leaves of a Command and of a statement.
LEMMA ObjectsAfter ==
    ASSUME HandlesInv, Compiled, ObjectOperation
    PROVE  /\ Next /\ HandlesInv' /\ TypeOK' /\ Compiled'
           /\ \A c \in made : c \in made' => cmdStmt'[c] \in {cmdStmt[c], NoStmt}
           /\ \A s \in Stmts : stmtConn[s] # NoConn /\ stmtConn'[s] = stmtConn[s]
                                   => stmtSql'[s] = stmtSql[s]
<1>. DEFINE Result == /\ \A c \in made : c \in made' => cmdStmt'[c] \in {cmdStmt[c], NoStmt}
                      /\ \A s \in Stmts : stmtConn[s] # NoConn /\ stmtConn'[s] = stmtConn[s]
                                              => stmtSql'[s] = stmtSql[s]
                      /\ Compiled'
<1>0. Types
  BY DEF HandlesInv
<1>1. ASSUME NEW d \in Databases, NEW k \in Connections, OpenDatabase(d, k) PROVE Next /\ Result
  BY <1>0, <1>1 DEF OpenDatabase, stmtVars, cmdVars, Next, DatabaseNext, Compiled
<1>2. ASSUME NEW d \in Databases, CloseDatabase(d) PROVE Next /\ Result
  <2>1. \A s \in Stmts : stmtConn'[s] \in {stmtConn[s], NoConn}
    BY <1>2 DEF CloseDatabase, Release, CloseStmts
  <2>2. \A s \in Stmts : stmtConn'[s] # NoConn => stmtSql'[s] = stmtSql[s]
    BY <1>2 DEF CloseDatabase, Release
  <2>. QED BY <1>2, <2>1, <2>2 DEF CloseDatabase, Next, DatabaseNext, Compiled
<1>3. ASSUME NEW d \in Databases, NEW c \in Commands, NEW q \in Sql, NEW s \in Stmts \cup {NoStmt},
             Prepare(d, c, q, s)
      PROVE  Next /\ Result
  <2>1. \A e \in made : cmdStmt'[e] = cmdStmt[e]
    BY <1>0, <1>3 DEF Prepare, Construct, Types
  <2>2. CASE UNCHANGED stmtVars
    BY <1>3, <2>1, <2>2 DEF stmtVars, Next, DatabaseNext, Compiled
  <2>3. CASE /\ s \in Stmts /\ stmtConn[s] = NoConn
             /\ stmtConn' = [stmtConn EXCEPT ![s] = dbConn[d]] /\ stmtSql' = [stmtSql EXCEPT ![s] = q]
    BY <1>0, <1>3, <2>1, <2>3 DEF Next, DatabaseNext, Compiled, Types
  <2>. QED BY <1>3, <2>2, <2>3 DEF Prepare, Compiles
<1>4. ASSUME NEW c \in Commands, NEW e \in Commands, MoveCommand(c, e) PROVE Next /\ Result
  <2>1. \A x \in made : cmdStmt'[x] \in {cmdStmt[x], NoStmt}
    BY <1>0, <1>4 DEF MoveCommand, Types
  <2>. QED BY <1>4, <2>1 DEF MoveCommand, stmtVars, Next, CommandNext, Compiled
<1>5. ASSUME NEW c \in Commands, DestroyCommand(c) PROVE Next /\ Result
  <2>1. \A s \in Stmts : stmtConn'[s] \in {stmtConn[s], NoConn}
    BY <1>0, <1>5 DEF DestroyCommand, Release, Types
  <2>2. \A s \in Stmts : stmtConn'[s] # NoConn => stmtSql'[s] = stmtSql[s]
    BY <1>5 DEF DestroyCommand, Release
  <2>3. \A x \in made : cmdStmt'[x] \in {cmdStmt[x], NoStmt}
    BY <1>0, <1>5 DEF DestroyCommand, Types
  <2>. QED BY <1>5, <2>1, <2>2, <2>3 DEF Next, CommandNext, Compiled
<1>6. Next /\ Result
  BY <1>1, <1>2, <1>3, <1>4, <1>5 DEF ObjectOperation
<1>. QED BY <1>6, InvNext DEF HandlesInv, TypeOK

LEMMA ObjectsKeep ==
    ASSUME ExecInv, ObjectOperation
    PROVE  ExecInv'
<1>1. /\ HandlesInv' /\ TypeOK' /\ Compiled'
      /\ \A c \in made : c \in made' => cmdStmt'[c] \in {cmdStmt[c], NoStmt}
      /\ \A s \in Stmts : stmtConn[s] # NoConn /\ stmtConn'[s] = stmtConn[s]
                              => stmtSql'[s] = stmtSql[s]
  BY ObjectsAfter DEF ExecInv
<1>. DEFINE g(n) == [frames[n] EXCEPT
                       !.selfGone = @ \/ (frames[n].cmd # NoCommand /\ frames[n].cmd \notin made'),
                       !.stmtGone = @ \/ (frames[n].guard # NoStmt /\
                                          stmtConn'[frames[n].guard] # stmtConn[frames[n].guard])]
<1>2. /\ depth' = depth /\ ub' = ub
      /\ frames' = [n \in 1..MaxDepth |-> g(n)]
      /\ pos' = [s \in Stmts |-> IF stmtConn'[s] = stmtConn[s] THEN pos[s] ELSE 0]
      /\ dangling' \in SUBSET Stmts
  BY DEF ObjectOperation, Witnessed, ExecInv, ExecTypeOK
<1>3. ASSUME NEW n \in 1..MaxDepth
      PROVE  /\ g(n) \in Frame /\ g(n).cmd = frames[n].cmd /\ g(n).phase = frames[n].phase
             /\ g(n).guard = frames[n].guard /\ g(n).last = frames[n].last
             /\ g(n).ordered = frames[n].ordered /\ g(n).rowcb = frames[n].rowcb
             /\ g(n).clean = frames[n].clean
             /\ g(n).selfGone <=> frames[n].selfGone \/
                                  (frames[n].cmd # NoCommand /\ frames[n].cmd \notin made')
             /\ g(n).stmtGone <=> frames[n].stmtGone \/
                                  (frames[n].guard # NoStmt /\
                                   stmtConn'[frames[n].guard] # stmtConn[frames[n].guard])
  <2>1. frames[n] \in Frame
    BY <1>3, LevelTypes DEF ExecInv
  <2>. QED BY <2>1 DEF Frame
<1>. HIDE DEF g
<1>4. \A n \in 1..depth : n \in 1..MaxDepth /\ frames'[n] = g(n) /\ frames[n] \in Frame
  BY <1>2, LevelTypes DEF ExecInv
<1>5. ASSUME NEW n \in 1..depth PROVE Seated(n)' /\ Follows(n)' /\ (Sole(n)' => Sole(n))
  <2>1. Seated(n) /\ Follows(n) /\ n \in 1..MaxDepth /\ frames'[n] = g(n) /\ frames[n] \in Frame
    BY <1>4 DEF ExecInv
  <2>2. ASSUME ~g(n).selfGone
        PROVE  /\ frames[n].cmd \in made'
               /\ frames[n].phase \in Looping => cmdStmt'[frames[n].cmd] \in {NoStmt, frames[n].guard}
    <3>1. frames[n].cmd \in made /\ frames[n].cmd \in made'
      BY <1>3, <2>1, <2>2, HandlesAssumption DEF Seated
    <3>. QED BY <1>1, <1>3, <2>1, <2>2, <3>1 DEF Seated
  <2>3. ASSUME frames[n].guard # NoStmt, ~g(n).stmtGone
        PROVE  /\ frames[n].guard \in Stmts /\ ~frames[n].stmtGone
               /\ stmtConn'[frames[n].guard] # NoConn
               /\ stmtSql'[frames[n].guard] = stmtSql[frames[n].guard]
               /\ pos'[frames[n].guard] = pos[frames[n].guard]
    <3>1. /\ frames[n].guard \in Stmts /\ ~frames[n].stmtGone
          /\ stmtConn'[frames[n].guard] = stmtConn[frames[n].guard]
      BY <1>3, <2>1, <2>3 DEF Frame
    <3>. QED BY <1>1, <1>2, <2>1, <2>3, <3>1 DEF Seated
  <2>4. Seated(n)'
    BY <1>2, <1>3, <2>1, <2>2, <2>3 DEF Seated
  <2>5. Sole(n)' => Sole(n)
    BY <1>3, <2>1, <2>3 DEF Sole
  <2>6. Follows(n)'
    BY <1>3, <2>1, <2>3, <2>5 DEF Follows, Sole
  <2>. QED BY <2>4, <2>5, <2>6
<1>6. Alone'
  BY <1>2, <1>3, <1>4, <1>5 DEF ExecInv, Alone
<1>7. RowsInOrder'
  BY <1>2, <1>3, <1>4 DEF ExecInv, RowsInOrder
<1>8. IdleIsReset'
  BY <1>2, <1>3, <1>4 DEF ExecInv, IdleIsReset
<1>9. ExecTypeOK'
  <2>1. frames' \in [1..MaxDepth -> Frame]
    BY <1>2, <1>3
  <2>2. \A n \in 1..MaxDepth :
           /\ n <= depth <=> frames'[n].phase # "none"
           /\ frames'[n].phase \in {"onStart", "onEnd"} => frames'[n].rowcb /\ frames'[n].guard = NoStmt
    BY <1>2, <1>3, LevelTypes DEF ExecInv
  <2>3. pos' \in [Stmts -> Nat \cup {Halted}]
    BY <1>2 DEF ExecInv, ExecTypeOK
  <2>. QED BY <1>1, <1>2, <2>1, <2>2, <2>3 DEF ExecInv, ExecTypeOK
<1>. QED BY <1>1, <1>2, <1>5, <1>6, <1>7, <1>8, <1>9 DEF ExecInv

-----------------------------------------------------------------------------
(* The theorems.                                                           *)

LEMMA ExecInvInit == ExecInit => ExecInv
<1> SUFFICES ASSUME ExecInit PROVE ExecInv
  OBVIOUS
<1>1. HandlesInv /\ TypeOK
  <2>1. Types
    BY HandlesAssumption DEF ExecInit, Init, Types, Ops, Answers
  <2>. QED
    BY <2>1, HandlesAssumption
       DEF ExecInit, HandlesInv, TypeOK, Init, Slots, OneOwner, Counted, Referenced, OwnStatement,
           StatementsDieFirst
<1>2. Compiled
  BY DEF ExecInit, Init, Compiled
<1>3. depth = 0 /\ 1..depth = {} /\ NoFrame.phase = "none"
  BY DEF ExecInit, NoFrame
<1>4. ExecTypeOK
  <2>1. \A n \in 1..MaxDepth : frames[n] = NoFrame /\ ~(n <= depth)
    BY <1>3 DEF ExecInit
  <2>2. frames \in [1..MaxDepth -> Frame]
    BY NoFrameType DEF ExecInit
  <2>3. \A n \in 1..MaxDepth :
           /\ n <= depth <=> frames[n].phase # "none"
           /\ frames[n].phase \in {"onStart", "onEnd"} => frames[n].rowcb /\ frames[n].guard = NoStmt
    BY <1>3, <2>1
  <2>4. pos \in [Stmts -> Nat \cup {Halted}] /\ dangling \in SUBSET Stmts /\ ub \in BOOLEAN
    BY DEF ExecInit
  <2>5. depth \in 0..MaxDepth
    BY <1>3, ExecutionAssumption
  <2>. QED BY <1>1, <2>2, <2>3, <2>4, <2>5 DEF ExecTypeOK
<1>5. IdleIsReset
  BY DEF ExecInit, IdleIsReset
<1>. QED BY <1>1, <1>2, <1>3, <1>4, <1>5 DEF ExecInv, RowsInOrder, Alone

LEMMA ExecInvNext == ExecInv /\ [ExecNext]_allVars => ExecInv'
<1> SUFFICES ASSUME ExecInv, [ExecNext]_allVars PROVE ExecInv'
  OBVIOUS
<1>0. dangling \in SUBSET Stmts /\ MaxDepth \in Nat /\ 1 \in 1..MaxDepth
  BY LevelTypes DEF ExecInv, ExecTypeOK
<1>1. CASE StepRow
  BY <1>1, StepRowKeeps
<1>2. CASE StepDone \/ StepFails
  BY <1>2, StepEndsKeeps
<1>3. CASE StepNull
  BY <1>3, PhaseKeeps DEF StepNull
<1>4. CASE StepUndefined
  BY <1>0, <1>4, StandingKeeps DEF StepUndefined
<1>5. CASE Leave \/ Unwind
  BY <1>0, <1>5, LeavingKeeps
<1>6. ASSUME NEW c \in Commands, NEW given \in Given, CallExecute(c, given) \/ CallExecuteRow(c, given)
      PROVE  ExecInv'
  BY <1>6, CallExecuteKeeps, CallExecuteRowKeeps
<1>7. ASSUME NEW c \in Commands, ChangeParameters(c) PROVE ExecInv'
  <2>1. cmdStmt[c] \in Stmts
    BY <1>7 DEF ChangeParameters, ExecInv, HandlesInv, Types
  <2>. QED BY <1>0, <1>7, <2>1, StandingKeeps DEF ChangeParameters
<1>8. CASE OnStartReturns
  <2>1. CASE ub' = TRUE /\ UNCHANGED <<vars, frames, depth, pos, dangling>>
    BY <1>0, <2>1, StandingKeeps
  <2>2. CASE Begin(depth, Top.cmd, TRUE, Top.given)
    <3>1. ~ub'
      BY <1>8, <2>2 DEF OnStartReturns, Begin
    <3>. QED BY <1>8, <3>1, OnStartKeeps
  <2>. QED BY <1>8, <2>1, <2>2 DEF OnStartReturns
<1>9. ASSUME NEW n \in 1..MaxDepth, CallbackReturns(n) PROVE ExecInv'
  BY <1>9, PhaseKeeps DEF CallbackReturns
<1>10. ASSUME NEW n \in 1..MaxDepth, RowCallbackLeaves(n) PROVE ExecInv'
  BY <1>10, LeavingKeeps
<1>11. CASE ObjectOperation
  BY <1>11, ObjectsKeep
<1>12. CASE UNCHANGED allVars
  BY <1>0, <1>12, StandingKeeps DEF allVars, execVars
<1>. QED
  BY <1>1, <1>2, <1>3, <1>4, <1>5, <1>6, <1>7, <1>8, <1>9, <1>10, <1>11, <1>12
     DEF ExecNext, LibraryStep, CallStep

\* In every reachable state, however calls of execute nest and whatever callbacks
\* do to the objects, each call sits on its Command and its statement as the code
\* assumes, and the cursor of a statement it has to itself is on its row.
THEOREM CallsAreNested == ExecSpec => []ExecInv
BY ExecInvInit, ExecInvNext, PTL DEF ExecSpec

\* Every variable of a running execute keeps to its type, and onStart and onEnd run
\* outside the ResetGuard.
THEOREM ExecutionTypes == ExecSpec => []ExecTypeOK
BY CallsAreNested, PTL DEF ExecInv

\* A statement that no active call runs has been reset.
THEOREM IdleStatementsAreReset == ExecSpec => []IdleIsReset
BY CallsAreNested, PTL DEF ExecInv

\* A call that has its statement to itself hands out its rows in order.
THEOREM RowsComeInOrder == ExecSpec => []RowsInOrder
BY CallsAreNested, PTL DEF ExecInv

\* A call on a statement with parameters hands out its rows in order even if its
\* callbacks execute the same Command.
THEOREM ReentryIsRefused == ExecSpec => []ReentrySparesParameterized
<1>1. ExecInv => ReentrySparesParameterized
  BY DEF ExecInv, ReentrySparesParameterized, Follows, Sole
<1>. QED BY <1>1, CallsAreNested, PTL

\* Columns in a callback read the row the callback was called for.
THEOREM ColumnsKeepTheirRow == ExecSpec => []ColumnsShowTheRow
<1>1. ExecInv => ColumnsShowTheRow
  BY DEF ExecInv, ColumnsShowTheRow, Seated, Follows, Sole
<1>. QED BY <1>1, CallsAreNested, PTL

\* A call that ends because sqlite reported the end has handed out every row.
THEOREM NoRowIsSkipped == ExecSpec => AllRowsSeen
<1>. DEFINE A == \A n \in 1..MaxDepth :
                   /\ frames[n].phase = "step" /\ frames'[n].phase = "leaving" /\ frames[n].clean
                   => frames[n].last = RowCount[stmtSql[frames[n].guard]]
<1>1. ExecInv /\ [ExecNext]_allVars => A
  <2> SUFFICES ASSUME ExecInv, [ExecNext]_allVars, NEW n \in 1..MaxDepth,
                      frames[n].phase = "step", frames'[n].phase = "leaving", frames[n].clean
               PROVE  frames[n].last = RowCount[stmtSql[frames[n].guard]]
    OBVIOUS
  <2>1. n = depth /\ depth # 0 /\ Top = frames[n] /\ Top.phase = "step" /\ frames \in [1..MaxDepth -> Frame]
    <3>1. n \in 1..depth /\ depth \in Nat
      BY LevelTypes DEF ExecInv
    <3>2. n = depth
      BY <3>1 DEF ExecInv, Seated
    <3>. QED BY <3>1, <3>2 DEF Top, ExecInv, ExecTypeOK
  <2>2. CASE StepDone
    <3>1. /\ Seated(depth) /\ Follows(depth) /\ Top.guard \in Stmts /\ ~Top.stmtGone
          /\ Sole(depth) => NextRow = Top.last + 1
      BY <2>2, Stepping DEF StepDone
    <3>2. Sole(depth)
      BY <2>1, <3>1, HandlesAssumption DEF Sole
    <3>3. RowCount[stmtSql[Top.guard]] \in Nat /\ Top.last \in Nat
      BY <2>1, <3>1, ExecutionAssumption, HandlesAssumption, LevelTypes DEF Seated, ExecInv, Compiled, Frame
    <3>. QED BY <2>1, <2>2, <3>1, <3>2, <3>3 DEF StepDone, Follows
  <2>0. Top \in Frame
    BY <2>1, LevelTypes DEF ExecInv
  <2>3. CASE StepRow \/ StepFails \/ StepNull \/ StepUndefined
    <3>1. StepRow => frames'[n].phase = "callback"
      BY <2>0, <2>1 DEF StepRow, Frame
    <3>2. StepFails \/ StepNull => frames'[n].phase = "throwing"
      BY <2>0, <2>1 DEF StepFails, StepNull, Frame
    <3>3. StepUndefined => frames'[n].phase = "step"
      BY <2>1 DEF StepUndefined
    <3>. QED BY <2>3, <3>1, <3>2, <3>3
  <2>4. CASE ObjectOperation
    BY <2>0, <2>1, <2>4 DEF ObjectOperation, UserCode
  <2>5. CASE UNCHANGED frames
    BY <2>5
  <2>. QED
    BY <2>1, <2>2, <2>3, <2>4, <2>5
       DEF ExecNext, LibraryStep, CallStep, CallExecute, CallExecuteRow, ChangeParameters, UserCode,
           OnStartReturns, CallbackReturns, RowCallbackLeaves, Leave, Unwind, allVars, execVars
<1>. QED BY <1>1, CallsAreNested, PTL DEF ExecSpec, AllRowsSeen

-----------------------------------------------------------------------------
(* Callbacks that do no more to a running Command than execute it.         *)

\* The call at level n will find its Command, its statement and its parameters as
\* execute left them when it handed over control.
Intact(n) ==
    /\ frames[n].phase # "onEnd" => ~frames[n].selfGone /\ cmdConn[frames[n].cmd] # NoConn
    /\ frames[n].guard # NoStmt => ~frames[n].stmtGone /\ frames[n].guard \notin dangling
    /\ frames[n].phase \in Looping => /\ cmdStmt[frames[n].cmd] = frames[n].guard
                                      /\ sl3db[cmdConn[frames[n].cmd]] = "open"
    /\ frames[n].phase = "onStart" /\ frames[n].given \in {"fit", "illtyped"} =>
          \A m \in 1..(n - 1) :
              frames[m].guard # NoStmt => frames[m].guard # cmdStmt[frames[n].cmd]

Untouched == ~ub /\ \A n \in 1..depth : Intact(n)

\* A level stays intact while the handles and its pointers do.
LEMMA IntactKept ==
    ASSUME NEW n \in 1..depth, Intact(n), UNCHANGED <<cmdConn, cmdStmt, sl3db>>,
           frames'[n].cmd = frames[n].cmd, frames'[n].guard = frames[n].guard,
           frames'[n].given = frames[n].given, frames'[n].selfGone = frames[n].selfGone,
           frames'[n].stmtGone = frames[n].stmtGone,
           frames'[n].phase = frames[n].phase \/ {frames[n].phase, frames'[n].phase} \subseteq Looping,
           frames[n].guard # NoStmt /\ frames[n].guard \notin dangling => frames[n].guard \notin dangling',
           \A m \in 1..(n - 1) : frames'[m].guard = frames[m].guard
    PROVE  Intact(n)'
BY DEF Intact, Looping

\* Only the phase and the row of the innermost call change.
LEMMA LoopIntact ==
    ASSUME ExecInv, Untouched, NEW n \in 1..MaxDepth,
           StepRow \/ StepDone \/ StepFails \/ StepNull \/ CallbackReturns(n)
    PROVE  Untouched'
<1>1. /\ ~ub' /\ depth' = depth /\ depth \in Nat /\ UNCHANGED <<cmdConn, cmdStmt, sl3db, dangling>>
      /\ Top.phase \in {"step", "callback"}
  BY LevelTypes
     DEF StepRow, StepDone, StepFails, StepNull, CallbackReturns, CanStep, vars, Untouched, ExecInv
<1>2. depth \in 1..MaxDepth /\ Top = frames[depth] /\ Top \in Frame /\ frames \in [1..MaxDepth -> Frame]
  BY <1>1, LevelTypes DEF NoFrame, ExecInv, ExecTypeOK
<1>3. \E f \in Frame :
         /\ frames' = [frames EXCEPT ![depth] = f]
         /\ f.cmd = Top.cmd /\ f.guard = Top.guard /\ f.given = Top.given
         /\ f.selfGone = Top.selfGone /\ f.stmtGone = Top.stmtGone /\ f.phase \in Looping
  <2>1. CASE StepRow
    <3>. DEFINE f == [Top EXCEPT !.phase = "callback", !.last = NextRow,
                                 !.ordered = @ /\ NextRow = Top.last + 1]
    <3>1. frames' = [frames EXCEPT ![depth] = f]
      BY <1>2, <2>1 DEF StepRow
    <3>2. NextRow \in Nat
      BY <2>1, Stepping DEF StepRow
    <3>3. /\ f \in Frame /\ f.cmd = Top.cmd /\ f.guard = Top.guard /\ f.given = Top.given
          /\ f.selfGone = Top.selfGone /\ f.stmtGone = Top.stmtGone /\ f.phase \in Looping
      BY <1>2, <3>2 DEF Frame, Phases, Looping
    <3>. HIDE DEF f
    <3>. QED BY <3>1, <3>3
  <2>2. CASE StepDone \/ StepFails \/ StepNull \/ CallbackReturns(n)
    <3>1. PICK next \in {"step", "leaving", "throwing"} : frames' = [frames EXCEPT ![depth].phase = next]
      BY <2>2 DEF StepDone, StepFails, StepNull, CallbackReturns
    <3>. DEFINE f == [Top EXCEPT !.phase = next]
    <3>2. frames' = [frames EXCEPT ![depth] = f]
      BY <1>2, <3>1
    <3>3. /\ f \in Frame /\ f.cmd = Top.cmd /\ f.guard = Top.guard /\ f.given = Top.given
          /\ f.selfGone = Top.selfGone /\ f.stmtGone = Top.stmtGone /\ f.phase \in Looping
      BY <1>2 DEF Frame, Phases, Looping
    <3>. HIDE DEF f
    <3>. QED BY <3>2, <3>3
  <2>. QED BY <2>1, <2>2
<1>4. PICK f \in Frame :
         /\ frames' = [frames EXCEPT ![depth] = f]
         /\ f.cmd = Top.cmd /\ f.guard = Top.guard /\ f.given = Top.given
         /\ f.selfGone = Top.selfGone /\ f.stmtGone = Top.stmtGone /\ f.phase \in Looping
  BY <1>3
<1>5. ASSUME NEW m \in 1..depth PROVE Intact(m)'
  <2>1. /\ m \in 1..MaxDepth /\ frames'[m] = (IF m = depth THEN f ELSE frames[m])
        /\ \A j \in 1..(m - 1) : frames'[j] = frames[j]
    BY <1>2, <1>4, LevelTypes DEF ExecInv
  <2>2. Intact(m)
    BY DEF Untouched
  <2>3. m = depth => frames[m].phase \in Looping
    BY <1>1, <1>2 DEF Looping
  <2>. QED BY <1>1, <1>2, <1>4, <2>1, <2>2, <2>3, IntactKept
<1>. QED BY <1>1, <1>5 DEF Untouched

\* A call ends or, under a RowCallback, is left with its onEnd.
LEMMA LeavingIntact ==
    ASSUME ExecInv, Untouched, NEW n \in 1..MaxDepth,
           Leave \/ Unwind \/ RowCallbackLeaves(n)
    PROVE  Untouched'
<1>1. /\ depth \in 1..MaxDepth /\ depth \in 1..depth /\ Top = frames[depth] /\ Top \in Frame
      /\ frames \in [1..MaxDepth -> Frame]
  BY Leaving DEF Leave, Unwind, RowCallbackLeaves, ExecInv, ExecTypeOK
<1>2. UNCHANGED <<cmdConn, cmdStmt, sl3db, dangling>>
  BY DEF Leave, Unwind, RowCallbackLeaves, vars, connVars, cmdVars
<1>3. ~ub'
  <2>1. ~ub /\ (Top.guard # NoStmt => ~Top.stmtGone)
    BY <1>1 DEF Untouched, Intact
  <2>. QED BY <2>1 DEF Leave, Unwind, RowCallbackLeaves, ResetGuard
<1>4. \/ depth' = depth - 1
      \/ depth' = depth /\ frames'[depth].phase = "onEnd" /\ frames'[depth].guard = NoStmt
  <2>1. CASE Pop
    BY <2>1 DEF Pop
  <2>2. CASE /\ depth' = depth
             /\ frames' = [frames EXCEPT ![depth].phase = "onEnd", ![depth].guard = NoStmt]
    <3>. DEFINE f == [frames[depth] EXCEPT !.phase = "onEnd", !.guard = NoStmt]
    <3>1. frames'[depth] = f
      BY <1>1, <2>2
    <3>2. f.phase = "onEnd" /\ f.guard = NoStmt
      BY <1>1 DEF Frame
    <3>. QED BY <2>2, <3>1, <3>2
  <2>. QED BY <2>1, <2>2 DEF Leave, Unwind, RowCallbackLeaves
<1>5. \A m \in 1..MaxDepth : m # depth => frames'[m] = frames[m]
  BY <1>1 DEF Leave, Unwind, RowCallbackLeaves, Pop
<1>6. ASSUME NEW m \in 1..depth' PROVE Intact(m)'
  <2>1. CASE m = depth
    <3>1. frames'[m].phase = "onEnd" /\ frames'[m].guard = NoStmt
      BY <1>1, <1>4, <2>1
    <3>. QED BY <3>1 DEF Intact, Looping
  <2>2. CASE m # depth
    <3>1. m \in 1..depth /\ m \in 1..MaxDepth /\ \A j \in 1..(m - 1) : j \in 1..MaxDepth /\ j # depth
      BY <1>1, <1>4, <2>2, ExecutionAssumption
    <3>2. Intact(m) /\ frames'[m] = frames[m]
      BY <1>5, <2>2, <3>1 DEF Untouched
    <3>. QED BY <1>2, <1>5, <3>1, <3>2, IntactKept
  <2>. QED BY <2>1, <2>2
<1>. QED BY <1>3, <1>6 DEF Untouched

\* No active call's statement is touched by changing the parameters of a Command
\* that no active call uses.
LEMMA Bystanders ==
    ASSUME InCallback \subseteq {"reenter"}, NEW c \in Commands, May("parameters", c)
    PROVE  \A m \in 1..depth : frames[m].guard # NoStmt => frames[m].guard # cmdStmt[c]
BY DEF May, InUse

\* The loop starts, or execute throws; the parameters given are nobody else's.
LEMMA BeginIntact ==
    ASSUME ExecInv, Untouched, NEW n \in 1..MaxDepth, NEW c \in Commands, NEW rowcb \in BOOLEAN,
           NEW given \in Given, n = depth \/ n = depth + 1,
           cmdConn[c] # NoConn, Begin(n, c, rowcb, given),
           given \in {"fit", "illtyped"} =>
              \A m \in 1..(n - 1) : frames[m].guard # NoStmt => frames[m].guard # cmdStmt[c]
    PROVE  Untouched'
<1>1. /\ UNCHANGED <<cmdConn, cmdStmt, sl3db>> /\ ~ub'
      /\ depth' \in {n - 1, n}
      /\ depth' = n => sl3db[cmdConn[c]] = "open" /\ EnterLoop(n, c, rowcb, given)
      /\ frames \in [1..MaxDepth -> Frame]
  <2>1. depth' = n - 1 \/ (depth' = n /\ sl3db[cmdConn[c]] = "open" /\ EnterLoop(n, c, rowcb, given))
    BY DEF Begin, EnterLoop
  <2>. QED BY <2>1 DEF Begin, connVars, cmdVars, Untouched, ExecInv, ExecTypeOK
<1>2. ASSUME NEW m \in 1..(n - 1)
      PROVE  /\ m \in 1..depth /\ m # n /\ m \in 1..MaxDepth /\ Intact(m)
             /\ \A j \in 1..(m - 1) : j \in 1..MaxDepth /\ j # n
  <2>1. depth \in Nat /\ depth <= MaxDepth /\ MaxDepth \in Nat
    BY LevelTypes DEF ExecInv
  <2>. QED BY <2>1 DEF Untouched
<1>3. ASSUME NEW j \in 1..MaxDepth, j # n
      PROVE  /\ frames'[j].cmd = frames[j].cmd /\ frames'[j].guard = frames[j].guard
             /\ frames'[j].given = frames[j].given /\ frames'[j].selfGone = frames[j].selfGone
             /\ frames'[j].stmtGone = frames[j].stmtGone /\ frames'[j].phase = frames[j].phase
  <2>1. CASE frames' = [frames EXCEPT ![n] = NoFrame]
    BY <1>1, <1>3, <2>1
  <2>2. CASE EnterLoop(n, c, rowcb, given)
    <3>1. /\ frames[j] \in Frame
          /\ frames'[j] = [frames[j] EXCEPT
                             !.clean = @ /\ (cmdStmt[c] = NoStmt \/ frames[j].guard # cmdStmt[c])]
      BY <1>1, <1>3, <2>2 DEF EnterLoop
    <3>. QED BY <3>1 DEF Frame
  <2>. QED BY <2>1, <2>2 DEF Begin
<1>4. ASSUME NEW m \in 1..(n - 1) PROVE Intact(m)'
  <2>1. frames[m].guard # NoStmt /\ frames[m].guard \notin dangling => frames[m].guard \notin dangling'
    BY <1>4 DEF Begin, Assigned, EnterLoop, Rebound
  <2>. QED BY <1>1, <1>2, <1>3, <2>1, IntactKept
<1>5. ASSUME depth' = n PROVE Intact(n)'
  <2>. DEFINE s == cmdStmt[c]
              alone == \A m \in 1..(n - 1) : s = NoStmt \/ frames[m].guard # s
              f == [NoFrame EXCEPT !.cmd = c, !.rowcb = rowcb, !.phase = "step",
                                   !.given = given, !.guard = s, !.clean = alone]
  <2>1. frames'[n] = f /\ dangling' = dangling \ {s}
    BY <1>1, <1>5 DEF EnterLoop, Rebound
  <2>2. f.cmd = c /\ f.phase = "step" /\ f.guard = s /\ f.selfGone = FALSE /\ f.stmtGone = FALSE
    <3>. HIDE DEF s, alone
    <3>. QED BY DEF NoFrame
  <2>. HIDE DEF f
  <2>. QED BY <1>1, <1>5, <2>1, <2>2 DEF Intact
<1>6. \A m \in 1..depth' : m \in 1..(n - 1) \/ (m = n /\ depth' = n)
  BY <1>1, ExecutionAssumption
<1>. QED BY <1>1, <1>4, <1>5, <1>6 DEF Untouched

LEMMA CallsIntact ==
    ASSUME InCallback \subseteq {"reenter"}, ExecInv, Untouched, NEW c \in Commands, NEW given \in Given,
           CallExecute(c, given) \/ CallExecuteRow(c, given) \/ ChangeParameters(c)
    PROVE  Untouched'
<1>0. depth \in Nat /\ depth <= MaxDepth /\ MaxDepth \in Nat /\ frames \in [1..MaxDepth -> Frame]
  BY LevelTypes DEF ExecInv, ExecTypeOK
<1>1. CASE CallExecute(c, given)
  <2>1. depth + 1 \in 1..MaxDepth /\ 1..((depth + 1) - 1) = 1..depth
    BY <1>0, <1>1 DEF CallExecute
  <2>2. given \in {"fit", "illtyped"} =>
           \A m \in 1..depth : frames[m].guard # NoStmt => frames[m].guard # cmdStmt[c]
    BY <1>1, Bystanders DEF CallExecute, Passes
  <2>. QED BY <1>1, <2>1, <2>2, BeginIntact DEF CallExecute
<1>2. CASE CallExecuteRow(c, given)
  <2>0. PICK n \in 1..MaxDepth : n = depth + 1
    BY <1>0, <1>2 DEF CallExecuteRow
  <2>. DEFINE f == [NoFrame EXCEPT !.cmd = c, !.rowcb = TRUE, !.phase = "onStart", !.given = given]
  <2>1. /\ ~ub' /\ depth' = n /\ UNCHANGED <<cmdConn, cmdStmt, sl3db, dangling>> /\ cmdConn[c] # NoConn
        /\ frames'[n] = f /\ \A m \in 1..MaxDepth : m # n => frames'[m] = frames[m]
    BY <1>0, <1>2, <2>0 DEF CallExecuteRow, vars, Untouched
  <2>2. f.cmd = c /\ f.phase = "onStart" /\ f.guard = NoStmt /\ f.selfGone = FALSE /\ f.given = given
    BY DEF NoFrame
  <2>. HIDE DEF f
  <2>3. given \in {"fit", "illtyped"} =>
           \A m \in 1..depth : frames[m].guard # NoStmt => frames[m].guard # cmdStmt[c]
    BY <1>2, Bystanders DEF CallExecuteRow, Passes
  <2>4. ASSUME NEW m \in 1..depth PROVE Intact(m)'
    <3>1. m \in 1..MaxDepth /\ m # n /\ \A j \in 1..(m - 1) : j \in 1..MaxDepth /\ j # n
      BY <1>0, <2>0
    <3>. QED BY <2>1, <3>1, IntactKept DEF Untouched
  <2>5. \A m \in 1..(n - 1) : m \in 1..depth /\ m \in 1..MaxDepth /\ m # n
    BY <1>0, <2>0
  <2>6. Intact(n)'
    BY <2>1, <2>2, <2>3, <2>5 DEF Intact, Looping
  <2>7. \A m \in 1..depth' : m \in 1..depth \/ m = n
    BY <1>0, <2>0, <2>1
  <2>. QED BY <2>1, <2>4, <2>6, <2>7 DEF Untouched
<1>3. CASE ChangeParameters(c)
  <2>1. /\ ~ub' /\ dangling' = dangling \cup {cmdStmt[c]}
        /\ UNCHANGED <<frames, depth, cmdConn, cmdStmt, sl3db>>
    BY <1>3 DEF ChangeParameters, vars, Untouched
  <2>2. \A m \in 1..depth : frames[m].guard # NoStmt => frames[m].guard # cmdStmt[c]
    BY <1>3, Bystanders DEF ChangeParameters
  <2>. QED BY <2>1, <2>2, IntactKept DEF Untouched
<1>. QED BY <1>1, <1>2, <1>3

\* An object operation leaves a Command that an active call uses, and its
\* connection and statement, as they are.
LEMMA InUseKept ==
    ASSUME InCallback \subseteq {"reenter"}, ExecInv, ObjectOperation,
           NEW x \in made, InUse(x), cmdConn[x] # NoConn
    PROVE  /\ x \in made' /\ cmdConn'[x] = cmdConn[x] /\ cmdStmt'[x] = cmdStmt[x]
           /\ sl3db[cmdConn[x]] = "open" =>
                 /\ sl3db'[cmdConn[x]] = "open"
                 /\ cmdStmt[x] # NoStmt => stmtConn'[cmdStmt[x]] = stmtConn[cmdStmt[x]]
<1>. DEFINE Result == /\ x \in made' /\ cmdConn'[x] = cmdConn[x] /\ cmdStmt'[x] = cmdStmt[x]
                      /\ sl3db[cmdConn[x]] = "open" => sl3db'[cmdConn[x]] = "open"
<1>0. Types /\ x \in Commands /\ cmdConn[x] \in Connections
  BY DEF ExecInv, HandlesInv, Types
<1>1. ASSUME NEW d \in Databases, NEW k \in Connections, OpenDatabase(d, k) PROVE Result
  BY <1>0, <1>1 DEF OpenDatabase, cmdVars, Types
<1>2. ASSUME NEW d \in Databases, CloseDatabase(d),
             \A c \in Commands : cmdConn[c] = dbConn[d] => May("close", c)
      PROVE  Result
  <2>1. cmdConn[x] # dbConn[d]
    BY <1>0, <1>2 DEF May
  <2>2. CloseDb(dbConn[d])[cmdConn[x]] = sl3db[cmdConn[x]]
    BY <1>0, <2>1 DEF CloseDb, Types
  <2>. QED BY <1>0, <1>2, <2>2 DEF CloseDatabase, Release, Referenced
<1>3. ASSUME NEW d \in Databases, NEW c \in Commands, NEW q \in Sql, NEW s \in Stmts \cup {NoStmt},
             Prepare(d, c, q, s)
      PROVE  Result
  BY <1>0, <1>3 DEF Prepare, Construct, connVars, Types
<1>4. ASSUME NEW c \in Commands, NEW e \in Commands, May("move", c), MoveCommand(c, e) PROVE Result
  <2>1. x # c /\ x # e
    BY <1>4 DEF May, MoveCommand
  <2>. QED BY <1>0, <1>4, <2>1 DEF MoveCommand, connVars, Types
<1>5. ASSUME NEW c \in Commands, May("destroy", c), DestroyCommand(c) PROVE Result
  <2>1. x # c
    BY <1>5 DEF May
  <2>2. cmdConn'[x] = cmdConn[x] /\ cmdStmt'[x] = cmdStmt[x] /\ x \in made'
    BY <1>0, <1>5, <2>1 DEF DestroyCommand, Release, Types
  <2>. QED BY <1>0, <1>5, <2>2 DEF DestroyCommand, Release, Referenced
<1>6. Result
  BY <1>1, <1>2, <1>3, <1>4, <1>5 DEF ObjectOperation
<1>7. Next /\ HandlesInv
  BY ObjectsAfter DEF ExecInv
<1>. QED BY <1>0, <1>6, <1>7, StatementKept

LEMMA ObjectsIntact ==
    ASSUME InCallback \subseteq {"reenter"}, ExecInv, Untouched, ObjectOperation
    PROVE  Untouched'
<1>. DEFINE g(n) == [frames[n] EXCEPT
                       !.selfGone = @ \/ (frames[n].cmd # NoCommand /\ frames[n].cmd \notin made'),
                       !.stmtGone = @ \/ (frames[n].guard # NoStmt /\
                                          stmtConn'[frames[n].guard] # stmtConn[frames[n].guard])]
<1>1. /\ depth' = depth /\ ~ub' /\ dangling' \subseteq dangling
      /\ \A n \in 1..MaxDepth : frames'[n] = g(n)
  BY DEF ObjectOperation, Witnessed, Untouched
<1>2. ASSUME NEW n \in 1..MaxDepth
      PROVE  /\ g(n).cmd = frames[n].cmd /\ g(n).phase = frames[n].phase
             /\ g(n).guard = frames[n].guard /\ g(n).given = frames[n].given
             /\ g(n).selfGone <=> frames[n].selfGone \/
                                  (frames[n].cmd # NoCommand /\ frames[n].cmd \notin made')
             /\ g(n).stmtGone <=> frames[n].stmtGone \/
                                  (frames[n].guard # NoStmt /\
                                   stmtConn'[frames[n].guard] # stmtConn[frames[n].guard])
  <2>1. frames[n] \in Frame
    BY <1>2, LevelTypes DEF ExecInv
  <2>. QED BY <2>1 DEF Frame
<1>. HIDE DEF g
<1>3. ASSUME NEW n \in 1..depth PROVE Intact(n)'
  <2>1. /\ n \in 1..MaxDepth /\ frames'[n] = g(n) /\ Intact(n) /\ Seated(n)
        /\ frames[n].guard # NoStmt => frames[n].phase \in Looping
        /\ \A m \in 1..(n - 1) : m \in 1..MaxDepth /\ frames'[m] = g(m)
    <3>1. /\ depth \in Nat /\ depth <= MaxDepth /\ MaxDepth \in Nat /\ n \in 1..MaxDepth
          /\ n <= depth /\ frames[n] \in Frame
      BY LevelTypes DEF ExecInv
    <3>2. frames[n].guard # NoStmt => frames[n].phase \in Looping
      BY <3>1, LevelTypes DEF Frame, Phases, Looping, ExecInv
    <3>. QED BY <1>1, <3>1, <3>2 DEF Untouched, ExecInv
  <2>. DEFINE x == frames[n].cmd
  <2>2. CASE frames[n].phase = "onEnd"
    <3>1. frames[n].guard = NoStmt
      BY <2>1, <2>2 DEF Looping
    <3>. QED BY <1>2, <2>1, <2>2, <3>1 DEF Intact, Looping
  <2>3. CASE frames[n].phase # "onEnd"
    <3>1. x \in made /\ cmdConn[x] # NoConn /\ InUse(x)
      BY <2>1, <2>3 DEF Intact, Seated, InUse
    <3>2. /\ x \in made' /\ cmdConn'[x] = cmdConn[x] /\ cmdStmt'[x] = cmdStmt[x]
          /\ sl3db[cmdConn[x]] = "open" =>
                /\ sl3db'[cmdConn[x]] = "open"
                /\ cmdStmt[x] # NoStmt => stmtConn'[cmdStmt[x]] = stmtConn[cmdStmt[x]]
      BY <3>1, InUseKept
    <3>3. /\ ~g(n).selfGone
          /\ frames[n].guard # NoStmt => ~g(n).stmtGone
      BY <1>2, <2>1, <2>3, <3>2 DEF Intact
    <3>. QED BY <1>1, <1>2, <2>1, <2>3, <3>2, <3>3 DEF Intact
  <2>. QED BY <2>2, <2>3
<1>. QED BY <1>1, <1>3 DEF Untouched

LEMMA UntouchedNext ==
    ASSUME InCallback \subseteq {"reenter"}
    PROVE  ExecInv /\ Untouched /\ [ExecNext]_allVars => Untouched'
<1> SUFFICES ASSUME ExecInv, Untouched, [ExecNext]_allVars PROVE Untouched'
  OBVIOUS
<1>0. 1 \in 1..MaxDepth
  BY LevelTypes DEF ExecInv
<1>1. CASE StepRow \/ StepDone \/ StepFails \/ StepNull
  BY <1>0, <1>1, LoopIntact
<1>2. ~StepUndefined
  <2> SUFFICES ASSUME StepUndefined PROVE FALSE
    OBVIOUS
  <2>1. Top.phase = "step" /\ depth \in 1..depth /\ Top = frames[depth]
    BY LevelTypes DEF StepUndefined, NoFrame, ExecInv
  <2>2. Intact(depth) /\ ~ub
    BY <2>1 DEF Untouched
  <2>. QED BY <2>1, <2>2 DEF StepUndefined, CanStep, Intact, Looping
<1>3. CASE Leave \/ Unwind
  BY <1>0, <1>3, LeavingIntact
<1>4. ASSUME NEW c \in Commands, NEW given \in Given,
             CallExecute(c, given) \/ CallExecuteRow(c, given) \/ ChangeParameters(c)
      PROVE  Untouched'
  BY <1>4, CallsIntact
<1>5. CASE OnStartReturns
  <2>1. /\ depth \in 1..MaxDepth /\ depth \in 1..depth /\ Top = frames[depth] /\ Top \in Frame
        /\ Top.cmd \in Commands /\ Top.phase = "onStart"
    BY <1>5, Leaving DEF OnStartReturns
  <2>2. /\ ~Top.selfGone /\ cmdConn[Top.cmd] # NoConn
        /\ Top.given \in {"fit", "illtyped"} =>
              \A m \in 1..(depth - 1) : frames[m].guard # NoStmt => frames[m].guard # cmdStmt[Top.cmd]
    BY <2>1 DEF Untouched, Intact
  <2>3. Begin(depth, Top.cmd, TRUE, Top.given) /\ Top.given \in Given
    BY <1>5, <2>1, <2>2 DEF OnStartReturns, Frame
  <2>. QED BY <2>1, <2>2, <2>3, BeginIntact
<1>6. ASSUME NEW n \in 1..MaxDepth, CallbackReturns(n) PROVE Untouched'
  BY <1>6, LoopIntact
<1>7. ASSUME NEW n \in 1..MaxDepth, RowCallbackLeaves(n) PROVE Untouched'
  BY <1>7, LeavingIntact
<1>8. CASE ObjectOperation
  BY <1>8, ObjectsIntact
<1>9. CASE UNCHANGED allVars
  BY <1>9, IntactKept DEF allVars, execVars, vars, Untouched
<1>10. "none" \in Given
  BY DEF Given
<1>. QED
  BY <1>1, <1>2, <1>3, <1>4, <1>5, <1>6, <1>7, <1>8, <1>9, <1>10
     DEF ExecNext, LibraryStep, CallStep

\* If callbacks do nothing to a running Command but execute it, no call ever steps
\* or resets a finalized statement, uses a destroyed Command, or lets sqlite read
\* a parameter that is gone.
THEOREM ReentryIsDefined ==
    ASSUME InCallback \subseteq {"reenter"}
    PROVE  ExecSpec => []NoUndefined
<1>1. ExecInit => Untouched
  <2> SUFFICES ASSUME ExecInit PROVE Untouched
    OBVIOUS
  <2>1. ~ub /\ 1..depth = {}
    BY DEF ExecInit
  <2>. QED BY <2>1 DEF Untouched
<1>2. ExecInv /\ Untouched /\ [ExecNext]_allVars => Untouched'
  BY UntouchedNext
<1>3. Untouched => NoUndefined
  BY DEF Untouched, NoUndefined
<1>. QED BY <1>1, <1>2, <1>3, CallsAreNested, PTL DEF ExecSpec
=============================================================================

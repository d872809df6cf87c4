-------------------------------- MODULE Boxes --------------------------------
(***************************************************************************)
(* What a program may rely on when it handles sl3::Values: each is a box   *)
(* with one content, and an operation does to the boxes it names what its  *)
(* name says and nothing to the others.                                    *)
(*                                                                         *)
(* A box takes whatever is put into it, of whatever type, over whatever    *)
(* was in it: an assignment is never refused, and fails for lack of memory *)
(* only.                                                                   *)
(***************************************************************************)
CONSTANTS
    Slots,
    Given,         \* the contents that programs construct and assign
    NullContent,
    MemoryEnds     \* an assignment may run out of memory

VARIABLES
    full,   \* the slots that hold a box
    box,    \* what is in it
    call    \* the operation of the last step

vars == <<full, box, call>>

Init ==
    /\ full = {}
    /\ box = [v \in Slots |-> NullContent]
    /\ call.op = "start"

\* The call of this step is op on box v, with w as the other box.
Is(op, v, w) == call'.op = op /\ call'.to = v /\ call'.from = w

\* The content of before has no say in this.
Fill(v, x) ==
    /\ call'.op \in {"construct", "assign"} /\ call'.to = v /\ call'.with = x
    /\ full' = full \cup {v}
    /\ box' = [box EXCEPT ![v] = x]

Copy(v, w) ==
    /\ Is("copy", v, w) /\ w \in full
    /\ full' = full \cup {v}
    /\ box' = [box EXCEPT ![v] = box[w]]

Move(v, w) ==
    /\ Is("move", v, w) /\ w \in full
    /\ full' = full \cup {v}
    /\ box' = [box EXCEPT ![v] = box[w], ![w] = NullContent]

Swap(v, w) ==
    /\ Is("swap", v, w)
    /\ UNCHANGED full
    /\ box' = [box EXCEPT ![v] = box[w], ![w] = box[v]]

\* Somebody takes the content out.
Take(v) ==
    /\ call'.op = "eject" /\ call'.to = v /\ call'.with = box[v]
    /\ UNCHANGED full
    /\ box' = [box EXCEPT ![v] = NullContent]

Drop(v) ==
    /\ call'.op = "destroy" /\ call'.to = v
    /\ full' = full \ {v}
    /\ box' = [box EXCEPT ![v] = NullContent]

\* An assignment runs out of memory.  Its box keeps what it has or has no data any
\* more, and what is in the others has not changed.
Spoil(v) ==
    /\ MemoryEnds
    /\ call'.op = "throw" /\ call'.to = v
    /\ UNCHANGED full
    /\ box'[v] = box[v] \/ box'[v].data = NullContent.data
    /\ \A w \in Slots \ {v} : box'[w] = box[w]

Next ==
    \E v \in Slots :
        \/ \E x \in Given : Fill(v, x)
        \/ \E w \in Slots : Copy(v, w) \/ Move(v, w) \/ Swap(v, w)
        \/ Take(v) \/ Drop(v) \/ Spoil(v)

Spec == Init /\ [][Next]_vars
=============================================================================

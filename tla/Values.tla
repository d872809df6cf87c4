-------------------------------- MODULE Values -------------------------------
(***************************************************************************)
(* sl3::Value, a tagged union with hand-written lifetimes                  *)
(* (src/src/sl3/value.cpp).  A Value is a tag, _type, and a union, _store, *)
(* in which a std::string or a Blob is constructed by placement new and    *)
(* destroyed by an explicit destructor call.                               *)
(*                                                                         *)
(* A slot is storage for Value objects.  What happens inside it is         *)
(* described by functions on its bytes, one per thing the code does to a   *)
(* union member; the field harm records for ever that a member was used or *)
(* destroyed when it was not alive, or overwritten when it was.            *)
(***************************************************************************)
CONSTANTS
    Slots,        \* storage for Value objects
    Data,         \* payloads: the integers, reals, strings and blobs in use
    Junk,         \* the content of a union that holds nothing in particular
    NoSlot,       \* "no slot"
    AllocMayFail  \* copying a string or a blob may throw std::bad_alloc

Plain == {"Int", "Real"}
Heavy == {"Text", "Blob"}
Tags  == {"Null"} \cup Plain \cup Heavy

ASSUME ValuesAssumption ==
    /\ Junk \notin Data
    /\ NoSlot \notin Slots
    /\ AllocMayFail \in BOOLEAN

VARIABLES
    made,        \* the slots that hold a constructed Value
    store,       \* per slot: tag, the living string or blob, payload, harm
    call,        \* the last operation: what, on which slots, with which value
    failed,      \* history: the slots an assignment failed in
    terminated   \* std::terminate has been called

vars == <<made, store, call, failed, terminated>>

Store   == [tag : Tags, alive : {"none"} \cup Heavy, data : Data \cup {Junk}, harm : {"none", "misused"}]
Content == [type : Tags, data : Data \cup {Junk}]
NullContent == [type |-> "Null", data |-> Junk]

\* What programs construct and assign: a null, or a payload of some type.
Given == {NullContent} \cup [type : Plain \cup Heavy, data : Data]

Calls == {"start", "construct", "copy", "move", "assign", "eject", "swap", "destroy", "throw"}

\* Types, and no leak: a living string or blob is named by the tag of its union
\* (value.cpp resets the tag wherever it destroys), also after a failure.
ValuesTypeOK ==
    /\ made \in SUBSET Slots
    /\ store \in [Slots -> Store]
    /\ call \in [op : Calls, to : Slots \cup {NoSlot}, from : Slots \cup {NoSlot}, with : Content]
    /\ failed \in SUBSET Slots
    /\ terminated \in BOOLEAN
    /\ \A v \in Slots : store[v].alive # "none" => store[v].tag = store[v].alive

\* The tag names exactly what is alive in the union.
Sound(o) == o.alive = IF o.tag \in Heavy THEN o.tag ELSE "none"

ContentOf(o) == [type |-> o.tag, data |-> IF o.tag = "Null" THEN Junk ELSE o.data]

-----------------------------------------------------------------------------
(* What the code does to the bytes of one object.                          *)

\* The string or blob the tag names is destroyed; the tag is left alone.
Ended(o) ==
    IF o.tag \in Heavy
      THEN [o EXCEPT !.alive = "none", !.data = Junk,
                     !.harm = IF o.alive = o.tag THEN @ ELSE "misused"]
      ELSE o

\* A member is written over whatever the union holds.
Placed(o, x) ==
    [o EXCEPT !.alive = IF x.type \in Heavy THEN x.type ELSE "none",
              !.data = x.data,
              !.harm = IF o.alive = "none" THEN @ ELSE "misused"]

Tagged(o, t) == [o EXCEPT !.tag = t]

\* o becomes x: between two strings or two blobs through their own assignment,
\* otherwise the old member goes and the new one is constructed.
Becomes(o, x) ==
    IF x.type \in Heavy /\ o.tag = x.type
      THEN [o EXCEPT !.data = x.data,
                     !.harm = IF o.alive = o.tag THEN @ ELSE "misused"]
      ELSE Tagged(Placed(Ended(o), x), x.type)

\* The copy of the new string or blob throws half way.  Copy assignment sets the
\* tag before it constructs, the assignments from a string or a blob after; so
\* the tag that is left differs.
HalfWay(o, t, left) ==
    IF o.tag = t THEN o ELSE [Ended(o) EXCEPT !.data = Junk, !.tag = left]

\* Reading the member the tag names.
Reading(o) ==
    [o EXCEPT !.harm = IF o.tag \in Heavy /\ o.alive # o.tag THEN "misused" ELSE @]

\* What a move leaves of its source.
MovedFromBug(o) == [o EXCEPT !.alive = "none"]   \* Bug: the tag is not reset
MovedFrom(o) == Tagged(Ended(o), "Null")

-----------------------------------------------------------------------------
(* The operations.  Operators named ...Bug are mistakes the properties must *)
(* catch; nothing else uses them.                                           *)

\* The program is still running and nothing undefined has happened.
Defined == ~terminated /\ \A v \in Slots : store[v].harm = "none"

Called(op, v, w, x) == call' = [op |-> op, to |-> v, from |-> w, with |-> x]

\* The constructors from nothing or a value.
Construct(v, x) ==
    /\ Defined
    /\ v \notin made
    /\ made' = made \cup {v}
    /\ store' = [store EXCEPT ![v] = Tagged(Placed(@, x), x.type)]
    /\ Called("construct", v, NoSlot, x)
    /\ UNCHANGED <<failed, terminated>>

CopyConstruct(v, w) ==
    /\ Defined
    /\ v \notin made /\ w \in made
    /\ made' = made \cup {v}
    /\ store' = [store EXCEPT ![v] = Tagged(Placed(@, ContentOf(store[w])), store[w].tag),
                              ![w] = Reading(@)]
    /\ Called("copy", v, w, NullContent)
    /\ UNCHANGED <<failed, terminated>>

\* The copy constructor is declared noexcept.
CopyConstructFails(v, w) ==
    /\ Defined /\ AllocMayFail
    /\ v \notin made /\ w \in made /\ store[w].tag \in Heavy
    /\ terminated' = TRUE
    /\ UNCHANGED <<made, store, call, failed>>

MoveConstruct(v, w) ==
    /\ Defined
    /\ v \notin made /\ w \in made
    /\ made' = made \cup {v}
    /\ store' = [store EXCEPT ![v] = Tagged(Placed(@, ContentOf(store[w])), store[w].tag),
                              ![w] = MovedFrom(@)]
    /\ Called("move", v, w, NullContent)
    /\ UNCHANGED <<failed, terminated>>

\* ~Value.
Destroy(v) ==
    /\ Defined
    /\ v \in made
    /\ made' = made \ {v}
    /\ store' = [store EXCEPT ![v] = Tagged(Ended(@), "Null")]
    /\ Called("destroy", v, NoSlot, NullContent)
    /\ UNCHANGED <<failed, terminated>>

\* Assignment from an int, a double, a string or a blob, and setNull.  The Value gets
\* the type of x; none of these looks at the type that it has in order to refuse.
Assign(v, x) ==
    /\ Defined
    /\ v \in made
    /\ store' = [store EXCEPT ![v] = Becomes(@, x)]
    /\ Called("assign", v, NoSlot, x)
    /\ UNCHANGED <<made, failed, terminated>>

AssignFails(v, t) ==
    /\ Defined /\ AllocMayFail
    /\ v \in made
    /\ store' = [store EXCEPT ![v] = HalfWay(@, t, @.tag)]
    /\ Called("throw", v, NoSlot, NullContent)
    /\ failed' = failed \cup {v}
    /\ UNCHANGED <<made, terminated>>

\* operator=(const Value&), also of an object to itself.
CopyAssign(v, w) ==
    /\ Defined
    /\ v \in made /\ w \in made
    /\ store' = IF v = w THEN [store EXCEPT ![v] = Reading(@)]
                ELSE [store EXCEPT ![v] = Becomes(@, ContentOf(store[w])), ![w] = Reading(@)]
    /\ Called("copy", v, w, NullContent)
    /\ UNCHANGED <<made, failed, terminated>>

\* A string or blob copied to itself allocates nothing.
CopyAssignFails(v, w) ==
    /\ Defined /\ AllocMayFail
    /\ v # w /\ v \in made /\ w \in made /\ store[w].tag \in Heavy
    /\ store' = [store EXCEPT ![v] = HalfWay(@, store[w].tag, store[w].tag)]
    /\ Called("throw", v, w, NullContent)
    /\ failed' = failed \cup {v}
    /\ UNCHANGED <<made, terminated>>

\* Bug: the source is set to null first.
MoveAssignBug(v, w) ==
    /\ Defined
    /\ v \in made /\ w \in made
    /\ store' = [store EXCEPT ![w] = MovedFrom(@), ![v] = Becomes(@, NullContent)]
    /\ Called("move", v, w, NullContent)
    /\ UNCHANGED <<made, failed, terminated>>

\* operator=(Value&&); an object moved to itself ends up null.
MoveAssign(v, w) ==
    /\ Defined
    /\ v \in made /\ w \in made
    /\ store' = IF v = w THEN [store EXCEPT ![v] = MovedFrom(@)]
                ELSE [store EXCEPT ![v] = Becomes(@, ContentOf(store[w])), ![w] = MovedFrom(@)]
    /\ Called("move", v, w, NullContent)
    /\ UNCHANGED <<made, failed, terminated>>

\* ejectText and ejectBlob, with the type they ask for.
Eject(v) ==
    /\ Defined
    /\ v \in made /\ store[v].tag \in Heavy
    /\ store' = [store EXCEPT ![v] = Tagged(Ended(@), "Null")]
    /\ Called("eject", v, NoSlot, ContentOf(store[v]))
    /\ UNCHANGED <<made, failed, terminated>>

\* swap: other goes to a temporary, *this to other, the temporary to *this, three
\* moves that must also be right when both are one object.
Swap(v, w) ==
    /\ Defined
    /\ v \in made /\ w \in made
    /\ store' = IF v = w THEN [store EXCEPT ![v] = Becomes(MovedFrom(@), ContentOf(@))]
                ELSE [store EXCEPT
                        ![w] = Becomes(MovedFrom(@), ContentOf(store[v])),
                        ![v] = Becomes(MovedFrom(@), ContentOf(store[w]))]
    /\ Called("swap", v, w, NullContent)
    /\ UNCHANGED <<made, failed, terminated>>

-----------------------------------------------------------------------------
(* The specification.                                                      *)

ValuesInit ==
    /\ made = {}
    /\ store = [v \in Slots |-> [tag |-> "Null", alive |-> "none", data |-> Junk, harm |-> "none"]]
    /\ call = [op |-> "start", to |-> NoSlot, from |-> NoSlot, with |-> NullContent]
    /\ failed = {}
    /\ terminated = FALSE

ValuesNext ==
    \E v \in Slots :
        \/ \E x \in Given : Construct(v, x) \/ Assign(v, x)
        \/ \E t \in Heavy : AssignFails(v, t)
        \/ Eject(v) \/ Destroy(v)
        \/ \E w \in Slots :
              \/ CopyConstruct(v, w) \/ CopyConstructFails(v, w) \/ MoveConstruct(v, w)
              \/ CopyAssign(v, w) \/ CopyAssignFails(v, w) \/ MoveAssign(v, w)
              \/ Swap(v, w)

ValuesSpec == ValuesInit /\ [][ValuesNext]_vars

-----------------------------------------------------------------------------
(* Properties.                                                             *)

\* No string or blob is used after its end or destroyed twice, and the tag names
\* what is alive, in every slot in which no assignment has run out of memory:
\* Values that are copied from, moved from or swapped never suffer.
DamageIsLocal ==
    \A v \in Slots \ failed : store[v].harm = "none" /\ Sound(store[v])

\* The refinement: a slot with a Value is a box with its content.
B == INSTANCE Boxes WITH
        MemoryEnds <- AllocMayFail,
        full <- made,
        box  <- [v \in Slots |-> IF v \in made THEN ContentOf(store[v]) ELSE NullContent]

\* Copies copy, moves leave a null behind, swaps exchange, also of an object with
\* itself, and no operation changes any other Value, not even one that fails.  An
\* assignment takes over the type of what is assigned and is never refused for it;
\* value.hpp, 89-94, says of the same operators that they throw ErrTypeMisMatch and
\* that "the type does not change".
ImplementsBoxes == B!Spec
=============================================================================

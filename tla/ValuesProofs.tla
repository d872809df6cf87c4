----------------------------- MODULE ValuesProofs ----------------------------
(***************************************************************************)
(* Theorems about the union in sl3::Value (module Values).                 *)
(***************************************************************************)
EXTENDS Values, TLAPS

\* The inductive invariant: types; the tag names what is alive wherever no
\* assignment has failed; empty storage is empty; only allocation fails.
ValuesInv ==
    /\ ValuesTypeOK
    /\ DamageIsLocal
    /\ \A v \in Slots \ made : store[v].tag = "Null"

\* What the functions on the bytes of an object preserve.
LEMMA EndedStore ==
    ASSUME NEW o \in Store
    PROVE  /\ Ended(o) \in Store
           /\ Ended(o).tag = o.tag
           /\ (o.alive # "none" => o.tag = o.alive) => Ended(o).alive = "none"
           /\ o.harm = "none" /\ Sound(o) => Ended(o).harm = "none"
BY DEF Ended, Store, Sound, Heavy, Tags, Plain

\* Writing a member over an empty union is no misuse.
LEMMA PlacedStore ==
    ASSUME NEW o \in Store, NEW x \in Content
    PROVE  /\ Placed(o, x) \in Store
           /\ Placed(o, x).alive = IF x.type \in Heavy THEN x.type ELSE "none"
           /\ o.harm = "none" /\ o.alive = "none" => Placed(o, x).harm = "none"
BY DEF Placed, Store, Content, Heavy, Tags, Plain

\* Construction in empty storage makes a sound object.
LEMMA ConstructedSound ==
    ASSUME NEW o \in Store, NEW x \in Content
    PROVE  /\ Tagged(Placed(o, x), x.type) \in Store
           /\ Sound(Tagged(Placed(o, x), x.type))
           /\ o.harm = "none" /\ o.alive = "none" => Tagged(Placed(o, x), x.type).harm = "none"
BY DEF Placed, Tagged, Sound, Store, Content, Heavy, Tags, Plain

\* Assignment makes a sound object of a sound one, and never leaks.
LEMMA BecomesSound ==
    ASSUME NEW o \in Store, o.alive # "none" => o.tag = o.alive, NEW x \in Content
    PROVE  /\ Becomes(o, x) \in Store
           /\ Becomes(o, x).alive # "none" => Becomes(o, x).tag = Becomes(o, x).alive
           /\ o.harm = "none" /\ Sound(o) => Becomes(o, x).harm = "none" /\ Sound(Becomes(o, x))
BY DEF Becomes, Ended, Placed, Tagged, Sound, Store, Content, Heavy, Tags, Plain

\* A move leaves a sound null behind.
LEMMA MovedFromSound ==
    ASSUME NEW o \in Store, o.alive # "none" => o.tag = o.alive
    PROVE  /\ MovedFrom(o) \in Store
           /\ MovedFrom(o).alive = "none"
           /\ MovedFrom(o).tag = "Null"
           /\ o.harm = "none" /\ Sound(o) => MovedFrom(o).harm = "none" /\ Sound(MovedFrom(o))
BY DEF MovedFrom, Ended, Tagged, Sound, Store, Content, Heavy, Tags, Plain

\* Reading a sound object changes nothing.
LEMMA ReadingSound ==
    ASSUME NEW o \in Store
    PROVE  /\ Reading(o) \in Store
           /\ Reading(o).alive = o.alive /\ Reading(o).tag = o.tag
           /\ Sound(o) => Reading(o) = o
BY DEF Reading, Sound, Store, Heavy, Tags, Plain

\* An assignment that fails leaks nothing.
LEMMA HalfWayStore ==
    ASSUME NEW o \in Store, o.alive # "none" => o.tag = o.alive,
           NEW t \in Heavy, NEW left \in Tags, left \in {t, o.tag}
    PROVE  /\ HalfWay(o, t, left) \in Store
           /\ HalfWay(o, t, left).alive # "none" => HalfWay(o, t, left).tag = HalfWay(o, t, left).alive
BY DEF HalfWay, Ended, Store, Heavy, Tags, Plain

\* What an object holds is a content.
LEMMA ContentType ==
    ASSUME NEW o \in Store
    PROVE  ContentOf(o) \in Content /\ ContentOf(o).type = o.tag
BY DEF ContentOf, Content, Store

\* What an operation may do to one slot: keep it in its type and free of leaks,
\* and, unless its object is damaged, sound.
Kept(v, o) ==
    /\ o \in Store
    /\ o.alive # "none" => o.tag = o.alive
    /\ v \notin failed => o.harm = "none" /\ Sound(o)

\* The contents programs give are contents.
LEMMA GivenContent == Given \subseteq Content /\ NullContent \in Content
BY DEF Given, Content, NullContent, Plain, Heavy, Tags

\* The invariant says just that of every slot.
LEMMA KeptNow ==
    ASSUME ValuesInv
    PROVE  \A v \in Slots : store[v] \in Store /\ Kept(v, store[v])
BY DEF ValuesInv, ValuesTypeOK, DamageIsLocal, Kept

\* What keeps every slot, keeps the invariant.
LEMMA InvFromKept ==
    ASSUME ValuesInv,
           DOMAIN store' = Slots, store' = [v \in Slots |-> store'[v]],
           \A v \in Slots : Kept(v, store'[v]),
           \A v \in Slots \ made' : store'[v].tag = "Null",
           made' \in SUBSET Slots, UNCHANGED failed,
           terminated' \in BOOLEAN,
           call' \in [op : Calls, to : Slots \cup {NoSlot}, from : Slots \cup {NoSlot}, with : Content]
    PROVE  ValuesInv'
BY DEF ValuesInv, ValuesTypeOK, DamageIsLocal, Kept

\* What each operation makes of a slot.
LEMMA KeptBy ==
    ASSUME ValuesInv, NEW v \in Slots, NEW x \in Content
    PROVE  /\ Kept(v, Becomes(store[v], x))
           /\ Kept(v, MovedFrom(store[v]))
           /\ Kept(v, Becomes(MovedFrom(store[v]), x))
           /\ Kept(v, Reading(store[v]))
           /\ Kept(v, Tagged(Ended(store[v]), "Null"))
           /\ v \notin made => Kept(v, Tagged(Placed(store[v], x), x.type))
<1>1. store[v] \in Store /\ Kept(v, store[v])
  BY KeptNow
<1>2. Kept(v, Becomes(store[v], x))
  BY <1>1, BecomesSound DEF Kept
<1>3. Kept(v, MovedFrom(store[v]))
  BY <1>1, MovedFromSound DEF Kept
<1>4. Kept(v, Becomes(MovedFrom(store[v]), x))
  BY <1>3, BecomesSound DEF Kept
<1>5. Kept(v, Reading(store[v]))
  BY <1>1, ReadingSound DEF Kept
<1>6. Kept(v, Tagged(Ended(store[v]), "Null"))
  BY <1>3 DEF MovedFrom
<1>7. ASSUME v \notin made PROVE Kept(v, Tagged(Placed(store[v], x), x.type))
  <2>1. store[v].tag = "Null" /\ store[v].alive = "none"
    BY <1>1, <1>7 DEF ValuesInv, Kept, Store, Heavy
  <2> QED
    BY <1>1, <2>1, ConstructedSound DEF Kept, Sound, Content, Heavy, Plain, Tags
<1> QED
  BY <1>2, <1>3, <1>4, <1>5, <1>6, <1>7

\* The invariant is inductive.
LEMMA InvNext == ValuesInv /\ [ValuesNext]_vars => ValuesInv'
<1> SUFFICES ASSUME ValuesInv, [ValuesNext]_vars PROVE ValuesInv'
  OBVIOUS
<1> USE DEF Called
<1>0. /\ made \in SUBSET Slots /\ failed \in SUBSET Slots /\ terminated \in BOOLEAN
      /\ store \in [Slots -> Store]
      /\ \A v \in Slots : store[v] \in Store /\ Kept(v, store[v])
      /\ \A v \in Slots : ContentOf(store[v]) \in Content /\ ContentOf(store[v]).type = store[v].tag
      /\ \A v \in Slots \ made : store[v].tag = "Null"
  BY KeptNow, ContentType DEF ValuesInv, ValuesTypeOK
<1>1. ASSUME NEW v \in Slots, NEW x \in Given, Construct(v, x) PROVE ValuesInv'
  <2>1. x \in Content
    BY GivenContent
  <2>2. Kept(v, Tagged(Placed(store[v], x), x.type))
    BY <1>1, <2>1, KeptBy DEF Construct
  <2> QED
    BY <1>0, <1>1, <2>1, <2>2, InvFromKept DEF Construct, Calls
<1>2. ASSUME NEW v \in Slots, NEW x \in Given, Assign(v, x) PROVE ValuesInv'
  <2>1. x \in Content
    BY GivenContent
  <2>2. Kept(v, Becomes(store[v], x))
    BY <2>1, KeptBy
  <2> QED
    BY <1>0, <1>2, <2>1, <2>2, InvFromKept DEF Assign, Calls
<1>3. ASSUME NEW v \in Slots, NEW t \in Heavy, AssignFails(v, t) PROVE ValuesInv'
  <2>1. /\ HalfWay(store[v], t, store[v].tag) \in Store
        /\ HalfWay(store[v], t, store[v].tag).alive # "none" =>
             HalfWay(store[v], t, store[v].tag).tag = HalfWay(store[v], t, store[v].tag).alive
    <3>1. store[v].tag \in Tags
      BY <1>0 DEF Store
    <3> QED
      BY <1>0, <3>1, HalfWayStore DEF Kept
  <2> QED
    BY <1>0, <1>3, <2>1, GivenContent
       DEF AssignFails, ValuesInv, ValuesTypeOK, DamageIsLocal, Calls
<1>4. ASSUME NEW v \in Slots, Eject(v) PROVE ValuesInv'
  <2>1. Kept(v, Tagged(Ended(store[v]), "Null"))
    BY KeptBy, GivenContent
  <2> QED
    BY <1>0, <1>4, <2>1, InvFromKept DEF Eject, Calls
<1>5. ASSUME NEW v \in Slots, Destroy(v) PROVE ValuesInv'
  <2>1. Kept(v, Tagged(Ended(store[v]), "Null"))
    BY KeptBy, GivenContent
  <2>2. Tagged(Ended(store[v]), "Null").tag = "Null"
    BY <1>0, MovedFromSound DEF Kept, MovedFrom
  <2> QED
    BY <1>0, <1>5, <2>1, <2>2, InvFromKept, GivenContent DEF Destroy, Calls
<1>6. ASSUME NEW v \in Slots, NEW w \in Slots, CopyConstruct(v, w) PROVE ValuesInv'
  <2>1. Kept(v, Tagged(Placed(store[v], ContentOf(store[w])), store[w].tag))
    BY <1>0, <1>6, KeptBy DEF CopyConstruct
  <2>2. Kept(w, Reading(store[w]))
    BY KeptBy, GivenContent
  <2> QED
    BY <1>0, <1>6, <2>1, <2>2, InvFromKept, GivenContent DEF CopyConstruct, Calls
<1>7. ASSUME NEW v \in Slots, NEW w \in Slots, CopyConstructFails(v, w) PROVE ValuesInv'
  BY <1>0, <1>7 DEF CopyConstructFails, ValuesInv, ValuesTypeOK, DamageIsLocal
<1>8. ASSUME NEW v \in Slots, NEW w \in Slots, MoveConstruct(v, w) PROVE ValuesInv'
  <2>1. Kept(v, Tagged(Placed(store[v], ContentOf(store[w])), store[w].tag))
    BY <1>0, <1>8, KeptBy DEF MoveConstruct
  <2>2. Kept(w, MovedFrom(store[w]))
    BY KeptBy, GivenContent
  <2> QED
    BY <1>0, <1>8, <2>1, <2>2, InvFromKept, GivenContent DEF MoveConstruct, Calls
<1>9. ASSUME NEW v \in Slots, NEW w \in Slots, CopyAssign(v, w) PROVE ValuesInv'
  <2>1. Kept(v, Becomes(store[v], ContentOf(store[w])))
    BY <1>0, KeptBy
  <2>2. Kept(w, Reading(store[w]))
    BY KeptBy, GivenContent
  <2> QED
    BY <1>0, <1>9, <2>1, <2>2, InvFromKept, GivenContent DEF CopyAssign, Calls
<1>10. ASSUME NEW v \in Slots, NEW w \in Slots, CopyAssignFails(v, w) PROVE ValuesInv'
  <2>1. /\ HalfWay(store[v], store[w].tag, store[w].tag) \in Store
        /\ HalfWay(store[v], store[w].tag, store[w].tag).alive # "none" =>
             HalfWay(store[v], store[w].tag, store[w].tag).tag
               = HalfWay(store[v], store[w].tag, store[w].tag).alive
    <3>1. store[w].tag \in Heavy /\ store[w].tag \in Tags
      BY <1>0, <1>10 DEF CopyAssignFails, Store
    <3> QED
      BY <1>0, <3>1, HalfWayStore DEF Kept
  <2> QED
    BY <1>0, <1>10, <2>1, GivenContent
       DEF CopyAssignFails, ValuesInv, ValuesTypeOK, DamageIsLocal, Calls
<1>11. ASSUME NEW v \in Slots, NEW w \in Slots, MoveAssign(v, w) PROVE ValuesInv'
  <2>1. Kept(v, Becomes(store[v], ContentOf(store[w])))
    BY <1>0, KeptBy
  <2>2. Kept(w, MovedFrom(store[w]))
    BY KeptBy, GivenContent
  <2> QED
    BY <1>0, <1>11, <2>1, <2>2, InvFromKept, GivenContent DEF MoveAssign, Calls
<1>12. ASSUME NEW v \in Slots, NEW w \in Slots, Swap(v, w) PROVE ValuesInv'
  <2>1. /\ Kept(v, Becomes(MovedFrom(store[v]), ContentOf(store[w])))
        /\ Kept(w, Becomes(MovedFrom(store[w]), ContentOf(store[v])))
    BY <1>0, KeptBy
  <2> QED
    BY <1>0, <1>12, <2>1, InvFromKept, GivenContent DEF Swap, Calls
<1>13. CASE UNCHANGED vars
  BY <1>13 DEF vars, ValuesInv, ValuesTypeOK, DamageIsLocal
<1> QED
  BY <1>1, <1>2, <1>3, <1>4, <1>5, <1>6, <1>7, <1>8, <1>9, <1>10, <1>11, <1>12, <1>13
     DEF ValuesNext

\* Along every behaviour the tag of a Value that no failed assignment has damaged
\* names what is alive in its union.
THEOREM TagsTellTheTruth == ValuesSpec => []ValuesInv
<1>1. ASSUME ValuesInit PROVE ValuesInv
  <2>1. \A v \in Slots : /\ store[v] = [tag |-> "Null", alive |-> "none", data |-> Junk, harm |-> "none"]
                         /\ store[v] \in Store
    BY <1>1 DEF ValuesInit, Store, Tags
  <2>2. store \in [Slots -> Store]
    BY <1>1, <2>1 DEF ValuesInit
  <2>3. call \in [op : Calls, to : Slots \cup {NoSlot}, from : Slots \cup {NoSlot}, with : Content]
    BY <1>1, GivenContent DEF ValuesInit, Calls
  <2>4. DamageIsLocal
    <3> SUFFICES ASSUME NEW v \in Slots
                 PROVE  store[v].harm = "none" /\ Sound(store[v])
      BY DEF DamageIsLocal
    <3>1. store[v].tag = "Null" /\ store[v].alive = "none" /\ store[v].harm = "none"
      BY <2>1
    <3>2. "Null" \notin Heavy
      BY DEF Heavy
    <3> QED
      BY <3>1, <3>2 DEF Sound
  <2> QED
    BY <1>1, <2>1, <2>2, <2>3, <2>4 DEF ValuesInit, ValuesInv, ValuesTypeOK
<1> QED
  BY <1>1, InvNext, PTL DEF ValuesSpec

\* Every variable keeps its type, and no string or blob is ever leaked.
THEOREM UnionsDoNotLeak == ValuesSpec => []ValuesTypeOK
BY TagsTellTheTruth, PTL DEF ValuesInv

\* Running out of memory damages only the Value that was being assigned to.
THEOREM DamageStaysLocal == ValuesSpec => []DamageIsLocal
BY TagsTellTheTruth, PTL DEF ValuesInv

-----------------------------------------------------------------------------
(* Values implement boxes.                                                 *)

Boxed == [v \in Slots |-> IF v \in made THEN ContentOf(store[v]) ELSE NullContent]

\* What programs give, and what objects hold.
Held == {x \in Content : x.type = "Null" => x.data = Junk}

LEMMA HeldType ==
    /\ Given \subseteq Held
    /\ \A o \in Store : ContentOf(o) \in Held
<1>1. Given \subseteq Held
  BY DEF Given, Held, Content, NullContent, Plain, Heavy, Tags
<1>2. \A o \in Store : ContentOf(o) \in Held
  BY DEF Held, Content, ContentOf, Store
<1>. QED BY <1>1, <1>2

\* What the functions on the bytes of an object make of its content.
LEMMA ContentAfter ==
    ASSUME NEW o \in Store, NEW x \in Held
    PROVE  /\ ContentOf(Tagged(Placed(o, x), x.type)) = x
           /\ ContentOf(Becomes(o, x)) = x
           /\ ContentOf(MovedFrom(o)) = NullContent
           /\ ContentOf(Reading(o)) = ContentOf(o)
<1>0. x \in Content /\ x = [type |-> x.type, data |-> x.data] /\ (x.type = "Null" => x.data = Junk)
  BY DEF Held, Content
<1>1. Ended(o) \in Store
  BY EndedStore
<1>2. ASSUME NEW p \in Store PROVE ContentOf(Tagged(Placed(p, x), x.type)) = x
  <2>1. Placed(p, x) \in Store /\ Placed(p, x).data = x.data
    BY <1>0, PlacedStore DEF Placed, Store
  <2>2. Tagged(Placed(p, x), x.type).tag = x.type /\ Tagged(Placed(p, x), x.type).data = x.data
    BY <2>1 DEF Tagged, Store
  <2>. QED BY <1>0, <2>2 DEF ContentOf
<1>3. ContentOf(Becomes(o, x)) = x
  <2>1. CASE x.type \in Heavy /\ o.tag = x.type
    BY <1>0, <2>1 DEF Becomes, ContentOf, Store, Heavy
  <2>2. CASE ~(x.type \in Heavy /\ o.tag = x.type)
    BY <1>1, <1>2, <2>2 DEF Becomes
  <2>. QED BY <2>1, <2>2
<1>4. ContentOf(MovedFrom(o)) = NullContent
  BY <1>1 DEF ContentOf, MovedFrom, Tagged, NullContent, Store
<1>5. ContentOf(Reading(o)) = ContentOf(o)
  BY DEF ContentOf, Reading, Store
<1>. QED BY <1>2, <1>3, <1>4, <1>5

\* The boxes are what the slots make of them.
LEMMA BoxedAfter ==
    ASSUME NEW v \in Slots, NEW x,
           \A u \in Slots : (IF u \in made' THEN ContentOf(store'[u]) ELSE NullContent)
                            = IF u = v THEN x ELSE Boxed[u]
    PROVE  Boxed' = [Boxed EXCEPT ![v] = x]
BY DEF Boxed

LEMMA BoxedAfterBoth ==
    ASSUME NEW v \in Slots, NEW w \in Slots, NEW x, NEW y,
           \A u \in Slots : (IF u \in made' THEN ContentOf(store'[u]) ELSE NullContent)
                            = IF u = w THEN y ELSE IF u = v THEN x ELSE Boxed[u]
    PROVE  Boxed' = [Boxed EXCEPT ![v] = x, ![w] = y]
BY DEF Boxed

\* Every operation on Values is the one of its name on boxes.
LEMMA StepIsBoxStep == ValuesInv /\ [ValuesNext]_vars => [B!Next]_(B!vars)
<1> SUFFICES ASSUME ValuesInv, [ValuesNext]_vars PROVE [B!Next]_(B!vars)
  OBVIOUS
<1>0. /\ made \subseteq Slots /\ store \in [Slots -> Store]
      /\ \A v \in Slots : ContentOf(store[v]) \in Held /\ ContentOf(store[v]).type = store[v].tag
      /\ \A v \in Slots : MovedFrom(store[v]) \in Store
  BY HeldType, ContentType, KeptBy, GivenContent DEF ValuesInv, ValuesTypeOK, Kept
<1>1. \A v \in Slots : Boxed[v] = IF v \in made THEN ContentOf(store[v]) ELSE NullContent
  BY DEF Boxed
<1>2. ASSUME NEW v \in Slots, NEW x \in Given, Construct(v, x) \/ Assign(v, x)
      PROVE  B!Fill(v, x)
  <2>1. x \in Held /\ made' = made \cup {v} /\ call'.op \in {"construct", "assign"} /\ call'.to = v /\ call'.with = x
    BY <1>2, HeldType DEF Construct, Assign, Called
  <2>2. ContentOf(store'[v]) = x /\ \A u \in Slots : u # v => store'[u] = store[u]
    BY <1>0, <1>2, <2>1, ContentAfter DEF Construct, Assign
  <2>3. Boxed' = [Boxed EXCEPT ![v] = x]
    BY <1>1, <2>1, <2>2, BoxedAfter
  <2>. QED BY <2>1, <2>3 DEF B!Fill, Boxed
<1>3. ASSUME NEW v \in Slots, NEW w \in Slots, CopyConstruct(v, w) \/ CopyAssign(v, w)
      PROVE  B!Copy(v, w)
  <2>1. w \in made /\ made' = made \cup {v} /\ call'.op = "copy" /\ call'.to = v /\ call'.from = w
    BY <1>3 DEF CopyConstruct, CopyAssign, Called
  <2>2. /\ ContentOf(store'[v]) = ContentOf(store[w])
        /\ \A u \in Slots : u # v => ContentOf(store'[u]) = ContentOf(store[u])
    <3>1. CASE CopyConstruct(v, w)
      BY <1>0, <3>1, ContentAfter DEF CopyConstruct
    <3>2. CASE CopyAssign(v, w)
      BY <1>0, <3>2, ContentAfter DEF CopyAssign
    <3>. QED BY <1>3, <3>1, <3>2
  <2>3. Boxed' = [Boxed EXCEPT ![v] = Boxed[w]]
    BY <1>1, <2>1, <2>2, BoxedAfter
  <2>. QED BY <2>1, <2>3 DEF B!Copy, B!Is, Boxed
<1>4. ASSUME NEW v \in Slots, NEW w \in Slots, MoveConstruct(v, w) \/ MoveAssign(v, w)
      PROVE  B!Move(v, w)
  <2>1. w \in made /\ made' = made \cup {v} /\ call'.op = "move" /\ call'.to = v /\ call'.from = w
    BY <1>4 DEF MoveConstruct, MoveAssign, Called
  <2>2. /\ v # w => ContentOf(store'[v]) = ContentOf(store[w])
        /\ ContentOf(store'[w]) = NullContent
        /\ \A u \in Slots : u # v /\ u # w => store'[u] = store[u]
    <3>1. CASE MoveConstruct(v, w)
      BY <1>0, <3>1, ContentAfter DEF MoveConstruct
    <3>2. CASE MoveAssign(v, w)
      BY <1>0, <3>2, ContentAfter DEF MoveAssign
    <3>. QED BY <1>4, <3>1, <3>2
  <2>3. Boxed' = [Boxed EXCEPT ![v] = Boxed[w], ![w] = NullContent]
    <3>1. \A u \in Slots : (IF u \in made' THEN ContentOf(store'[u]) ELSE NullContent)
                           = IF u = w THEN NullContent ELSE IF u = v THEN Boxed[w] ELSE Boxed[u]
      BY <1>1, <2>1, <2>2
    <3>. QED BY <3>1, <1>1 DEF Boxed
  <2>. QED BY <2>1, <2>3 DEF B!Move, B!Is, Boxed
<1>5. ASSUME NEW v \in Slots, NEW w \in Slots, Swap(v, w)
      PROVE  B!Swap(v, w)
  <2>1. v \in made /\ w \in made /\ made' = made /\ call'.op = "swap" /\ call'.to = v /\ call'.from = w
    BY <1>5 DEF Swap, Called
  <2>2. /\ ContentOf(store'[v]) = ContentOf(store[w])
        /\ ContentOf(store'[w]) = ContentOf(store[v])
        /\ \A u \in Slots : u # v /\ u # w => store'[u] = store[u]
    BY <1>0, <1>5, ContentAfter DEF Swap
  <2>3. Boxed' = [Boxed EXCEPT ![v] = Boxed[w], ![w] = Boxed[v]]
    BY <1>1, <2>1, <2>2, BoxedAfterBoth
  <2>. QED BY <2>1, <2>3 DEF B!Swap, B!Is, Boxed
<1>6. ASSUME NEW v \in Slots, Eject(v)
      PROVE  B!Take(v)
  <2>1. v \in made /\ made' = made /\ call'.op = "eject" /\ call'.to = v /\ call'.with = Boxed[v]
    BY <1>1, <1>6 DEF Eject, Called
  <2>2. ContentOf(store'[v]) = NullContent /\ \A u \in Slots : u # v => store'[u] = store[u]
    BY <1>0, <1>6, ContentAfter, HeldType, GivenContent DEF Eject, MovedFrom
  <2>3. Boxed' = [Boxed EXCEPT ![v] = NullContent]
    BY <1>1, <2>1, <2>2, BoxedAfter
  <2>. QED BY <2>1, <2>3 DEF B!Take, Boxed
<1>7. ASSUME NEW v \in Slots, Destroy(v)
      PROVE  B!Drop(v)
  <2>1. made' = made \ {v} /\ call'.op = "destroy" /\ call'.to = v
    BY <1>7 DEF Destroy, Called
  <2>2. \A u \in Slots : u # v => store'[u] = store[u]
    BY <1>0, <1>7 DEF Destroy
  <2>3. Boxed' = [Boxed EXCEPT ![v] = NullContent]
    BY <1>1, <2>1, <2>2, BoxedAfter
  <2>. QED BY <2>1, <2>3 DEF B!Drop, Boxed
<1>8. ASSUME NEW v \in Slots, NEW t \in Heavy, NEW w \in Slots, AssignFails(v, t) \/ CopyAssignFails(v, w)
      PROVE  B!Spoil(v)
  <2>1. made' = made /\ call'.op = "throw" /\ call'.to = v
    BY <1>8 DEF AssignFails, CopyAssignFails, Called
  <2>2. \A u \in Slots : u # v => store'[u] = store[u]
    BY <1>0, <1>8 DEF AssignFails, CopyAssignFails
  <2>3. \A u \in Slots \ {v} : Boxed'[u] = Boxed[u]
    BY <2>1, <2>2 DEF Boxed
  <2>4. AllocMayFail /\ v \in made /\ v \in made'
    BY <1>8 DEF AssignFails, CopyAssignFails
  <2>5. store'[v] = store[v] \/ store'[v].data = Junk
    <3>1. PICK type \in Heavy, left \in Tags : store'[v] = HalfWay(store[v], type, left)
      BY <1>0, <1>8 DEF AssignFails, CopyAssignFails, ValuesInv, ValuesTypeOK, Store
    <3>2. store[v] \in Store
      BY DEF ValuesInv, ValuesTypeOK
    <3>. QED BY <3>1, <3>2 DEF HalfWay, Ended, Store
  <2>6. Boxed'[v] = Boxed[v] \/ Boxed'[v].data = Junk
    BY <2>4, <2>5 DEF Boxed, ContentOf
  <2>. QED BY <2>1, <2>3, <2>4, <2>6 DEF B!Spoil, Boxed, NullContent
<1>9. ASSUME NEW v \in Slots, NEW w \in Slots, CopyConstructFails(v, w)
      PROVE  UNCHANGED B!vars
  BY <1>9 DEF CopyConstructFails, B!vars
<1>10. CASE UNCHANGED vars
  BY <1>10 DEF vars, B!vars
<1>. QED
  <2>1. ASSUME NEW v \in Slots, NEW t \in Heavy, AssignFails(v, t) PROVE B!Spoil(v)
    BY <1>8, <2>1
  <2>2. ASSUME NEW v \in Slots, NEW w \in Slots, CopyAssignFails(v, w) PROVE B!Spoil(v)
    BY <1>8, <2>2 DEF Heavy
  <2>. QED
    BY <1>2, <1>3, <1>4, <1>5, <1>6, <1>7, <1>9, <1>10, <2>1, <2>2 DEF ValuesNext, B!Next

\* Seen from outside, Values are boxes: copies copy, moves leave a null, swaps exchange,
\* also of an object with itself, and no operation of one Value, not even one that
\* fails, changes another; an assignment fails for lack of memory only, never for the
\* types of the two Values.
THEOREM ValuesAreBoxes == ValuesSpec => ImplementsBoxes
<1>1. ValuesInit => B!Init
  BY DEF ValuesInit, B!Init
<1>. QED BY <1>1, StepIsBoxStep, TagsTellTheTruth, PTL DEF ValuesSpec, ImplementsBoxes, B!Spec
=============================================================================

--------------------------- MODULE GroupingProofs ---------------------------
(***************************************************************************)
(* What Grouping::add guarantees, for every batch and every set of keys:   *)
(* the lemmas the dispatcher's proofs rest on, and the grouping of a batch *)
(* call by call.                                                           *)
(***************************************************************************)
EXTENDS GroupingSteps, WellFoundedInduction, TLAPS

(* The least slot exists: Some((&first, rest)) of a sorted, non-empty list. *)
LEMMA LeastInSet ==
  ASSUME NEW S \in SUBSET Nat, S # {}
  PROVE  Least(S) \in S /\ \A y \in S : Least(S) =< y
<1>1. \E x \in S : \A y \in S : <<y, x>> \notin OpToRel(<, Nat)
  BY WFMin, NatLessThanWellFounded, Zenon
<1>2. PICK x \in S : \A y \in S : <<y, x>> \notin OpToRel(<, Nat)
  BY <1>1
<1>3. \A y \in S : ~(y < x)
  BY <1>2 DEF OpToRel
<1>4. \A y \in S : x =< y
  BY <1>3
<1>5. QED
  BY <1>4 DEF Least

ClassMap == [Index -> Concurrency \cup {NoClass}]

(* The classes of calls, seen as records.                                  *)
LEMMA ClassFacts ==
  /\ Serial # NoClass /\ Serial.keys = {} /\ NoClass.keys = {}
  /\ \A c \in Concurrency : c # NoClass /\ c.keys \in SUBSET Key
  /\ \A c \in Concurrency : c.kind = "Serial" <=> c = Serial
  BY DEF Concurrency, Parallel, Serial, Keys, NoClass

(* The fields of the grouping a serial call leads to.                      *)
LEMMA SerialFields ==
  ASSUME NEW g \in GroupingType, NEW i \in Index
  PROVE  /\ AddSerial(g, i) \in GroupingType
         /\ AddSerial(g, i).singles = g.singles
         /\ AddSerial(g, i).chain =
              [j \in Index |-> IF j = i THEN SerialTarget(g) ELSE g.chain[j]]
         /\ AddSerial(g, i).order = g.order \cup (Members(g, {SerialTarget(g)}) \X {i})
         /\ AddSerial(g, i).keyed = g.keyed
         /\ AddSerial(g, i).serial = SerialTarget(g)
         /\ AddSerial(g, i).len = IF g.serial = 0 THEN g.len + 1 ELSE g.len
<1> DEFINE h   == AddSerial(g, i)
           ch  == [j \in Index |-> IF j = i THEN SerialTarget(g) ELSE g.chain[j]]
           new == Members(g, {SerialTarget(g)}) \X {i}
           ord == g.order \cup new
           ln  == IF g.serial = 0 THEN g.len + 1 ELSE g.len
<1>1. SerialTarget(g) \in Nat
  BY DEF GroupingType, SerialTarget
<1>2. new \in SUBSET (Index \X Index)
  BY DEF Members
<1>3. ch \in [Index -> Nat] /\ ord \in SUBSET (Index \X Index) /\ ln \in Nat
  <2>1. ch \in [Index -> Nat] /\ ln \in Nat
    BY <1>1 DEF GroupingType
  <2> HIDE DEF new
  <2>2. ord \in SUBSET (Index \X Index)
    BY <1>2 DEF GroupingType
  <2>3. QED
    BY <2>1, <2>2
<1>4. h = [g EXCEPT !.chain = ch, !.order = ord, !.serial = SerialTarget(g), !.len = ln]
  BY DEF AddSerial
<1> HIDE DEF h, new, ch, ord, ln
<1>5. h \in GroupingType
  BY <1>1, <1>3, <1>4 DEF GroupingType
<1>6. h.singles = g.singles /\ h.keyed = g.keyed /\ h.serial = SerialTarget(g)
      /\ h.chain = ch /\ h.order = ord /\ h.len = ln
  BY <1>4 DEF GroupingType
<1>7. QED
  BY <1>5, <1>6 DEF h, ch, ord, ln, new

(* The order of the chains once those of slots are joined and i follows.   *)
JoinedOrder(g, slots, i) ==
  g.order \cup {p \in Members(g, slots) \X Members(g, slots) :
                  g.chain[p[1]] < g.chain[p[2]]}
          \cup (Members(g, slots) \X {i})

LEMMA JoinedGrows ==
  ASSUME NEW g, NEW slots, NEW i
  PROVE  g.order \cup (Members(g, slots) \X {i}) \subseteq JoinedOrder(g, slots, i)
  BY DEF JoinedOrder

(* The fields of the grouping a call with keys leads to.                   *)
LEMMA KeysFields ==
  ASSUME NEW g \in GroupingType, NEW i \in Index, NEW ks \in SUBSET Key
  PROVE  /\ AddKeys(g, i, ks) \in GroupingType
         /\ AddKeys(g, i, ks).singles = g.singles
         /\ AddKeys(g, i, ks).chain =
              [j \in Index |-> IF j = i \/ g.chain[j] \in SlotsOf(g, ks)
                               THEN KeyTarget(g, ks) ELSE g.chain[j]]
         /\ AddKeys(g, i, ks).keyed =
              [k \in Key |-> IF k \in ks \/ g.keyed[k] \in SlotsOf(g, ks)
                             THEN KeyTarget(g, ks) ELSE g.keyed[k]]
         /\ AddKeys(g, i, ks).serial = g.serial
         /\ AddKeys(g, i, ks).len = IF SlotsOf(g, ks) = {} THEN g.len + 1 ELSE g.len
<1> DEFINE h      == AddKeys(g, i, ks)
           slots  == SlotsOf(g, ks)
           merged == Members(g, slots)
           inner  == {p \in merged \X merged : g.chain[p[1]] < g.chain[p[2]]}
           new    == merged \X {i}
           ch     == [j \in Index |-> IF j = i \/ g.chain[j] \in slots
                                      THEN KeyTarget(g, ks) ELSE g.chain[j]]
           ord    == g.order \cup inner \cup new
           ky     == [k \in Key |-> IF k \in ks \/ g.keyed[k] \in slots
                                    THEN KeyTarget(g, ks) ELSE g.keyed[k]]
           ln     == IF slots = {} THEN g.len + 1 ELSE g.len
<1>1. KeyTarget(g, ks) \in Nat
  <2>1. SlotsOf(g, ks) \in SUBSET Nat
    BY DEF GroupingType, SlotsOf
  <2>2. CASE SlotsOf(g, ks) = {}
    BY <2>2 DEF GroupingType, KeyTarget
  <2>3. CASE SlotsOf(g, ks) # {}
    BY <2>1, <2>3, LeastInSet DEF KeyTarget
  <2>4. QED
    BY <2>2, <2>3
<1>2. inner \in SUBSET (Index \X Index) /\ new \in SUBSET (Index \X Index)
  BY DEF Members
<1>3. ch \in [Index -> Nat] /\ ky \in [Key -> Nat] /\ ln \in Nat
  BY <1>1 DEF GroupingType
<1>4. ord \in SUBSET (Index \X Index)
  BY <1>2 DEF GroupingType
<1>5. h = [g EXCEPT !.chain = ch, !.order = ord, !.keyed = ky, !.len = ln]
  BY DEF AddKeys
<1> HIDE DEF h, inner, new, ch, ord, ky, ln
<1>6. h \in GroupingType
  BY <1>3, <1>4, <1>5 DEF GroupingType
<1>7. h.singles = g.singles /\ h.chain = ch /\ h.order = ord /\ h.keyed = ky
      /\ h.serial = g.serial /\ h.len = ln
  BY <1>5 DEF GroupingType
<1>8. QED
  BY <1>6, <1>7 DEF h, ch, ky, ln

LEMMA KeysChain ==
  ASSUME NEW g \in GroupingType, NEW i \in Index, NEW ks \in SUBSET Key
  PROVE  /\ AddKeys(g, i, ks) \in GroupingType
         /\ \A j \in Index :
              AddKeys(g, i, ks).chain[j] =
                IF j = i \/ g.chain[j] \in SlotsOf(g, ks) THEN KeyTarget(g, ks) ELSE g.chain[j]
<1>1. AddKeys(g, i, ks) \in GroupingType
  BY KeysFields
<1>2. QED
  BY <1>1 DEF AddKeys, GroupingType

LEMMA KeysOrder ==
  ASSUME NEW g \in GroupingType, NEW i \in Index, NEW ks \in SUBSET Key
  PROVE  AddKeys(g, i, ks).order = JoinedOrder(g, SlotsOf(g, ks), i)
  BY DEF AddKeys, JoinedOrder, GroupingType

(* Grouping::add keeps the fields of a Grouping within their types.        *)
LEMMA AddType ==
  ASSUME NEW g \in GroupingType, NEW i \in Index, NEW c \in Concurrency
  PROVE  Add(g, i, c) \in GroupingType
<1>1. AddSingle(g, i) \in GroupingType
  BY DEF AddSingle, GroupingType
<1>2. AddSerial(g, i) \in GroupingType
  BY SerialFields
<1>3. AddKeys(g, i, c.keys) \in GroupingType
  BY KeysFields, ClassFacts
<1>4. QED
  BY <1>1, <1>2, <1>3 DEF Add

(* A call opens at most one chain.                                         *)
LEMMA AddLen ==
  ASSUME NEW g \in GroupingType, NEW i \in Index, NEW c \in Concurrency
  PROVE  Add(g, i, c).len \in {g.len, g.len + 1}
<1>1. AddSingle(g, i).len = g.len
  BY DEF AddSingle, GroupingType
<1>2. AddSerial(g, i).len \in {g.len, g.len + 1}
  BY SerialFields
<1>3. AddKeys(g, i, c.keys).len \in {g.len, g.len + 1}
  <2>1. ASSUME NEW ks \in SUBSET Key
        PROVE  AddKeys(g, i, ks).len \in {g.len, g.len + 1}
    <3>1. AddKeys(g, i, ks).len = IF SlotsOf(g, ks) = {} THEN g.len + 1 ELSE g.len
      BY DEF AddKeys, GroupingType
    <3>2. QED
      BY <3>1
  <2>2. QED
    BY <2>1, ClassFacts
<1>4. QED
  BY <1>1, <1>2, <1>3 DEF Add

(***************************************************************************)
(* Grouping::add keeps its bookkeeping consistent: after any number of     *)
(* merges every call stands in the chain each of its keys points to.       *)
(***************************************************************************)
LEMMA AddKeepsSlots ==
  ASSUME NEW g \in GroupingType, NEW cls \in ClassMap, NEW i \in Index,
         cls[i] = NoClass, NEW c \in Concurrency, SlotsAgree(g, cls)
  PROVE  SlotsAgree(Add(g, i, c), [cls EXCEPT ![i] = c])
<1> DEFINE h   == Add(g, i, c)
           new == [cls EXCEPT ![i] = c]
<1>1. new[i] = c /\ \A j \in Index \ {i} : new[j] = cls[j]
  BY DEF ClassMap
<1>2. g.chain[i] = 0 /\ i \notin g.singles
  BY ClassFacts DEF SlotsAgree, JobsIn
<1>3. /\ g.chain \in [Index -> Nat] /\ g.keyed \in [Key -> Nat]
      /\ g.serial \in Nat /\ g.len \in Nat /\ g.singles \subseteq Index
  BY DEF GroupingType
<1>4. \A j \in Index : cls[j].keys \subseteq Key
  BY ClassFacts DEF ClassMap
<1> HIDE DEF new
<1>5. CASE c.kind = "Serial"
  <2>1. /\ h.singles = g.singles
        /\ h.chain = [j \in Index |-> IF j = i THEN SerialTarget(g) ELSE g.chain[j]]
        /\ h.keyed = g.keyed
        /\ h.serial = SerialTarget(g)
        /\ h.len = IF g.serial = 0 THEN g.len + 1 ELSE g.len
    BY <1>5, SerialFields DEF Add
  <2>2. c = Serial
    BY <1>5, ClassFacts
  <2> HIDE DEF h
  <2>3. QED
    BY <1>1, <1>2, <1>3, <1>4, <2>1, <2>2, ClassFacts
    DEF SlotsAgree, JobsIn, SerialTarget, h, new
<1>6. CASE c.kind # "Serial" /\ c.keys = {}
  <2>1. /\ h.singles = g.singles \cup {i}
        /\ h.chain = g.chain /\ h.keyed = g.keyed
        /\ h.serial = g.serial /\ h.len = g.len
    BY <1>6 DEF Add, AddSingle, GroupingType
  <2>2. c # Serial
    BY <1>6, ClassFacts
  <2> HIDE DEF h
  <2>3. QED
    BY <1>1, <1>2, <1>3, <1>4, <1>6, <2>1, <2>2, ClassFacts
    DEF SlotsAgree, JobsIn, h, new
<1>7. CASE c.kind # "Serial" /\ c.keys # {}
  <2> DEFINE ks     == c.keys
             slots  == SlotsOf(g, ks)
             target == KeyTarget(g, ks)
  <2>1. c # Serial /\ ks \in SUBSET Key
    BY <1>7, ClassFacts
  <2>2. /\ h.singles = g.singles
        /\ h.chain = [j \in Index |-> IF j = i \/ g.chain[j] \in slots
                                      THEN target ELSE g.chain[j]]
        /\ h.keyed = [k \in Key |-> IF k \in ks \/ g.keyed[k] \in slots
                                    THEN target ELSE g.keyed[k]]
        /\ h.serial = g.serial
        /\ h.len = IF slots = {} THEN g.len + 1 ELSE g.len
    <3>1. h = AddKeys(g, i, ks)
      BY <1>7 DEF Add
    <3> HIDE DEF h, ks
    <3>2. QED
      BY <2>1, <3>1, KeysFields
  <2>3. \A n \in slots : n \in Nat /\ n # 0 /\ n =< g.len /\ n # g.serial
    BY <1>3, <2>1 DEF SlotsAgree, SlotsOf
  <2>4. \A k \in ks : g.keyed[k] = 0 \/ g.keyed[k] \in slots
    BY DEF SlotsOf
  <2>5. target \in Nat /\ target # 0 /\ target # g.serial /\ target =< h.len
    <3>1. CASE slots = {}
      BY <1>3, <2>2, <3>1 DEF SlotsAgree, KeyTarget
    <3>2. CASE slots # {}
      <4>1. Least(slots) \in slots
        BY <2>3, <3>2, LeastInSet
      <4>2. QED
        BY <2>2, <2>3, <3>2, <4>1 DEF KeyTarget
    <3>3. QED
      BY <3>1, <3>2
  <2>6. h.len \in Nat /\ g.len =< h.len
    BY <1>3, <2>2
  <2> HIDE DEF h, slots, target, ks
  <2>7. /\ h.serial =< h.len
        /\ \A k \in Key : h.keyed[k] =< h.len /\ (h.keyed[k] # 0 => h.keyed[k] # h.serial)
    BY <1>3, <2>2, <2>5, <2>6 DEF SlotsAgree
  <2>8. ASSUME NEW j \in Index
        PROVE  /\ h.chain[j] =< h.len
               /\ h.chain[j] # 0 <=> new[j] = Serial \/ new[j].keys # {}
               /\ h.chain[j] # 0 => (h.chain[j] = h.serial <=> new[j] = Serial)
               /\ j \in h.singles <=> j \in JobsIn(new) /\ h.chain[j] = 0
               /\ \A k \in new[j].keys : h.chain[j] = h.keyed[k]
    <3>1. CASE j = i
      BY <1>1, <1>2, <1>7, <2>1, <2>2, <2>5, <3>1, ClassFacts DEF JobsIn, ks
    <3>2. CASE j # i
      <4>1. new[j] = cls[j] /\ new[j].keys \subseteq Key
        BY <1>1, <1>4, <3>2
      <4>2. CASE g.chain[j] \in slots
        BY <1>3, <2>2, <2>3, <2>5, <3>2, <4>1, <4>2 DEF SlotsAgree, JobsIn
      <4>3. CASE g.chain[j] \notin slots
        <5>1. h.chain[j] = g.chain[j]
          BY <2>2, <3>2, <4>3
        <5>2. \A k \in cls[j].keys : h.keyed[k] = g.keyed[k]
          <6>1. SUFFICES ASSUME NEW k \in cls[j].keys PROVE h.keyed[k] = g.keyed[k]
            OBVIOUS
          <6>2. g.keyed[k] = g.chain[j] /\ g.chain[j] # 0 /\ k \in Key
            BY <1>4 DEF SlotsAgree
          <6>3. k \notin ks
            BY <2>4, <4>3, <6>2
          <6>4. QED
            BY <2>2, <4>3, <6>2, <6>3
        <5>3. /\ g.chain[j] =< g.len
              /\ g.chain[j] # 0 <=> cls[j] = Serial \/ cls[j].keys # {}
              /\ g.chain[j] # 0 => (g.chain[j] = g.serial <=> cls[j] = Serial)
              /\ \A k \in cls[j].keys : g.chain[j] = g.keyed[k]
              /\ j \in g.singles <=> j \in JobsIn(new) /\ g.chain[j] = 0
          BY <4>1 DEF SlotsAgree, JobsIn
        <5>4. g.chain[j] \in Nat /\ h.chain[j] =< h.len
          BY <1>3, <2>6, <5>1, <5>3
        <5>5. QED
          BY <2>2, <4>1, <5>1, <5>2, <5>3, <5>4
      <4>4. QED
        BY <4>2, <4>3
    <3>3. QED
      BY <3>1, <3>2
  <2>9. QED
    BY <2>7, <2>8 DEF SlotsAgree, new, h
<1>8. QED
  BY <1>5, <1>6, <1>7

(***************************************************************************)
(* Grouping::add orders a new call after every earlier call it shares a    *)
(* key or the serial class with, and forgets no order it has established.  *)
(***************************************************************************)
LEMMA AddKeepsOrder ==
  ASSUME NEW g \in GroupingType, NEW cls \in ClassMap, NEW i \in Index,
         cls[i] = NoClass, NEW c \in Concurrency, SlotsAgree(g, cls),
         \A j \in JobsIn(cls) : j < i,
         CallOrderKept(g, cls)
  PROVE  CallOrderKept(Add(g, i, c), [cls EXCEPT ![i] = c])
<1> DEFINE h   == Add(g, i, c)
           new == [cls EXCEPT ![i] = c]
<1>1. new[i] = c /\ \A j \in Index \ {i} : new[j] = cls[j]
  BY DEF ClassMap
<1>2. JobsIn(new) = JobsIn(cls) \cup {i}
  BY <1>1, ClassFacts DEF JobsIn
<1>3. g.order \subseteq h.order
  <2>1. CASE c.kind = "Serial"
    <3>1. h = AddSerial(g, i)
      BY <2>1 DEF Add
    <3> HIDE DEF h
    <3>2. QED
      BY <3>1, SerialFields
  <2>2. CASE c.kind # "Serial" /\ c.keys = {}
    BY <2>2 DEF Add, AddSingle, GroupingType
  <2>3. CASE c.kind # "Serial" /\ c.keys # {}
    <3>1. h = AddKeys(g, i, c.keys) /\ c.keys \in SUBSET Key
      BY <2>3, ClassFacts DEF Add
    <3> HIDE DEF h
    <3>2. QED
      BY <3>1, KeysOrder, JoinedGrows
  <2>4. QED
    BY <2>1, <2>2, <2>3
<1>4. ASSUME NEW j \in JobsIn(cls), Ordered(cls[j], c)
      PROVE  <<j, i>> \in h.order
  <2>1. j \in Index /\ j # i /\ cls[j].keys \subseteq Key
    BY <1>4, ClassFacts DEF JobsIn, ClassMap
  <2>2. CASE cls[j].keys \cap c.keys # {}
    <3> DEFINE slots == SlotsOf(g, c.keys)
    <3>1. PICK k \in cls[j].keys : k \in c.keys
      BY <2>2
    <3>2. g.chain[j] = g.keyed[k] /\ g.chain[j] # 0
      BY <2>1, <3>1 DEF SlotsAgree
    <3>3. j \in Members(g, slots)
      BY <2>1, <3>1, <3>2 DEF Members, SlotsOf
    <3>4. c.kind # "Serial" /\ c.keys # {}
      BY <3>1, ClassFacts
    <3>5. Members(g, slots) \X {i} \subseteq h.order
      <4>1. h = AddKeys(g, i, c.keys) /\ c.keys \in SUBSET Key
        BY <3>4, ClassFacts DEF Add
      <4> HIDE DEF h
      <4>2. QED
        BY <4>1, KeysOrder, JoinedGrows
    <3>6. QED
      BY <3>3, <3>5
  <2>3. CASE cls[j] = Serial /\ c = Serial
    <3>1. g.chain[j] # 0 /\ g.chain[j] = g.serial
      BY <2>1, <2>3 DEF SlotsAgree
    <3>2. j \in Members(g, {SerialTarget(g)})
      BY <2>1, <3>1 DEF Members, SerialTarget
    <3>3. h = AddSerial(g, i)
      BY <2>3, ClassFacts DEF Add
    <3> HIDE DEF h
    <3>4. Members(g, {SerialTarget(g)}) \X {i} \subseteq h.order
      <4>1. AddSerial(g, i).order = g.order \cup (Members(g, {SerialTarget(g)}) \X {i})
        BY SerialFields
      <4>2. QED
        BY ONLY <3>3, <4>1
    <3>5. QED
      BY <3>2, <3>4
  <2>4. QED
    BY <1>4, <2>2, <2>3 DEF Ordered
<1> HIDE DEF h, new
<1>5. SUFFICES ASSUME NEW x \in JobsIn(new), NEW y \in JobsIn(new),
                      x < y, Ordered(new[x], new[y])
               PROVE  <<x, y>> \in h.order
  BY DEF CallOrderKept, h, new
<1>6. JobsIn(cls) \subseteq Index \ {i} /\ Index \subseteq Int
  BY DEF JobsIn, Index
<1>7. x \in JobsIn(cls)
  <2>1. SUFFICES ASSUME x = i PROVE FALSE
    BY <1>2
  <2>2. y \in JobsIn(cls) /\ y \in Int /\ i \in Int
    BY <1>2, <1>5, <1>6, <2>1
  <2>3. QED
    BY <1>5, <2>1, <2>2
<1>8. CASE y = i
  BY <1>1, <1>4, <1>5, <1>6, <1>7, <1>8
<1>9. CASE y \in JobsIn(cls)
  BY <1>1, <1>3, <1>5, <1>6, <1>7, <1>9 DEF CallOrderKept
<1>10. QED
  BY <1>2, <1>8, <1>9

(***************************************************************************)
(* Grouping::add leaves every chain a list: what it appends to a chain, a  *)
(* call or the drained chains in slot order, stands in one place of it.    *)
(***************************************************************************)
LEMMA AppendKeepsLists ==
  ASSUME NEW g \in GroupingType, NEW h \in GroupingType, NEW i \in Index,
         NEW slots \in SUBSET (Nat \ {0}), NEW target \in Nat \ {0},
         g.chain[i] = 0, ChainsAreLists(g),
         \A j \in Index : g.chain[j] = target => target \in slots,
         \A j \in Index :
           h.chain[j] = IF j = i \/ g.chain[j] \in slots THEN target ELSE g.chain[j],
         h.order = JoinedOrder(g, slots, i)
  PROVE  ChainsAreLists(h)
<1> DEFINE merged == Members(g, slots)
           In(x, y) == <<x, y>> \in g.order
           New(x, y) == <<x, y>> \in h.order
<1>1. /\ g.chain \in [Index -> Nat] /\ g.order \subseteq Index \X Index
      /\ h.order \subseteq Index \X Index
  BY DEF GroupingType
<1>2. /\ \A x, y \in Index : In(x, y) => g.chain[x] = g.chain[y] /\ g.chain[x] # 0
      /\ \A x, y \in Index :
           x # y /\ g.chain[x] = g.chain[y] /\ g.chain[x] # 0 => (In(x, y) <=> ~In(y, x))
      /\ \A x, y, z \in Index : In(x, y) /\ In(y, z) => In(x, z)
  BY DEF ChainsAreLists
<1>3. \A x \in Index : x \in merged <=> g.chain[x] \in slots
  BY DEF Members
<1>4. \A x, y \in Index :
        New(x, y) <=> \/ In(x, y)
                      \/ x \in merged /\ y \in merged /\ g.chain[x] < g.chain[y]
                      \/ x \in merged /\ y = i
  <2> SUFFICES ASSUME NEW x \in Index, NEW y \in Index
               PROVE  New(x, y) <=> \/ In(x, y)
                                    \/ x \in merged /\ y \in merged /\ g.chain[x] < g.chain[y]
                                    \/ x \in merged /\ y = i
    OBVIOUS
  <2>1. <<x, y>> \in {p \in merged \X merged : g.chain[p[1]] < g.chain[p[2]]}
          <=> x \in merged /\ y \in merged /\ g.chain[x] < g.chain[y]
    OBVIOUS
  <2>2. QED
    BY <2>1 DEF JoinedOrder
<1>5. i \notin merged /\ \A x \in Index : ~In(i, x) /\ ~In(x, i)
  BY <1>2, <1>3
<1>6. \A x \in Index : h.chain[x] = IF x = i \/ x \in merged THEN target ELSE g.chain[x]
  BY <1>3
<1>7. \A x \in Index : x # i /\ x \notin merged => g.chain[x] # target
  BY <1>3
<1>8. \A x \in merged : x \in Index /\ g.chain[x] \in Nat /\ g.chain[x] # 0
  BY <1>1, <1>3 DEF Members
<1> HIDE DEF merged, In, New
<1>9. \A x, y \in Index : New(x, y) => h.chain[x] = h.chain[y] /\ h.chain[x] # 0
  <2> SUFFICES ASSUME NEW x \in Index, NEW y \in Index, New(x, y)
               PROVE  h.chain[x] = h.chain[y] /\ h.chain[x] # 0
    OBVIOUS
  <2>1. CASE In(x, y)
    BY <1>2, <1>3, <1>5, <1>6, <2>1
  <2>2. CASE ~In(x, y)
    BY <1>4, <1>6, <2>2
  <2>3. QED
    BY <2>1, <2>2
<1>10. \A x, y \in Index :
         x # y /\ h.chain[x] = h.chain[y] /\ h.chain[x] # 0 => (New(x, y) <=> ~New(y, x))
  <2> SUFFICES ASSUME NEW x \in Index, NEW y \in Index, x # y,
                      h.chain[x] = h.chain[y], h.chain[x] # 0
               PROVE  New(x, y) <=> ~New(y, x)
    OBVIOUS
  <2>1. CASE x = i \/ y = i
    BY <1>4, <1>5, <1>6, <1>7, <2>1
  <2>2. CASE x # i /\ y # i /\ x \in merged /\ y \in merged
    BY <1>2, <1>4, <1>8, <2>2
  <2>3. CASE x # i /\ y # i /\ x \notin merged /\ y \notin merged
    BY <1>2, <1>4, <1>6, <2>3
  <2>4. QED
    BY <1>6, <1>7, <2>1, <2>2, <2>3
<1>11. \A x, y, z \in Index : New(x, y) /\ New(y, z) => New(x, z)
  <2> SUFFICES ASSUME NEW x \in Index, NEW y \in Index, NEW z \in Index,
                      New(x, y), New(y, z)
               PROVE  New(x, z)
    OBVIOUS
  <2>1. y # i
    BY <1>4, <1>5
  <2>2. \A v, w \in Index : In(v, w) => (v \in merged <=> w \in merged)
    BY <1>2, <1>3
  <2>3. CASE z = i
    BY <1>4, <1>5, <2>1, <2>2, <2>3
  <2>4. CASE z # i
    BY <1>2, <1>4, <1>8, <2>1, <2>2, <2>4
  <2>5. QED
    BY <2>3, <2>4
<1>12. QED
  <2>1. ASSUME NEW p \in h.order
        PROVE  h.chain[p[1]] = h.chain[p[2]] /\ h.chain[p[1]] # 0
    <3>1. p[1] \in Index /\ p[2] \in Index /\ p = <<p[1], p[2]>>
      BY <1>1
    <3>2. New(p[1], p[2])
      BY <3>1 DEF New
    <3>3. QED
      BY <1>9, <3>1, <3>2
  <2>2. QED
    BY <2>1, <1>10, <1>11 DEF ChainsAreLists, New

LEMMA AddKeepsLists ==
  ASSUME NEW g \in GroupingType, NEW cls \in ClassMap, NEW i \in Index,
         cls[i] = NoClass, NEW c \in Concurrency, SlotsAgree(g, cls),
         ChainsAreLists(g)
  PROVE  ChainsAreLists(Add(g, i, c))
<1>1. /\ g.chain \in [Index -> Nat] /\ g.keyed \in [Key -> Nat]
      /\ g.serial \in Nat /\ g.len \in Nat
  BY DEF GroupingType
<1>2. g.chain[i] = 0 /\ \A j \in Index : g.chain[j] =< g.len
  BY ClassFacts DEF SlotsAgree
<1>3. CASE c.kind = "Serial"
  <2> DEFINE target == SerialTarget(g)
             slots  == IF g.serial = 0 THEN {} ELSE {target}
             h      == AddSerial(g, i)
  <2>1. target \in Nat \ {0} /\ slots \in SUBSET (Nat \ {0})
    BY <1>1 DEF SerialTarget
  <2>2. \A j \in Index : g.chain[j] = target => target \in slots
    BY <1>1, <1>2 DEF SerialTarget
  <2>3. Members(g, slots) = Members(g, {target})
    BY <2>2 DEF Members
  <2>4. /\ h \in GroupingType
        /\ h.chain = [j \in Index |-> IF j = i THEN target ELSE g.chain[j]]
        /\ h.order = g.order \cup (Members(g, {target}) \X {i})
    BY SerialFields
  <2> HIDE DEF h, target
  <2>5. \A j \in Index :
          h.chain[j] = IF j = i \/ g.chain[j] \in slots THEN target ELSE g.chain[j]
    BY <2>2, <2>4
  <2>6. {p \in Members(g, slots) \X Members(g, slots) : g.chain[p[1]] < g.chain[p[2]]} = {}
    <3>1. \A x \in Members(g, slots) : g.chain[x] = target
      BY DEF Members
    <3>2. QED
      BY <2>1, <3>1
  <2>7. h.order = JoinedOrder(g, slots, i)
    BY <2>3, <2>4, <2>6 DEF JoinedOrder
  <2> HIDE DEF slots
  <2>8. ChainsAreLists(h)
    BY <1>2, <2>1, <2>2, <2>4, <2>5, <2>7, AppendKeepsLists
  <2>9. QED
    BY <1>3, <2>8 DEF Add, h
<1>4. CASE c.kind # "Serial" /\ c.keys = {}
  <2>1. /\ AddSingle(g, i).chain = g.chain
        /\ AddSingle(g, i).order = g.order
    BY DEF AddSingle, GroupingType
  <2>2. Add(g, i, c) = AddSingle(g, i)
    BY <1>4 DEF Add
  <2>3. QED
    BY <2>1, <2>2 DEF ChainsAreLists
<1>5. CASE c.kind # "Serial" /\ c.keys # {}
  <2> DEFINE ks     == c.keys
             slots  == SlotsOf(g, ks)
             target == KeyTarget(g, ks)
             h      == AddKeys(g, i, ks)
  <2>1. ks \in SUBSET Key
    BY ClassFacts
  <2>2. slots \in SUBSET (Nat \ {0})
    BY <1>1, <2>1 DEF SlotsOf
  <2>3. target \in Nat \ {0} /\ \A j \in Index : g.chain[j] = target => target \in slots
    <3>1. CASE slots = {}
      BY <1>1, <1>2, <3>1 DEF KeyTarget
    <3>2. CASE slots # {}
      BY <2>2, <3>2, LeastInSet DEF KeyTarget
    <3>3. QED
      BY <3>1, <3>2
  <2> HIDE DEF ks
  <2>4. /\ h \in GroupingType
        /\ \A j \in Index :
             h.chain[j] = IF j = i \/ g.chain[j] \in slots THEN target ELSE g.chain[j]
    BY <2>1, KeysChain
  <2>5. h.order = JoinedOrder(g, slots, i)
    BY <2>1, KeysOrder
  <2> HIDE DEF slots, target, h
  <2>6. ChainsAreLists(h)
    BY <1>2, <2>2, <2>3, <2>4, <2>5, AppendKeepsLists
  <2>7. QED
    BY <1>5, <2>6 DEF Add, h, ks
<1>6. QED
  BY <1>3, <1>4, <1>5

-----------------------------------------------------------------------------
(* The grouping of a whole batch                                           *)

(* Every key that leads to a chain is a key of some call.                  *)
KeysUsed == \A k \in Key : grGroup.keyed[k] # 0 => \E i \in Index : k \in grClass[i].keys

GrInv ==
  /\ grNext \in Nat
  /\ grClass \in ClassMap
  /\ grGroup \in GroupingType
  /\ \A i \in JobsIn(grClass) : i < grNext
  /\ KeysUsed
  /\ GroupingRight

(* A chain holds every call its calls are linked to.                       *)
LEMMA LinkedShareChain ==
  ASSUME NEW g, NEW cls, SlotsAgree(g, cls), NEW x \in Index, NEW y \in Index,
         cls[x].keys # {},
         \A S \in SUBSET Index :
           (\A i \in S, j \in Index : cls[i].keys \cap cls[j].keys # {} => j \in S) /\ x \in S
             => y \in S
  PROVE  g.chain[x] = g.chain[y]
<1> DEFINE S == {j \in Index : cls[j].keys # {} /\ g.chain[j] = g.chain[x]}
<1>1. ASSUME NEW i \in S, NEW j \in Index, cls[i].keys \cap cls[j].keys # {}
      PROVE  j \in S
  <2>1. PICK k \in cls[i].keys : k \in cls[j].keys
    BY <1>1
  <2>2. g.chain[i] = g.keyed[k] /\ g.chain[j] = g.keyed[k]
    BY <2>1 DEF SlotsAgree
  <2>3. QED
    BY <2>1, <2>2
<1>2. x \in S /\ S \in SUBSET Index
  OBVIOUS
<1>3. y \in S
  <2> HIDE DEF S
  <2>1. QED
    BY <1>1, <1>2
<1>4. QED
  BY <1>3

LEMMA GrInitInv == GrInit => GrInv
<1> SUFFICES ASSUME GrInit PROVE GrInv
  OBVIOUS
<1>1. grClass \in ClassMap /\ grGroup \in GroupingType /\ grNext \in Nat
  BY DEF GrInit, ClassMap, EmptyGrouping, GroupingType
<1>2. JobsIn(grClass) = {} /\ \A i \in Index : grClass[i].keys = {}
  BY ClassFacts DEF GrInit, JobsIn
<1>3. KeysUsed /\ NoNeedlessChain /\ CallOrderKeptInv /\ ChainsAreListsInv
  BY <1>2 DEF GrInit, EmptyGrouping, KeysUsed, NoNeedlessChain, CallOrderKeptInv,
              CallOrderKept, ChainsAreListsInv, ChainsAreLists
<1>4. SlotsAgreeInv
  BY <1>2, ClassFacts DEF GrInit, EmptyGrouping, SlotsAgreeInv, SlotsAgree, JobsIn
<1>5. QED
  BY <1>1, <1>2, <1>3, <1>4 DEF GrInv, GroupingRight

(* Adding a call links what it bridges, and nothing else.                  *)
LEMMA AddLinks ==
  ASSUME GrInv, NEW c \in Concurrency, GrAddCall(c), SlotsAgreeInv'
  PROVE  KeysUsed' /\ NoNeedlessChain'
<1> DEFINE i == grNext
           g == grGroup
           h == grGroup'
           ks == c.keys
           slots == SlotsOf(g, ks)
           target == KeyTarget(g, ks)
<1>1. /\ i \in Index /\ grClass \in ClassMap /\ g \in GroupingType /\ SlotsAgree(g, grClass)
      /\ KeysUsed /\ NoNeedlessChain
  BY DEF GrInv, GrAddCall, GroupingRight, SlotsAgreeInv
<1>2. grClass[i] = NoClass /\ grClass[i].keys = {}
  <2>1. i \notin JobsIn(grClass)
    BY DEF GrInv
  <2>2. QED
    BY <1>1, <2>1, ClassFacts DEF JobsIn
<1>3. grClass'[i] = c /\ \A j \in Index \ {i} : grClass'[j] = grClass[j]
  BY <1>1 DEF GrAddCall, ClassMap
<1>4. h = Add(g, i, c) /\ ks \in SUBSET Key
  BY ClassFacts DEF GrAddCall
<1>5. \A j \in Index : grClass[j].keys \subseteq grClass'[j].keys
  BY <1>2, <1>3
<1>6. \A S \in SUBSET Index : GrClosed(S)' => GrClosed(S)
  BY <1>5 DEF GrClosed
<1>7. \A x, y \in Index : GrLinked(x, y) => GrLinked(x, y)'
  BY <1>6 DEF GrLinked
<1> HIDE DEF i
<1>8. CASE ks = {}
  <2>1. \A j \in Index : grClass'[j].keys = grClass[j].keys
    BY <1>2, <1>3, <1>8
  <2>2. h.keyed = g.keyed /\ \A j \in Index \ {i} : h.chain[j] = g.chain[j]
    <3>1. CASE c.kind = "Serial"
      <4>1. h = AddSerial(g, i)
        BY <1>4, <3>1 DEF Add
      <4>2. QED
        BY <1>1, <4>1 DEF AddSerial, GroupingType
    <3>2. CASE c.kind # "Serial"
      BY <1>1, <1>4, <1>8, <3>2 DEF Add, AddSingle, GroupingType
    <3>3. QED
      BY <3>1, <3>2
  <2>3. \A S \in SUBSET Index : GrClosed(S)' <=> GrClosed(S)
    BY <2>1 DEF GrClosed
  <2>4. \A x, y \in Index : GrLinked(x, y)' <=> GrLinked(x, y)
    BY <2>3 DEF GrLinked
  <2>5. KeysUsed'
    BY <1>1, <2>1, <2>2 DEF KeysUsed
  <2>6. NoNeedlessChain'
    BY <1>1, <1>2, <2>1, <2>2, <2>4 DEF NoNeedlessChain
  <2>7. QED
    BY <2>5, <2>6
<1>9. CASE ks # {}
  <2>1. h = AddKeys(g, i, ks)
    BY <1>4, <1>9, ClassFacts DEF Add, Serial
  <2>2. \A j \in Index : h.chain[j] = IF j = i \/ g.chain[j] \in slots THEN target ELSE g.chain[j]
    BY <1>1, <1>4, <2>1, KeysChain
  <2>3. h.keyed = [k \in Key |-> IF k \in ks \/ g.keyed[k] \in slots THEN target ELSE g.keyed[k]]
    BY <1>1, <1>4, <2>1 DEF AddKeys, GroupingType
  <2>4. slots \in SUBSET (Nat \ {0})
    BY <1>1, <1>4 DEF SlotsOf, GroupingType
  <2>5. \A j \in Index : j # i /\ g.chain[j] = target => target \in slots
    <3>1. CASE slots = {}
      BY <1>1, <3>1 DEF KeyTarget, SlotsAgree, GroupingType
    <3>2. CASE slots # {}
      BY <2>4, <3>2, LeastInSet DEF KeyTarget
    <3>3. QED
      BY <3>1, <3>2
  <2>6. \A n \in slots : \E z \in Index \ {i}, k \in ks : k \in grClass[z].keys /\ g.chain[z] = n
    <3> SUFFICES ASSUME NEW n \in slots
                 PROVE  \E z \in Index \ {i}, k \in ks : k \in grClass[z].keys /\ g.chain[z] = n
      OBVIOUS
    <3>1. PICK k \in ks : n = g.keyed[k] /\ n # 0
      BY DEF SlotsOf
    <3>2. PICK z \in Index : k \in grClass[z].keys
      BY <1>1, <1>4, <3>1 DEF KeysUsed
    <3>3. z # i /\ g.chain[z] = n
      BY <1>1, <1>2, <3>1, <3>2 DEF SlotsAgree
    <3>4. QED
      BY <3>2, <3>3
  <2> HIDE DEF slots, target, ks, h, g
  <2>7. KeysUsed'
    <3> SUFFICES ASSUME NEW k \in Key, h.keyed[k] # 0
                 PROVE  \E j \in Index : k \in grClass'[j].keys
      BY DEF KeysUsed, h
    <3>1. CASE k \in ks
      BY <1>1, <1>3, <3>1 DEF ks
    <3>2. CASE k \notin ks
      <4>1. g.keyed[k] # 0
        BY <2>3, <2>4, <3>2
      <4>2. PICK z \in Index : k \in grClass[z].keys
        BY <1>1, <4>1 DEF KeysUsed, g
      <4>3. QED
        BY <1>5, <4>2
    <3>3. QED
      BY <3>1, <3>2
  <2>8. ASSUME NEW S \in SUBSET Index, GrClosed(S)', NEW x \in Index \ {i},
               g.chain[x] \in slots, grClass[x].keys # {}
        PROVE  x \in S <=> i \in S
    <3>1. PICK z \in Index \ {i}, k \in ks : k \in grClass[z].keys /\ g.chain[z] = g.chain[x]
      BY <2>6, <2>8
    <3>2. GrLinked(x, z) /\ GrLinked(z, x)
      BY <1>1, <2>8, <3>1 DEF NoNeedlessChain, g
    <3>3. x \in S <=> z \in S
      BY <1>6, <2>8, <3>2 DEF GrLinked
    <3>4. k \in grClass'[z].keys /\ k \in grClass'[i].keys
      BY <1>3, <3>1 DEF ks
    <3>5. z \in S <=> i \in S
      BY <1>1, <2>8, <3>1, <3>4 DEF GrClosed
    <3>6. QED
      BY <3>3, <3>5
  <2>9. ASSUME NEW x \in Index, NEW y \in Index, grClass'[x].keys # {}, grClass'[y].keys # {},
               h.chain[x] = h.chain[y]
        PROVE  GrLinked(x, y)'
    <3>1. x # i => grClass[x].keys # {}
      BY <1>3, <2>9
    <3>2. y # i => grClass[y].keys # {}
      BY <1>3, <2>9
    <3>3. CASE (x = i \/ g.chain[x] \in slots) /\ (y = i \/ g.chain[y] \in slots)
      <4> SUFFICES ASSUME NEW S \in SUBSET Index, GrClosed(S)', x \in S PROVE y \in S
        BY DEF GrLinked
      <4>1. i \in S
        BY <2>8, <3>1, <3>3
      <4>2. QED
        BY <2>8, <3>2, <3>3, <4>1
    <3>4. CASE x # i /\ g.chain[x] \notin slots /\ y # i /\ g.chain[y] \notin slots
      <4>1. g.chain[x] = g.chain[y]
        BY <2>2, <2>9, <3>4
      <4>2. GrLinked(x, y)
        BY <1>1, <3>1, <3>2, <3>4, <4>1 DEF NoNeedlessChain, g
      <4>3. QED
        BY <1>7, <4>2
    <3>5. QED
      BY <2>2, <2>5, <2>9, <3>3, <3>4
  <2>10. NoNeedlessChain'
    <3>1. \A x, y \in Index :
            grClass'[x].keys # {} /\ GrLinked(x, y)' => h.chain[x] = h.chain[y]
      <4> SUFFICES ASSUME NEW x \in Index, NEW y \in Index,
                          grClass'[x].keys # {}, GrLinked(x, y)'
                   PROVE  h.chain[x] = h.chain[y]
        OBVIOUS
      <4>1. SlotsAgree(h, grClass')
        BY DEF SlotsAgreeInv, h
      <4>2. \A S \in SUBSET Index :
              (\A j \in S, l \in Index : grClass'[j].keys \cap grClass'[l].keys # {} => l \in S)
                /\ x \in S => y \in S
        BY DEF GrLinked, GrClosed
      <4>3. QED
        BY <4>1, <4>2, LinkedShareChain
    <3>2. QED
      BY <2>9, <3>1 DEF NoNeedlessChain, h
  <2>11. QED
    BY <2>7, <2>10
<1>10. QED
  BY <1>8, <1>9

(***************************************************************************)
(* The grouping of any batch, of any length over any set of keys, orders   *)
(* what must be ordered, in the order of the calls, keeps every chain a    *)
(* list, and puts two calls with keys in one chain exactly when a sequence *)
(* of shared keys links them.                                              *)
(***************************************************************************)
THEOREM GroupingSafety == GrSpec => []GroupingRight
<1>1. GrInv /\ [GrNext]_grVars => GrInv'
  <2> SUFFICES ASSUME GrInv, [GrNext]_grVars PROVE GrInv'
    OBVIOUS
  <2>1. CASE UNCHANGED <<grClass, grGroup>> /\ grNext' \in {grNext, grNext + 1}
    <3>1. GroupingRight' /\ KeysUsed'
      BY <2>1 DEF GrInv, GroupingRight, NoNeedlessChain, GrLinked, GrClosed, CallOrderKeptInv,
                  ChainsAreListsInv, SlotsAgreeInv, KeysUsed
    <3>2. \A i \in JobsIn(grClass) : i \in Int
      BY DEF JobsIn, Index
    <3>3. QED
      BY <2>1, <3>1, <3>2 DEF GrInv
  <2>2. ASSUME NEW c \in Concurrency, GrAddCall(c) PROVE GrInv'
    <3>1. /\ grNext \in Index /\ grClass \in ClassMap /\ grGroup \in GroupingType
          /\ \A j \in JobsIn(grClass) : j < grNext
          /\ SlotsAgree(grGroup, grClass) /\ CallOrderKept(grGroup, grClass)
          /\ ChainsAreLists(grGroup)
      BY <2>2 DEF GrAddCall, GrInv, GroupingRight, SlotsAgreeInv, CallOrderKeptInv,
                  ChainsAreListsInv
    <3>2. grClass[grNext] = NoClass
      <4>1. grNext \notin JobsIn(grClass)
        BY DEF GrInv
      <4>2. QED
        BY <3>1, <4>1 DEF JobsIn
    <3>3. SlotsAgreeInv' /\ CallOrderKeptInv' /\ ChainsAreListsInv'
      <4>1. grClass' = [grClass EXCEPT ![grNext] = c] /\ grGroup' = Add(grGroup, grNext, c)
        BY <2>2 DEF GrAddCall
      <4>2. QED
        BY <3>1, <3>2, <4>1, AddKeepsSlots, AddKeepsOrder, AddKeepsLists
        DEF SlotsAgreeInv, CallOrderKeptInv, ChainsAreListsInv
    <3>4. KeysUsed' /\ NoNeedlessChain'
      BY <2>2, <3>3, AddLinks
    <3>5. grGroup' \in GroupingType /\ grClass' \in ClassMap /\ grNext' \in Nat
      BY <2>2, <3>1, AddType DEF GrAddCall, ClassMap, GrInv
    <3>6. \A j \in JobsIn(grClass') : j < grNext'
      <4>1. \A j \in JobsIn(grClass') : j \in Int /\ (j = grNext \/ j \in JobsIn(grClass))
        BY <2>2, <3>1 DEF GrAddCall, JobsIn, ClassMap, Index
      <4>2. QED
        BY <2>2, <3>1, <4>1 DEF GrAddCall, GrInv
    <3>7. QED
      BY <3>3, <3>4, <3>5, <3>6 DEF GrInv, GroupingRight
  <2>3. QED
    BY <2>1, <2>2 DEF GrNext, GrSkipCall, grVars
<1>2. GrInv => GroupingRight
  BY DEF GrInv
<1>3. QED
  BY <1>1, <1>2, GrInitInv, PTL DEF GrSpec
=============================================================================

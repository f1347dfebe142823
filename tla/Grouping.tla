------------------------------ MODULE Grouping ------------------------------
(***************************************************************************)
(* How the dispatcher groups the executable calls of one batch             *)
(* (crates/harness-core/src/dispatcher.rs, struct Grouping).               *)
(*                                                                         *)
(* Calls are named by their index in the batch.  The code keeps each chain *)
(* as a Vec of jobs.  Here a chain is the set of calls mapped to the same  *)
(* slot by g.chain, and the order in which the Vec lists them is the       *)
(* relation g.order: <<x, y>> is in it iff x stands before y in the Vec of *)
(* the chain they share.  Extending the first chain with the bridged ones, *)
(* in ascending slot order, is then a union of products.                   *)
(***************************************************************************)
EXTENDS Integers, FiniteSets

CONSTANTS
  MaxCalls,   \* bound on the number of tool calls in a batch
  Key         \* the keys a tool may classify a call by

ASSUME MaxCallsAssumption == MaxCalls \in Nat

Index == 1..MaxCalls

(***************************************************************************)
(* The class Tool::concurrency gives a call.  Keyed(k) is grouped exactly  *)
(* as Keys([k]) is, so both are the record with keys = {k}; the order and  *)
(* the repetition of the keys in the list make no difference to the code,  *)
(* which sorts and dedups the slots they lead to.                          *)
(***************************************************************************)
Parallel == [kind |-> "Parallel", keys |-> {}]
Serial   == [kind |-> "Serial", keys |-> {}]
Keys(ks) == [kind |-> "Keys", keys |-> ks]

Concurrency == {Parallel, Serial} \cup {Keys(ks) : ks \in SUBSET Key}

(* The class of a call that is not, or not yet, a job.                     *)
NoClass == [kind |-> "None", keys |-> {}]

(***************************************************************************)
(* Chain slots are 1..len; 0 stands for the absence of one (None).         *)
(***************************************************************************)
GroupingType ==
  [singles : SUBSET Index,
   chain   : [Index -> Nat],
   order   : SUBSET (Index \X Index),
   keyed   : [Key -> Nat],
   serial  : Nat,
   len     : Nat]

EmptyGrouping ==
  [singles |-> {},
   chain   |-> [i \in Index |-> 0],
   order   |-> {},
   keyed   |-> [k \in Key |-> 0],
   serial  |-> 0,
   len     |-> 0]

Least(S) == CHOOSE x \in S : \A y \in S : x =< y

Members(g, slots) == {j \in Index : g.chain[j] \in slots}

(* The chains the keys ks belong to, the one a call with these keys joins, *)
(* and the one a serial call joins.                                        *)
SlotsOf(g, ks) == {g.keyed[k] : k \in ks} \ {0}
KeyTarget(g, ks) ==
  IF SlotsOf(g, ks) = {} THEN g.len + 1 ELSE Least(SlotsOf(g, ks))
SerialTarget(g) == IF g.serial = 0 THEN g.len + 1 ELSE g.serial

(* Parallel calls, and calls with an empty key list, run as singles.       *)
AddSingle(g, i) == [g EXCEPT !.singles = @ \cup {i}]

(***************************************************************************)
(* A call with keys merges every chain one of its keys belongs to into the *)
(* one with the least slot, re-points the keys of the drained chains, and  *)
(* stands last in the result; with no such chain it opens a new one.       *)
(***************************************************************************)
AddKeysNoRepoint(g, i, ks) ==    \* mutation: drained chains keep their keys
  LET slots  == SlotsOf(g, ks)
      target == KeyTarget(g, ks)
      merged == Members(g, slots)
  IN  [g EXCEPT
        !.chain = [j \in Index |-> IF j = i \/ @[j] \in slots THEN target ELSE @[j]],
        !.order = @ \cup {p \in merged \X merged : g.chain[p[1]] < g.chain[p[2]]}
                    \cup (merged \X {i}),
        !.keyed = [k \in Key |-> IF k \in ks THEN target ELSE @[k]],
        !.len   = IF slots = {} THEN @ + 1 ELSE @]

AddKeys(g, i, ks) ==
  LET slots  == SlotsOf(g, ks)
      target == KeyTarget(g, ks)
      merged == Members(g, slots)
  IN  [g EXCEPT
        !.chain = [j \in Index |-> IF j = i \/ @[j] \in slots THEN target ELSE @[j]],
        !.order = @ \cup {p \in merged \X merged : g.chain[p[1]] < g.chain[p[2]]}
                    \cup (merged \X {i}),
        !.keyed = [k \in Key |-> IF k \in ks \/ @[k] \in slots THEN target ELSE @[k]],
        !.len   = IF slots = {} THEN @ + 1 ELSE @]

(* All serial calls of a batch form one chain, in call order.              *)
AddSerialApart(g, i) ==    \* mutation: every serial call opens a chain
  [g EXCEPT !.chain = [@ EXCEPT ![i] = g.len + 1],
            !.serial = g.len + 1, !.len = @ + 1]

AddSerial(g, i) ==
  LET target == SerialTarget(g)
  IN  [g EXCEPT
        !.chain  = [j \in Index |-> IF j = i THEN target ELSE @[j]],
        !.order  = @ \cup (Members(g, {target}) \X {i}),
        !.serial = target,
        !.len    = IF g.serial = 0 THEN @ + 1 ELSE @]

(* Grouping::add                                                           *)
Add(g, i, c) ==
  IF c.kind = "Serial" THEN AddSerial(g, i)
  ELSE IF c.keys = {} THEN AddSingle(g, i)
  ELSE AddKeys(g, i, c.keys)

-----------------------------------------------------------------------------
(* What the grouping g of calls with classes cls guarantees.               *)

JobsIn(cls) == {i \in Index : cls[i] # NoClass}

(* Two calls the code promises to run in call order.                       *)
Ordered(c, d) ==
  \/ c.keys \cap d.keys # {}
  \/ c = Serial /\ d = Serial

(* The fields agree: slots exist, every job is where its class leads, the  *)
(* serial chain holds the serial calls only.                               *)
SlotsAgree(g, cls) ==
  /\ g.serial =< g.len
  /\ \A k \in Key : g.keyed[k] =< g.len /\ (g.keyed[k] # 0 => g.keyed[k] # g.serial)
  /\ \A i \in Index :
       /\ g.chain[i] =< g.len
       /\ g.chain[i] # 0 <=> cls[i] = Serial \/ cls[i].keys # {}
       /\ g.chain[i] # 0 => (g.chain[i] = g.serial <=> cls[i] = Serial)
       /\ \A k \in cls[i].keys : g.chain[i] = g.keyed[k]
       /\ i \in g.singles <=> i \in JobsIn(cls) /\ g.chain[i] = 0

(* Within a chain, and nowhere else, the calls stand in one total order.   *)
ChainsAreLists(g) ==
  /\ \A p \in g.order : g.chain[p[1]] = g.chain[p[2]] /\ g.chain[p[1]] # 0
  /\ \A i, j \in Index :
       i # j /\ g.chain[i] = g.chain[j] /\ g.chain[i] # 0
         => (<<i, j>> \in g.order <=> <<j, i>> \notin g.order)
  /\ \A i, j, k \in Index :
       <<i, j>> \in g.order /\ <<j, k>> \in g.order => <<i, k>> \in g.order

(* Merging chains keeps the call order of every pair that has one.         *)
CallOrderKept(g, cls) ==
  \A i, j \in JobsIn(cls) : i < j /\ Ordered(cls[i], cls[j]) => <<i, j>> \in g.order

=============================================================================

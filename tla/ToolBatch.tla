----------------------------- MODULE ToolBatch ------------------------------
(***************************************************************************)
(* What the dispatcher promises about the execution of one batch, with no  *)
(* word about tasks, permits, locks or chains: README.md's table of the    *)
(* concurrency classes as a specification.  Calls are first classified;    *)
(* then each runs at most once, when its class and the width allow it.     *)
(***************************************************************************)
EXTENDS Integers, FiniteSets

CONSTANTS
  Call,      \* the calls of the batch, numbers in call order
  Class,     \* concurrency classes, records with a kind and a set of keys
  NoClass,   \* the class of a call that is not (yet) to be executed
  Width      \* how many calls may run at once

VARIABLES
  class,     \* the class of each call, once it is known
  running,   \* the calls whose tool is running
  ended      \* the calls that will not run (again)

vars == <<class, running, ended>>

Init ==
  /\ class = [i \in Call |-> NoClass]
  /\ running = {}
  /\ ended = {}

(* Classification precedes every execution.                                *)
Classify(i, c) ==
  /\ class[i] = NoClass /\ running = {} /\ ended = {}
  /\ class' = [class EXCEPT ![i] = c]
  /\ UNCHANGED <<running, ended>>

Earlier(i) == {j \in Call : j < i /\ class[j] # NoClass}
ShareKey(c, d) == c.keys \cap d.keys # {}
SameSerial(c, d) == c.kind = "Serial" /\ d.kind = "Serial"
Conflict(c, d) == c.kind = "Serial" \/ d.kind = "Serial" \/ ShareKey(c, d)

(* i's turn among the calls it is ordered with has come.                   *)
Turn(i) ==
  /\ class[i] # NoClass /\ i \notin running \cup ended
  /\ \A j \in Earlier(i) :
       ShareKey(class[i], class[j]) \/ SameSerial(class[i], class[j]) => j \in ended

Begin(i) ==
  /\ Turn(i)
  /\ \A j \in running : ~Conflict(class[i], class[j])
  /\ Cardinality(running) < Width
  /\ running' = running \cup {i}
  /\ UNCHANGED <<class, ended>>

End(i) ==
  /\ i \in running
  /\ running' = running \ {i}
  /\ ended' = ended \cup {i}
  /\ UNCHANGED class

(* i is interrupted before its tool ran.                                   *)
Skip(i) ==
  /\ Turn(i)
  /\ ended' = ended \cup {i}
  /\ UNCHANGED <<class, running>>

Next ==
  \E i \in Call :
    \/ \E c \in Class : Classify(i, c)
    \/ Begin(i) \/ End(i) \/ Skip(i)

Spec == Init /\ [][Next]_vars
=============================================================================

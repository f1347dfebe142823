---------------------------- MODULE GroupingSteps ---------------------------
(***************************************************************************)
(* Grouping on its own: the calls of a batch are added one after another,  *)
(* as phase 1 of Dispatcher::execute adds them, skipping the calls that    *)
(* were denied or have no tool.                                            *)
(***************************************************************************)
EXTENDS Grouping

VARIABLES
  grNext,    \* the index of the next call
  grClass,   \* the classes of the calls added
  grGroup    \* the Grouping

grVars == <<grNext, grClass, grGroup>>

GrInit ==
  /\ grNext = 1
  /\ grClass = [i \in Index |-> NoClass]
  /\ grGroup = EmptyGrouping

GrSkipCall ==
  /\ grNext \in Index
  /\ grNext' = grNext + 1
  /\ UNCHANGED <<grClass, grGroup>>

GrAddCall(k) ==
  /\ grNext \in Index
  /\ grClass' = [grClass EXCEPT ![grNext] = k]
  /\ grGroup' = Add(grGroup, grNext, k)
  /\ grNext' = grNext + 1

GrNext == GrSkipCall \/ \E k \in Concurrency : GrAddCall(k)

GrSpec == GrInit /\ [][GrNext]_grVars

(* Grouping::add keeps its own bookkeeping consistent, whatever the calls. *)
SlotsAgreeInv == SlotsAgree(grGroup, grClass)

(* However chains are merged, each stays a list: a task runs its calls one *)
(* after the other, none of them twice and none waiting for itself.        *)
ChainsAreListsInv == ChainsAreLists(grGroup)

(* "Per-key call order survives" every merge, and serial calls keep theirs. *)
CallOrderKeptInv == CallOrderKept(grGroup, grClass)

(***************************************************************************)
(* "Unrelated calls continue concurrently": two calls with keys end up in  *)
(* one chain only if a sequence of calls, each sharing a key with the      *)
(* next, links them.  The reference definition of linked: no set closed    *)
(* under sharing keys has one of them without the other.                   *)
(***************************************************************************)
GrClosed(S) ==
  \A i \in S, j \in Index : grClass[i].keys \cap grClass[j].keys # {} => j \in S
GrLinked(i, j) == \A S \in SUBSET Index : GrClosed(S) /\ i \in S => j \in S
NoNeedlessChain ==
  \A i, j \in Index :
    grClass[i].keys # {} /\ grClass[j].keys # {} =>
      (grGroup.chain[i] = grGroup.chain[j] <=> GrLinked(i, j))

(***************************************************************************)
(* The grouping of a batch orders what must be ordered, in the order of    *)
(* the calls, and nothing else.                                            *)
(***************************************************************************)
GroupingRight == NoNeedlessChain /\ CallOrderKeptInv /\ ChainsAreListsInv /\ SlotsAgreeInv
=============================================================================

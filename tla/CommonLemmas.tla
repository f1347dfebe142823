---------------------------- MODULE CommonLemmas ----------------------------
(***************************************************************************)
(* Facts about numbers, queues, sequences and sums over finite sets that   *)
(* the proofs of several components rest on.  The library's induction      *)
(* theorems have an operator for a parameter, which the provers cannot     *)
(* instantiate; the induction here is on membership in a set, and rests    *)
(* on the well-ordering of Nat.                                            *)
(***************************************************************************)
EXTENDS Queues, Functions, SequencesExt, FiniteSetTheorems, SequenceTheorems, WellFoundedInduction, TLAPS

(* f is the function Without(q, S) is defined by, as far as n.             *)
IsKept(q, S, n, f) ==
  f = [i \in 0 .. n |-> IF i = 0 THEN <<>>
                        ELSE IF q[i] \in S THEN f[i - 1] ELSE Append(f[i - 1], q[i])]

(* A set of natural numbers has a least element.                           *)
LEMMA LeastExists ==
  ASSUME NEW S \in SUBSET Nat, S # {}
  PROVE  \E x \in S : \A y \in S : x =< y
<1>1. \E x \in S : \A y \in S : <<y, x>> \notin OpToRel(<, Nat)
  BY WFMin, NatLessThanWellFounded, Zenon
<1>2. PICK x \in S : \A y \in S : <<y, x>> \notin OpToRel(<, Nat)
  BY <1>1
<1>3. \A y \in S : ~(y < x)
  BY <1>2 DEF OpToRel
<1>4. QED
  BY <1>3

(* Induction up to a bound, for membership in a set.                       *)
LEMMA UpTo ==
  ASSUME NEW S, NEW m \in Nat, 0 \in S, \A n \in 1 .. m : n - 1 \in S => n \in S
  PROVE  \A n \in 0 .. m : n \in S
<1> DEFINE Bad == {n \in 0 .. m : n \notin S}
<1> SUFFICES ASSUME Bad # {} PROVE FALSE
  OBVIOUS
<1>1. Bad \in SUBSET Nat
  OBVIOUS
<1>2. PICK n \in Bad : \A k \in Bad : n =< k
  BY <1>1, LeastExists
<1>3. n \in 1 .. m /\ n - 1 \notin Bad /\ n - 1 \in 0 .. m
  BY <1>2
<1>4. QED
  BY <1>3

(* A loop of n turns from x, where one turn takes X to X.                   *)
Loops(X, x, n, F, f) == /\ f \in [0 .. n -> X] /\ f[0] = x
                        /\ \A i \in 1 .. n : f[i] = F[<<f[i - 1], i>>]
LEMMA LoopExists ==
  ASSUME NEW X, NEW x \in X, NEW n \in Nat, NEW F,
         \A y \in X, i \in 1 .. n : F[<<y, i>>] \in X
  PROVE  \E f : Loops(X, x, n, F, f)
<1> DEFINE Runs(m, f) == /\ f \in [0 .. m -> X] /\ f[0] = x
                         /\ \A i \in 1 .. m : f[i] = F[<<f[i - 1], i>>]
           Good == {m \in 0 .. n : \E f : Runs(m, f)}
<1>1. 0 \in Good
  <2> DEFINE f == [i \in 0 .. 0 |-> x]
  <2>1. f \in [0 .. 0 -> X] /\ f[0] = x
    OBVIOUS
  <2> HIDE DEF f
  <2>2. Runs(0, f)
    BY <2>1
  <2> QED
    BY <2>2
<1>2. ASSUME NEW m \in 1 .. n, m - 1 \in Good PROVE m \in Good
  <2>1. PICK f : Runs(m - 1, f)
    BY <1>2
  <2> DEFINE y == F[<<f[m - 1], m>>]
             g == [i \in 0 .. m |-> IF i = m THEN y ELSE f[i]]
  <2>2. f[m - 1] \in X
    BY <2>1
  <2>3. y \in X
    BY <2>2
  <2> HIDE DEF y
  <2>4. g \in [0 .. m -> X] /\ g[0] = x /\ g[m] = y
    BY <2>1, <2>3
  <2>5. ASSUME NEW i \in 1 .. m PROVE g[i] = F[<<g[i - 1], i>>]
    <3>1. CASE i = m
      <4>1. g[i - 1] = f[m - 1]
        BY <3>1
      <4> QED
        BY <3>1, <4>1, <2>4 DEF y
    <3>2. CASE i # m
      <4>1. i \in 1 .. m - 1 /\ g[i] = f[i] /\ g[i - 1] = f[i - 1]
        BY <3>2
      <4> QED
        BY <2>1, <4>1
    <3> QED
      BY <3>1, <3>2
  <2> HIDE DEF g
  <2>6. Runs(m, g)
    BY <2>4, <2>5
  <2>7. m \in 0 .. n
    OBVIOUS
  <2> QED
    BY <2>6, <2>7
<1>3. n \in Good
  <2> HIDE DEF Good
  <2>1. \A m \in 0 .. n : m \in Good
    BY <1>1, <1>2, UpTo
  <2> QED
    BY <2>1
<1> QED
  BY <1>3 DEF Loops

(* The recursive definition has a solution.                                *)
LEMMA KeptExists ==
  ASSUME NEW q, NEW S, NEW n \in Nat
  PROVE  \E f : IsKept(q, S, n, f)
<1> DEFINE Bad == {m \in Nat : ~\E f : IsKept(q, S, m, f)}
<1>1. SUFFICES ASSUME Bad # {} PROVE FALSE
  OBVIOUS
<1>2. PICK m \in Bad : \A k \in Bad : m =< k
  BY <1>1, LeastExists
<1>3. m # 0
  <2> DEFINE f == [i \in 0 .. 0 |-> <<>>]
  <2>1. IsKept(q, S, 0, f)
    BY DEF IsKept
  <2>2. QED
    BY <2>1
<1>4. PICK f : IsKept(q, S, m - 1, f)
  <2>1. m - 1 \in Nat /\ m - 1 \notin Bad
    BY <1>2, <1>3
  <2>2. QED
    BY <2>1
<1> DEFINE g == [i \in 0 .. m |-> IF i = 0 THEN <<>>
                   ELSE IF q[i] \in S THEN f[i - 1] ELSE Append(f[i - 1], q[i])]
<1>5. \A i \in 0 .. m - 1 : g[i] = f[i]
  <2>1. m \in Nat /\ \A i \in 0 .. m - 1 : i \in 0 .. m
    OBVIOUS
  <2>2. \A i \in 0 .. m - 1 :
          f[i] = IF i = 0 THEN <<>>
                 ELSE IF q[i] \in S THEN f[i - 1] ELSE Append(f[i - 1], q[i])
    BY <1>4, Zenon DEF IsKept
  <2>3. QED
    BY <2>1, <2>2
<1>6. IsKept(q, S, m, g)
  <2>1. \A i \in 0 .. m : i # 0 => i - 1 \in 0 .. m - 1
    OBVIOUS
  <2>2. \A i \in 0 .. m : i # 0 => g[i - 1] = f[i - 1]
    BY <2>1, <1>5
  <2>3. QED
    BY <2>2 DEF IsKept
<1>7. QED
  BY <1>6

(* Without is what its recursive definition computes.                      *)
LEMMA WithoutIs ==
  ASSUME NEW q, NEW S, Len(q) \in Nat
  PROVE  \E f : IsKept(q, S, Len(q), f) /\ Without(q, S) = f[Len(q)]
<1> DEFINE kept == CHOOSE f : IsKept(q, S, Len(q), f)
<1>1. IsKept(q, S, Len(q), kept)
  BY KeptExists
<1>2. Without(q, S) = kept[Len(q)]
  BY DEF Without, IsKept
<1>3. QED
  BY <1>1, <1>2

(* What has been kept of the first n elements of q.                        *)
Unique(s) == \A i, j \in DOMAIN s : s[i] = s[j] => i = j
KeptOf(q, S, n, s) ==
  /\ \A j \in DOMAIN s : s[j] \notin S /\ \E i \in 1 .. n : s[j] = q[i]
  /\ \A i \in 1 .. n : q[i] \notin S => \E j \in DOMAIN s : s[j] = q[i]
  /\ Unique(q) => Unique(s)
  /\ n > 0 /\ q[1] \notin S => Len(s) > 0 /\ s[1] = q[1]

(* One element more is looked at, and kept.                                *)
LEMMA KeptOneMore ==
  ASSUME NEW T, NEW q \in Seq(T), NEW S, NEW n \in 1 .. Len(q), NEW s \in Seq(T),
         KeptOf(q, S, n - 1, s), q[n] \notin S
  PROVE  Append(s, q[n]) \in Seq(T) /\ KeptOf(q, S, n, Append(s, q[n]))
<1> DEFINE t == Append(s, q[n])
<1>1. q[n] \in T /\ n \in DOMAIN q /\ DOMAIN q = 1 .. Len(q)
  OBVIOUS
<1>2. /\ t \in Seq(T) /\ DOMAIN s = 1 .. Len(s) /\ DOMAIN t = 1 .. Len(s) + 1
      /\ t[Len(s) + 1] = q[n] /\ Len(s) \in Nat /\ Len(t) = Len(s) + 1
      /\ \A j \in 1 .. Len(s) : t[j] = s[j]
  BY <1>1
<1>3. /\ \A j \in DOMAIN s : s[j] \notin S /\ \E i \in 1 .. n - 1 : s[j] = q[i]
      /\ \A i \in 1 .. n - 1 : q[i] \notin S => \E j \in DOMAIN s : s[j] = q[i]
      /\ Unique(q) => Unique(s)
  BY DEF KeptOf
<1> HIDE DEF t
<1>4. \A j \in DOMAIN t : t[j] \notin S /\ \E i \in 1 .. n : t[j] = q[i]
  <2> TAKE j \in DOMAIN t
  <2>1. CASE j = Len(s) + 1
    BY <2>1, <1>2
  <2>2. CASE j \in 1 .. Len(s)
    BY <2>2, <1>2, <1>3
  <2>3. QED
    BY <2>1, <2>2, <1>2
<1>5. \A i \in 1 .. n : q[i] \notin S => \E j \in DOMAIN t : t[j] = q[i]
  <2> SUFFICES ASSUME NEW i \in 1 .. n, q[i] \notin S PROVE \E j \in DOMAIN t : t[j] = q[i]
    OBVIOUS
  <2>1. CASE i = n
    BY <2>1, <1>2
  <2>2. CASE i \in 1 .. n - 1
    <3>1. PICK j \in DOMAIN s : s[j] = q[i]
      BY <2>2, <1>3
    <3>2. j \in DOMAIN t /\ t[j] = q[i]
      BY <3>1, <1>2
    <3>3. QED
      BY <3>2
  <2>3. QED
    BY <2>1, <2>2
<1>6. ASSUME Unique(q) PROVE Unique(t)
  <2>1. \A j \in 1 .. Len(s) : s[j] # q[n]
    <3> SUFFICES ASSUME NEW j \in 1 .. Len(s) PROVE s[j] # q[n]
      OBVIOUS
    <3>1. PICK i \in 1 .. n - 1 : s[j] = q[i]
      BY <1>2, <1>3
    <3>2. i \in DOMAIN q /\ i # n
      BY <1>1
    <3>3. QED
      BY <3>1, <3>2, <1>1, <1>6 DEF Unique
  <2>2. Unique(s)
    BY <1>3, <1>6
  <2>3. QED
    BY <2>1, <2>2, <1>2 DEF Unique
<1>7. ASSUME q[1] \notin S PROVE Len(t) > 0 /\ t[1] = q[1]
  <2>1. CASE n = 1
    <3>1. 1 \notin DOMAIN s
      <4> SUFFICES ASSUME 1 \in DOMAIN s PROVE FALSE
        OBVIOUS
      <4>1. PICK i \in 1 .. n - 1 : s[1] = q[i]
        BY <1>3
      <4>2. QED
        BY <2>1, <4>1
    <3>2. Len(s) = 0
      BY <3>1, <1>2
    <3>3. QED
      BY <2>1, <3>2, <1>2
  <2>2. CASE n # 1
    <3>1. Len(s) > 0 /\ s[1] = q[1]
      BY <1>7, <2>2 DEF KeptOf
    <3>2. QED
      BY <3>1, <1>2
  <2>3. QED
    BY <2>1, <2>2
<1>8. QED
  BY <1>2, <1>4, <1>5, <1>6, <1>7 DEF KeptOf, t

(***************************************************************************)
(* Without removes exactly the elements of S, whatever the queue holds,    *)
(* brings in no repetition, and leaves the head where it is unless it goes *)
(* too: retain of the manager's queue, a waiter that leaves a mutex.       *)
(***************************************************************************)
LEMMA WithoutKeeps ==
  ASSUME NEW T, NEW q \in Seq(T), NEW S
  PROVE  /\ Without(q, S) \in Seq(T)
         /\ \A x : x \in Range(Without(q, S)) <=> x \in Range(q) /\ x \notin S
         /\ Unique(q) => Unique(Without(q, S))
         /\ q # <<>> /\ Head(q) \notin S =>
              Without(q, S) # <<>> /\ Head(Without(q, S)) = Head(q)
<1>1. PICK f : IsKept(q, S, Len(q), f) /\ Without(q, S) = f[Len(q)]
  BY WithoutIs
<1>2. \A i \in 0 .. Len(q) :
        f[i] = IF i = 0 THEN <<>>
               ELSE IF q[i] \in S THEN f[i - 1] ELSE Append(f[i - 1], q[i])
  BY <1>1, Zenon DEF IsKept
<1> DEFINE Good == {n \in Nat : f[n] \in Seq(T) /\ KeptOf(q, S, n, f[n])}
<1>3. 0 \in Good
  <2>1. f[0] = <<>>
    BY <1>2
  <2>2. <<>> \in Seq(T) /\ DOMAIN <<>> = {} /\ 1 .. 0 = {}
    OBVIOUS
  <2>3. KeptOf(q, S, 0, <<>>)
    BY <2>2 DEF KeptOf, Unique
  <2>4. QED
    BY <2>1, <2>2, <2>3
<1>4. ASSUME NEW n \in 1 .. Len(q), n - 1 \in Good PROVE n \in Good
  <2>1. f[n] = IF q[n] \in S THEN f[n - 1] ELSE Append(f[n - 1], q[n])
    BY <1>2
  <2>2. f[n - 1] \in Seq(T) /\ KeptOf(q, S, n - 1, f[n - 1])
    BY <1>4
  <2>3. CASE q[n] \in S
    <3>1. KeptOf(q, S, n, f[n - 1])
      BY <2>2, <2>3 DEF KeptOf
    <3>2. QED
      BY <3>1, <2>1, <2>2, <2>3
  <2>4. CASE q[n] \notin S
    <3>1. Append(f[n - 1], q[n]) \in Seq(T) /\ KeptOf(q, S, n, Append(f[n - 1], q[n]))
      BY <2>2, <2>4, KeptOneMore
    <3>2. f[n] = Append(f[n - 1], q[n]) /\ n \in Nat
      BY <2>1, <2>4
    <3>3. QED
      BY <3>1, <3>2
  <2>5. QED
    BY <2>3, <2>4
<1>5. Len(q) \in Good
  <2> HIDE DEF Good
  <2>1. Len(q) \in Nat /\ Len(q) \in 0 .. Len(q)
    OBVIOUS
  <2>2. QED
    BY <2>1, <1>3, <1>4, UpTo
<1>6. f[Len(q)] \in Seq(T) /\ KeptOf(q, S, Len(q), f[Len(q)])
  BY <1>5
<1>7. ASSUME q # <<>>, Head(q) \notin S
      PROVE  f[Len(q)] # <<>> /\ Head(f[Len(q)]) = Head(q)
  <2>1. Len(q) > 0 /\ q[1] = Head(q)
    BY <1>7
  <2>2. Len(f[Len(q)]) > 0 /\ f[Len(q)][1] = q[1]
    BY <1>6, <1>7, <2>1 DEF KeptOf
  <2> DEFINE s == f[Len(q)]
  <2> s \in Seq(T)
    BY <1>6
  <2> HIDE DEF s
  <2>3. Len(s) > 0 /\ s[1] = Head(q) => s # <<>> /\ Head(s) = Head(q)
    OBVIOUS
  <2>4. QED
    BY <2>1, <2>2, <2>3 DEF s
<1> DEFINE s == f[Len(q)]
<1>8. /\ s \in Seq(T) /\ \A x : x \in Range(s) <=> x \in Range(q) /\ x \notin S
      /\ Unique(q) => Unique(s)
  BY <1>6 DEF Range, KeptOf
<1> HIDE DEF s
<1>9. Without(q, S) = s
  BY <1>1 DEF s
<1>10. q # <<>> /\ Head(q) \notin S => s # <<>> /\ Head(s) = Head(q)
  BY <1>7 DEF s
<1>11. QED
  BY <1>8, <1>9, <1>10

(* Joining a queue, and leaving at its head.                               *)
LEMMA AppendUnique ==
  ASSUME NEW T, NEW q \in Seq(T), NEW x \in T, x \notin Range(q), Unique(q)
  PROVE  Unique(Append(q, x)) /\ Range(Append(q, x)) = Range(q) \cup {x}
<1> DEFINE r == Append(q, x)
<1>1. /\ DOMAIN q = 1 .. Len(q) /\ DOMAIN r = 1 .. Len(q) + 1 /\ Len(q) \in Nat
      /\ r[Len(q) + 1] = x /\ \A i \in 1 .. Len(q) : r[i] = q[i]
  OBVIOUS
<1>2. \A i \in DOMAIN q : q[i] # x
  BY DEF Range
<1> HIDE DEF r
<1>3. Unique(r)
  BY <1>1, <1>2 DEF Unique
<1>4. Range(r) = Range(q) \cup {x}
  <2>1. \A i \in DOMAIN r : r[i] \in Range(q) \cup {x}
    BY <1>1 DEF Range
  <2>2. \A i \in DOMAIN q : i \in DOMAIN r /\ r[i] = q[i]
    BY <1>1
  <2>3. x \in Range(r)
    BY <1>1 DEF Range
  <2>4. QED
    BY <2>1, <2>2, <2>3 DEF Range
<1>5. QED
  BY <1>3, <1>4 DEF r

LEMMA TailUnique ==
  ASSUME NEW T, NEW q \in Seq(T), q # <<>>, Unique(q)
  PROVE  /\ Unique(Tail(q)) /\ Range(Tail(q)) = Range(q) \ {Head(q)}
         /\ Head(q) \in Range(q)
<1> DEFINE r == Tail(q)
<1>1. /\ DOMAIN q = 1 .. Len(q) /\ DOMAIN r = 1 .. Len(q) - 1 /\ Len(q) \in Nat \ {0}
      /\ q[1] = Head(q) /\ \A i \in 1 .. Len(q) - 1 : r[i] = q[i + 1]
  OBVIOUS
<1>2. \A i \in DOMAIN q : i # 1 => q[i] # Head(q)
  BY <1>1 DEF Unique
<1> HIDE DEF r
<1>3. Unique(r)
  BY <1>1 DEF Unique
<1>4. Head(q) \in Range(q)
  BY <1>1 DEF Range
<1>5. Range(r) = Range(q) \ {Head(q)}
  <2>1. \A i \in DOMAIN r : i + 1 \in DOMAIN q /\ i + 1 # 1 /\ r[i] = q[i + 1]
    BY <1>1
  <2>2. \A i \in DOMAIN q : i # 1 => i - 1 \in DOMAIN r /\ r[i - 1] = q[i]
    BY <1>1
  <2>3. \A x \in Range(r) : x \in Range(q) /\ x # Head(q)
    BY <2>1, <1>2 DEF Range
  <2>4. \A x \in Range(q) : x # Head(q) => x \in Range(r)
    <3> SUFFICES ASSUME NEW i \in DOMAIN q, q[i] # Head(q) PROVE q[i] \in Range(r)
      BY DEF Range
    <3>1. i # 1
      BY <1>1
    <3>2. QED
      BY <3>1, <2>2 DEF Range
  <2>5. QED
    BY <2>3, <2>4
<1>6. QED
  BY <1>3, <1>4, <1>5 DEF r

(* A finite set with one element more, or one fewer; and a part of it.     *)
LEMMA OneMoreOrFewer ==
  ASSUME NEW S, IsFiniteSet(S), NEW x
  PROVE  /\ Cardinality(S) \in Nat
         /\ IsFiniteSet(S \cup {x}) /\ IsFiniteSet(S \ {x})
         /\ x \in S => Cardinality(S) > 0 /\ Cardinality(S \ {x}) = Cardinality(S) - 1
         /\ x \notin S => Cardinality(S \cup {x}) = Cardinality(S) + 1
         /\ Cardinality(S \cup {x}) <= Cardinality(S) + 1
<1>1. Cardinality(S) \in Nat
  BY FS_CardinalityType
<1>2. /\ IsFiniteSet(S \cup {x})
      /\ Cardinality(S \cup {x}) = IF x \in S THEN Cardinality(S) ELSE Cardinality(S) + 1
  BY FS_AddElement
<1>3. /\ IsFiniteSet(S \ {x})
      /\ Cardinality(S \ {x}) = IF x \in S THEN Cardinality(S) - 1 ELSE Cardinality(S)
  BY FS_RemoveElement
<1>4. x \in S => Cardinality(S) # 0
  BY FS_EmptySet
<1>5. QED
  BY <1>1, <1>2, <1>3, <1>4
-----------------------------------------------------------------------------
(* Sums                                                                    *)

Some(T) == CHOOSE x \in T : TRUE

(* g is the function SumFunction(f) is defined by, on the subsets of S ... *)
IsTotal(f, S, g) ==
  g = [T \in SUBSET S |-> IF T = {} THEN 0 ELSE f[Some(T)] + g[T \ {Some(T)}]]
(* ... and as far as those with n elements.                                *)
Small(S, n) == {T \in SUBSET S : Cardinality(T) =< n}
IsTotalTo(f, S, n, g) ==
  g = [T \in Small(S, n) |-> IF T = {} THEN 0 ELSE f[Some(T)] + g[T \ {Some(T)}]]

LEMMA SumFolds ==
  ASSUME NEW f
  PROVE  SumFunction(f) = (CHOOSE g : IsTotal(f, DOMAIN f, g))[DOMAIN f]
  BY DEF SumFunction, SumFunctionOnSet, FoldFunctionOnSet, MapThenFoldSet, IsTotal, Some

(* What is left when one element of a finite set has been taken.           *)
LEMMA TakeOne ==
  ASSUME NEW S, IsFiniteSet(S), NEW T \in SUBSET S, T # {}
  PROVE  /\ Some(T) \in T /\ T \ {Some(T)} \in SUBSET S
         /\ Cardinality(T) \in Nat \ {0} /\ Cardinality(T \ {Some(T)}) = Cardinality(T) - 1
<1>1. Some(T) \in T
  BY DEF Some
<1>2. IsFiniteSet(T)
  BY FS_Subset
<1>3. /\ Cardinality(T) \in Nat /\ Cardinality(T) > 0
      /\ Cardinality(T \ {Some(T)}) = Cardinality(T) - 1
  BY <1>1, <1>2, OneMoreOrFewer
<1>4. QED
  BY <1>1, <1>3

(* Induction over the subsets of a finite set, for membership in a set.    *)
LEMMA SubsetInduction ==
  ASSUME NEW S, IsFiniteSet(S), NEW G, {} \in G,
         \A T \in SUBSET S : T # {} /\ T \ {Some(T)} \in G => T \in G
  PROVE  \A T \in SUBSET S : T \in G
<1> DEFINE Done == {n \in Nat : \A T \in SUBSET S : Cardinality(T) =< n => T \in G}
<1>1. \A T \in SUBSET S : IsFiniteSet(T) /\ Cardinality(T) \in Nat
  BY FS_Subset, FS_CardinalityType
<1>2. 0 \in Done
  <2>1. \A T \in SUBSET S : Cardinality(T) = 0 => T = {}
    BY <1>1, FS_EmptySet
  <2>2. \A T \in SUBSET S : Cardinality(T) =< 0 => Cardinality(T) = 0
    BY <1>1
  <2>3. QED
    BY <2>1, <2>2
<1>3. ASSUME NEW n \in Nat \ {0}, n - 1 \in Done PROVE n \in Done
  <2> SUFFICES ASSUME NEW T \in SUBSET S, Cardinality(T) =< n PROVE T \in G
    BY <1>3
  <2>1. CASE T = {}
    BY <2>1
  <2>2. CASE T # {}
    <3>1. /\ T \ {Some(T)} \in SUBSET S /\ Cardinality(T \ {Some(T)}) = Cardinality(T) - 1
          /\ Cardinality(T) \in Nat
      BY <2>2, TakeOne
    <3>2. Cardinality(T \ {Some(T)}) =< n - 1
      BY <3>1
    <3>3. T \ {Some(T)} \in G
      BY <1>3, <3>1, <3>2
    <3>4. QED
      BY <2>2, <3>3
  <2>3. QED
    BY <2>1, <2>2
<1>4. Cardinality(S) \in Nat
  BY FS_CardinalityType
<1>5. Cardinality(S) \in Done
  <2> HIDE DEF Done
  <2>1. \A n \in 1 .. Cardinality(S) : n - 1 \in Done => n \in Done
    BY <1>3, <1>4
  <2>2. \A n \in 0 .. Cardinality(S) : n \in Done
    BY <1>2, <1>4, <2>1, UpTo
  <2>3. QED
    BY <1>4, <2>2
<1>6. \A T \in SUBSET S : Cardinality(T) =< Cardinality(S)
  BY FS_Subset
<1>7. QED
  BY <1>5, <1>6

(* The recursive definition has a solution.                                *)
LEMMA TotalToExists ==
  ASSUME NEW f, NEW S, IsFiniteSet(S), NEW n \in Nat
  PROVE  \E g : IsTotalTo(f, S, n, g)
<1> DEFINE Bad == {m \in Nat : ~\E g : IsTotalTo(f, S, m, g)}
<1>0. \A T \in SUBSET S : IsFiniteSet(T) /\ Cardinality(T) \in Nat
  BY FS_Subset, FS_CardinalityType
<1>1. SUFFICES ASSUME Bad # {} PROVE FALSE
  OBVIOUS
<1>2. PICK m \in Bad : \A k \in Bad : m =< k
  BY <1>1, LeastExists
<1>3. m # 0
  <2> DEFINE g == [T \in Small(S, 0) |-> 0]
  <2>1. \A T \in Small(S, 0) : T = {}
    <3>1. \A T \in Small(S, 0) : T \in SUBSET S /\ Cardinality(T) = 0
      BY <1>0 DEF Small
    <3>2. QED
      BY <1>0, <3>1, FS_EmptySet
  <2>2. IsTotalTo(f, S, 0, g)
    BY <2>1 DEF IsTotalTo
  <2>3. QED
    BY <2>2
<1>4. PICK h : IsTotalTo(f, S, m - 1, h)
  <2>1. m - 1 \in Nat /\ m - 1 \notin Bad
    BY <1>2, <1>3
  <2>2. QED
    BY <2>1
<1> DEFINE g == [T \in Small(S, m) |-> IF T = {} THEN 0 ELSE f[Some(T)] + h[T \ {Some(T)}]]
<1>5. \A T \in Small(S, m - 1) : T \in Small(S, m)
  BY <1>0 DEF Small
<1>6. \A T \in Small(S, m - 1) : g[T] = h[T]
  <2>1. \A T \in Small(S, m - 1) :
          h[T] = IF T = {} THEN 0 ELSE f[Some(T)] + h[T \ {Some(T)}]
    BY <1>4, Zenon DEF IsTotalTo
  <2>2. QED
    BY <1>5, <2>1
<1>7. \A T \in Small(S, m) : T # {} => T \ {Some(T)} \in Small(S, m - 1)
  <2> SUFFICES ASSUME NEW T \in SUBSET S, Cardinality(T) =< m, T # {}
               PROVE  T \ {Some(T)} \in Small(S, m - 1)
    BY DEF Small
  <2>1. /\ T \ {Some(T)} \in SUBSET S /\ Cardinality(T) \in Nat
        /\ Cardinality(T \ {Some(T)}) = Cardinality(T) - 1
    BY TakeOne
  <2>2. QED
    BY <2>1 DEF Small
<1>8. \A T \in Small(S, m) : T # {} => g[T \ {Some(T)}] = h[T \ {Some(T)}]
  <2> HIDE DEF g
  <2>1. QED
    BY <1>6, <1>7
<1>9. IsTotalTo(f, S, m, g)
  BY <1>8 DEF IsTotalTo
<1>10. QED
  BY <1>2, <1>9

LEMMA TotalExists ==
  ASSUME NEW f, NEW S, IsFiniteSet(S)
  PROVE  \E g : IsTotal(f, S, g)
<1>1. Cardinality(S) \in Nat /\ \A T \in SUBSET S : Cardinality(T) =< Cardinality(S)
  BY FS_CardinalityType, FS_Subset
<1>2. Small(S, Cardinality(S)) = SUBSET S
  BY <1>1 DEF Small
<1>3. PICK g : IsTotalTo(f, S, Cardinality(S), g)
  BY <1>1, TotalToExists
<1>4. IsTotal(f, S, g)
  BY <1>2, <1>3 DEF IsTotal, IsTotalTo
<1>5. QED
  BY <1>4

(* The sum over a finite set, one element after another.                   *)
Totals(f, S, g) ==
  /\ g[{}] = 0
  /\ \A T \in SUBSET S : /\ g[T] \in Nat
                         /\ T # {} => g[T] = f[Some(T)] + g[T \ {Some(T)}]

LEMMA SumIs ==
  ASSUME NEW S, IsFiniteSet(S), NEW f \in [S -> Nat]
  PROVE  \E g : Totals(f, S, g) /\ SumFunction(f) = g[S]
<1> DEFINE g == CHOOSE g : IsTotal(f, S, g)
<1>1. IsTotal(f, S, g)
  BY TotalExists
<1>2. SumFunction(f) = g[S]
  <2>1. DOMAIN f = S
    OBVIOUS
  <2>2. QED
    BY <2>1, SumFolds
<1> HIDE DEF g
<1>3. \A T \in SUBSET S : g[T] = IF T = {} THEN 0 ELSE f[Some(T)] + g[T \ {Some(T)}]
  BY <1>1, Zenon DEF IsTotal
<1> DEFINE G == {T \in SUBSET S : g[T] \in Nat}
<1>4. {} \in G
  BY <1>3
<1>5. \A T \in SUBSET S : T # {} /\ T \ {Some(T)} \in G => T \in G
  <2> SUFFICES ASSUME NEW T \in SUBSET S, T # {}, T \ {Some(T)} \in G PROVE T \in G
    OBVIOUS
  <2>1. Some(T) \in S
    BY DEF Some
  <2>2. f[Some(T)] \in Nat /\ g[T \ {Some(T)}] \in Nat
    BY <2>1
  <2>3. g[T] = f[Some(T)] + g[T \ {Some(T)}]
    BY <1>3
  <2>4. QED
    BY <2>2, <2>3
<1>6. \A T \in SUBSET S : T \in G
  <2> HIDE DEF G
  <2>1. QED
    BY <1>4, <1>5, SubsetInduction
<1>7. Totals(f, S, g)
  BY <1>3, <1>6 DEF Totals
<1>8. QED
  BY <1>2, <1>7

(* A sum of less is less, one more is one more, and of nothing is nothing. *)
LEMMA SumCompare ==
  ASSUME NEW S, IsFiniteSet(S), NEW f \in [S -> Nat], NEW h \in [S -> Nat],
         \A x \in S : f[x] =< h[x]
  PROVE  SumFunction(f) =< SumFunction(h)
<1>1. PICK g : Totals(f, S, g) /\ SumFunction(f) = g[S]
  BY SumIs
<1>2. PICK k : Totals(h, S, k) /\ SumFunction(h) = k[S]
  BY SumIs
<1> DEFINE G == {T \in SUBSET S : g[T] =< k[T]}
<1>3. {} \in G
  BY <1>1, <1>2 DEF Totals
<1>4. \A T \in SUBSET S : T # {} /\ T \ {Some(T)} \in G => T \in G
  <2> SUFFICES ASSUME NEW T \in SUBSET S, T # {}, T \ {Some(T)} \in G PROVE g[T] =< k[T]
    OBVIOUS
  <2> DEFINE x == Some(T)
             R == T \ {Some(T)}
  <2>1. x \in S /\ R \in SUBSET S
    BY DEF Some
  <2>2. g[T] = f[x] + g[R] /\ k[T] = h[x] + k[R] /\ g[R] \in Nat /\ k[R] \in Nat
    BY <1>1, <1>2, <2>1 DEF Totals
  <2>3. f[x] \in Nat /\ h[x] \in Nat /\ f[x] =< h[x] /\ g[R] =< k[R]
    BY <2>1
  <2> HIDE DEF x, R
  <2>4. QED
    BY <2>2, <2>3
<1>5. \A T \in SUBSET S : T \in G
  <2> HIDE DEF G
  <2>1. QED
    BY <1>3, <1>4, SubsetInduction
<1>6. S \in G
  BY <1>5
<1>7. QED
  BY <1>1, <1>2, <1>6

LEMMA SumOneMore ==
  ASSUME NEW S, IsFiniteSet(S), NEW f \in [S -> Nat], NEW y \in S
  PROVE  SumFunction([f EXCEPT ![y] = @ + 1]) = SumFunction(f) + 1
<1> DEFINE h == [f EXCEPT ![y] = @ + 1]
<1>0. h \in [S -> Nat] /\ h[y] = f[y] + 1 /\ \A x \in S : x # y => h[x] = f[x]
  OBVIOUS
<1> HIDE DEF h
<1>1. PICK g : Totals(f, S, g) /\ SumFunction(f) = g[S]
  BY SumIs
<1>2. PICK k : Totals(h, S, k) /\ SumFunction(h) = k[S]
  BY <1>0, SumIs
<1> DEFINE G == {T \in SUBSET S : k[T] = IF y \in T THEN g[T] + 1 ELSE g[T]}
<1>3. {} \in G
  BY <1>1, <1>2 DEF Totals
<1>4. \A T \in SUBSET S : T # {} /\ T \ {Some(T)} \in G => T \in G
  <2> SUFFICES ASSUME NEW T \in SUBSET S, T # {}, T \ {Some(T)} \in G
               PROVE  k[T] = IF y \in T THEN g[T] + 1 ELSE g[T]
    OBVIOUS
  <2> DEFINE x == Some(T)
             R == T \ {Some(T)}
  <2>1. x \in T /\ x \in S /\ R \in SUBSET S
    BY DEF Some
  <2>2. g[T] = f[x] + g[R] /\ k[T] = h[x] + k[R] /\ g[R] \in Nat /\ k[R] \in Nat
    BY <1>1, <1>2, <2>1 DEF Totals
  <2>3. f[x] \in Nat /\ k[R] = IF y \in R THEN g[R] + 1 ELSE g[R]
    BY <2>1
  <2>4. (y \in R <=> y \in T /\ y # x) /\ (y = x => y \in T)
    BY <2>1
  <2>5. h[x] = IF x = y THEN f[x] + 1 ELSE f[x]
    BY <1>0, <2>1
  <2> HIDE DEF x, R
  <2>6. QED
    BY <2>2, <2>3, <2>4, <2>5
<1>5. \A T \in SUBSET S : T \in G
  <2> HIDE DEF G
  <2>1. QED
    BY <1>3, <1>4, SubsetInduction
<1>6. S \in G
  BY <1>5
<1>7. QED
  BY <1>1, <1>2, <1>6 DEF h

LEMMA SumNothing ==
  ASSUME NEW S, IsFiniteSet(S)
  PROVE  SumFunction([x \in S |-> 0]) = 0
<1> DEFINE f == [x \in S |-> 0]
<1>1. f \in [S -> Nat] /\ \A x \in S : f[x] = 0
  OBVIOUS
<1> HIDE DEF f
<1>2. PICK g : Totals(f, S, g) /\ SumFunction(f) = g[S]
  BY <1>1, SumIs
<1> DEFINE G == {T \in SUBSET S : g[T] = 0}
<1>3. {} \in G
  BY <1>2 DEF Totals
<1>4. \A T \in SUBSET S : T # {} /\ T \ {Some(T)} \in G => T \in G
  <2> SUFFICES ASSUME NEW T \in SUBSET S, T # {}, T \ {Some(T)} \in G PROVE g[T] = 0
    OBVIOUS
  <2>1. Some(T) \in S
    BY DEF Some
  <2>2. f[Some(T)] = 0 /\ g[T \ {Some(T)}] = 0
    BY <1>1, <2>1
  <2>3. g[T] = f[Some(T)] + g[T \ {Some(T)}]
    BY <1>2 DEF Totals
  <2>4. QED
    BY <2>2, <2>3
<1>5. \A T \in SUBSET S : T \in G
  <2> HIDE DEF G
  <2>1. QED
    BY <1>3, <1>4, SubsetInduction
<1>6. S \in G
  BY <1>5
<1>7. QED
  BY <1>2, <1>6 DEF f

LEMMA SumType ==
  ASSUME NEW S, IsFiniteSet(S), NEW f \in [S -> Nat]
  PROVE  SumFunction(f) \in Nat
<1>1. PICK g : Totals(f, S, g) /\ SumFunction(f) = g[S]
  BY SumIs
<1>2. S \in SUBSET S
  OBVIOUS
<1>3. g[S] \in Nat
  BY <1>1, <1>2 DEF Totals
<1>4. QED
  BY <1>1, <1>3

(* Induction over the subsets of a finite set, by their size.              *)
LEMMA SizeInduction ==
  ASSUME NEW S, IsFiniteSet(S), NEW G,
         \A T \in SUBSET S :
           (\A U \in SUBSET S : Cardinality(U) < Cardinality(T) => U \in G) => T \in G
  PROVE  \A T \in SUBSET S : T \in G
<1> DEFINE Bad == {n \in Nat : \E T \in SUBSET S : Cardinality(T) = n /\ T \notin G}
<1>1. \A T \in SUBSET S : Cardinality(T) \in Nat
  BY FS_Subset, FS_CardinalityType
<1>2. SUFFICES ASSUME Bad # {} PROVE FALSE
  BY <1>1
<1>3. PICK m \in Bad : \A k \in Bad : m =< k
  BY <1>2, LeastExists
<1>4. PICK T \in SUBSET S : Cardinality(T) = m /\ T \notin G
  BY <1>3
<1>5. ASSUME NEW U \in SUBSET S, Cardinality(U) < Cardinality(T), U \notin G PROVE FALSE
  <2>1. Cardinality(U) \in Bad /\ Cardinality(U) \in Nat /\ m \in Nat
    BY <1>1, <1>5
  <2> HIDE DEF Bad
  <2>2. m =< Cardinality(U) /\ Cardinality(U) < m
    BY <1>3, <1>4, <1>5, <2>1
  <2> QED
    BY <2>1, <2>2
<1> QED
  BY <1>4, <1>5

(* A sum does not depend on the order, nor on elements it does not have.   *)
Takes(f, S, g) == \A T \in SUBSET S : \A y \in T : g[T] = f[y] + g[T \ {y}]

LEMMA SumTake ==
  ASSUME NEW S, IsFiniteSet(S), NEW f \in [S -> Nat], NEW g, Totals(f, S, g)
  PROVE  Takes(f, S, g)
<1> DEFINE G == {T \in SUBSET S : \A y \in T : g[T] = f[y] + g[T \ {y}]}
<1>1. ASSUME NEW T \in SUBSET S,
             \A U \in SUBSET S : Cardinality(U) < Cardinality(T) => U \in G
      PROVE  T \in G
  <2> SUFFICES ASSUME NEW y \in T PROVE g[T] = f[y] + g[T \ {y}]
    OBVIOUS
  <2> DEFINE x == Some(T)
             R == T \ {x}
             Q == T \ {y}
  <2>1. x \in T /\ g[T] = f[x] + g[R]
    BY DEF Some, Totals
  <2>2. CASE x = y
    BY <2>1, <2>2
  <2>3. CASE x # y
    <3>1. /\ R \in SUBSET S /\ Q \in SUBSET S /\ y \in R /\ x \in Q
          /\ R \ {y} = Q \ {x} /\ R \ {y} \in SUBSET S
      BY <2>1, <2>3
    <3>2. Cardinality(R) < Cardinality(T) /\ Cardinality(Q) < Cardinality(T)
      <4>1. IsFiniteSet(T)
        BY FS_Subset
      <4>2. /\ Cardinality(T) \in Nat /\ Cardinality(R) = Cardinality(T) - 1
            /\ Cardinality(Q) = Cardinality(T) - 1
        BY <2>1, <4>1, OneMoreOrFewer
      <4> QED
        BY <4>2
    <3>3. g[R] = f[y] + g[R \ {y}] /\ g[Q] = f[x] + g[Q \ {x}]
      BY <1>1, <3>1, <3>2
    <3>4. f[x] \in Nat /\ f[y] \in Nat /\ g[R \ {y}] \in Nat
      BY <2>1, <3>1 DEF Totals
    <3>5. g[T \ {y}] = g[Q]
      OBVIOUS
    <3> HIDE DEF x, R, Q
    <3>6. g[Q] = f[x] + g[R \ {y}]
      BY ONLY <3>1, <3>3
    <3>7. f[x] + (f[y] + g[R \ {y}]) = f[y] + (f[x] + g[R \ {y}])
      BY ONLY <3>4
    <3> QED
      BY ONLY <2>1, <3>3, <3>5, <3>6, <3>7
  <2> QED
    BY <2>2, <2>3
<1>2. \A T \in SUBSET S : T \in G
  <2> HIDE DEF G
  <2> QED
    BY <1>1, SizeInduction
<1> QED
  BY <1>2 DEF Takes

LEMMA SumSame ==
  ASSUME NEW S, IsFiniteSet(S), NEW f \in [S -> Nat], NEW g, Totals(f, S, g),
         NEW U, NEW h \in [U -> Nat], NEW k, Totals(h, U, k),
         NEW V, V \subseteq S, V \subseteq U, \A x \in V : f[x] = h[x]
  PROVE  g[V] = k[V]
<1> DEFINE G == {T \in SUBSET V : g[T] = k[T]}
<1>1. {} \in G
  BY DEF Totals
<1>2. \A T \in SUBSET V : T # {} /\ T \ {Some(T)} \in G => T \in G
  <2> SUFFICES ASSUME NEW T \in SUBSET V, T # {}, T \ {Some(T)} \in G PROVE g[T] = k[T]
    OBVIOUS
  <2>1. Some(T) \in V /\ T \in SUBSET S /\ T \in SUBSET U
    BY DEF Some
  <2>2. g[T] = f[Some(T)] + g[T \ {Some(T)}] /\ k[T] = h[Some(T)] + k[T \ {Some(T)}]
    BY <2>1 DEF Totals
  <2> QED
    BY <2>1, <2>2
<1>3. IsFiniteSet(V)
  BY FS_Subset
<1>4. \A T \in SUBSET V : T \in G
  <2> HIDE DEF G
  <2> QED
    BY <1>1, <1>2, <1>3, SubsetInduction
<1>5. V \in G
  BY <1>4
<1> QED
  BY <1>5

(* A sum over a finite set, and without one of its elements.               *)
LEMMA SumRemove ==
  ASSUME NEW S, IsFiniteSet(S), NEW f \in [S -> Nat], NEW y \in S
  PROVE  SumFunction(f) = f[y] + SumFunction([x \in S \ {y} |-> f[x]])
<1> DEFINE V == S \ {y}
           h == [x \in V |-> f[x]]
<1>1. IsFiniteSet(V) /\ h \in [V -> Nat] /\ V \subseteq S /\ V \subseteq V
  BY FS_RemoveElement
<1>2. PICK g : Totals(f, S, g) /\ SumFunction(f) = g[S]
  BY SumIs
<1>3. \A x \in V : f[x] = h[x]
  OBVIOUS
<1> HIDE DEF h, V
<1>4. PICK k : Totals(h, V, k) /\ SumFunction(h) = k[V]
  BY <1>1, SumIs
<1>5. g[V] = k[V]
  BY <1>1, <1>2, <1>3, <1>4, SumSame
<1>6. g[S] = f[y] + g[S \ {y}]
  BY <1>2, SumTake DEF Takes
<1> QED
  BY <1>2, <1>4, <1>5, <1>6 DEF V, h

LEMMA SumUpdate ==
  ASSUME NEW S, IsFiniteSet(S), NEW f \in [S -> Nat], NEW h \in [S -> Nat],
         NEW y \in S, \A x \in S : x # y => f[x] = h[x]
  PROVE  SumFunction(h) + f[y] = SumFunction(f) + h[y]
<1> DEFINE V == S \ {y}
<1>1. \A x \in V : f[x] = h[x]
  OBVIOUS
<1>2. PICK g : Totals(f, S, g) /\ SumFunction(f) = g[S]
  BY SumIs
<1>3. PICK k : Totals(h, S, k) /\ SumFunction(h) = k[S]
  BY <1>1, SumIs
<1>4. V \subseteq S /\ S \in SUBSET S /\ V \in SUBSET S
  OBVIOUS
<1>5. g[S] = f[y] + g[V] /\ k[S] = h[y] + k[V]
  <2>1. Takes(f, S, g) /\ Takes(h, S, k)
    BY <1>1, <1>2, <1>3, SumTake
  <2> QED
    BY <1>1, <1>4, <2>1 DEF Takes
<1>6. g[V] = k[V]
  BY <1>1, <1>2, <1>3, <1>4, SumSame
<1>7. f[y] \in Nat /\ h[y] \in Nat /\ g[V] \in Nat
  BY <1>2, <1>4 DEF Totals
<1> HIDE DEF V
<1> QED
  BY <1>2, <1>3, <1>5, <1>6, <1>7

-----------------------------------------------------------------------------
(* Sequences as queues                                                     *)
(* What a queue holds after an entry is added, taken or alone in it.       *)
LEMMA QueueAppend ==
  ASSUME NEW S, NEW s \in Seq(S), NEW x \in S
  PROVE  /\ Append(s, x) \in Seq(S) /\ Len(Append(s, x)) = Len(s) + 1
         /\ \A i \in 1 .. Len(s) : Append(s, x)[i] = s[i]
         /\ Append(s, x)[Len(s) + 1] = x
         /\ Len(s) \in Nat /\ DOMAIN s = 1 .. Len(s)
         /\ DOMAIN Append(s, x) = 1 .. (Len(s) + 1) /\ Append(s, x) # <<>>
         /\ s = <<>> <=> Len(s) = 0
<1>1. Append(s, x) \in Seq(S) /\ Append(s, x) # <<>> /\ Len(Append(s, x)) = Len(s) + 1
  BY AppendProperties
<1>2. /\ \A i \in 1 .. Len(s) : Append(s, x)[i] = s[i]
      /\ Append(s, x)[Len(s) + 1] = x
  BY AppendProperties
<1>3. Len(s) \in Nat /\ DOMAIN s = 1 .. Len(s)
  BY LenProperties
<1>4. DOMAIN Append(s, x) = 1 .. Len(Append(s, x))
  BY <1>1, LenProperties
<1>5. s = <<>> <=> Len(s) = 0
  BY EmptySeq
<1> QED
  BY <1>1, <1>2, <1>3, <1>4, <1>5

LEMMA QueueTail ==
  ASSUME NEW S, NEW s \in Seq(S), s # <<>>
  PROVE  /\ Tail(s) \in Seq(S) /\ Len(Tail(s)) = Len(s) - 1 /\ Head(s) \in S
         /\ \A i \in 1 .. Len(s) - 1 : Tail(s)[i] = s[i + 1]
         /\ Head(s) = s[1] /\ Len(s) \in Nat /\ Len(s) >= 1
         /\ DOMAIN Tail(s) = 1 .. (Len(s) - 1) /\ DOMAIN s = 1 .. Len(s)
         /\ Tail(s) = <<>> <=> Len(s) = 1
<1>1. Head(s) \in S /\ Tail(s) \in Seq(S)
  BY HeadTailProperties
<1>2. Len(Tail(s)) = Len(s) - 1 /\ \A i \in 1 .. Len(Tail(s)) : Tail(s)[i] = s[i + 1]
  BY HeadTailProperties
<1>3. Len(s) \in Nat /\ DOMAIN s = 1 .. Len(s)
  BY LenProperties
<1>4. Len(s) # 0
  BY EmptySeq
<1>6. DOMAIN Tail(s) = 1 .. Len(Tail(s))
  BY <1>1, LenProperties
<1>7. Tail(s) = <<>> <=> Len(Tail(s)) = 0
  BY <1>1, EmptySeq
<1>5. Head(s) = s[1]
  OBVIOUS
<1> QED
  BY <1>1, <1>2, <1>3, <1>4, <1>5, <1>6, <1>7

LEMMA QueueOne ==
  ASSUME NEW S, NEW x \in S
  PROVE  /\ <<x>> \in Seq(S) /\ Len(<<x>>) = 1 /\ DOMAIN <<x>> = {1} /\ <<x>>[1] = x
         /\ <<x>> # <<>> /\ Head(<<x>>) = x
  OBVIOUS

LEMMA QueueNone ==
  ASSUME NEW S
  PROVE  <<>> \in Seq(S) /\ Len(<<>>) = 0 /\ DOMAIN <<>> = {}
  OBVIOUS

(* A part of a sequence; what two sequences one after the other hold.      *)
LEMMA PartIs ==
  ASSUME NEW S, NEW s \in Seq(S), NEW m \in Nat, m >= 1, NEW n \in Nat, n =< Len(s)
  PROVE  /\ SubSeq(s, m, n) \in Seq(S)
         /\ Len(SubSeq(s, m, n)) = IF m =< n THEN n - m + 1 ELSE 0
         /\ \A i \in 1 .. n - m + 1 : SubSeq(s, m, n)[i] = s[m + i - 1]
<1>1. m \in Int /\ n \in Int /\ Len(s) \in Nat
  BY LenProperties
<1>2. \A i \in m .. n : s[i] \in S
  <2>1. \A i \in m .. n : i \in 1 .. Len(s)
    BY <1>1
  <2> QED
    BY <2>1, ElementOfSeq
<1> QED
  BY <1>1, <1>2, SubSeqProperties

LEMMA JoinIs ==
  ASSUME NEW S, NEW s \in Seq(S), NEW t \in Seq(S)
  PROVE  /\ s \o t \in Seq(S) /\ Len(s \o t) = Len(s) + Len(t)
         /\ Len(s) \in Nat /\ Len(t) \in Nat
         /\ \A i \in 1 .. Len(s) : (s \o t)[i] = s[i]
         /\ \A i \in 1 .. Len(t) : (s \o t)[Len(s) + i] = t[i]
<1> DEFINE u == s \o t
<1>1. /\ u \in Seq(S) /\ Len(u) = Len(s) + Len(t)
      /\ \A i \in 1 .. Len(s) + Len(t) : u[i] = IF i <= Len(s) THEN s[i] ELSE t[i - Len(s)]
  BY ConcatProperties
<1>2. Len(s) \in Nat /\ Len(t) \in Nat
  BY LenProperties
<1> HIDE DEF u
<1>3. \A i \in 1 .. Len(s) : i \in 1 .. Len(s) + Len(t) /\ i =< Len(s)
  BY <1>2
<1>4. \A i \in 1 .. Len(t) : /\ Len(s) + i \in 1 .. Len(s) + Len(t)
                             /\ ~(Len(s) + i =< Len(s)) /\ Len(s) + i - Len(s) = i
  BY <1>2
<1>5. \A i \in 1 .. Len(s) : u[i] = s[i]
  BY <1>1, <1>3
<1>6. \A i \in 1 .. Len(t) : u[Len(s) + i] = t[i]
  BY <1>1, <1>4
<1> QED
  BY <1>1, <1>2, <1>5, <1>6 DEF u

(* A reversed sequence; the beginning and the end of one.                  *)
LEMMA ReverseIs ==
  ASSUME NEW S, NEW s \in Seq(S), NEW m \in Nat, m = Len(s)
  PROVE  /\ Reverse(s) \in Seq(S) /\ Len(Reverse(s)) = m
         /\ \A i \in 1 .. m : Reverse(s)[i] = s[m - i + 1]
<1> DEFINE u == Reverse(s)
<1>1. u = [i \in 1 .. m |-> s[m - i + 1]]
  BY DEF Reverse
<1>2. \A i \in 1 .. m : m - i + 1 \in 1 .. Len(s)
  OBVIOUS
<1>3. u \in [1 .. m -> S]
  BY <1>1, <1>2, ElementOfSeq
<1>4. u \in Seq(S)
  BY <1>3, SeqDef
<1>5. DOMAIN u = 1 .. m /\ DOMAIN u = 1 .. Len(u) /\ Len(u) \in Nat
  BY <1>3, <1>4, LenProperties
<1> HIDE DEF u
<1>6. Len(u) = m
  BY <1>5
<1>7. \A i \in 1 .. m : u[i] = s[m - i + 1]
  BY <1>1
<1> QED
  BY <1>4, <1>6, <1>7 DEF u

LEMMA PrefixIs ==
  ASSUME NEW S, NEW s \in Seq(S), NEW t \in Seq(S), Len(s) =< Len(t),
         \A i \in 1 .. Len(s) : s[i] = t[i]
  PROVE  IsPrefix(s, t)
<1>1. PICK m \in Nat, n \in Nat : m = Len(s) /\ n = Len(t) /\ m =< n
  BY LenProperties
<1> DEFINE u == SubSeq(s, 1, m)
           v == SubSeq(t, 1, m)
<1>2. 1 \in Nat /\ 1 >= 1 /\ m - 1 + 1 = m /\ \A i \in 1 .. m : 1 + i - 1 = i
  OBVIOUS
<1>3. /\ u \in Seq(S) /\ Len(u) = IF 1 =< m THEN m - 1 + 1 ELSE 0
      /\ \A i \in 1 .. m - 1 + 1 : u[i] = s[1 + i - 1]
  BY <1>1, <1>2, PartIs
<1>4. /\ v \in Seq(S) /\ Len(v) = IF 1 =< m THEN m - 1 + 1 ELSE 0
      /\ \A i \in 1 .. m - 1 + 1 : v[i] = t[1 + i - 1]
  BY <1>1, <1>2, PartIs
<1> HIDE DEF u, v
<1>5. Len(u) = m /\ Len(v) = m
  BY <1>3, <1>4
<1>6. \A i \in 1 .. m : u[i] = v[i]
  BY <1>1, <1>2, <1>3, <1>4
<1>7. u = v
  BY <1>3, <1>4, <1>5, <1>6, SeqEqual
<1> QED
  BY <1>1, <1>7 DEF IsPrefix, u, v

(* A sequence up to a, and from there to b.                                *)
LEMMA PartsJoin ==
  ASSUME NEW S, NEW s \in Seq(S), NEW a \in Nat, NEW b \in Nat, a =< b, b =< Len(s)
  PROVE  /\ SubSeq(s, 1, a) \o SubSeq(s, a + 1, b) = SubSeq(s, 1, b)
         /\ Len(SubSeq(s, a + 1, b)) = b - a
<1> DEFINE u == SubSeq(s, 1, a)
           v == SubSeq(s, a + 1, b)
           w == SubSeq(s, 1, b)
<1>1. Len(s) \in Nat /\ 1 \in Nat /\ 1 >= 1 /\ a + 1 \in Nat /\ a + 1 >= 1 /\ a =< Len(s)
  BY LenProperties
<1>2. /\ u \in Seq(S) /\ Len(u) = IF 1 =< a THEN a - 1 + 1 ELSE 0
      /\ \A i \in 1 .. a - 1 + 1 : u[i] = s[1 + i - 1]
  BY <1>1, PartIs
<1>3. /\ v \in Seq(S) /\ Len(v) = IF a + 1 =< b THEN b - (a + 1) + 1 ELSE 0
      /\ \A i \in 1 .. b - (a + 1) + 1 : v[i] = s[a + 1 + i - 1]
  BY <1>1, PartIs
<1>4. /\ w \in Seq(S) /\ Len(w) = IF 1 =< b THEN b - 1 + 1 ELSE 0
      /\ \A i \in 1 .. b - 1 + 1 : w[i] = s[1 + i - 1]
  BY <1>1, PartIs
<1> HIDE DEF u, v, w
<1>5. Len(u) = a /\ Len(v) = b - a /\ Len(w) = b
  BY <1>2, <1>3, <1>4
<1>6. /\ u \o v \in Seq(S) /\ Len(u \o v) = Len(u) + Len(v)
      /\ \A i \in 1 .. Len(u) : (u \o v)[i] = u[i]
      /\ \A i \in 1 .. Len(v) : (u \o v)[Len(u) + i] = v[i]
  <2>1. u \in Seq(S) /\ v \in Seq(S)
    BY <1>2, <1>3
  <2> QED
    BY ONLY <2>1, JoinIs
<1>7. \A i \in 1 .. b : (u \o v)[i] = w[i]
  <2> TAKE i \in 1 .. b
  <2>1. w[i] = s[i]
    <3>1. i \in 1 .. b - 1 + 1 /\ 1 + i - 1 = i
      OBVIOUS
    <3> QED
      BY <3>1, <1>4
  <2>2. CASE i =< a
    <3>1. i \in 1 .. a - 1 + 1 /\ i \in 1 .. Len(u) /\ 1 + i - 1 = i
      BY <2>2, <1>5
    <3>2. (u \o v)[i] = u[i] /\ u[i] = s[1 + i - 1]
      BY <3>1, <1>2, <1>6
    <3> QED
      BY <2>1, <3>1, <3>2
  <2>3. CASE i > a
    <3> DEFINE k == i - a
    <3>1. /\ k \in 1 .. b - (a + 1) + 1 /\ k \in 1 .. Len(v) /\ a + 1 + k - 1 = i
          /\ Len(u) + k = i
      BY <2>3, <1>5
    <3> HIDE DEF k
    <3>2. (u \o v)[Len(u) + k] = v[k] /\ v[k] = s[a + 1 + k - 1]
      BY <3>1, <1>3, <1>6
    <3> QED
      BY <2>1, <3>1, <3>2
  <2>4. i =< a \/ i > a
    OBVIOUS
  <2> QED
    BY <2>2, <2>3, <2>4, Zenon
<1>8. u \o v = w
  <2>1. Len(u \o v) = b
    BY <1>5, <1>6
  <2> QED
    BY <2>1, <1>4, <1>5, <1>6, <1>7, SeqEqual
<1> QED
  BY <1>5, <1>8 DEF u, v, w

LEMMA PartWhole ==
  ASSUME NEW S, NEW s \in Seq(S)
  PROVE  SubSeq(s, 1, Len(s)) = s
<1>1. PICK n \in Nat : n = Len(s)
  BY LenProperties
<1> DEFINE b == SubSeq(s, 1, n)
<1>2. 1 \in Nat /\ 1 >= 1 /\ n <= Len(s)
  BY <1>1
<1>3. /\ b \in Seq(S) /\ Len(b) = IF 1 =< n THEN n - 1 + 1 ELSE 0
      /\ \A i \in 1 .. n - 1 + 1 : b[i] = s[1 + i - 1]
  BY <1>1, <1>2, PartIs
<1> HIDE DEF b
<1>4. Len(b) = n /\ \A i \in 1 .. n : b[i] = s[i]
  BY <1>3
<1>5. b = s
  BY <1>1, <1>3, <1>4, SeqEqual
<1> QED
  BY <1>1, <1>5 DEF b

(* Sums along a queue.                                                     *)
LEMMA QueueIs ==
  ASSUME NEW S, NEW s \in Seq(S)
  PROVE  /\ s \in [1 .. Len(s) -> S] /\ Len(s) \in Nat
         /\ DOMAIN s = 1 .. Len(s) /\ IsFiniteSet(1 .. Len(s))
<1>1. Len(s) \in Nat /\ DOMAIN s = 1 .. Len(s) /\ s \in [1 .. Len(s) -> S]
  BY LenProperties
<1>2. 1 \in Int /\ Len(s) \in Int
  BY <1>1
<1> QED
  BY <1>1, <1>2, FS_Interval

LEMMA SumAppend ==
  ASSUME NEW s \in Seq(Nat), NEW x \in Nat
  PROVE  SumFunction(Append(s, x)) = SumFunction(s) + x /\ SumFunction(s) \in Nat
<1> DEFINE h == Append(s, x)
           n == Len(s)
<1>1. /\ s \in [1 .. n -> Nat] /\ n \in Nat /\ IsFiniteSet(1 .. n)
  BY QueueIs
<1>2. /\ h \in Seq(Nat) /\ Len(h) = n + 1 /\ h[n + 1] = x /\ \A i \in 1 .. n : h[i] = s[i]
  BY QueueAppend
<1>3. h \in [1 .. n + 1 -> Nat] /\ IsFiniteSet(1 .. n + 1)
  BY <1>2, QueueIs
<1> HIDE DEF h, n
<1>4. PICK g : Totals(s, 1 .. n, g) /\ SumFunction(s) = g[1 .. n]
  BY <1>1, SumIs
<1>5. PICK k : Totals(h, 1 .. n + 1, k) /\ SumFunction(h) = k[1 .. n + 1]
  BY <1>3, SumIs
<1>6. /\ (1 .. n + 1) \ {n + 1} = 1 .. n /\ n + 1 \in 1 .. n + 1
      /\ 1 .. n \subseteq 1 .. n + 1
  BY <1>1
<1>7. k[1 .. n + 1] = h[n + 1] + k[(1 .. n + 1) \ {n + 1}]
  <2>1. Takes(h, 1 .. n + 1, k)
    BY <1>3, <1>5, SumTake
  <2> QED
    BY ONLY <1>6, <2>1 DEF Takes
<1>8. g[1 .. n] = k[1 .. n]
  BY <1>1, <1>2, <1>3, <1>4, <1>5, <1>6, SumSame
<1>9. g[1 .. n] \in Nat
  BY <1>4 DEF Totals
<1>10. SumFunction(h) = SumFunction(s) + x
  <2>1. SumFunction(h) = x + SumFunction(s)
    BY ONLY <1>2, <1>4, <1>5, <1>6, <1>7, <1>8
  <2> QED
    BY ONLY <1>4, <1>9, <2>1, x \in Nat
<1> QED
  BY <1>4, <1>9, <1>10 DEF h

LEMMA SumTail ==
  ASSUME NEW s \in Seq(Nat), s # <<>>
  PROVE  SumFunction(s) = Head(s) + SumFunction(Tail(s)) /\ SumFunction(Tail(s)) \in Nat
<1> DEFINE h == Tail(s)
           n == Len(s)
           Moved(T) == {i - 1 : i \in T}
<1>1. /\ s \in [1 .. n -> Nat] /\ n \in Nat /\ IsFiniteSet(1 .. n)
  BY QueueIs
<1>2. /\ h \in Seq(Nat) /\ Len(h) = n - 1 /\ Head(s) = s[1] /\ n >= 1
      /\ \A i \in 1 .. n - 1 : h[i] = s[i + 1]
  BY QueueTail
<1>3. h \in [1 .. n - 1 -> Nat] /\ IsFiniteSet(1 .. n - 1)
  BY <1>2, QueueIs
<1> HIDE DEF h, n
<1>4. PICK g : Totals(s, 1 .. n, g) /\ SumFunction(s) = g[1 .. n]
  BY <1>1, SumIs
<1>5. PICK k : Totals(h, 1 .. n - 1, k) /\ SumFunction(h) = k[1 .. n - 1]
  BY <1>3, SumIs
<1>6. (1 .. n) \ {1} = 2 .. n /\ 1 \in 1 .. n
  BY <1>1, <1>2
<1>7. g[1 .. n] = s[1] + g[2 .. n]
  <2>1. Takes(s, 1 .. n, g)
    BY <1>1, <1>4, SumTake
  <2> QED
    BY ONLY <1>6, <2>1 DEF Takes
<1> DEFINE G == {T \in SUBSET (2 .. n) : g[T] = k[Moved(T)]}
<1>8. {} \in G
  <2>1. Moved({}) = {}
    OBVIOUS
  <2> QED
    BY <1>4, <1>5, <2>1 DEF Totals
<1>9. \A T \in SUBSET (2 .. n) : T # {} /\ T \ {Some(T)} \in G => T \in G
  <2> SUFFICES ASSUME NEW T \in SUBSET (2 .. n), T # {}, T \ {Some(T)} \in G
               PROVE  g[T] = k[Moved(T)]
    OBVIOUS
  <2> DEFINE x == Some(T)
             R == T \ {x}
  <2>1. x \in T
    BY DEF Some
  <2>2. x \in 2 .. n /\ x - 1 \in 1 .. n - 1 /\ h[x - 1] = s[x]
    <3>1. x \in 2 .. n
      BY <2>1
    <3> HIDE DEF x
    <3>2. x - 1 \in 1 .. n - 1 /\ x - 1 + 1 = x
      BY <1>1, <3>1
    <3> QED
      BY <1>2, <3>1, <3>2
  <2>3. T \in SUBSET (1 .. n)
    BY <1>1
  <2>4. g[T] = s[x] + g[R]
    BY <1>4, <2>3 DEF Totals
  <2>5. Moved(T) \in SUBSET (1 .. n - 1) /\ x - 1 \in Moved(T)
    <3>1. \A i \in 2 .. n : i - 1 \in 1 .. n - 1
      BY <1>1
    <3> HIDE DEF x
    <3> QED
      BY <2>1, <3>1
  <2>6. Moved(T) \ {x - 1} = Moved(R)
    <3> HIDE DEF x
    <3>1. \A i \in T : i \in Int
      BY <1>1
    <3>2. x \in Int /\ \A i \in T : i - 1 = x - 1 <=> i = x
      BY <2>1, <3>1
    <3> QED
      BY <3>2
  <2>7. k[Moved(T)] = h[x - 1] + k[Moved(T) \ {x - 1}]
    <3> HIDE DEF Moved, x
    <3>1. Takes(h, 1 .. n - 1, k)
      BY <1>3, <1>5, SumTake
    <3> QED
      BY ONLY <2>5, <3>1 DEF Takes
  <2>8. g[R] = k[Moved(R)]
    OBVIOUS
  <2> QED
    BY <2>2, <2>4, <2>6, <2>7, <2>8
<1>10. IsFiniteSet(2 .. n)
  BY <1>1, <1>6, FS_Subset
<1>11. \A T \in SUBSET (2 .. n) : T \in G
  <2> HIDE DEF G
  <2> QED
    BY <1>8, <1>9, <1>10, SubsetInduction
<1>12. g[2 .. n] = k[Moved(2 .. n)]
  BY <1>11
<1>13. Moved(2 .. n) = 1 .. n - 1
  <2>1. \A i \in 2 .. n : i - 1 \in 1 .. n - 1
    BY <1>1
  <2>2. \A i \in 1 .. n - 1 : i + 1 \in 2 .. n /\ i + 1 - 1 = i
    BY <1>1
  <2> QED
    BY <2>1, <2>2
<1>14. k[1 .. n - 1] \in Nat
  BY <1>5 DEF Totals
<1>15. SumFunction(s) = Head(s) + SumFunction(h)
  BY <1>2, <1>4, <1>5, <1>7, <1>12, <1>13
<1> QED
  BY <1>5, <1>14, <1>15 DEF h

(* How many entries of a queue are x.                                      *)
CountOf(s, x) == Cardinality({i \in DOMAIN s : s[i] = x})

LEMMA CountType ==
  ASSUME NEW S, NEW s \in Seq(S), NEW x
  PROVE  CountOf(s, x) \in Nat
<1>1. IsFiniteSet({i \in DOMAIN s : s[i] = x})
  BY QueueIs, FS_Subset
<1> QED
  BY <1>1, FS_CardinalityType DEF CountOf

LEMMA CountAppend ==
  ASSUME NEW S, NEW s \in Seq(S), NEW y \in S, NEW x
  PROVE  CountOf(Append(s, y), x) = CountOf(s, x) + (IF y = x THEN 1 ELSE 0)
<1> DEFINE t == Append(s, y)
           A == {i \in DOMAIN s : s[i] = x}
           B == {i \in DOMAIN t : t[i] = x}
           n == Len(s)
<1>1. /\ DOMAIN t = 1 .. n + 1 /\ DOMAIN s = 1 .. n /\ n \in Nat
      /\ \A i \in 1 .. n : t[i] = s[i] /\ t[n + 1] = y
  BY QueueAppend
<1>2. IsFiniteSet(A)
  BY <1>1, QueueIs, FS_Subset
<1> HIDE DEF t, n
<1>3. t[n + 1] = y
  BY QueueAppend DEF t, n
<1>4. n + 1 \notin A /\ B = IF y = x THEN A \cup {n + 1} ELSE A
  <2>1. \A i \in 1 .. n + 1 : i \in 1 .. n \/ i = n + 1
    BY <1>1
  <2>2. n + 1 \notin 1 .. n /\ n + 1 \in 1 .. n + 1 /\ 1 .. n \subseteq 1 .. n + 1
    BY <1>1
  <2> QED
    BY <1>1, <1>3, <2>1, <2>2
<1> HIDE DEF A, B
<1>5. Cardinality(A) \in Nat /\ Cardinality(A \cup {n + 1}) = Cardinality(A) + 1
  BY <1>2, <1>4, OneMoreOrFewer
<1>6. Cardinality(B) = Cardinality(A) + (IF y = x THEN 1 ELSE 0)
  BY <1>4, <1>5
<1> QED
  BY <1>6 DEF A, B, t, CountOf

LEMMA CountTail ==
  ASSUME NEW S, NEW s \in Seq(S), s # <<>>, NEW x
  PROVE  CountOf(s, x) = CountOf(Tail(s), x) + (IF Head(s) = x THEN 1 ELSE 0)
<1> DEFINE t == Tail(s)
           A == {i \in DOMAIN s : s[i] = x}
           B == {i \in DOMAIN t : t[i] = x}
           n == Len(s)
           f == [i \in B |-> i + 1]
<1>1. /\ DOMAIN t = 1 .. n - 1 /\ DOMAIN s = 1 .. n /\ n \in Nat /\ n >= 1
      /\ \A i \in 1 .. n - 1 : t[i] = s[i + 1]
      /\ Head(s) = s[1] /\ t \in Seq(S)
  BY QueueTail
<1>2. IsFiniteSet(A)
  BY <1>1, QueueIs, FS_Subset
<1>3. IsFiniteSet(B)
  BY <1>1, QueueIs, FS_Subset
<1> HIDE DEF t, n
<1>4. f \in Bijection(B, A \ {1})
  <2>1. \A i \in B : i \in Nat /\ f[i] = i + 1 /\ i + 1 \in A \ {1}
    BY <1>1
  <2>2. \A j \in A \ {1} : j - 1 \in B /\ f[j - 1] = j
    BY <1>1
  <2>3. \A i, j \in B : f[i] = f[j] => i = j
    BY <2>1
  <2>4. f \in [B -> A \ {1}]
    BY <2>1
  <2> QED
    BY <2>2, <2>3, <2>4 DEF Bijection, Injection, Surjection, IsInjective
<1>5. Cardinality(A \ {1}) = Cardinality(B)
  BY <1>3, <1>4, FS_Bijection DEF ExistsBijection
<1>6. 1 \in A <=> Head(s) = x
  BY <1>1
<1> HIDE DEF A, B, f
<1>7. /\ Cardinality(A) \in Nat /\ Cardinality(B) \in Nat
      /\ 1 \in A => Cardinality(A \ {1}) = Cardinality(A) - 1
      /\ 1 \notin A => A \ {1} = A
  BY <1>2, <1>3, OneMoreOrFewer
<1>8. Cardinality(A) = Cardinality(B) + (IF Head(s) = x THEN 1 ELSE 0)
  <2>1. CASE Head(s) = x
    <3>1. Cardinality(B) = Cardinality(A) - 1
      BY ONLY <1>5, <1>6, <1>7, <2>1
    <3>2. Cardinality(A) = Cardinality(B) + 1
      BY ONLY <1>7, <3>1
    <3> QED
      BY <2>1, <3>2
  <2>2. CASE Head(s) # x
    <3>1. Cardinality(B) = Cardinality(A)
      BY ONLY <1>5, <1>6, <1>7, <2>2
    <3>2. Cardinality(A) = Cardinality(B) + 0
      BY ONLY <1>7, <3>1
    <3> QED
      BY <2>2, <3>2
  <2> QED
    BY <2>1, <2>2
<1> QED
  BY <1>8 DEF A, B, t, CountOf
=============================================================================

----------------------------- MODULE TextTools ------------------------------
(***************************************************************************)
(* The string algorithms of the file tools, each against what it is meant  *)
(* to compute: glob's matcher (crates/tools/src/core_tools/glob.rs), the   *)
(* resolution of a path under the workspace root (workspace.rs) and        *)
(* edit_file's exact replacement (edit.rs).  A behaviour grows one input   *)
(* after the other; strings are sequences of symbols.                      *)
(***************************************************************************)
EXTENDS Integers, Sequences, FiniteSets

CONSTANTS
  TxLetter,    \* the letters of texts
  TxMaxPat,    \* bound of the model: length of a pattern
  TxMaxText    \* bound of the model: length of a text

ASSUME TxAssumption == TxMaxPat \in Nat /\ TxMaxText \in Nat

VARIABLES
  txTask,   \* the algorithm: "segment", "path", "resolve" or "replace"
  txPat,    \* the pattern, the components of a path, or the text to replace
  txText    \* the text
txVars == <<txTask, txPat, txText>>

TxSymbols ==
  [segment |-> TxLetter \cup {"*", "?"},
   path    |-> TxLetter \cup {"*", "**"},
   resolve |-> TxLetter \cup {".", ".."},
   replace |-> TxLetter]

TxInit == txTask \in DOMAIN TxSymbols /\ txPat = <<>> /\ txText = <<>>
TxNext ==
  /\ UNCHANGED txTask
  /\ \/ /\ Len(txPat) < TxMaxPat /\ txText = <<>>
        /\ \E c \in TxSymbols[txTask] : txPat' = Append(txPat, c)
        /\ UNCHANGED txText
     \/ /\ Len(txText) < TxMaxText /\ txTask # "resolve"
        /\ \E c \in TxLetter : txText' = Append(txText, c)
        /\ UNCHANGED txPat
TxSpec == TxInit /\ [][TxNext]_txVars

-----------------------------------------------------------------------------
(* match_segment: one row of the table from the row before it.             *)
TxCell(c, row, before, j, t) ==
  CASE c = "*" -> row[j] \/ before
    [] c = "?" -> row[j - 1]
    [] OTHER -> row[j - 1] /\ c = t[j]

TxRow(c, row, t) ==
  LET new[j \in 0..Len(t)] ==
        IF j = 0 THEN row[0] /\ c = "*" ELSE TxCell(c, row, new[j - 1], j, t)
  IN new

TxMatchSegment(p, t) ==
  LET table[i \in 0..Len(p)] ==
        IF i = 0 THEN [j \in 0..Len(t) |-> j = 0] ELSE TxRow(p[i], table[i - 1], t)
  IN table[Len(p)][Len(t)]

(* mutation: `**` spans one path segment at least. *)
TxSkipsSome(n) == 1..n
(* match_path: `**` spans zero or more path segments.                      *)
TxSkips(n) == 0..n

(* Whether the pattern from its i-th segment on matches the path from its  *)
(* j-th on, for segments that are one symbol.                              *)
TxMatchPath(p, t) ==
  LET f[i \in 1..(Len(p) + 1), j \in 1..(Len(t) + 1)] ==
        IF i > Len(p) THEN j > Len(t)
        ELSE IF p[i] = "**" THEN \E k \in TxSkips(Len(t) + 1 - j) : f[i + 1, j + k]
        ELSE j <= Len(t) /\ TxMatchSegment(<<p[i]>>, <<t[j]>>) /\ f[i + 1, j + 1]
  IN f[1, 1]

-----------------------------------------------------------------------------
TxRoot == <<"root">>
TxEscapes(depth) == depth < 0

(* resolve: the path so far and its depth below the root, or a refusal.    *)
TxResolve(components) ==
  LET f[i \in 0..Len(components)] ==
        IF i = 0 THEN [out |-> TxRoot, depth |-> 0, ok |-> TRUE]
        ELSE LET sofar == f[i - 1]
                 c == components[i] IN
             IF ~sofar.ok \/ c = "." THEN sofar
             ELSE IF c # ".."
             THEN [sofar EXCEPT !.out = Append(@, c), !.depth = @ + 1]
             ELSE IF TxEscapes(sofar.depth - 1)
             THEN [sofar EXCEPT !.ok = FALSE, !.depth = @ - 1]
             ELSE [sofar EXCEPT !.depth = @ - 1,
                                !.out = IF @ = <<>> THEN @ ELSE SubSeq(@, 1, Len(@) - 1)]
  IN f[Len(components)]

-----------------------------------------------------------------------------
TxIsAt(needle, text, i) ==
  /\ i + Len(needle) - 1 <= Len(text)
  /\ SubSeq(text, i, i + Len(needle) - 1) = needle

(* match_indices: occurrences from the left, none overlapping the last.    *)
TxMatchIndices(text, needle) ==
  LET f[i \in 1..(Len(text) + 1)] ==
        IF i > Len(text) THEN <<>>
        ELSE IF TxIsAt(needle, text, i)
        THEN <<i>> \o (IF i + Len(needle) > Len(text) THEN <<>> ELSE f[i + Len(needle)])
        ELSE f[i + 1]
  IN IF text = <<>> THEN <<>> ELSE f[1]

TxFrom(text, i) == SubSeq(text, i, Len(text))

TxRest(second, needle) == second + Len(needle)

(* replace_exact without replaceAll: how often the text was found, and     *)
(* where it is replaced when that is once.                                 *)
TxReplaceOnce(text, old) ==
  LET starts == {i \in 1..Len(text) : TxIsAt(old, text, i)}
      start == CHOOSE i \in starts : \A j \in starts : i <= j
      later == {i \in starts : i >= start + Len(old)}
      second == CHOOSE i \in later : \A j \in later : i <= j
  IN IF starts = {} THEN [count |-> 0, at |-> 0]
     ELSE IF later # {}
     THEN [count |-> 2 + Len(TxMatchIndices(TxFrom(text, TxRest(second, old)), old)), at |-> 0]
     ELSE [count |-> 1, at |-> start]

-----------------------------------------------------------------------------
(* The table of match_segment says yes exactly when the text can be cut    *)
(* into pieces the pattern's symbols stand for: any piece for `*`, one     *)
(* letter for `?`, the letter itself otherwise.                            *)
TxSegmentExact ==
  txTask = "segment" =>
    (TxMatchSegment(txPat, txText) <=>
       \E cut \in [0..Len(txPat) -> 0..Len(txText)] :
         /\ cut[0] = 0 /\ cut[Len(txPat)] = Len(txText)
         /\ \A i \in 1..Len(txPat) :
              \/ txPat[i] = "*" /\ cut[i - 1] <= cut[i]
              \/ /\ cut[i] = cut[i - 1] + 1
                 /\ txPat[i] \in {"?", txText[cut[i]]})

(* match_path finds a path exactly when it can be cut the same way, with   *)
(* `**` for any run of segments, none included.                            *)
TxPathExact ==
  txTask = "path" =>
    (TxMatchPath(txPat, txText) <=>
       \E cut \in [0..Len(txPat) -> 0..Len(txText)] :
         /\ cut[0] = 0 /\ cut[Len(txPat)] = Len(txText)
         /\ \A i \in 1..Len(txPat) :
              \/ txPat[i] = "**" /\ cut[i - 1] <= cut[i]
              \/ /\ txPat[i] # "**" /\ cut[i] = cut[i - 1] + 1
                 /\ txPat[i] \in {"*", txText[cut[i]]})

(* "refuses to escape it": a path that is resolved lies below the root,    *)
(* and it is refused exactly when some prefix of it climbs above the root, *)
(* though the rest may come back.                                          *)
TxNeverEscapes ==
  LET names(i) == Cardinality({j \in 1..i : txPat[j] \in TxLetter})
      ups(i) == Cardinality({j \in 1..i : txPat[j] = ".."})
      r == TxResolve(txPat) IN
  txTask = "resolve" =>
    /\ r.ok <=> \A i \in 1..Len(txPat) : ups(i) <= names(i)
    /\ r.ok => /\ Len(r.out) = 1 + names(Len(txPat)) - ups(Len(txPat))
               /\ r.out[1] = "root"

(* replace_exact and replaceAll agree on how often a text occurs, whether  *)
(* it is replaced or refused for occurring too often; the edit it makes    *)
(* is the one occurrence and nothing else.                                 *)
TxReplaceExact ==
  txTask = "replace" /\ txPat # <<>> =>
    LET all == TxMatchIndices(txText, txPat)
        once == TxReplaceOnce(txText, txPat) IN
    /\ once.count = Len(all)
    /\ once.count = 1 => once.at = all[1]

(***************************************************************************)
(* The text algorithms agree with their declarative definitions on every   *)
(* bounded input.                                                          *)
(***************************************************************************)
TxExact == TxSegmentExact /\ TxPathExact /\ TxNeverEscapes /\ TxReplaceExact
=============================================================================

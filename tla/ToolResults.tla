---------------------------- MODULE ToolResults -----------------------------
(***************************************************************************)
(* What happens to large tool results (extensions/src/truncation.rs,       *)
(* read_tool_result.rs, compact.rs).  A result over the limit reaches the  *)
(* conversation cut to its head and tail; a compaction takes the results   *)
(* of the head out of it.  Both put a text in a store of bounded size under  *)
(* the call's id, from which read_tool_result serves it in pages; the      *)
(* store is saved beside the session and copied by a fork.                 *)
(*                                                                         *)
(* A text is the sequence of its characters, numbered; the marker of a cut *)
(* is 0.  Ids may repeat: some providers' fallback ids do.                 *)
(***************************************************************************)
EXTENDS Integers, Sequences, SequencesExt, FiniteSetsExt, Queues

CONSTANTS TrId,         \* Call ids.
          TrSizes,      \* Lengths of results.
          TrLimit,      \* max_string_chars.
          TrElideMin,   \* ELIDE_MIN_BYTES.
          TrBudget,     \* The store's budget.
          TrPages,      \* Slices read_tool_result is asked for, clamped to 1..max_chars.
          TrMaxResults  \* Bound: results, over all.

ASSUME TrAssumption == /\ TrSizes \subseteq Nat /\ TrBudget \in Nat /\ TrMaxResults \in Nat
                       /\ TrLimit \in Nat \ {0} /\ TrPages \subseteq Nat \ {0} /\ TrElideMin \in Nat

VARIABLES trStore,    \* [order, entries, bytes]: StoreInner.
          trLog,      \* The ids ever stored, by when they were stored last.
          trFile,     \* The sidecar: its entries in order, and the log then.
          trContext,  \* The results in the conversation: [id, v, text].
          trReader,   \* A caller that pages through one result.
          trCount     \* Results so far.

trVars == <<trStore, trLog, trFile, trContext, trReader, trCount>>

TrEmpty == [order |-> <<>>, entries |-> <<>>, bytes |-> 0]
TrNobody == [on |-> FALSE, id |-> 0, from |-> {}, got |-> <<>>, next |-> 0, more |-> FALSE]

TrInit ==
  /\ trStore = TrEmpty /\ trLog = <<>> /\ trFile = [saved |-> <<>>, log |-> <<>>]
  /\ trContext = <<>> /\ trReader = TrNobody /\ trCount = 0

----------------------------------------------------------------------------
TrMapWithout(f, id) == [i \in DOMAIN f \ {id} |-> f[i]]
TrMapWith(f, id, e) == [i \in DOMAIN f \union {id} |-> IF i = id THEN e ELSE f[i]]

\* One turn of: while bytes > budget, the oldest entry goes.
TrPop(s) ==
  IF s.bytes <= TrBudget \/ s.order = <<>> THEN s
  ELSE [order   |-> Tail(s.order),
        entries |-> TrMapWithout(s.entries, Head(s.order)),
        bytes   |-> s.bytes - Len(s.entries[Head(s.order)].text)]
TrEvict(s) ==
  LET after[n \in 0..Len(s.order)] == IF n = 0 THEN s ELSE TrPop(after[n - 1])
  IN after[Len(s.order)]

\* An entry of the same id is taken out first.
TrKeepsOld(s, id) == s                      \* Mutant: the old entry stays accounted for.
TrWithout(s, id) ==
  IF id \notin DOMAIN s.entries THEN s
  ELSE [order   |-> Without(s.order, {id}),
        entries |-> TrMapWithout(s.entries, id),
        bytes   |-> s.bytes - Len(s.entries[id].text)]

TrStorable(text) == Len(text) <= TrBudget

TrInsert(s, id, e) ==
  IF ~TrStorable(e.text) THEN s
  ELSE LET w == TrWithout(s, id)
       IN TrEvict([order   |-> Append(w.order, id),
                   entries |-> TrMapWith(w.entries, id, e),
                   bytes   |-> w.bytes + Len(e.text)])

TrLogged(log, id, e) ==
  IF TrStorable(e.text) THEN Append(Without(log, {id}), id) ELSE log

\* save and snapshot list the entries by age; load and snapshot insert them.
TrSaved(s) == [k \in 1..Len(s.order) |-> [id |-> s.order[k], e |-> s.entries[s.order[k]]]]
TrLoaded(saved) ==
  LET after[n \in 0..Len(saved)] ==
        IF n = 0 THEN TrEmpty ELSE TrInsert(after[n - 1], saved[n].id, saved[n].e)
  IN after[Len(saved)]

----------------------------------------------------------------------------
TrWhole(n) == [k \in 1..n |-> k]

\* truncate_value: as many characters of the head as of the tail.
TrCut(text) ==
  LET keep == TrLimit \div 2
  IN SubSeq(text, 1, keep) \o <<0>> \o SubSeq(text, Len(text) - keep + 1, Len(text))

\* after_tool: the original is stored before it is cut.
TrAfterTool(id, n) ==
  LET e == [v |-> trCount + 1, text |-> TrWhole(n)]
      cuts == n > TrLimit
  IN /\ trCount < TrMaxResults
     /\ trCount' = trCount + 1
     /\ trStore' = IF cuts THEN TrInsert(trStore, id, e) ELSE trStore
     /\ trLog' = IF cuts THEN TrLogged(trLog, id, e) ELSE trLog
     /\ trContext' = Append(trContext,
                       [id |-> id, e |-> [e EXCEPT !.text = IF cuts THEN TrCut(@) ELSE @]])
     /\ UNCHANGED <<trFile, trReader>>

\* elide_tool_results: each result, as it stands in the conversation, goes to the
\* store unless it is small.
TrElide(x, r) ==
  IF Len(r.e.text) < TrElideMin THEN x
  ELSE [store |-> TrInsert(x.store, r.id, r.e), log |-> TrLogged(x.log, r.id, r.e)]
TrElided(x, results) ==
  LET after[n \in 0..Len(results)] == IF n = 0 THEN x ELSE TrElide(after[n - 1], results[n])
  IN after[Len(results)]

\* compact: the head is replaced by a summary.
TrCompact(cut) ==
  LET x == TrElided([store |-> trStore, log |-> trLog], SubSeq(trContext, 1, cut))
  IN /\ trStore' = x.store /\ trLog' = x.log
     /\ trContext' = SubSeq(trContext, cut + 1, Len(trContext))
     /\ UNCHANGED <<trFile, trReader, trCount>>

----------------------------------------------------------------------------
\* read_tool_result: a page of at most max characters, and where to go on.
TrNextOffset(offset, page) == offset + Len(page)

TrPage(id, max) ==
  LET offset == IF trReader.on THEN trReader.next ELSE 0
      e == trStore.entries[id]
      page == SubSeq(e.text, offset + 1, Min({offset + max, Len(e.text)}))
      end == TrNextOffset(offset, page)
  IN /\ (trReader.on => trReader.id = id /\ trReader.more)
     /\ id \in DOMAIN trStore.entries
     /\ trReader' = [on |-> TRUE, id |-> id, from |-> trReader.from \union {e},
                     got |-> trReader.got \o page,
                     next |-> end, more |-> end < Len(e.text)]
     /\ UNCHANGED <<trStore, trLog, trFile, trContext, trCount>>

\* No stored output for the id: the caller gives up.
TrGone ==
  /\ trReader.on /\ trReader.more /\ trReader.id \notin DOMAIN trStore.entries
  /\ trReader' = TrNobody
  /\ UNCHANGED <<trStore, trLog, trFile, trContext, trCount>>

TrReadEnds ==
  /\ trReader.on /\ trReader' = TrNobody
  /\ UNCHANGED <<trStore, trLog, trFile, trContext, trCount>>

----------------------------------------------------------------------------
TrSave ==
  /\ trFile' = [saved |-> TrSaved(trStore), log |-> trLog]
  /\ UNCHANGED <<trStore, trLog, trContext, trReader, trCount>>

\* A later process resumes the session; what was not saved is gone.
TrResume ==
  /\ trStore' = TrLoaded(trFile.saved) /\ trLog' = trFile.log
  /\ trReader' = TrNobody
  /\ UNCHANGED <<trFile, trContext, trCount>>

TrClear ==
  /\ trStore' = TrEmpty /\ trLog' = <<>> /\ trContext' = <<>>
  /\ UNCHANGED <<trFile, trReader, trCount>>

TrNext ==
  \/ \E id \in TrId : \/ \E n \in TrSizes : TrAfterTool(id, n)
                      \/ \E max \in TrPages : TrPage(id, max)
  \/ \E cut \in 1..Len(trContext) : TrCompact(cut)
  \/ TrGone \/ TrReadEnds \/ TrSave \/ TrResume \/ TrClear
TrSpec == TrInit /\ [][TrNext]_trVars

----------------------------------------------------------------------------
\* The store accounts for exactly what it holds and stays within its budget, with
\* every entry once in the order of eviction, however results are replaced,
\* evicted and reloaded (TruncationStore::insert).
TrAccounts ==
  /\ trStore.bytes =
       SumFunction([i \in DOMAIN trStore.entries |-> Len(trStore.entries[i].text)])
  /\ trStore.bytes <= TrBudget
  /\ IsInjective(trStore.order) /\ ToSet(trStore.order) = DOMAIN trStore.entries

\* Oldest first: what the store still has are the results stored last, and
\* always the newest (TruncationStore::insert).
TrOldestFirst ==
  /\ IsSuffix(trStore.order, trLog)
  /\ trLog # <<>> => trStore.order # <<>>

\* A fork, and a resumed session, find what the session had: entries, their
\* order of eviction and the account (save and load, snapshot).
TrReloads == TrLoaded(TrSaved(trStore)) = trStore

\* Pages followed by nextOffset until hasMore is false are the whole text, each
\* character once, unless it was replaced meanwhile (ReadToolResultTool::call).
TrPagesWhole ==
  trReader.on /\ ~trReader.more =>
    \A e \in trReader.from : trReader.from = {e} => trReader.got = e.text

\* The store of originals is sound: its account, its order, its copies and what
\* read_tool_result serves from it (truncation.rs, read_tool_result.rs).
TrSafe == TrAccounts /\ TrOldestFirst /\ TrReloads /\ TrPagesWhole

\* What is stored under a call's id is the call's full original ("storing the
\* full original under the call id so `read_tool_result` can recover it",
\* elide_tool_results).
TrFullOriginal ==
  \A id \in DOMAIN trStore.entries : 0 \notin ToSet(trStore.entries[id].text)
=============================================================================

----------------------------- MODULE FileTools ------------------------------
(***************************************************************************)
(* The file tools of one agent (crates/tools/src/core_tools/files.rs,      *)
(* edit.rs, edit_spec.rs, workspace.rs; crates/tools/src/fs_admin.rs) and  *)
(* the FileGuard they share: an existing file is overwritten only when the *)
(* tools saw what it holds, and an edit of several files is applied whole  *)
(* or taken back.  Somebody else - an editor, a build, a shell command -   *)
(* may change the files at any moment.                                     *)
(*                                                                         *)
(* A file is a text and a version: every write gives a new version, which  *)
(* is what a Stat tells apart.  Calls run concurrently unless they share a *)
(* concurrency key.  Two things are open in the code and in the model: all *)
(* tools but edit_file key on the path as the model wrote it, so that "a" *)
(* and "./a" do not exclude each other, and a stamp is taken apart from the*)
(* read or write it stands for.  The histories ftRespelt and ftUnseen keep *)
(* what comes of them.                                                     *)
(***************************************************************************)
EXTENDS Naturals, Sequences, FiniteSets

CONSTANTS
  FtPath,        \* a sequence: the files in their order
  FtSlots,       \* calls that may run at once
  FtMaxCalls,    \* bound of the model: calls made
  FtMaxOutside   \* bound of the model: changes made by somebody else

FtFiles == {FtPath[i] : i \in DOMAIN FtPath}

ASSUME FtAssumption ==
  /\ FtPath \in Seq(FtFiles) /\ FtPath # <<>>
  /\ \A i, j \in DOMAIN FtPath : FtPath[i] = FtPath[j] => i = j
  /\ FtMaxCalls \in Nat /\ FtMaxOutside \in Nat

(* The ways the model may write a path: a, or ./a.                         *)
FtSpellings == {"plain", "dotted"}
FtOps == {"read_file", "write_file", "edit_file", "copy_file", "rename_file", "delete_file"}
FtAbsent == [ver |-> 0, text |-> 0]

VARIABLES
  ftDisk,      \* what each path holds
  ftGuard,     \* FileGuard: the version each path is stamped with, or 0
  ftClock,     \* versions made so far
  ftJob,       \* the call each slot runs: its tool, paths and spelling, where it
               \* stands, how many files are done, what it saw of each file, and
               \* whether its rollback failed
  ftCalls,     \* calls made
  ftOutside,   \* changes made by somebody else
  ftKnown,     \* history: the texts of each path the conversation read or wrote
  ftUnseen,    \* history: texts it did not, that a stamp taken apart stands for
  ftMeddled,   \* history: paths somebody else changed while the slot's call ran
  ftRespelt    \* history: paths a call that spells them otherwise changed meanwhile

ftVars == <<ftDisk, ftGuard, ftClock, ftJob, ftCalls, ftOutside, ftKnown, ftUnseen,
            ftMeddled, ftRespelt>>

FtSawNothing == [p \in FtFiles |-> FtAbsent]
FtIdle == [op |-> "none", on |-> <<>>, spelt |-> "plain", step |-> "idle", at |-> 0,
           saw |-> FtSawNothing, bad |-> FALSE]

FtInit ==
  /\ ftDisk = [p \in FtFiles |-> LET i == CHOOSE i \in DOMAIN FtPath : FtPath[i] = p
                                 IN [ver |-> i, text |-> i]]
  /\ ftGuard = [p \in FtFiles |-> 0] /\ ftClock = Len(FtPath)
  /\ ftJob = [s \in FtSlots |-> FtIdle]
  /\ ftCalls = 0 /\ ftOutside = 0
  /\ ftKnown = [p \in FtFiles |-> {}] /\ ftUnseen = [p \in FtFiles |-> {}]
  /\ ftMeddled = [s \in FtSlots |-> {}] /\ ftRespelt = [s \in FtSlots |-> {}]

-----------------------------------------------------------------------------
FtFile(s) == ftJob[s].on[1]
FtOn(s) == {ftJob[s].on[i] : i \in DOMAIN ftJob[s].on}
FtRunning(s) == ftJob[s].step \notin {"idle", "ok", "failed"}

(* The paths a call may name; edit_file takes any number of them, in the   *)
(* order of a BTreeMap.                                                    *)
FtArguments(op) ==
  CASE op = "edit_file" -> {<<p>> : p \in FtFiles} \cup {FtPath}
    [] op \in {"copy_file", "rename_file"} ->
         {<<p, q>> : p \in FtFiles, q \in FtFiles} \ {<<p, p>> : p \in FtFiles}
    [] OTHER -> {<<p>> : p \in FtFiles}

(* concurrency: edit_file keys on resolved paths, the others on what the   *)
(* model wrote; read_file is Parallel.                                     *)
FtSpelling(job) == IF job.op = "edit_file" THEN "plain" ELSE job.spelt
FtKeys(job) ==
  LET keyed == CASE job.op = "read_file" -> {}
                 [] job.op = "copy_file" -> {job.on[2]}
                 [] OTHER -> {job.on[i] : i \in DOMAIN job.on}
  IN keyed \X {FtSpelling(job)}

FtBegin(s, op, on, spelt) ==
  LET job == [FtIdle EXCEPT !.op = op, !.on = on, !.spelt = spelt, !.step = "begun"] IN
  /\ ~FtRunning(s) /\ ftCalls < FtMaxCalls /\ ftCalls' = ftCalls + 1
  /\ \A other \in FtSlots \ {s} :
       FtRunning(other) => FtKeys(job) \cap FtKeys(ftJob[other]) = {}
  /\ ftJob' = [ftJob EXCEPT ![s] = job]
  /\ UNCHANGED <<ftDisk, ftGuard, ftClock, ftOutside, ftKnown, ftUnseen, ftMeddled, ftRespelt>>

FtTo(s, step) == ftJob' = [ftJob EXCEPT ![s].step = step]
FtEnds(s, outcome) ==
  ftJob' = [ftJob EXCEPT ![s] = [FtIdle EXCEPT !.step = outcome]]

(* A file gets a text and a new version.                                   *)
FtPuts(p, text) ==
  /\ ftClock' = ftClock + 1
  /\ ftDisk' = [ftDisk EXCEPT ![p] = [ver |-> ftClock + 1, text |-> text]]

(* The conversation knows the texts it read and those it wrote.            *)
FtLearns(p, text) == ftKnown' = [ftKnown EXCEPT ![p] = @ \cup {text}]

(* The changes of others matter to the calls that run; a call tells those  *)
(* that spell a path otherwise.                                            *)
FtStirred(s) == ftMeddled[s] \cup ftRespelt[s]
FtChanged(s, t) ==
  {p \in FtFiles : ftDisk'[p] # ftDisk[p] /\ FtSpelling(ftJob[s]) # FtSpelling(ftJob[t])}
FtTells(s) ==
  /\ ftMeddled' = IF FtRunning(s)' THEN ftMeddled ELSE [ftMeddled EXCEPT ![s] = {}]
  /\ ftRespelt' = [t \in FtSlots |-> IF FtRunning(t)' THEN ftRespelt[t] \cup FtChanged(s, t)
                                    ELSE {}]

(* A text gets a stamp, or may get one, although nobody here looked at it. *)
FtBlesses(p, text) == ftUnseen' = [ftUnseen EXCEPT ![p] = @ \cup {text}]

-----------------------------------------------------------------------------
(* read_file: stat, then read, then record.                                *)
FtReadStat(s) ==
  /\ ftJob[s].step = "begun" /\ ftJob[s].op = "read_file"
  /\ ftJob' = [ftJob EXCEPT ![s].step = "reading", ![s].saw[FtFile(s)] = ftDisk[FtFile(s)]]
  /\ UNCHANGED <<ftDisk, ftGuard, ftClock, ftKnown, ftUnseen>>

(* "Stamp from before the read, not after".                                *)
FtStamp(s) == ftJob[s].saw[FtFile(s)].ver

FtRead(s) ==
  /\ ftJob[s].step = "reading"
  /\ IF ftDisk[FtFile(s)] = FtAbsent
     THEN FtEnds(s, "failed") /\ UNCHANGED ftKnown
     ELSE FtTo(s, "recording") /\ FtLearns(FtFile(s), ftDisk[FtFile(s)].text)
  /\ UNCHANGED <<ftDisk, ftGuard, ftClock, ftUnseen>>

(* A file that was absent at the stat is not recorded.                     *)
FtRecord(s) ==
  /\ ftJob[s].step = "recording" /\ FtEnds(s, "ok")
  /\ ftGuard' = [ftGuard EXCEPT ![FtFile(s)] = IF FtStamp(s) = 0 THEN @ ELSE FtStamp(s)]
  /\ UNCHANGED <<ftDisk, ftClock, ftKnown, ftUnseen>>

-----------------------------------------------------------------------------
(* write_file: check_overwrite, write, restamp.                            *)
FtMayOverwrite(p) == ftDisk[p] = FtAbsent \/ ftGuard[p] = ftDisk[p].ver

FtCheck(s) ==
  /\ ftJob[s].step = "begun" /\ ftJob[s].op = "write_file"
  /\ IF FtMayOverwrite(FtFile(s))
     THEN ftJob' = [ftJob EXCEPT ![s].step = "writing",
                                 ![s].saw[FtFile(s)] = ftDisk[FtFile(s)]]
     ELSE FtEnds(s, "failed")
  /\ UNCHANGED <<ftDisk, ftGuard, ftClock, ftKnown, ftUnseen>>

FtWrite(s) ==
  /\ ftJob[s].step = "writing" /\ FtTo(s, "restamping")
  /\ FtPuts(FtFile(s), ftClock + 1) /\ FtLearns(FtFile(s), ftClock + 1)
  /\ UNCHANGED <<ftGuard, ftUnseen>>

(* A write that fails may have truncated the file.                         *)
FtWriteFails(s) ==
  /\ ftJob[s].step = "writing" /\ FtEnds(s, "failed")
  /\ UNCHANGED <<ftDisk, ftClock>> \/ FtPuts(FtFile(s), ftClock + 1)
  /\ UNCHANGED <<ftGuard, ftKnown, ftUnseen>>

-----------------------------------------------------------------------------
(* edit_file: read_all, match, commit, restamp each file.                  *)
FtEditRead(s, p) ==
  /\ ftJob[s].step = "begun" /\ ftJob[s].op = "edit_file"
  /\ p \in FtOn(s) /\ ftJob[s].saw[p] = FtAbsent
  /\ IF ftDisk[p] = FtAbsent THEN FtEnds(s, "failed")
     ELSE ftJob' = [ftJob EXCEPT ![s].saw[p] = ftDisk[p]]
  /\ UNCHANGED <<ftDisk, ftGuard, ftClock, ftKnown, ftUnseen>>

(* replace_exact found each text once, or an edit is refused.              *)
FtEditMatch(s) ==
  /\ ftJob[s].step = "begun" /\ ftJob[s].op = "edit_file"
  /\ \A p \in FtOn(s) : ftJob[s].saw[p] # FtAbsent
  /\ FtTo(s, "committing") \/ FtEnds(s, "failed")
  /\ UNCHANGED <<ftDisk, ftGuard, ftClock, ftKnown, ftUnseen>>

FtCommit(s) ==
  LET i == ftJob[s].at + 1
      p == ftJob[s].on[i] IN
  /\ ftJob[s].step = "committing"
  /\ FtPuts(p, ftClock + 1) /\ FtLearns(p, ftClock + 1)
  /\ ftJob' = IF i = Len(ftJob[s].on)
              THEN [ftJob EXCEPT ![s].step = "restamping", ![s].at = 0]
              ELSE [ftJob EXCEPT ![s].at = i]
  /\ UNCHANGED <<ftGuard, ftUnseen>>

(* mutation: the file whose write failed is left as it is. *)
FtFirstBackEarlier(i) == i - 1
(* "Include the failing change".                                           *)
FtFirstBack(i) == i

FtCommitFails(s) ==
  LET i == ftJob[s].at + 1 IN
  /\ ftJob[s].step = "committing"
  /\ UNCHANGED <<ftDisk, ftClock>> \/ FtPuts(ftJob[s].on[i], ftClock + 1)
  /\ IF FtFirstBack(i) = 0 THEN FtEnds(s, "failed")
     ELSE ftJob' = [ftJob EXCEPT ![s].step = "rollback", ![s].at = FtFirstBack(i)]
  /\ UNCHANGED <<ftGuard, ftKnown, ftUnseen>>

FtRollback(s) ==
  LET p == ftJob[s].on[ftJob[s].at] IN
  /\ ftJob[s].step = "rollback"
  /\ \E restored \in BOOLEAN :
       /\ IF restored THEN FtPuts(p, ftJob[s].saw[p].text) ELSE UNCHANGED <<ftDisk, ftClock>>
       /\ IF ftJob[s].at = 1
          THEN FtEnds(s, IF restored /\ ~ftJob[s].bad THEN "failed" ELSE "idle")
          ELSE ftJob' = [ftJob EXCEPT ![s].at = @ - 1, ![s].bad = @ \/ ~restored]
  /\ UNCHANGED <<ftGuard, ftKnown, ftUnseen>>

(* restamp: the stat and the record, for one file after the other.         *)
FtRestamp(s) ==
  LET i == ftJob[s].at + 1
      p == ftJob[s].on[i] IN
  /\ ftJob[s].step = "restamping"
  /\ ftGuard' = [ftGuard EXCEPT ![p] = IF ftDisk[p] = FtAbsent THEN @ ELSE ftDisk[p].ver]
  /\ IF p \in FtStirred(s) THEN FtBlesses(p, ftDisk[p].text) ELSE UNCHANGED ftUnseen
  /\ IF i = Len(ftJob[s].on) THEN FtEnds(s, "ok")
     ELSE ftJob' = [ftJob EXCEPT ![s].at = i]
  /\ UNCHANGED <<ftDisk, ftClock, ftKnown>>

-----------------------------------------------------------------------------
(* copy_file, rename_file and delete_file know nothing of the guard; a     *)
(* moved file keeps its Stat.                                              *)
FtAdmin(s, op, disk) ==
  /\ ftJob[s].step = "begun" /\ ftJob[s].op = op
  /\ IF ftDisk[FtFile(s)] = FtAbsent
     THEN FtEnds(s, "failed") /\ UNCHANGED <<ftDisk, ftClock>>
     ELSE FtEnds(s, "ok") /\ ftClock' = ftClock + 1 /\ ftDisk' = disk
  /\ UNCHANGED <<ftGuard, ftKnown>>

FtCopy(s) ==
  /\ FtAdmin(s, "copy_file",
             [ftDisk EXCEPT ![ftJob[s].on[2]] =
                       [ver |-> ftClock + 1, text |-> ftDisk[FtFile(s)].text]])
  /\ UNCHANGED ftUnseen
FtRename(s) ==
  /\ FtAdmin(s, "rename_file",
             [ftDisk EXCEPT ![FtFile(s)] = FtAbsent, ![ftJob[s].on[2]] = ftDisk[FtFile(s)]])
  /\ IF \E t \in FtSlots : ftJob[t].step = "reading" /\ FtFile(t) = FtFile(s)
     THEN FtBlesses(FtFile(s), ftDisk[FtFile(s)].text)
     ELSE UNCHANGED ftUnseen
FtDelete(s) ==
  /\ FtAdmin(s, "delete_file", [ftDisk EXCEPT ![FtFile(s)] = FtAbsent])
  /\ UNCHANGED ftUnseen

(***************************************************************************)
(* The dispatcher drops the call's future; a write under way in the        *)
(* blocking pool may land later, like a change made by somebody else.      *)
(***************************************************************************)
FtDrop(s) == FtRunning(s) /\ FtEnds(s, "idle") /\ UNCHANGED <<ftDisk, ftGuard, ftClock, ftKnown, ftUnseen>>

FtCallStep(s) ==
  /\ \/ FtReadStat(s) \/ FtRead(s) \/ FtRecord(s)
     \/ FtCheck(s) \/ FtWrite(s) \/ FtWriteFails(s)
     \/ \E p \in FtFiles : FtEditRead(s, p)
     \/ FtEditMatch(s) \/ FtCommit(s) \/ FtCommitFails(s) \/ FtRollback(s)
     \/ FtRestamp(s) \/ FtCopy(s) \/ FtRename(s) \/ FtDelete(s) \/ FtDrop(s)
  /\ FtTells(s)
  /\ UNCHANGED <<ftCalls, ftOutside>>

-----------------------------------------------------------------------------
FtSomebodyWrites(p) ==
  /\ ftOutside < FtMaxOutside /\ ftOutside' = ftOutside + 1
  /\ FtPuts(p, ftClock + 1)
  /\ ftMeddled' = [s \in FtSlots |-> IF FtRunning(s) THEN ftMeddled[s] \cup {p} ELSE {}]
  /\ UNCHANGED <<ftGuard, ftJob, ftCalls, ftKnown, ftUnseen, ftRespelt>>

(* clear, when the conversation resets.                                    *)
FtClear ==
  /\ \A s \in FtSlots : ~FtRunning(s)
  /\ ftGuard' = [p \in FtFiles |-> 0]
  /\ ftKnown' = [p \in FtFiles |-> {}] /\ ftUnseen' = [p \in FtFiles |-> {}]
  /\ UNCHANGED <<ftDisk, ftClock, ftJob, ftCalls, ftOutside, ftMeddled, ftRespelt>>

FtNext ==
  \/ \E s \in FtSlots :
       \/ \E op \in FtOps, spelt \in FtSpellings :
            \E on \in FtArguments(op) : FtBegin(s, op, on, spelt)
       \/ FtCallStep(s)
  \/ \E p \in FtFiles : FtSomebodyWrites(p)
  \/ FtClear

FtSpec == FtInit /\ [][FtNext]_ftVars

-----------------------------------------------------------------------------
(* "an existing file may be overwritten only if these tools read it (or    *)
(* wrote it) and nothing has changed it since": the text that passed the   *)
(* check of write_file is one this conversation read or wrote, however     *)
(* reads, writes, edits and other people's changes interleaved before -    *)
(* but for the two ways a stamp stands for another text: the file changed  *)
(* hands between a write and its restamp, or it was moved away, under a    *)
(* read, between its stat and its look.                                    *)
FtNoBlindOverwrite ==
  \A s \in FtSlots :
    ftJob[s].step = "writing" =>
      ftJob[s].saw[FtFile(s)].text
        \in {0} \cup ftKnown[FtFile(s)] \cup ftUnseen[FtFile(s)]

(* The paths a call is about to replace.                                   *)
FtToReplace(s) ==
  CASE ftJob[s].step = "writing" -> {FtFile(s)}
    [] ftJob[s].step = "committing" ->
         {ftJob[s].on[i] : i \in (ftJob[s].at + 1)..Len(ftJob[s].on)}
    [] OTHER -> {}

(* "Under the keyed lock for this path": what a call replaces is what it   *)
(* checked or read, unless somebody else changed it or a call did that     *)
(* spells the path otherwise; the calls of a batch that spell it alike     *)
(* never lose one another's work.                                          *)
FtNoLostWrite ==
  \A s \in FtSlots : \A p \in FtToReplace(s) \ FtStirred(s) : ftDisk[p] = ftJob[s].saw[p]

(* "writes and edits are Keyed by target path, so two writes to the same   *)
(* file serialize" (files.rs): only somebody else makes a call replace     *)
(* what it did not check or read.  In the code the calls of one batch do,  *)
(* where one writes a and another ./a.                                     *)
FtWritesSerialize ==
  \A s \in FtSlots : \A p \in FtToReplace(s) \ ftMeddled[s] : ftDisk[p] = ftJob[s].saw[p]

(* An edit that failed and reports no failed rollback left every file with *)
(* the text it had, as far as nobody else, and no call that spells it      *)
(* otherwise, changed it.                                                  *)
FtEditAllOrNothing ==
  [][\A s \in FtSlots :
       /\ ftJob[s].step \in {"committing", "rollback"} /\ ftJob'[s].step = "failed"
       => \A p \in FtOn(s) \ FtStirred(s) : ftDisk'[p].text = ftJob[s].saw[p].text]_ftVars

(***************************************************************************)
(* No write over a text nobody here saw or stamped unseen, no lost write   *)
(* between calls that spell a path alike, and an edit of several files is  *)
(* made as a whole or not at all.                                          *)
(***************************************************************************)
FtSafe == [](FtNoBlindOverwrite /\ FtNoLostWrite) /\ FtEditAllOrNothing
=============================================================================

--------------------------- MODULE StageContract ---------------------------
(***************************************************************************)
(* What a workflow promises about the order of its stages, whatever the    *)
(* threads that run them do: stages begin after everything they need, a    *)
(* map is done after its children, nothing is begun or done twice, and a   *)
(* run that is over stays over.                                            *)
(***************************************************************************)
EXTENDS Naturals

CONSTANTS Run, Id

VARIABLES
  needs,   \* by run, what each of its stages needs
  parts,   \* by run, the children each of its stages has
  phase,   \* by run, how far each of its stages is
  over     \* the runs that are over

contractVars == <<needs, parts, phase, over>>

Rank(p) == CASE p = "idle" -> 0 [] p = "busy" -> 1 [] p = "done" -> 2

InOrderOnly(r) ==
  /\ DOMAIN phase'[r] \subseteq Id
  /\ \A s \in DOMAIN phase'[r] :
       /\ phase'[r][s] # "idle" => \A n \in needs'[r][s] : phase'[r][n] = "done"
       /\ phase'[r][s] = "done" => \A c \in parts'[r][s] : phase'[r][c] = "done"

OnlyRun(r) ==
  \A q \in Run \ {r} :
    needs'[q] = needs[q] /\ parts'[q] = parts[q] /\ phase'[q] = phase[q]

ContractInit ==
  /\ needs = [r \in Run |-> << >>] /\ parts = [r \in Run |-> << >>]
  /\ phase = [r \in Run |-> << >>] /\ over = {}

Begin(r) ==
  /\ r \notin over /\ phase[r] = << >> /\ phase'[r] # << >>
  /\ InOrderOnly(r) /\ OnlyRun(r) /\ over' = over

Work(r) ==
  /\ r \notin over
  /\ phase[r] # << >>
  /\ \A s \in DOMAIN phase[r] :
       /\ s \in DOMAIN phase'[r] /\ Rank(phase[r][s]) <= Rank(phase'[r][s])
       /\ needs'[r][s] = needs[r][s]
       /\ parts[r][s] # {} => parts'[r][s] = parts[r][s]
  /\ InOrderOnly(r) /\ OnlyRun(r) /\ over' = over

End(r) ==
  /\ r \notin over /\ over' = over \cup {r}
  /\ phase'[r] = << >> /\ OnlyRun(r)

ContractNext == \E r \in Run : Begin(r) \/ Work(r) \/ End(r)

ContractSpec == ContractInit /\ [][ContractNext]_contractVars
=============================================================================

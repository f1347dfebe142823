--------------------------- MODULE MCConversation ---------------------------
(* Small instances of a recorded conversation for TLC.                     *)
EXTENDS Conversation, TLC

CONSTANTS
  f1, f2,
  BareBy    \* bound on the messages made before a line loses its newline

MCOneFile == {f1}
MCFiles == {f1, f2}
MCSymmetry == Permutations(Session)

MCNext ==
  /\ Next
  /\ fresh > BareBy => \A f \in Session : file'[f].tail = "bare" => file[f].tail = "bare"

MCSpec == Init /\ [][MCNext]_vars
=============================================================================

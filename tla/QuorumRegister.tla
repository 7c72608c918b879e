-------------------------- MODULE QuorumRegister ---------------------------
(***************************************************************************)
(* What the attestation contract promises, with no access control and no   *)
(* storage: a register that voters change by agreement.  Time is divided   *)
(* into rounds.  A voter may vote any number of times; its latest vote of  *)
(* the round in progress is the one that counts.  A vote that brings the   *)
(* agreeing votes of this round to the threshold in force sets the         *)
(* register and starts the next round; no other step touches the register. *)
(***************************************************************************)
EXTENDS Naturals, FiniteSets

CONSTANTS
  Voter,
  Choice,
  Empty,           \* the register before the first decision
  Agree(_, _)      \* whether two choices count as the same vote

VARIABLES
  register,
  threshold,
  round,
  ballot           \* the latest vote of each voter and the round it is of

vars == <<register, threshold, round, ballot>>

\* The voters whose vote of the current round, in the ballots b, agrees with c.
Support(b, c) ==
  {v \in Voter : b[v].round = round /\ Agree(b[v].choice, c)}

Init ==
  /\ register = Empty
  /\ threshold \in Nat \ {0}
  /\ round = 1
  /\ \A v \in Voter : ballot[v].round = 0

Vote(v, c) ==
  /\ ballot' = [ballot EXCEPT ![v] = [choice |-> c, round |-> round]]
  /\ IF Cardinality(Support(ballot', c)) >= threshold
     THEN register' = c /\ round' = round + 1
     ELSE UNCHANGED <<register, round>>
  /\ UNCHANGED threshold

SetThreshold ==
  /\ threshold' \in Nat \ {0}
  /\ UNCHANGED <<register, round, ballot>>

Next ==
  \/ \E v \in Voter, c \in Choice : Vote(v, c)
  \/ SetThreshold

Spec == Init /\ [][Next]_vars
=============================================================================

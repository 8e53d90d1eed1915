---------------------------- MODULE ProposalOffer ----------------------------
(***************************************************************************)
(* What the AI organizer promises the owner of a memoir, without saying    *)
(* how: one plan at a time is on offer; a plan can be taken off the table  *)
(* and put back; once it is closed or has been applied it is never on      *)
(* offer again; and it is applied at most once.                            *)
(***************************************************************************)
CONSTANT Proposal

VARIABLES
  offered,      \* the plans the owner can confirm
  closed,       \* the plans that were retired
  applied       \* the plans the owner was told are in the book

vars == <<offered, closed, applied>>

Init ==
  /\ offered = {} \/ \E p \in Proposal : offered = {p}
  /\ closed = {}
  /\ applied = {}

Put(p) ==
  /\ offered = {}
  /\ p \notin closed \cup applied
  /\ offered' = {p}
  /\ UNCHANGED <<closed, applied>>

Take ==
  /\ offered' = {}
  /\ UNCHANGED <<closed, applied>>

Close(S) ==
  /\ closed' = closed \cup S
  /\ offered' = offered \ S
  /\ UNCHANGED applied

Apply(p) ==
  /\ p \notin offered \cup applied
  /\ applied' = applied \cup {p}
  /\ UNCHANGED <<offered, closed>>

Next ==
  \/ \E p \in Proposal : Put(p) \/ Apply(p)
  \/ Take
  \/ \E S \in SUBSET Proposal : Close(S)

Spec == Init /\ [][Next]_vars

=============================================================================

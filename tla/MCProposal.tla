----------------------------- MODULE MCProposal -----------------------------
(***************************************************************************)
(* Small instances of Proposal: the symmetry of its ids and calls, and     *)
(* what the repository's documentation says that the code does not keep.   *)
(***************************************************************************)
EXTENDS Proposal, TLC

Symmetry ==
  Permutations(Proposal) \cup Permutations(Saver) \cup Permutations(Confirmer)

-----------------------------------------------------------------------------

\* A row in applying, past its time to live, that no running confirmation
\* holds: the process that claimed it died, or its release failed.
Stranded(p) ==
  /\ status[p] = "applying"
  /\ p \in old
  /\ \A c \in Confirmer : ~ (confPc[c] \in Holding /\ held[c] = p)

\* Every call that runs goes on running unless it crashes, an owner who sees a
\* proposal confirms it as often as there are calls, and time passes.
FairConfirmerStep(c) == ConfirmerStep(c) /\ confPc'[c] # "crashed"
FairSaverStep(s) ==
  /\ savePc[s] \in {"supersede", "insert"}
  /\ SaverStep(s)
  /\ savePc'[s] # "crashed"

Fairness ==
  /\ \A c \in Confirmer : WF_vars(FairConfirmerStep(c))
  /\ \A s \in Saver : WF_vars(FairSaverStep(s))
  /\ \A p \in Proposal : WF_vars(Age(p))

FairSpec == Spec /\ Fairness

\* The migration says a stranded applying row is recoverable: the age check
\* that reaps a stale pending row reaps it too.
StrandedIsReaped ==
  \A p \in Proposal : Stranded(p) ~> status[p] # "applying"

=============================================================================

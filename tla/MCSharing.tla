----------------------------- MODULE MCSharing -----------------------------
\* What an owner asks for: a password, an open link, comments on or off with a
\* change of the link, and a limit.
EXTENDS Sharing, TLC

Ask(p, w, v, e) == [policy |-> p, password |-> w, visibility |-> v, expires |-> e]

McPayload ==
  {Ask(None, "set", None, None), Ask(None, "clear", "link", None),
   Ask(FALSE, None, "private", None), Ask(TRUE, None, None, "later"),
   Ask(FALSE, None, None, None)}

Symmetry == Permutations(Creator) \cup Permutations(Changer) \cup Permutations(Visit)
============================================================================

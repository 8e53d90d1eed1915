--------------------------- MODULE MCChapterApply ---------------------------
\* Small instances of ChapterApply: its ids are interchangeable.
EXTENDS ChapterApply, TLC

Symmetry ==
  Permutations(Memory) \cup Permutations(Former) \cup Permutations(Applier)

\* The local variables of an apply go with its call.  No action reads them after
\* it, and of the properties RollbackRestores alone, for the lone apply.
LocalTodo == [a \in Applier |-> IF a \in AtWork THEN todo[a] ELSE {}]
LocalStale == [a \in Applier |-> IF a \in AtWork THEN stale[a] ELSE {}]
LocalBefore ==
  [a \in Applier |-> IF a \in AtWork \cup {lone} /\ pc[a] # "applied" THEN before[a] ELSE <<>>]

View ==
  <<book, submitted, published, pc, plan, LocalTodo, LocalStale, LocalBefore, owner, history>>
=============================================================================

----------------------------- MODULE ResolvePlan -----------------------------
(***************************************************************************)
(* The organize pipeline from the memories it is given to the plan it may  *)
(* save: the reader's chunks, the organizer's answer, and the resolver,    *)
(* "the last word on what reaches the database".                           *)
(*                                                                         *)
(* A language model may answer anything its response schema admits, so an  *)
(* answer is any choice of that shape.  An id is a number, in the order of *)
(* the id strings; a date is a number too, and Undated comes after them,   *)
(* as in _chronological_sort_key.  Titles and summaries are left out.      *)
(*                                                                         *)
(* Names are apart from those of OrganizeJob, for OrganizeJobProofs        *)
(* extends both.                                                           *)
(***************************************************************************)
EXTENDS Integers, FiniteSets, Sequences, SequencesExt

CONSTANTS
  Memory,       \* the ids of the memories that were sent
  Stranger,     \* ids that were not
  Chunks,       \* the reader's calls
  MaxDate,      \* dates are 1 .. MaxDate
  MaxChapters,  \* MAX_CHAPTERS
  MaxIds        \* bound on the ids of one proposed chapter

Id == Memory \cup Stranger
Undated == MaxDate + 1

\* A memoir has finitely many memories, and so has an answer.
ASSUME IdAssumption == Id \subseteq Nat /\ IsFiniteSet(Id)
ASSUME BoundAssumption ==
  /\ Chunks \in Nat \ {0}
  /\ MaxDate \in Nat
  /\ MaxChapters \in Nat \ {0, 1}
  /\ MaxIds \in Nat

VARIABLES
  stage,        \* the next step of the pipeline, or how it ended
  answered,     \* chunks whose call has ended
  facts,        \* facts_by_id: the date of each id the reader returned
  proposal,     \* the organizer's chapters, each the list of its memory_ids
  plan          \* the resolved chapters, likewise

planVars == <<stage, answered, facts, proposal, plan>>

-----------------------------------------------------------------------------
(* Variants with a plausible bug, which the properties must notice *)

DateOfFirst(f, c) == f[c[1]]          \* the model's order is trusted
NoneUnplaced(f, chapters) == {}       \* no catch-all chapter
FullOrganizer == MaxChapters          \* no slot is kept for the catch-all
OrganizeNothing == FALSE              \* a reader without facts goes on

\* An id is looked for again in its own chapter only.
PlacedOncePerChapter(chapters) ==
  \A i \in DOMAIN chapters : \A k, l \in DOMAIN chapters[i] :
    chapters[i][k] = chapters[i][l] => k = l

-----------------------------------------------------------------------------
(* Sorting *)

\* The numbers of S in the order of their keys, those with the same key in
\* their own order, as Python's sort leaves them.
Precedes(key, i, k) == key[i] < key[k] \/ (key[i] = key[k] /\ i < k)

SortedBy(S, key) ==
  CHOOSE order \in [1 .. Cardinality(S) -> S] :
    \A n, o \in DOMAIN order : n < o => Precedes(key, order[n], order[o])

IdsOf(chapters) == UNION {ToSet(chapters[i]) : i \in DOMAIN chapters}

-----------------------------------------------------------------------------
(* resolve_plan *)

\* The ids that _validate_ids admits.
SentIds(f) == DOMAIN f

\* No id is placed twice.
PlacedOnce(chapters) ==
  /\ \A i \in DOMAIN chapters : \A k, l \in DOMAIN chapters[i] :
       chapters[i][k] = chapters[i][l] => k = l
  /\ \A i, k \in DOMAIN chapters :
       ToSet(chapters[i]) \cap ToSet(chapters[k]) # {} => i = k

ValidIds(f, chapters) == IdsOf(chapters) \subseteq SentIds(f) /\ PlacedOnce(chapters)

\* The facts of a chapter, by their place in it.
FactsOf(f, c) == {i \in DOMAIN c : c[i] \in DOMAIN f}

\* Its ids in the order of time.
ByDate(f, c) ==
  LET order == SortedBy(FactsOf(f, c), [i \in FactsOf(f, c) |-> f[c[i]]])
  IN  [n \in DOMAIN order |-> c[order[n]]]

\* What a chapter is sorted by.
Earliest(f, c) == Min({f[c[i]] : i \in FactsOf(f, c)})

NonEmpty(f, chapters) == {i \in DOMAIN chapters : FactsOf(f, chapters[i]) # {}}

Chronological(f, chapters) ==
  LET kept == NonEmpty(f, chapters)
      order == SortedBy(kept, [i \in kept |-> Earliest(f, chapters[i])])
  IN  [n \in DOMAIN order |-> ByDate(f, chapters[order[n]])]

Unplaced(f, chapters) == DOMAIN f \ IdsOf(chapters)

\* They are sorted by id first, so that equal dates are in the order of ids.
CatchAll(f, ids) == SortedBy(ids, f)

Resolve(f, chapters) ==
  LET chosen == Chronological(f, chapters)
      rest == Unplaced(f, chosen)
  IN  IF rest = {} THEN chosen ELSE Append(chosen, CatchAll(f, rest))

\* What raises OrganizationRejected.
Rejected(f, chapters) ==
  \/ ~ ValidIds(f, chapters)
  \/ Chronological(f, chapters) = << >>
  \/ Len(Resolve(f, chapters)) > MaxChapters

-----------------------------------------------------------------------------
(* The pipeline *)

\* One fact per entry is asked for; any ids and dates may come back, and of
\* two facts with an id facts_by_id keeps the last.
Answers == UNION {[ids -> 1 .. Undated] : ids \in SUBSET Id}

\* A chunk of _run_reader: it is answered, or fails recoverably and is passed
\* over, or fails for good and ends the job.
ReadChunk ==
  /\ stage = "read"
  /\ answered < Chunks
  /\ answered' = answered + 1
  /\ \/ /\ \E answer \in Answers :
             facts' = [m \in DOMAIN answer \cup DOMAIN facts |->
                         IF m \in DOMAIN answer THEN answer[m] ELSE facts[m]]
        /\ UNCHANGED stage
     \/ UNCHANGED <<stage, facts>>
     \/ /\ stage' = "rejected"
        /\ UNCHANGED facts
  /\ UNCHANGED <<proposal, plan>>

\* Every chunk has ended; with no fact at all there is nothing to organize.
NothingRead == facts = << >>

EndReader ==
  /\ stage = "read"
  /\ answered = Chunks
  /\ stage' = IF NothingRead THEN "rejected" ELSE "organize"
  /\ UNCHANGED <<answered, facts, proposal, plan>>

\* The schema of the organizer's answer admits MAX_ORGANIZED_CHAPTERS.
MaxOrganized == MaxChapters - 1

ChapterProposal == BoundedSeq(Id, MaxIds)

Organize ==
  /\ stage = "organize"
  /\ \/ /\ \E n \in 1 .. MaxOrganized : proposal' \in [1 .. n -> ChapterProposal]
        /\ stage' = "resolve"
     \/ /\ stage' = "rejected"
        /\ UNCHANGED proposal
  /\ UNCHANGED <<answered, facts, plan>>

Resolver ==
  /\ stage = "resolve"
  /\ IF Rejected(facts, proposal)
       THEN stage' = "rejected" /\ UNCHANGED plan
       ELSE stage' = "resolved" /\ plan' = Resolve(facts, proposal)
  /\ UNCHANGED <<answered, facts, proposal>>

PlanInit ==
  /\ stage = "read"
  /\ answered = 0
  /\ facts = << >>
  /\ proposal = << >>
  /\ plan = << >>

PlanNext == ReadChunk \/ EndReader \/ Organize \/ Resolver

PlanSpec == PlanInit /\ [][PlanNext]_planVars

-----------------------------------------------------------------------------
(* Properties *)

IsPlan == stage = "resolved"

\* Where chapters place an id.
Places(chapters, m) ==
  {p \in UNION {{i} \X DOMAIN chapters[i] : i \in DOMAIN chapters} :
     chapters[p[1]][p[2]] = m}

\* Every variable has its type, a plan no more chapters than ResolvedPlan and
\* the reorder endpoint admit, and an organizer never runs without facts.
PlanTypes ==
  /\ stage \in {"read", "organize", "resolve", "resolved", "rejected"}
  /\ answered \in 0 .. Chunks
  /\ DOMAIN facts \subseteq Id
  /\ ToSet(facts) \subseteq 1 .. Undated
  /\ stage \in {"organize", "resolve"} => DOMAIN facts # {}
  /\ Len(proposal) < MaxChapters
  /\ Len(plan) <= MaxChapters

\* "Nothing is silently dropped" (resolve_plan): every memory the reader
\* returned a fact of is in one chapter of the plan, once, whatever the
\* organizer placed or left out, and nothing else is in the plan.  A memory
\* whose chunk failed, or that the reader passed over, has no fact: it is in no
\* chapter of the plan, nor in its catch-all.
EveryFactOnce ==
  IsPlan =>
    \A m \in Id :
      Cardinality(Places(plan, m)) = IF m \in DOMAIN facts THEN 1 ELSE 0

\* The book is in the order of time: within a chapter, and from chapter to
\* chapter by its earliest memory, the undated last; the model's order decides
\* only between equal dates.  Only the chapter of what the organizer left out
\* stands apart, at the end.
InTime(c) == \A i, k \in DOMAIN c : i < k => facts[c[i]] <= facts[c[k]]

BookInOrder ==
  IsPlan =>
    LET left == DOMAIN facts \ IdsOf(proposal)
        chosen == IF left = {} THEN DOMAIN plan ELSE 1 .. Len(plan) - 1
    IN  /\ \A i \in DOMAIN plan : plan[i] # << >> /\ InTime(plan[i])
        /\ \A i, k \in chosen : i < k => facts[plan[i][1]] <= facts[plan[k][1]]
        /\ left # {} => ToSet(plan[Len(plan)]) = left

\* The resolver orders the organizer's chapters and never regroups them: those
\* of the plan are the proposed ones that are not empty, and a plan within the
\* organizer's limit is never refused for its catch-all.
GroupsKept ==
  /\ IsPlan =>
       {ToSet(proposal[i]) : i \in DOMAIN proposal} \ {{}}
         = {ToSet(plan[i]) : i \in DOMAIN plan} \ {DOMAIN facts \ IdsOf(proposal)}
  /\ stage = "resolve" /\ ValidIds(facts, proposal) /\ IdsOf(proposal) # {}
       => ~ Rejected(facts, proposal)

\* The plan is sound: within its bounds, and with the chapters proposed.
PlanIsSound == PlanTypes /\ GroupsKept

=============================================================================

---------------------------- MODULE ChapterApply ----------------------------
(***************************************************************************)
(* What an organize proposal does to the chapters of a memoir: the plan a  *)
(* job makes, the writes of confirm_proposal with their compensation, and  *)
(* the owner who goes on editing meanwhile.                                *)
(*                                                                         *)
(* The book is two columns of the table memory (chapter_id, without a      *)
(* foreign key, and position_in_chapter) and the rows of the table chapter *)
(* with their flag edited_by_owner.  There is no transaction: every call   *)
(* of the database is a step that is answered, or raises having written    *)
(* nothing, or raises having written (Reply).  On a published memoir the   *)
(* immutability triggers make every write raise.                           *)
(***************************************************************************)
EXTENDS Naturals, FiniteSets

CONSTANTS
  Memory,       \* the memories of the memoir
  Former,       \* the chapters it has before any of the applies below
  Applier,      \* calls of confirm_proposal, each runs at most once
  Slots,        \* the most chapters in a plan (MAX_CHAPTERS)
  UpsertChunk,  \* the most rows in one upsert (_UPSERT_CHUNK)
  MaxActs,      \* bound: how often the owner acts
  None          \* no chapter; no position; no applier; no move

ASSUME SlotsAssumption == Slots \in Nat \ {0} /\ UpsertChunk \in Nat \ {0}
ASSUME ActsAssumption == MaxActs \in Nat

\* A memoir has finitely many memories, and ids of different kinds differ.
ASSUME IdsAssumption ==
  /\ IsFiniteSet(Memory)
  /\ Former \cap (Applier \X (1..Slots)) = {}
  /\ None \notin Applier \cup Former \cup (Applier \X (1..Slots))
  /\ None \notin Nat \cup (Memory \X (Former \cup (Applier \X (1..Slots))))

VARIABLES
  chapters,     \* the ids in the table chapter
  edited,       \* those with edited_by_owner
  chapterOf,    \* memory.chapter_id
  position,     \* memory.position_in_chapter
  submitted,    \* the memories whose status is submitted
  published,    \* the memoir's status is published
  pc,           \* the next call of each applier, or how it ended
  plan,         \* the payload each applier confirms: memory -> place
  todo,         \* the memories left to assign, or left to restore
  before,       \* its snapshot: the chapter each planned memory was in
  stale,        \* the chapters it is about to delete
  move,         \* the owner's move between its check and its write
  acts,         \* how often the owner has acted
  lone,         \* history: the applier that began last, if no other was at work
  moved,        \* history: what the owner moved since that one began
  lost,         \* history: the memories whose chapter was gone when it began
  kept          \* history: the chapters that were edited when those at work began

book == <<chapters, edited, chapterOf, position>>
locals == <<plan, todo, before, stale>>
owner == <<move, acts>>
history == <<lone, moved, lost, kept>>
vars == <<book, submitted, published, pc, locals, owner, history>>

-----------------------------------------------------------------------------

Slot == 1..Slots

\* insert_chapters generates the ids, so no two applies share one.
NewIds(a) == {a} \X Slot
Chapter == Former \cup (Applier \X Slot)

\* Where a plan puts a memory: the chapter's sort_order and the index in it.
Place == [slot : Slot, index : Nat]

Active == {"verify", "snapshot", "insert", "assign", "restore", "discard",
           "fetchStale", "deleteStale"}
Ended == {"applied", "rolledback", "failed", "refused", "crashed"}

Reply == {"ok", "error", "lost"}
Wrote(reply) == reply # "error"
Answered(reply) == reply = "ok"

\* What a write of rows the memoir has may come back with, and a delete of
\* chapters: with none to delete there is no call, and a trigger fires only for
\* rows that exist.
WriteReply == IF published THEN {"error"} ELSE Reply
DeleteReply(S) == IF S = {} THEN {"ok"}
                  ELSE IF S \cap chapters = {} THEN Reply ELSE WriteReply

\* fetch_owner_locked_memory_ids
Locked == {m \in Memory : chapterOf[m] \in edited}

\* chapter_id names a chapter that does not exist: the memory is neither in the
\* book (fetch_chapters_with_memories) nor among the unassigned.
Lost(m) == chapterOf[m] # None /\ chapterOf[m] \notin chapters

Planned(a) == DOMAIN plan[a]
Target(a, m) == <<a, plan[a][m].slot>>
PlanIds(a) == {Target(a, m) : m \in Planned(a)}

\* The order of the assignments: by chapter, then by index.
Precedes(p, q) == \/ p.slot < q.slot
                  \/ p.slot = q.slot /\ p.index < q.index

-----------------------------------------------------------------------------
(* Variants with a plausible bug, which the properties must notice *)

StaleWithoutFilter(a) == chapters \ edited    \* the new chapters are stale too
StaleWithEdited(a) == chapters \ NewIds(a)    \* edited chapters are stale too
NothingStale(a) == {}                         \* the former chapters are kept
DiscardNothing(a) == {}                       \* the new chapters are kept
SkipRestore == "discard"                      \* the rollback moves nothing back

-----------------------------------------------------------------------------
(* The plan *)

\* What build_organization_plan sends to the model.
Organizable == submitted \ Locked

\* The shape resolve_plan gives: every memory once, chapters numbered from the
\* first without a gap, none empty, the memories of each numbered from 0.
IsPlan(f) ==
  /\ \A m, n \in DOMAIN f : f[m] = f[n] => m = n
  /\ \A m \in DOMAIN f :
       /\ f[m].slot > 1 => \E n \in DOMAIN f : f[n].slot = f[m].slot - 1
       /\ f[m].index > 0 => \E n \in DOMAIN f :
                              /\ f[n].slot = f[m].slot
                              /\ f[n].index = f[m].index - 1

Plans(D) == {f \in [D -> [slot : Slot, index : 0..(Cardinality(D) - 1)]] :
               IsPlan(f)}

\* prepare_proposal, as far as the book is concerned.  A reader chunk that
\* failed recoverably, and a memory the reader left out, are in no chapter of
\* the plan: any non-empty part of what was sent can be planned.
Prepare(a) ==
  /\ pc[a] = "idle"
  /\ \E D \in SUBSET Organizable \ {{}} :
       \E f \in Plans(D) : plan' = [plan EXCEPT ![a] = f]
  /\ pc' = [pc EXCEPT ![a] = "planned"]
  /\ UNCHANGED <<book, submitted, published, todo, before, stale, owner, history>>

\* The owner confirms again a proposal that another apply gave back.
ConfirmAgain(a, b) ==
  /\ pc[a] = "idle"
  /\ pc[b] \in {"failed", "rolledback", "refused"}
  /\ plan' = [plan EXCEPT ![a] = plan[b]]
  /\ pc' = [pc EXCEPT ![a] = "planned"]
  /\ UNCHANGED <<book, submitted, published, todo, before, stale, owner, history>>

-----------------------------------------------------------------------------
(* confirm_proposal and _apply_resolved_plan *)

AtWork == {a \in Applier : pc[a] \in Active}

\* The route's assert_memoir_editable, and the claim.  The claim is of one row,
\* and the save of a later proposal retires a row that is being applied: the
\* apply of another proposal may be at work.
Begin(a) ==
  /\ pc[a] = "planned"
  /\ ~ published
  /\ pc' = [pc EXCEPT ![a] = "verify"]
  /\ lone' = IF AtWork = {} THEN a ELSE None
  /\ moved' = {}
  /\ lost' = IF AtWork = {} THEN {m \in Memory : Lost(m)} ELSE {}
  /\ kept' = IF AtWork = {} THEN edited ELSE kept
  /\ UNCHANGED <<book, submitted, published, locals, owner>>

\* fetch_submitted_memory_ids: the plan is refused if it names another memory.
Verify(a) ==
  /\ pc[a] = "verify"
  /\ pc' = [pc EXCEPT
              ![a] = IF Planned(a) \subseteq submitted THEN "snapshot"
                                                       ELSE "refused"]
  /\ UNCHANGED <<book, submitted, published, locals, owner, history>>

\* fetch_memory_chapter_snapshot
Snapshot(a) ==
  /\ pc[a] = "snapshot"
  /\ before' = [before EXCEPT ![a] = [m \in Planned(a) |-> chapterOf[m]]]
  /\ todo' = [todo EXCEPT ![a] = Planned(a)]
  /\ pc' = [pc EXCEPT ![a] = "insert"]
  /\ UNCHANGED <<book, submitted, published, plan, stale, owner, history>>

\* insert_chapters.  When it raises, the caller has no ids yet and the delete
\* of its handler deletes nothing.
InsertChapters(a) ==
  /\ pc[a] = "insert"
  /\ \E reply \in WriteReply :
       /\ chapters' = IF Wrote(reply) THEN chapters \cup PlanIds(a) ELSE chapters
       /\ pc' = [pc EXCEPT ![a] = IF Answered(reply) THEN "assign" ELSE "failed"]
  /\ UNCHANGED <<edited, chapterOf, position, submitted, published, locals, owner,
                 history>>

\* S is the next chunk of the assignments.
IsChunk(a, S) ==
  /\ S \subseteq todo[a]
  /\ S # {}
  /\ Cardinality(S) <= UpsertChunk
  /\ S = todo[a] \/ Cardinality(S) = UpsertChunk
  /\ \A m \in S, n \in todo[a] \ S : Precedes(plan[a][m], plan[a][n])

\* The chunk was the last; where a chunk that raised leads.
IsLastChunk(a, S) == todo[a] \subseteq S
AfterFailedUpsert == "restore"

\* One upsert of assign_memories_to_chapters.
UpsertOne(a, S) ==
  /\ pc[a] = "assign"
  /\ IsChunk(a, S)
  /\ \E reply \in WriteReply :
       /\ IF Wrote(reply)
            THEN /\ chapterOf' = [m \in Memory |->
                      IF m \in S THEN Target(a, m) ELSE chapterOf[m]]
                 /\ position' = [m \in Memory |->
                      IF m \in S THEN plan[a][m].index ELSE position[m]]
            ELSE UNCHANGED <<chapterOf, position>>
       /\ IF Answered(reply)
            THEN /\ todo' = [todo EXCEPT ![a] = @ \ S]
                 /\ pc' = [pc EXCEPT
                      ![a] = IF IsLastChunk(a, S) THEN "fetchStale" ELSE "assign"]
            ELSE /\ todo' = [todo EXCEPT ![a] = Planned(a)]
                 /\ pc' = [pc EXCEPT ![a] = AfterFailedUpsert]
  /\ UNCHANGED <<chapters, edited, submitted, published, plan, before, stale, owner,
                 history>>

\* set_memory_chapter for one memory of the snapshot, in any order: the chapter
\* is written back, the position is not.  If it raises, the rollback ends here.
RestoreOne(a, m) ==
  /\ pc[a] = "restore"
  /\ m \in todo[a]
  /\ \E reply \in WriteReply :
       /\ chapterOf' = IF Wrote(reply)
                         THEN [chapterOf EXCEPT ![m] = before[a][m]]
                         ELSE chapterOf
       /\ pc' = [pc EXCEPT ![a] = CASE ~ Answered(reply) -> "failed"
                                    [] Answered(reply) /\ todo[a] = {m} -> "discard"
                                    [] OTHER -> "restore"]
  /\ todo' = [todo EXCEPT ![a] = @ \ {m}]
  /\ UNCHANGED <<chapters, edited, position, submitted, published, plan, before,
                 stale, owner, history>>

\* What the rollback deletes.
Discarded(a) == PlanIds(a)

\* delete_chapters of the new chapters, the end of the rollback.
DiscardNew(a) ==
  /\ pc[a] = "discard"
  /\ \E reply \in DeleteReply(Discarded(a)) :
       /\ chapters' = IF Wrote(reply) THEN chapters \ Discarded(a) ELSE chapters
       /\ edited' = IF Wrote(reply) THEN edited \ Discarded(a) ELSE edited
       /\ pc' = [pc EXCEPT ![a] = IF Answered(reply) THEN "rolledback" ELSE "failed"]
  /\ UNCHANGED <<chapterOf, position, submitted, published, locals, owner, history>>

\* The AI-authored chapters that the new ones replace.
StaleFor(a) == (chapters \ edited) \ NewIds(a)

\* fetch_existing_chapter_ids
FetchStale(a) ==
  /\ pc[a] = "fetchStale"
  /\ stale' = [stale EXCEPT ![a] = StaleFor(a)]
  /\ pc' = [pc EXCEPT ![a] = "deleteStale"]
  /\ UNCHANGED <<book, submitted, published, plan, todo, before, owner, history>>

\* delete_chapters of the stale ones.  It is outside every try: if it raises,
\* nothing is rolled back.
DeleteStale(a) ==
  /\ pc[a] = "deleteStale"
  /\ \E reply \in DeleteReply(stale[a]) :
       /\ chapters' = IF Wrote(reply) THEN chapters \ stale[a] ELSE chapters
       /\ edited' = IF Wrote(reply) THEN edited \ stale[a] ELSE edited
       /\ pc' = [pc EXCEPT ![a] = IF Answered(reply) THEN "applied" ELSE "failed"]
  /\ UNCHANGED <<chapterOf, position, submitted, published, locals, owner, history>>

\* A read raises; confirm_proposal gives the proposal back.
ReadFails(a) ==
  /\ pc[a] \in {"verify", "snapshot", "fetchStale"}
  /\ pc' = [pc EXCEPT ![a] = "failed"]
  /\ UNCHANGED <<book, submitted, published, locals, owner, history>>

Crash(a) ==
  /\ pc[a] \in Active
  /\ pc' = [pc EXCEPT ![a] = "crashed"]
  /\ UNCHANGED <<book, submitted, published, locals, owner, history>>

-----------------------------------------------------------------------------
(* The owner *)

Act == acts < MaxActs /\ acts' = acts + 1

\* update_chapter_in_db, which locks the chapter.
EditChapter(k) ==
  /\ ~ published
  /\ k \in chapters \ edited
  /\ edited' = edited \cup {k}
  /\ Act
  /\ UNCHANGED <<chapters, chapterOf, position, submitted, published, pc, locals,
                 move, history>>

\* move_memory_in_db checks that the chapter exists ...
CheckMove(m, k) ==
  /\ ~ published
  /\ move = None
  /\ k \in chapters
  /\ chapterOf[m] # k
  /\ move' = <<m, k>>
  /\ Act
  /\ UNCHANGED <<book, submitted, published, pc, locals, history>>

\* ... and then writes, whether or not it still does.
MoveMemory ==
  /\ move # None
  /\ IF published
       THEN UNCHANGED <<chapterOf, moved>>
       ELSE /\ chapterOf' = [chapterOf EXCEPT ![move[1]] = move[2]]
            /\ moved' = IF lone = None THEN {} ELSE moved \cup {move[1]}
  /\ move' = None
  /\ UNCHANGED <<chapters, edited, position, submitted, published, pc, locals,
                 acts, lone, lost, kept>>

\* MemoryUpdateRequest.status: a memory is submitted, or taken back to draft.
ChangeStatus(m) ==
  /\ ~ published
  /\ submitted' = IF m \in submitted THEN submitted \ {m} ELSE submitted \cup {m}
  /\ Act
  /\ UNCHANGED <<book, published, pc, locals, move, history>>

\* publish_memoir_tx, irreversible.
Publish ==
  /\ ~ published
  /\ submitted # {}
  /\ published' = TRUE
  /\ Act
  /\ UNCHANGED <<book, submitted, pc, locals, move, history>>

-----------------------------------------------------------------------------

\* Each memory is in a chapter of an earlier apply or in none; no chapter has
\* been edited yet.
Init ==
  /\ chapters = Former
  /\ edited = {}
  /\ chapterOf \in [Memory -> Former \cup {None}]
  /\ position = [m \in Memory |-> None]
  /\ submitted = Memory
  /\ published = FALSE
  /\ pc = [a \in Applier |-> "idle"]
  /\ plan = [a \in Applier |-> <<>>]
  /\ todo = [a \in Applier |-> {}]
  /\ before = [a \in Applier |-> <<>>]
  /\ stale = [a \in Applier |-> {}]
  /\ move = None
  /\ acts = 0
  /\ lone = None
  /\ moved = {}
  /\ lost = {}
  /\ kept = {}

ApplierStep(a) ==
  \/ Prepare(a)
  \/ \E b \in Applier : ConfirmAgain(a, b)
  \/ Begin(a)
  \/ Verify(a)
  \/ Snapshot(a)
  \/ InsertChapters(a)
  \/ \E S \in SUBSET Memory : UpsertOne(a, S)
  \/ \E m \in Memory : RestoreOne(a, m)
  \/ DiscardNew(a)
  \/ FetchStale(a)
  \/ DeleteStale(a)
  \/ ReadFails(a)
  \/ Crash(a)

OwnerStep ==
  \/ \E k \in Chapter : EditChapter(k)
  \/ \E m \in Memory, k \in Chapter : CheckMove(m, k)
  \/ MoveMemory
  \/ \E m \in Memory : ChangeStatus(m)
  \/ Publish

Next == OwnerStep \/ \E a \in Applier : ApplierStep(a)

Spec == Init /\ [][Next]_vars

-----------------------------------------------------------------------------
(* Properties *)

\* Every variable has its type; what an apply is about to delete is never one
\* of its own new chapters.
TypeOK ==
  /\ chapters \subseteq Chapter
  /\ edited \subseteq chapters
  /\ chapterOf \in [Memory -> Chapter \cup {None}]
  /\ position \in [Memory -> Nat \cup {None}]
  /\ submitted \subseteq Memory
  /\ published \in BOOLEAN
  /\ pc \in [Applier -> {"idle", "planned"} \cup Active \cup Ended]
  /\ \A a \in Applier :
       /\ Planned(a) \subseteq Memory
       /\ plan[a] \in [Planned(a) -> Place]
       /\ todo[a] \subseteq Planned(a)
       /\ DOMAIN before[a] \subseteq Memory
       /\ \A m \in DOMAIN before[a] : before[a][m] \in Chapter \cup {None}
       /\ stale[a] \subseteq Chapter \ NewIds(a)
  /\ move \in {None} \cup (Memory \X Chapter)
  /\ acts \in 0..MaxActs
  /\ lone \in Applier \cup {None}
  /\ moved \subseteq Memory
  /\ lost \subseteq Memory
  /\ kept \subseteq Chapter

\* An apply that reports success, with no other apply at work meanwhile, has put
\* every memory of its plan where the plan says, except what the owner moved, and
\* the AI-authored chapters are exactly the plan's, except what the owner edited
\* since: no chunk is skipped, no old chapter survives, no new one is deleted, also
\* when earlier applies, of the same plan or overlapping ones, ended half way.
\* Two applies at work at once are excepted here and in the next two properties:
\* _supersede_pending (proposal_repository.py:129-131) retires the proposal that is
\* being applied, so the next one can be confirmed under it, and each apply then
\* takes the other's new chapters for stale ones.
ApplyIsComplete ==
  lone # None /\ pc[lone] = "applied" =>
    /\ PlanIds(lone) \subseteq chapters
    /\ chapters \ edited \subseteq PlanIds(lone)
    /\ \A m \in Planned(lone) \ moved :
         /\ chapterOf[m] = Target(lone, m)
         /\ position[m] = plan[lone][m].index

\* An apply whose rollback ran to its end, with no other apply at work meanwhile,
\* has left every memory of its plan in the chapter it was in, except what the
\* owner moved, and none of its new chapters.
RollbackRestores ==
  lone # None /\ pc[lone] = "rolledback" =>
    /\ PlanIds(lone) \cap chapters = {}
    /\ \A m \in Planned(lone) \ moved : chapterOf[m] = before[lone][m]

\* At no step of an apply with no other at work meanwhile, of its rollback, or
\* after a crash between any two of them, until the next apply begins, is a memory
\* of its plan in a chapter that does not exist, unless it was so when the apply
\* began or the owner moved it.
PlannedNeverLost ==
  lone # None =>
    \A m \in Planned(lone) \ (moved \cup lost) : ~ Lost(m)

\* A chapter the owner had edited before the applies now or last at work began,
\* one or several at once, survives them, however they end.
EditedBeforeSurvives == kept \subseteq chapters

=============================================================================

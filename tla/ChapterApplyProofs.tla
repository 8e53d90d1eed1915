------------------------- MODULE ChapterApplyProofs -------------------------
(***************************************************************************)
(* For any memoir, any plans, any number of applies, and an owner who      *)
(* never stops acting: no chapter that the owner had edited goes, whatever *)
(* call fails, wherever an apply crashes, and however many are at work at  *)
(* once.  Of an apply with no other at work meanwhile, which the code does *)
(* not ensure: if it reports success it has done all of its plan, if it    *)
(* was rolled back it has done none of it, and on the way no memory of the *)
(* plan is lost.                                                           *)
(***************************************************************************)
EXTENDS ChapterApply, Sequences, FiniteSetTheorems, TLAPS

\* The local variables of each applier.
LocalsFit ==
  /\ plan = [a \in Applier |-> plan[a]]
  /\ todo = [a \in Applier |-> todo[a]]
  /\ before = [a \in Applier |-> before[a]]
  /\ stale = [a \in Applier |-> stale[a]]
  /\ \A a \in Applier :
       /\ pc[a] = "idle" => todo[a] = {}
       /\ pc[a] \in {"insert", "assign", "restore"} => DOMAIN before[a] = Planned(a)

\* The lone apply has begun, and no other is at work.
OnlyLone ==
  lone # None => pc[lone] \notin {"idle", "planned"} /\ AtWork \subseteq {lone}

\* What was edited before the applies at work began is none of their own, and none
\* of what they are about to delete.
KeptSafe ==
  /\ kept \subseteq edited
  /\ \A a \in AtWork :
       /\ kept \cap NewIds(a) = {}
       /\ pc[a] = "deleteStale" => kept \cap stale[a] = {}

\* The ids of an apply are chapters only of its plan, and only once inserted.
NotInserted == {"idle", "planned", "verify", "snapshot", "insert"}
NewAreNew ==
  \A a \in Applier :
    /\ chapters \cap NewIds(a) \subseteq PlanIds(a)
    /\ pc[a] \in NotInserted => chapters \cap NewIds(a) = {}

\* The chapters that a rollback goes back to exist, and are not the plan's own.
SnapshotHolds(a) ==
  pc[a] \in {"insert", "assign", "restore", "discard"} =>
    /\ DOMAIN before[a] = Planned(a)
    /\ \A m \in Planned(a) \ (moved \cup lost) :
         before[a][m] = None \/ before[a][m] \in chapters \ NewIds(a)

\* How far the assignments have come.
Placed(a, m) == chapterOf[m] = Target(a, m) /\ position[m] = plan[a][m].index
AssignedSoFar(a) ==
  /\ pc[a] \in {"assign", "fetchStale", "deleteStale"} => PlanIds(a) \subseteq chapters
  /\ pc[a] = "insert" => todo[a] = Planned(a)
  /\ pc[a] = "assign" => \A m \in Planned(a) \ (todo[a] \cup moved) : Placed(a, m)
  /\ pc[a] \in {"fetchStale", "deleteStale"} => \A m \in Planned(a) \ moved : Placed(a, m)

\* What is about to be deleted is all that is left to delete.
StaleIsRight(a) ==
  pc[a] = "deleteStale" => chapters \ edited \subseteq stale[a] \cup NewIds(a)

\* How far the rollback has come.
RestoredSoFar(a) ==
  /\ pc[a] = "restore" =>
       \A m \in Planned(a) \ (todo[a] \cup moved) : chapterOf[m] = before[a][m]
  /\ pc[a] = "discard" => \A m \in Planned(a) \ moved : chapterOf[m] = before[a][m]

\* What the lone apply has done so far.
LoneFits(a) ==
  a = lone => SnapshotHolds(a) /\ AssignedSoFar(a) /\ StaleIsRight(a) /\ RestoredSoFar(a)

Promises == ApplyIsComplete /\ RollbackRestores /\ PlannedNeverLost

IInv ==
  /\ TypeOK /\ LocalsFit /\ OnlyLone /\ NewAreNew /\ KeptSafe
  /\ \A a \in Applier : LoneFits(a)
  /\ Promises

-----------------------------------------------------------------------------

LEMMA IdsDiffer ==
  /\ \A a \in Applier : NewIds(a) \subseteq Chapter /\ NewIds(a) \cap Former = {}
  /\ \A a, b \in Applier : a # b => NewIds(a) \cap NewIds(b) = {}
  /\ None \notin Chapter \cup Applier \cup Nat
BY IdsAssumption DEF NewIds, Chapter, Slot

LEMMA PlanIdsAreNew ==
  ASSUME TypeOK, NEW a \in Applier
  PROVE  /\ PlanIds(a) \subseteq NewIds(a)
         /\ \A m \in Planned(a) : Target(a, m) \in PlanIds(a) /\ plan[a][m].index \in Nat
BY DEF TypeOK, PlanIds, NewIds, Target, Place

LEMMA InitIInv == Init => IInv
<1> SUFFICES ASSUME Init PROVE IInv
  OBVIOUS
<1> USE DEF Init
<1>1. \A a \in Applier : pc[a] = "idle" /\ Planned(a) = {} /\ PlanIds(a) = {}
  BY DEF Planned, PlanIds
<1>2. TypeOK
  <2>1. \A a \in Applier : DOMAIN before[a] = {}
    OBVIOUS
  <2>2. \A a \in Applier : plan[a] \in [Planned(a) -> Place]
    <3>1. << >> \in Seq(Place) /\ Len(<< >>) = 0
      OBVIOUS
    <3>2. << >> \in [1 .. 0 -> Place]
      BY <3>1
    <3> QED
      BY <1>1, <3>2 DEF Planned
  <2>3. /\ chapters \subseteq Chapter /\ edited \subseteq chapters
        /\ chapterOf \in [Memory -> Chapter \cup {None}]
        /\ position \in [Memory -> Nat \cup {None}]
    BY DEF Chapter
  <2>4. /\ pc \in [Applier -> {"idle", "planned"} \cup Active \cup Ended]
        /\ acts \in 0 .. MaxActs /\ move = None /\ lone = None
    BY ActsAssumption
  <2> QED
    BY <1>1, <2>1, <2>2, <2>3, <2>4 DEF TypeOK
<1>3. LocalsFit /\ OnlyLone /\ Promises
  BY DEF LocalsFit, OnlyLone, Promises, ApplyIsComplete, RollbackRestores, PlannedNeverLost
<1>3a. KeptSafe
  BY <1>1 DEF KeptSafe, AtWork, Active
<1>4. NewAreNew
  BY <1>1, IdsDiffer DEF NewAreNew
<1>5. \A a \in Applier : LoneFits(a)
  BY <1>1 DEF LoneFits, Active, SnapshotHolds, AssignedSoFar, StaleIsRight, RestoredSoFar
<1> QED
  BY <1>2, <1>3, <1>3a, <1>4, <1>5 DEF IInv

-----------------------------------------------------------------------------
(* What a step does not touch *)

\* The appliers other than the one that takes the step.
LEMMA OthersWait ==
  ASSUME IInv, NEW a \in Applier, pc[a] \in Active, UNCHANGED lone,
         pc'[a] \notin {"idle", "planned"}, \A b \in Applier \ {a} : pc'[b] = pc[b]
  PROVE  lone \in {None, a} /\ OnlyLone' /\ \A b \in Applier \ {a} : LoneFits(b)'
<1>1. lone \in {None, a}
  BY DEF IInv, OnlyLone, AtWork
<1>2. OnlyLone'
  BY <1>1 DEF IInv, OnlyLone, AtWork
<1>3. \A b \in Applier \ {a} : b # lone
  BY <1>1, IdsDiffer
<1> QED
  BY <1>1, <1>2, <1>3 DEF LoneFits

LEMMA KeptFrame ==
  ASSUME IInv, NEW a \in Applier, pc[a] \in Active, pc'[a] # "deleteStale",
         UNCHANGED <<kept, stale>>, kept \subseteq edited',
         \A b \in Applier \ {a} : pc'[b] = pc[b]
  PROVE  KeptSafe'
BY DEF IInv, KeptSafe, AtWork, NewIds

\* The owner's steps that are no writes of the book.
LEMMA BookFrame ==
  ASSUME IInv, UNCHANGED <<book, pc, locals, history>>
  PROVE  TypeOK' => IInv'
<1> USE DEF IInv
<1>1. UNCHANGED <<chapters, edited, chapterOf, position, pc, plan, todo, before, stale,
                  lone, moved, lost, kept>>
  BY DEF book, locals, history
<1>2. LocalsFit' /\ OnlyLone' /\ NewAreNew' /\ KeptSafe'
  BY <1>1 DEF LocalsFit, OnlyLone, NewAreNew, KeptSafe, AtWork, NewIds, PlanIds, Planned, Target
<1>3. \A a \in Applier : LoneFits(a)'
  BY <1>1 DEF LoneFits, SnapshotHolds, AssignedSoFar, StaleIsRight, RestoredSoFar, PlanIds,
              Planned, Target, Placed
<1>4. Promises'
  BY <1>1 DEF Promises, ApplyIsComplete, RollbackRestores, PlannedNeverLost, PlanIds,
              Planned, Target, Lost
<1> QED
  BY <1>2, <1>3, <1>4

-----------------------------------------------------------------------------
(* The plan *)

LEMMA PlanStep ==
  ASSUME IInv, NEW a \in Applier, NEW f, f \in [DOMAIN f -> Place], DOMAIN f \subseteq Memory,
         pc[a] = "idle", pc' = [pc EXCEPT ![a] = "planned"], plan' = [plan EXCEPT ![a] = f],
         UNCHANGED <<book, submitted, published, todo, before, stale, owner, history>>
  PROVE  IInv'
<1> USE DEF IInv
<1>1. UNCHANGED <<chapters, edited, chapterOf, position, submitted, published, todo, before,
                  stale, move, acts, lone, moved, lost, kept>>
  BY DEF book, owner, history
<1>2. /\ pc'[a] = "planned" /\ plan'[a] = f
      /\ \A b \in Applier \ {a} : pc'[b] = pc[b] /\ plan'[b] = plan[b]
      /\ lone # a
  BY IdsDiffer DEF TypeOK, LocalsFit, OnlyLone
<1>3. \A b \in Applier \ {a} :
        Planned(b)' = Planned(b) /\ PlanIds(b)' = PlanIds(b) /\
        \A m \in Planned(b) : Target(b, m)' = Target(b, m)
  BY <1>2 DEF Planned, PlanIds, Target
<1>4. TypeOK'
  <2>1. pc' \in [Applier -> {"idle", "planned"} \cup Active \cup Ended]
    BY DEF TypeOK
  <2>2. Planned(a)' = DOMAIN f /\ todo[a] = {}
    BY <1>2 DEF Planned, LocalsFit
  <2> QED
    BY <1>1, <1>2, <1>3, <2>1, <2>2 DEF TypeOK
<1>5. LocalsFit' /\ OnlyLone' /\ KeptSafe'
  <2>1. AtWork' = AtWork
    BY <1>2 DEF AtWork, Active
  <2> QED
    BY <1>1, <1>2, <1>3, <2>1
    DEF LocalsFit, OnlyLone, KeptSafe, AtWork, Active, NewIds, TypeOK
<1>6. NewAreNew'
  BY <1>1, <1>2, <1>3 DEF NewAreNew, NotInserted
<1>7. \A b \in Applier : LoneFits(b)'
  <2>1. LoneFits(a)'
    BY <1>2 DEF LoneFits, Active, SnapshotHolds, AssignedSoFar, StaleIsRight, RestoredSoFar
  <2>2. ASSUME NEW b \in Applier \ {a} PROVE LoneFits(b)'
    BY <1>1, <1>2, <1>3
    DEF LoneFits, SnapshotHolds, AssignedSoFar, StaleIsRight, RestoredSoFar, Placed
  <2> QED
    BY <2>1, <2>2
<1>8. Promises'
  BY <1>1, <1>2, <1>3
  DEF Promises, ApplyIsComplete, RollbackRestores, PlannedNeverLost, Lost, TypeOK
<1> QED
  BY <1>4, <1>5, <1>6, <1>7, <1>8

LEMMA PrepareStep ==
  ASSUME IInv, NEW a \in Applier, Prepare(a)
  PROVE  IInv'
<1>1. PICK D \in SUBSET Organizable \ {{}} :
        \E f \in Plans(D) : plan' = [plan EXCEPT ![a] = f]
  BY DEF Prepare
<1>2. PICK f \in Plans(D) : plan' = [plan EXCEPT ![a] = f]
  BY <1>1
<1>3. D \subseteq Memory
  BY <1>1 DEF Organizable, IInv, TypeOK
<1>4. IsFiniteSet(D)
  BY <1>3, IdsAssumption, FS_Subset
<1>5. Cardinality(D) \in Nat
  BY <1>4, FS_CardinalityType
<1>6. f \in [D -> Place] /\ DOMAIN f = D
  BY <1>2, <1>5 DEF Plans, Place
<1> QED
  BY <1>2, <1>3, <1>6, PlanStep DEF Prepare

LEMMA ConfirmAgainStep ==
  ASSUME IInv, NEW a \in Applier, NEW b \in Applier, ConfirmAgain(a, b)
  PROVE  IInv'
<1>1. plan[b] \in [DOMAIN plan[b] -> Place] /\ DOMAIN plan[b] \subseteq Memory
  BY DEF IInv, TypeOK, Planned
<1> QED
  BY <1>1, PlanStep DEF ConfirmAgain

-----------------------------------------------------------------------------
(* An apply *)

LEMMA BeginStep ==
  ASSUME IInv, NEW a \in Applier, Begin(a)
  PROVE  IInv'
<1> USE DEF IInv
<1>1. /\ pc[a] = "planned" /\ pc' = [pc EXCEPT ![a] = "verify"]
      /\ lone' = (IF AtWork = {} THEN a ELSE None)
      /\ moved' = {} /\ lost' = (IF AtWork = {} THEN {m \in Memory : Lost(m)} ELSE {})
      /\ kept' = (IF AtWork = {} THEN edited ELSE kept)
      /\ UNCHANGED <<chapters, edited, chapterOf, position, submitted, published, plan, todo,
                     before, stale, move, acts>>
  BY DEF Begin, book, locals, owner
<1>2. pc'[a] = "verify" /\ \A b \in Applier \ {a} : pc'[b] = pc[b]
  BY <1>1 DEF TypeOK
<1>3. \A b \in Applier : Planned(b)' = Planned(b) /\ PlanIds(b)' = PlanIds(b)
  BY <1>1 DEF Planned, PlanIds, Target
<1>4. TypeOK'
  <2>1. pc' \in [Applier -> {"idle", "planned"} \cup Active \cup Ended]
    BY <1>1 DEF TypeOK, Active
  <2> QED
    BY <1>1, <1>3, <2>1 DEF TypeOK
<1>5. LocalsFit'
  BY <1>1, <1>2, <1>3 DEF LocalsFit
<1>6. NewAreNew'
  BY <1>1, <1>2, <1>3 DEF NewAreNew, NotInserted
<1>7. AtWork' = AtWork \cup {a} /\ lone' \in {None, a} /\ (lone' = a => AtWork = {})
  BY <1>1, <1>2, IdsDiffer DEF AtWork, Active
<1>8. OnlyLone' /\ KeptSafe'
  <2>1. kept' \subseteq edited' /\ kept' \cap NewIds(a) = {}
    BY <1>1 DEF KeptSafe, NewAreNew, NotInserted, TypeOK
  <2>2. ASSUME NEW b \in AtWork PROVE AtWork # {} /\ b # a /\ b \in Applier /\ kept' = kept
    BY <1>1 DEF AtWork, Active
  <2> QED
    BY <1>1, <1>2, <1>7, <2>1, <2>2 DEF OnlyLone, KeptSafe, NewIds
<1>9. \A b \in Applier : LoneFits(b)'
  BY <1>2, <1>7, IdsDiffer DEF LoneFits, SnapshotHolds, AssignedSoFar, StaleIsRight,
                               RestoredSoFar
<1>10. Promises'
  BY <1>1, <1>2, <1>3, <1>7 DEF Promises, ApplyIsComplete, RollbackRestores, PlannedNeverLost,
                                Lost, TypeOK
<1> QED
  BY <1>4, <1>5, <1>6, <1>8, <1>9, <1>10

\* A step that only moves on, to the snapshot, or ends without a promise.
LEMMA MoveOnStep ==
  ASSUME IInv, NEW a \in Applier, pc[a] \in Active,
         NEW to \in {"snapshot", "refused", "failed", "crashed"},
         to = "snapshot" => pc[a] = "verify",
         pc' = [pc EXCEPT ![a] = to],
         UNCHANGED <<book, submitted, published, locals, owner, history>>
  PROVE  IInv'
<1> USE DEF IInv
<1>1. UNCHANGED <<chapters, edited, chapterOf, position, submitted, published, plan, todo,
                  before, stale, move, acts, lone, moved, lost, kept>>
  BY DEF book, locals, owner, history
<1>2. pc'[a] = to /\ \A b \in Applier \ {a} : pc'[b] = pc[b]
  BY DEF TypeOK
<1>3. \A b \in Applier : Planned(b)' = Planned(b) /\ PlanIds(b)' = PlanIds(b)
  BY <1>1 DEF Planned, PlanIds, Target
<1>4. lone \in {None, a} /\ OnlyLone' /\ \A b \in Applier \ {a} : LoneFits(b)'
  BY <1>1, <1>2, OthersWait
<1>4a. KeptSafe'
  BY <1>1, <1>2, KeptFrame DEF KeptSafe, Active
<1>5. TypeOK'
  <2>1. pc' \in [Applier -> {"idle", "planned"} \cup Active \cup Ended]
    BY DEF TypeOK, Active, Ended
  <2> QED
    BY <1>1, <1>3, <2>1 DEF TypeOK
<1>6. LocalsFit'
  BY <1>1, <1>2, <1>3 DEF LocalsFit
<1>7. NewAreNew'
  BY <1>1, <1>2, <1>3 DEF NewAreNew, NotInserted
<1>8. LoneFits(a)'
  BY <1>1, <1>2, <1>4 DEF LoneFits, SnapshotHolds, AssignedSoFar, StaleIsRight, RestoredSoFar
<1>9. Promises'
  <2> SUFFICES ASSUME a = lone, lone # None PROVE Promises'
    BY <1>1, <1>4 DEF Promises, ApplyIsComplete, RollbackRestores, PlannedNeverLost
  <2> QED
    BY <1>1, <1>2, <1>3, <1>4
    DEF Promises, ApplyIsComplete, RollbackRestores, PlannedNeverLost, Lost
<1> QED
  BY <1>4, <1>4a, <1>5, <1>6, <1>7, <1>8, <1>9

LEMMA SnapshotStep ==
  ASSUME IInv, NEW a \in Applier, Snapshot(a)
  PROVE  IInv'
<1> USE DEF IInv
<1>1. /\ pc[a] = "snapshot" /\ pc' = [pc EXCEPT ![a] = "insert"]
      /\ before' = [before EXCEPT ![a] = [m \in Planned(a) |-> chapterOf[m]]]
      /\ todo' = [todo EXCEPT ![a] = Planned(a)]
      /\ UNCHANGED <<chapters, edited, chapterOf, position, submitted, published, plan,
                     stale, move, acts, lone, moved, lost, kept>>
  BY DEF Snapshot, book, owner, history
<1>2. /\ pc'[a] = "insert" /\ before'[a] = [m \in Planned(a) |-> chapterOf[m]]
      /\ todo'[a] = Planned(a)
      /\ \A b \in Applier \ {a} : pc'[b] = pc[b] /\ before'[b] = before[b] /\ todo'[b] = todo[b]
  BY <1>1 DEF TypeOK, LocalsFit
<1>3. \A b \in Applier : Planned(b)' = Planned(b) /\ PlanIds(b)' = PlanIds(b)
  BY <1>1 DEF Planned, PlanIds, Target
<1>4. lone \in {None, a} /\ OnlyLone' /\ \A b \in Applier \ {a} : LoneFits(b)'
  BY <1>1, <1>2, OthersWait DEF Active
<1>4a. KeptSafe'
  BY <1>1, <1>2, KeptFrame DEF KeptSafe, Active
<1>5. TypeOK'
  <2>1. pc' \in [Applier -> {"idle", "planned"} \cup Active \cup Ended]
    BY <1>1 DEF TypeOK, Active
  <2>2. \A m \in Planned(a) : m \in Memory /\ chapterOf[m] \in Chapter \cup {None}
    BY DEF TypeOK
  <2> QED
    BY <1>1, <1>2, <1>3, <2>1, <2>2 DEF TypeOK
<1>6. LocalsFit'
  BY <1>1, <1>2, <1>3 DEF LocalsFit
<1>7. NewAreNew'
  BY <1>1, <1>2, <1>3 DEF NewAreNew, NotInserted
<1>8. LoneFits(a)'
  <2> SUFFICES ASSUME a = lone
      PROVE  (SnapshotHolds(a) /\ AssignedSoFar(a) /\ StaleIsRight(a) /\ RestoredSoFar(a))'
    BY <1>1 DEF LoneFits
  <2>1. SnapshotHolds(a)'
    <3>1. ASSUME NEW m \in Planned(a) \ (moved \cup lost)
          PROVE  chapterOf[m] = None \/ chapterOf[m] \in chapters \ NewIds(a)
      <4>1. chapterOf[m] = None \/ chapterOf[m] \in chapters
        BY <1>4, IdsDiffer DEF Promises, PlannedNeverLost, Lost
      <4>2. chapters \cap NewIds(a) = {}
        BY <1>1 DEF NewAreNew, NotInserted
      <4> QED
        BY <4>1, <4>2
    <3> QED
      BY <1>1, <1>2, <1>3, <3>1 DEF SnapshotHolds, NewIds
  <2>2. AssignedSoFar(a)' /\ StaleIsRight(a)' /\ RestoredSoFar(a)'
    BY <1>2, <1>3 DEF AssignedSoFar, StaleIsRight, RestoredSoFar
  <2> QED
    BY <1>1, <1>4, <2>1, <2>2 DEF LoneFits
<1>9. Promises'
  <2> SUFFICES ASSUME a = lone, lone # None PROVE Promises'
    BY <1>1, <1>4 DEF Promises, ApplyIsComplete, RollbackRestores, PlannedNeverLost
  <2> QED
    BY <1>1, <1>2, <1>3, <1>4
    DEF Promises, ApplyIsComplete, RollbackRestores, PlannedNeverLost, Lost
<1> QED
  BY <1>4, <1>4a, <1>5, <1>6, <1>7, <1>8, <1>9

LEMMA InsertChaptersStep ==
  ASSUME IInv, NEW a \in Applier, InsertChapters(a)
  PROVE  IInv'
<1> USE DEF IInv
<1>1. /\ pc[a] = "insert"
      /\ \/ chapters' = chapters /\ pc' = [pc EXCEPT ![a] = "failed"]
         \/ /\ chapters' = chapters \cup PlanIds(a)
            /\ pc' = [pc EXCEPT ![a] = "assign"] \/ pc' = [pc EXCEPT ![a] = "failed"]
      /\ UNCHANGED <<edited, chapterOf, position, submitted, published, plan, todo,
                     before, stale, move, acts, lone, moved, lost, kept>>
  BY DEF InsertChapters, WriteReply, Reply, Wrote, Answered, locals, owner, history
<1>2. /\ pc'[a] \in {"assign", "failed"} /\ (pc'[a] = "assign" => PlanIds(a) \subseteq chapters')
      /\ \A b \in Applier \ {a} : pc'[b] = pc[b]
      /\ chapters \subseteq chapters' /\ chapters' \subseteq chapters \cup PlanIds(a)
  BY <1>1 DEF TypeOK
<1>3. \A b \in Applier : Planned(b)' = Planned(b) /\ PlanIds(b)' = PlanIds(b)
  BY <1>1 DEF Planned, PlanIds, Target
<1>4. lone \in {None, a} /\ OnlyLone' /\ \A b \in Applier \ {a} : LoneFits(b)'
  BY <1>1, <1>2, OthersWait DEF Active
<1>4a. KeptSafe'
  BY <1>1, <1>2, KeptFrame DEF KeptSafe, Active
<1>5. TypeOK'
  <2>1. pc' \in [Applier -> {"idle", "planned"} \cup Active \cup Ended]
    BY <1>1 DEF TypeOK, Active, Ended
  <2>2. chapters' \subseteq Chapter
    BY <1>2, IdsDiffer, PlanIdsAreNew DEF TypeOK
  <2> QED
    BY <1>1, <1>2, <1>3, <2>1, <2>2 DEF TypeOK
<1>6. LocalsFit'
  BY <1>1, <1>2, <1>3 DEF LocalsFit
<1>7. NewAreNew'
  <2>1. ASSUME NEW b \in Applier \ {a} PROVE chapters' \cap NewIds(b) = chapters \cap NewIds(b)
    BY <1>2, IdsDiffer, PlanIdsAreNew
  <2>2. chapters' \cap NewIds(a) \subseteq PlanIds(a)
    BY <1>2 DEF NewAreNew
  <2> QED
    BY <1>2, <1>3, <2>1, <2>2 DEF NewAreNew, NotInserted
<1>8. LoneFits(a)'
  <2> SUFFICES ASSUME a = lone
      PROVE  (SnapshotHolds(a) /\ AssignedSoFar(a) /\ StaleIsRight(a) /\ RestoredSoFar(a))'
    BY <1>1 DEF LoneFits
  <2>1. SnapshotHolds(a)'
    BY <1>1, <1>2, <1>3 DEF LoneFits, SnapshotHolds
  <2>2. AssignedSoFar(a)'
    <3>1. todo[a] = Planned(a)
      BY <1>1 DEF LoneFits, AssignedSoFar
    <3> QED
      BY <1>1, <1>2, <1>3, <3>1 DEF AssignedSoFar
  <2> QED
    BY <1>1, <1>2, <1>4, <2>1, <2>2 DEF LoneFits, StaleIsRight, RestoredSoFar
<1>9. Promises'
  <2> SUFFICES ASSUME a = lone, lone # None PROVE Promises'
    BY <1>1, <1>4 DEF Promises, ApplyIsComplete, RollbackRestores, PlannedNeverLost
  <2> QED
    BY <1>1, <1>2, <1>3, <1>4
    DEF Promises, ApplyIsComplete, RollbackRestores, PlannedNeverLost, Lost
<1> QED
  BY <1>4, <1>4a, <1>5, <1>6, <1>7, <1>8, <1>9

\* A chunk goes where the plan says; only when all have gone there it moves on.
LEMMA UpsertOneStep ==
  ASSUME IInv, NEW a \in Applier, NEW S \in SUBSET Memory, UpsertOne(a, S)
  PROVE  IInv'
<1> USE DEF IInv
<1>1. /\ pc[a] = "assign" /\ S \subseteq todo[a]
      /\ \/ UNCHANGED <<chapterOf, position>>
         \/ /\ chapterOf' = [m \in Memory |-> IF m \in S THEN Target(a, m) ELSE chapterOf[m]]
            /\ position' = [m \in Memory |-> IF m \in S THEN plan[a][m].index ELSE position[m]]
      /\ \/ /\ todo' = [todo EXCEPT ![a] = Planned(a)]
            /\ pc' = [pc EXCEPT ![a] = "restore"]
         \/ /\ todo' = [todo EXCEPT ![a] = @ \ S]
            /\ pc' = [pc EXCEPT ![a] = IF todo[a] \subseteq S THEN "fetchStale" ELSE "assign"]
            /\ chapterOf' = [m \in Memory |-> IF m \in S THEN Target(a, m) ELSE chapterOf[m]]
            /\ position' = [m \in Memory |-> IF m \in S THEN plan[a][m].index ELSE position[m]]
      /\ UNCHANGED <<chapters, edited, submitted, published, plan, before, stale, move, acts,
                     lone, moved, lost, kept>>
  BY DEF UpsertOne, IsChunk, IsLastChunk, AfterFailedUpsert, WriteReply, Reply, Wrote, Answered,
         owner, history
<1>2. /\ \A m \in Memory : \/ chapterOf'[m] = chapterOf[m] /\ position'[m] = position[m]
                           \/ /\ m \in S /\ chapterOf'[m] = Target(a, m)
                              /\ position'[m] = plan[a][m].index
      /\ pc'[a] \in {"restore", "fetchStale", "assign"}
      /\ pc'[a] = "restore" => todo'[a] = Planned(a)
      /\ pc'[a] # "restore" =>
           /\ todo'[a] = todo[a] \ S
           /\ \A m \in S : chapterOf'[m] = Target(a, m) /\ position'[m] = plan[a][m].index
      /\ pc'[a] = "fetchStale" => todo[a] \subseteq S
      /\ \A b \in Applier \ {a} : pc'[b] = pc[b] /\ todo'[b] = todo[b]
      /\ LocalsFit'
  <2>1. \A m \in Memory : \/ chapterOf'[m] = chapterOf[m] /\ position'[m] = position[m]
                          \/ /\ m \in S /\ chapterOf'[m] = Target(a, m)
                             /\ position'[m] = plan[a][m].index
    BY <1>1
  <2>2. CASE /\ todo' = [todo EXCEPT ![a] = Planned(a)]
             /\ pc' = [pc EXCEPT ![a] = "restore"]
    BY <1>1, <2>1, <2>2 DEF LocalsFit, TypeOK, Planned
  <2>3. CASE /\ todo' = [todo EXCEPT ![a] = @ \ S]
             /\ pc' = [pc EXCEPT ![a] = IF todo[a] \subseteq S THEN "fetchStale" ELSE "assign"]
             /\ chapterOf' = [m \in Memory |-> IF m \in S THEN Target(a, m) ELSE chapterOf[m]]
             /\ position' = [m \in Memory |-> IF m \in S THEN plan[a][m].index ELSE position[m]]
    BY <1>1, <2>1, <2>3 DEF LocalsFit, TypeOK, Planned
  <2> QED
    BY <1>1, <2>2, <2>3
<1>3. /\ \A b \in Applier : Planned(b)' = Planned(b) /\ PlanIds(b)' = PlanIds(b)
      /\ \A m : Target(a, m)' = Target(a, m)
  BY <1>1 DEF Planned, PlanIds, Target
<1>4. lone \in {None, a} /\ OnlyLone' /\ \A b \in Applier \ {a} : LoneFits(b)'
  BY <1>1, <1>2, OthersWait DEF Active
<1>4a. KeptSafe'
  BY <1>1, <1>2, KeptFrame DEF KeptSafe, Active
<1>5. /\ S \subseteq Planned(a)
      /\ \A m \in S : Target(a, m) \in PlanIds(a) /\ Target(a, m) \in Chapter
                       /\ plan[a][m].index \in Nat
      /\ a = lone => PlanIds(a) \subseteq chapters
  <2>1. S \subseteq Planned(a)
    BY <1>1 DEF TypeOK
  <2> QED
    BY <1>1, <2>1, PlanIdsAreNew, IdsDiffer DEF LoneFits, AssignedSoFar
<1>6. TypeOK'
  <2>1. pc' \in [Applier -> {"idle", "planned"} \cup Active \cup Ended]
    BY <1>1 DEF TypeOK, Active
  <2>2. chapterOf' \in [Memory -> Chapter \cup {None}]
    BY <1>1, <1>5 DEF TypeOK
  <2>3. position' \in [Memory -> Nat \cup {None}]
    BY <1>1, <1>5 DEF TypeOK
  <2>4. \A b \in Applier : todo'[b] \subseteq Planned(b)
    BY <1>2 DEF TypeOK
  <2> QED
    BY <1>1, <1>3, <2>1, <2>2, <2>3, <2>4 DEF TypeOK
<1>8. NewAreNew'
  BY <1>1, <1>2, <1>3 DEF NewAreNew, NotInserted
<1>9. LoneFits(a)'
  <2> SUFFICES ASSUME a = lone
      PROVE  (SnapshotHolds(a) /\ AssignedSoFar(a) /\ StaleIsRight(a) /\ RestoredSoFar(a))'
    BY <1>1 DEF LoneFits
  <2>1. SnapshotHolds(a)'
    BY <1>1, <1>2, <1>3 DEF LoneFits, SnapshotHolds
  <2>2. \A m \in Planned(a) : m \in Memory
    BY DEF TypeOK
  <2>3. AssignedSoFar(a)'
    BY <1>1, <1>2, <1>3, <2>2 DEF LoneFits, AssignedSoFar, Placed
  <2>4. StaleIsRight(a)' /\ RestoredSoFar(a)'
    BY <1>2, <1>3 DEF StaleIsRight, RestoredSoFar
  <2> QED
    BY <1>1, <1>4, <2>1, <2>3, <2>4 DEF LoneFits
<1>10. Promises'
  <2> SUFFICES ASSUME a = lone, lone # None PROVE Promises'
    BY <1>1, <1>4 DEF Promises, ApplyIsComplete, RollbackRestores, PlannedNeverLost
  <2>1. \A m \in Memory : Lost(m)' => Lost(m)
    BY <1>1, <1>2, <1>5 DEF Lost
  <2> QED
    BY <1>1, <1>2, <1>3, <1>4, <2>1
    DEF Promises, ApplyIsComplete, RollbackRestores, PlannedNeverLost, TypeOK
<1> QED
  BY <1>2, <1>4, <1>4a, <1>6, <1>8, <1>9, <1>10

\* One goes back to a chapter that exists.
LEMMA RestoreOneStep ==
  ASSUME IInv, NEW a \in Applier, NEW m \in Memory, RestoreOne(a, m)
  PROVE  IInv'
<1> USE DEF IInv
<1>1. /\ pc[a] = "restore" /\ m \in todo[a] /\ todo' = [todo EXCEPT ![a] = @ \ {m}]
      /\ \/ chapterOf' = chapterOf /\ pc' = [pc EXCEPT ![a] = "failed"]
         \/ /\ chapterOf' = [chapterOf EXCEPT ![m] = before[a][m]]
            /\ \E to \in {"failed", "discard", "restore"} :
                 pc' = [pc EXCEPT ![a] = to] /\ (to = "discard" => todo[a] = {m})
      /\ UNCHANGED <<chapters, edited, position, submitted, published, plan, before, stale,
                     move, acts, lone, moved, lost, kept>>
  BY DEF RestoreOne, WriteReply, Reply, Wrote, Answered, owner, history
<1>2. /\ \A n \in Memory : n # m => chapterOf'[n] = chapterOf[n]
      /\ chapterOf'[m] = chapterOf[m] \/ chapterOf'[m] = before[a][m]
      /\ pc'[a] \in {"failed", "discard", "restore"}
      /\ pc'[a] # "failed" => chapterOf'[m] = before[a][m]
      /\ pc'[a] = "discard" => todo[a] = {m}
      /\ todo'[a] = todo[a] \ {m}
      /\ \A b \in Applier \ {a} : pc'[b] = pc[b] /\ todo'[b] = todo[b]
  BY <1>1 DEF LocalsFit, TypeOK
<1>3. \A b \in Applier : Planned(b)' = Planned(b) /\ PlanIds(b)' = PlanIds(b)
  BY <1>1 DEF Planned, PlanIds, Target
<1>3a. LocalsFit'
  BY <1>1, <1>2, <1>3 DEF LocalsFit
<1>4. lone \in {None, a} /\ OnlyLone' /\ \A b \in Applier \ {a} : LoneFits(b)'
  BY <1>1, <1>2, OthersWait DEF Active
<1>4a. KeptSafe'
  BY <1>1, <1>2, KeptFrame DEF KeptSafe, Active
<1>5. /\ m \in Planned(a) /\ m \in DOMAIN before[a] /\ before[a][m] \in Chapter \cup {None}
      /\ a = lone /\ m \notin moved \cup lost =>
           before[a][m] = None \/ before[a][m] \in chapters \ NewIds(a)
  <2>1. m \in Planned(a) /\ m \in DOMAIN before[a]
    BY <1>1 DEF TypeOK, LocalsFit
  <2>2. before[a][m] \in Chapter \cup {None}
    BY <2>1 DEF TypeOK
  <2>3. a = lone => SnapshotHolds(a)
    BY DEF LoneFits
  <2> QED
    BY <1>1, <2>1, <2>2, <2>3 DEF SnapshotHolds
<1>6. TypeOK'
  <2>1. pc' \in [Applier -> {"idle", "planned"} \cup Active \cup Ended]
    BY <1>1 DEF TypeOK, Active, Ended
  <2>2. chapterOf' \in [Memory -> Chapter \cup {None}]
    BY <1>1, <1>5 DEF TypeOK
  <2>3. \A b \in Applier : todo'[b] \subseteq Planned(b)
    BY <1>2 DEF TypeOK
  <2> QED
    BY <1>1, <1>3, <2>1, <2>2, <2>3 DEF TypeOK
<1>8. NewAreNew'
  BY <1>1, <1>2, <1>3 DEF NewAreNew, NotInserted
<1>9. LoneFits(a)'
  <2> SUFFICES ASSUME a = lone
      PROVE  (SnapshotHolds(a) /\ AssignedSoFar(a) /\ StaleIsRight(a) /\ RestoredSoFar(a))'
    BY <1>1 DEF LoneFits
  <2>1. SnapshotHolds(a)'
    BY <1>1, <1>2, <1>3 DEF LoneFits, SnapshotHolds
  <2>2. \A n \in Planned(a) : n \in Memory
    BY DEF TypeOK
  <2>3. RestoredSoFar(a)'
    BY <1>1, <1>2, <1>3, <2>2 DEF LoneFits, RestoredSoFar
  <2>4. AssignedSoFar(a)' /\ StaleIsRight(a)'
    BY <1>2, <1>3 DEF AssignedSoFar, StaleIsRight
  <2> QED
    BY <1>1, <1>4, <2>1, <2>3, <2>4 DEF LoneFits
<1>10. Promises'
  <2> SUFFICES ASSUME a = lone, lone # None PROVE Promises'
    BY <1>1, <1>4 DEF Promises, ApplyIsComplete, RollbackRestores, PlannedNeverLost
  <2>1. \A n \in Memory \ (moved \cup lost) : Lost(n)' => Lost(n)
    BY <1>1, <1>2, <1>5 DEF Lost
  <2> QED
    BY <1>1, <1>2, <1>3, <1>4, <2>1
    DEF Promises, ApplyIsComplete, RollbackRestores, PlannedNeverLost, TypeOK
<1> QED
  BY <1>3a, <1>4, <1>4a, <1>6, <1>8, <1>9, <1>10

\* The new chapters go once nothing of the plan is in them.
LEMMA DiscardNewStep ==
  ASSUME IInv, NEW a \in Applier, DiscardNew(a)
  PROVE  IInv'
<1> USE DEF IInv
<1>1. /\ pc[a] = "discard"
      /\ \/ /\ chapters' = chapters /\ edited' = edited
            /\ \E to \in {"rolledback", "failed"} : pc' = [pc EXCEPT ![a] = to]
            /\ pc'[a] = "rolledback" => PlanIds(a) = {}
         \/ /\ chapters' = chapters \ PlanIds(a) /\ edited' = edited \ PlanIds(a)
            /\ \E to \in {"rolledback", "failed"} : pc' = [pc EXCEPT ![a] = to]
      /\ UNCHANGED <<chapterOf, position, submitted, published, plan, todo, before, stale,
                     move, acts, lone, moved, lost, kept>>
  BY DEF DiscardNew, Discarded, DeleteReply, WriteReply, Reply, Wrote, Answered, locals, owner,
         history, TypeOK
<1>2. /\ pc'[a] \in {"rolledback", "failed"}
      /\ pc'[a] = "rolledback" => PlanIds(a) \cap chapters' = {}
      /\ \A b \in Applier \ {a} : pc'[b] = pc[b]
      /\ chapters' \subseteq chapters /\ edited' \subseteq edited
      /\ chapters \ PlanIds(a) \subseteq chapters' /\ edited \ PlanIds(a) \subseteq edited'
      /\ edited' \subseteq chapters'
  BY <1>1 DEF TypeOK
<1>3. \A b \in Applier : Planned(b)' = Planned(b) /\ PlanIds(b)' = PlanIds(b)
  BY <1>1 DEF Planned, PlanIds, Target
<1>4. lone \in {None, a} /\ OnlyLone' /\ \A b \in Applier \ {a} : LoneFits(b)'
  BY <1>1, <1>2, OthersWait DEF Active
<1>5. PlanIds(a) \subseteq NewIds(a) /\ kept \cap PlanIds(a) = {}
  BY <1>1, PlanIdsAreNew DEF KeptSafe, AtWork, Active
<1>4a. KeptSafe'
  <2>1. kept \subseteq edited'
    BY <1>2, <1>5 DEF KeptSafe
  <2> QED
    BY <1>1, <1>2, <2>1, KeptFrame DEF Active
<1>6. TypeOK'
  <2>1. pc' \in [Applier -> {"idle", "planned"} \cup Active \cup Ended]
    BY <1>1 DEF TypeOK, Ended
  <2> QED
    BY <1>1, <1>2, <1>3, <2>1 DEF TypeOK
<1>7. LocalsFit'
  BY <1>1, <1>2, <1>3 DEF LocalsFit
<1>8. NewAreNew'
  BY <1>1, <1>2, <1>3 DEF NewAreNew, NotInserted
<1>9. LoneFits(a)'
  BY <1>1, <1>2, <1>4 DEF LoneFits, SnapshotHolds, AssignedSoFar, StaleIsRight, RestoredSoFar
<1>10. Promises'
  <2> SUFFICES ASSUME a = lone, lone # None PROVE Promises'
    BY <1>1, <1>4 DEF Promises, ApplyIsComplete, RollbackRestores, PlannedNeverLost
  <2>1. \A m \in Planned(a) \ moved : chapterOf[m] = before[a][m]
    BY <1>1 DEF LoneFits, RestoredSoFar
  <2>2. \A m \in Planned(a) \ (moved \cup lost) :
          chapterOf[m] = None \/ chapterOf[m] \in chapters \ PlanIds(a)
    BY <1>1, <1>5, <2>1 DEF LoneFits, SnapshotHolds
  <2>3. PlannedNeverLost'
    BY <1>1, <1>2, <1>3, <1>4, <2>2 DEF PlannedNeverLost, Lost
  <2>4. RollbackRestores' /\ ApplyIsComplete'
    BY <1>1, <1>2, <1>3, <1>4, <2>1 DEF RollbackRestores, ApplyIsComplete
  <2> QED
    BY <2>3, <2>4 DEF Promises
<1> QED
  BY <1>4, <1>4a, <1>6, <1>7, <1>8, <1>9, <1>10

LEMMA FetchStaleStep ==
  ASSUME IInv, NEW a \in Applier, FetchStale(a)
  PROVE  IInv'
<1> USE DEF IInv
<1>1. /\ pc[a] = "fetchStale" /\ pc' = [pc EXCEPT ![a] = "deleteStale"]
      /\ stale' = [stale EXCEPT ![a] = (chapters \ edited) \ NewIds(a)]
      /\ UNCHANGED <<chapters, edited, chapterOf, position, submitted, published, plan, todo,
                     before, move, acts, lone, moved, lost, kept>>
  BY DEF FetchStale, StaleFor, book, owner, history
<1>2. /\ pc'[a] = "deleteStale" /\ stale'[a] = (chapters \ edited) \ NewIds(a)
      /\ \A b \in Applier \ {a} : pc'[b] = pc[b] /\ stale'[b] = stale[b]
  BY <1>1 DEF TypeOK, LocalsFit
<1>3. \A b \in Applier : Planned(b)' = Planned(b) /\ PlanIds(b)' = PlanIds(b)
  BY <1>1 DEF Planned, PlanIds, Target
<1>4. lone \in {None, a} /\ OnlyLone' /\ \A b \in Applier \ {a} : LoneFits(b)'
  BY <1>1, <1>2, OthersWait DEF Active
<1>4a. KeptSafe'
  <2>1. kept \cap stale'[a] = {}
    BY <1>2 DEF KeptSafe
  <2> QED
    BY <1>1, <1>2, <2>1 DEF KeptSafe, AtWork, Active, NewIds
<1>5. TypeOK'
  <2>1. pc' \in [Applier -> {"idle", "planned"} \cup Active \cup Ended]
    BY <1>1 DEF TypeOK, Active
  <2>2. \A b \in Applier : stale'[b] \subseteq Chapter \ NewIds(b)
    BY <1>2 DEF TypeOK
  <2> QED
    BY <1>1, <1>3, <2>1, <2>2 DEF TypeOK
<1>6. LocalsFit'
  BY <1>1, <1>2, <1>3 DEF LocalsFit
<1>7. NewAreNew'
  BY <1>1, <1>2, <1>3 DEF NewAreNew, NotInserted
<1>8. LoneFits(a)'
  <2> SUFFICES ASSUME a = lone
      PROVE  (SnapshotHolds(a) /\ AssignedSoFar(a) /\ StaleIsRight(a) /\ RestoredSoFar(a))'
    BY <1>1 DEF LoneFits
  <2>1. AssignedSoFar(a)'
    BY <1>1, <1>2, <1>3 DEF LoneFits, AssignedSoFar, Placed, Target
  <2>2. StaleIsRight(a)'
    BY <1>1, <1>2 DEF StaleIsRight, Promises, NewIds
  <2>3. SnapshotHolds(a)' /\ RestoredSoFar(a)'
    BY <1>2, <1>3 DEF SnapshotHolds, RestoredSoFar
  <2> QED
    BY <1>1, <1>4, <2>1, <2>2, <2>3 DEF LoneFits
<1>9. Promises'
  <2> SUFFICES ASSUME a = lone, lone # None PROVE Promises'
    BY <1>1, <1>4 DEF Promises, ApplyIsComplete, RollbackRestores, PlannedNeverLost
  <2> QED
    BY <1>1, <1>2, <1>3, <1>4
    DEF Promises, ApplyIsComplete, RollbackRestores, PlannedNeverLost, Lost
<1> QED
  BY <1>4, <1>4a, <1>5, <1>6, <1>7, <1>8, <1>9

\* What is deleted is neither the plan's nor edited before.
LEMMA DeleteStaleStep ==
  ASSUME IInv, NEW a \in Applier, DeleteStale(a)
  PROVE  IInv'
<1> USE DEF IInv
<1>1. /\ pc[a] = "deleteStale"
      /\ \/ /\ chapters' = chapters /\ edited' = edited
            /\ \E to \in {"applied", "failed"} : pc' = [pc EXCEPT ![a] = to]
            /\ pc'[a] = "applied" => stale[a] = {}
         \/ /\ chapters' = chapters \ stale[a] /\ edited' = edited \ stale[a]
            /\ \E to \in {"applied", "failed"} : pc' = [pc EXCEPT ![a] = to]
      /\ UNCHANGED <<chapterOf, position, submitted, published, plan, todo, before, stale,
                     move, acts, lone, moved, lost, kept>>
  BY DEF DeleteStale, DeleteReply, WriteReply, Reply, Wrote, Answered, locals, owner, history,
         TypeOK
<1>2. /\ pc'[a] \in {"applied", "failed"}
      /\ pc'[a] = "applied" => stale[a] \cap chapters' = {}
      /\ \A b \in Applier \ {a} : pc'[b] = pc[b]
      /\ chapters' \subseteq chapters /\ edited' \subseteq edited
      /\ chapters \ stale[a] \subseteq chapters' /\ edited \ stale[a] \subseteq edited'
      /\ edited' \subseteq chapters' /\ chapters' \ edited' \subseteq chapters \ edited
  BY <1>1 DEF TypeOK
<1>3. \A b \in Applier : Planned(b)' = Planned(b) /\ PlanIds(b)' = PlanIds(b)
  BY <1>1 DEF Planned, PlanIds, Target
<1>4. lone \in {None, a} /\ OnlyLone' /\ \A b \in Applier \ {a} : LoneFits(b)'
  BY <1>1, <1>2, OthersWait DEF Active
<1>4a. KeptSafe'
  <2>1. kept \subseteq edited'
    BY <1>1, <1>2 DEF KeptSafe, AtWork, Active
  <2> QED
    BY <1>1, <1>2, <2>1, KeptFrame DEF Active
<1>5. ASSUME a = lone
      PROVE  /\ PlanIds(a) \subseteq chapters'
             /\ chapters \ edited \subseteq stale[a] \cup NewIds(a)
             /\ \A m \in Planned(a) : Target(a, m) \in PlanIds(a)
             /\ \A m \in Planned(a) \ moved : Placed(a, m)
  <2>1. PlanIds(a) \subseteq NewIds(a) /\ stale[a] \cap NewIds(a) = {}
    BY PlanIdsAreNew DEF TypeOK
  <2>2. PlanIds(a) \subseteq chapters
    BY <1>1, <1>5 DEF LoneFits, AssignedSoFar
  <2> QED
    BY <1>1, <1>2, <1>5, <2>1, <2>2, PlanIdsAreNew DEF LoneFits, AssignedSoFar, StaleIsRight
<1>6. TypeOK'
  <2>1. pc' \in [Applier -> {"idle", "planned"} \cup Active \cup Ended]
    BY <1>1 DEF TypeOK, Ended
  <2> QED
    BY <1>1, <1>2, <1>3, <2>1 DEF TypeOK
<1>7. LocalsFit'
  BY <1>1, <1>2, <1>3 DEF LocalsFit
<1>8. NewAreNew'
  BY <1>1, <1>2, <1>3 DEF NewAreNew, NotInserted
<1>9. LoneFits(a)'
  BY <1>1, <1>2, <1>4 DEF LoneFits, SnapshotHolds, AssignedSoFar, StaleIsRight, RestoredSoFar
<1>10. Promises'
  <2> SUFFICES ASSUME a = lone, lone # None PROVE Promises'
    BY <1>1, <1>4 DEF Promises, ApplyIsComplete, RollbackRestores, PlannedNeverLost
  <2>1. ApplyIsComplete'
    <3>1. chapters \cap NewIds(a) \subseteq PlanIds(a)
      BY DEF NewAreNew
    <3>2. pc'[a] = "applied" => chapters' \ edited' \subseteq PlanIds(a)
      BY <1>2, <1>5, <3>1
    <3> QED
      BY <1>1, <1>2, <1>3, <1>4, <1>5, <3>2 DEF ApplyIsComplete, Placed, Target
  <2>2. RollbackRestores'
    BY <1>1, <1>2, <1>4 DEF RollbackRestores
  <2>3. PlannedNeverLost'
    BY <1>1, <1>2, <1>3, <1>4, <1>5 DEF PlannedNeverLost, Lost, Placed
  <2> QED
    BY <2>1, <2>2, <2>3 DEF Promises
<1> QED
  BY <1>4, <1>4a, <1>6, <1>7, <1>8, <1>9, <1>10

-----------------------------------------------------------------------------
(* The owner *)

\* An edit locks one chapter more.
LEMMA EditChapterStep ==
  ASSUME IInv, NEW k \in Chapter, EditChapter(k)
  PROVE  IInv'
<1> USE DEF IInv
<1>1. /\ edited' = edited \cup {k} /\ edited' \subseteq chapters /\ acts' \in 0 .. MaxActs
      /\ UNCHANGED <<chapters, chapterOf, position, submitted, published, pc, plan, todo,
                     before, stale, move, lone, moved, lost, kept>>
  BY ActsAssumption DEF EditChapter, Act, locals, history, TypeOK
<1>2. \A a \in Applier : Planned(a)' = Planned(a) /\ PlanIds(a)' = PlanIds(a)
  BY <1>1 DEF Planned, PlanIds, Target
<1>3. TypeOK'
  BY <1>1, <1>2 DEF TypeOK
<1>4. LocalsFit' /\ OnlyLone' /\ NewAreNew' /\ KeptSafe'
  BY <1>1, <1>2 DEF LocalsFit, OnlyLone, NewAreNew, KeptSafe, AtWork, NewIds
<1>5. \A a \in Applier : LoneFits(a)'
  BY <1>1, <1>2 DEF LoneFits, SnapshotHolds, AssignedSoFar, StaleIsRight, RestoredSoFar, Placed,
                    Target
<1>6. Promises'
  BY <1>1, <1>2 DEF Promises, ApplyIsComplete, RollbackRestores, PlannedNeverLost, Lost, Target,
                    TypeOK
<1> QED
  BY <1>3, <1>4, <1>5, <1>6

\* What the owner moves is no longer the apply's.
LEMMA MoveMemoryStep ==
  ASSUME IInv, MoveMemory
  PROVE  IInv'
<1> USE DEF IInv
<1>1. /\ move \in Memory \X Chapter /\ move' = None
      /\ UNCHANGED <<chapters, edited, position, submitted, published, pc, plan, todo, before,
                     stale, acts, lone, lost, kept>>
      /\ \/ UNCHANGED <<chapterOf, moved>>
         \/ /\ chapterOf' = [chapterOf EXCEPT ![move[1]] = move[2]]
            /\ moved' = IF lone = None THEN {} ELSE moved \cup {move[1]}
  BY DEF MoveMemory, locals, TypeOK
<1>2. \A a \in Applier : Planned(a)' = Planned(a) /\ PlanIds(a)' = PlanIds(a)
  BY <1>1 DEF Planned, PlanIds, Target
<1>3. /\ chapterOf' \in [Memory -> Chapter \cup {None}]
      /\ moved' \subseteq Memory
      /\ lone # None => /\ moved \subseteq moved'
                        /\ \A m \in Memory \ moved' : chapterOf'[m] = chapterOf[m]
  BY <1>1 DEF TypeOK
<1>4. TypeOK'
  BY <1>1, <1>2, <1>3 DEF TypeOK
<1>5. LocalsFit' /\ OnlyLone' /\ NewAreNew' /\ KeptSafe'
  BY <1>1, <1>2 DEF LocalsFit, OnlyLone, NewAreNew, KeptSafe, AtWork, NewIds
<1>6. \A a \in Applier : Planned(a) \subseteq Memory
  BY DEF TypeOK
<1>7. ASSUME NEW a \in Applier PROVE LoneFits(a)'
  <2> SUFFICES ASSUME a = lone, lone # None
      PROVE  (SnapshotHolds(a) /\ AssignedSoFar(a) /\ StaleIsRight(a) /\ RestoredSoFar(a))'
    BY <1>1, IdsDiffer DEF LoneFits
  <2>1. SnapshotHolds(a)'
    BY <1>1, <1>2, <1>3 DEF LoneFits, SnapshotHolds
  <2>2. AssignedSoFar(a)'
    BY <1>1, <1>2, <1>3, <1>6 DEF LoneFits, AssignedSoFar, Placed, Target
  <2>3. RestoredSoFar(a)' /\ StaleIsRight(a)'
    BY <1>1, <1>2, <1>3, <1>6 DEF LoneFits, RestoredSoFar, StaleIsRight
  <2> QED
    BY <1>1, <2>1, <2>2, <2>3 DEF LoneFits
<1>8. Promises'
  <2> SUFFICES ASSUME lone # None PROVE Promises'
    BY <1>1 DEF Promises, ApplyIsComplete, RollbackRestores, PlannedNeverLost
  <2>1. ApplyIsComplete' /\ RollbackRestores'
    BY <1>1, <1>2, <1>3, <1>6 DEF Promises, ApplyIsComplete, RollbackRestores, Target, TypeOK
  <2>2. PlannedNeverLost'
    BY <1>1, <1>2, <1>3, <1>6 DEF Promises, PlannedNeverLost, Lost, TypeOK
  <2> QED
    BY <1>1, <2>1, <2>2 DEF Promises
<1> QED
  BY <1>4, <1>5, <1>7, <1>8

LEMMA OwnerStepHolds ==
  ASSUME IInv, OwnerStep
  PROVE  IInv'
<1>1. ASSUME NEW m \in Memory, NEW k \in Chapter, CheckMove(m, k) PROVE IInv'
  <2>1. UNCHANGED <<book, submitted, published, pc, locals, history>>
        /\ move' = <<m, k>> /\ acts' \in 0 .. MaxActs
    BY <1>1, ActsAssumption DEF CheckMove, Act, IInv, TypeOK
  <2>2. TypeOK'
    BY <2>1 DEF IInv, TypeOK, book, locals, history, Planned
  <2> QED
    BY <2>1, <2>2, BookFrame
<1>2. ASSUME NEW m \in Memory, ChangeStatus(m) PROVE IInv'
  <2>1. UNCHANGED <<book, published, pc, locals, move, history>>
        /\ submitted' \subseteq Memory /\ acts' \in 0 .. MaxActs
    BY <1>2, ActsAssumption DEF ChangeStatus, Act, IInv, TypeOK
  <2>2. TypeOK'
    BY <2>1 DEF IInv, TypeOK, book, locals, history, Planned
  <2> QED
    BY <2>1, <2>2, BookFrame
<1>3. ASSUME Publish PROVE IInv'
  <2>1. UNCHANGED <<book, submitted, pc, locals, move, history>>
        /\ published' \in BOOLEAN /\ acts' \in 0 .. MaxActs
    BY <1>3, ActsAssumption DEF Publish, Act, IInv, TypeOK
  <2>2. TypeOK'
    BY <2>1 DEF IInv, TypeOK, book, locals, history, Planned
  <2> QED
    BY <2>1, <2>2, BookFrame
<1> QED
  BY <1>1, <1>2, <1>3, EditChapterStep, MoveMemoryStep DEF OwnerStep

-----------------------------------------------------------------------------
(* The theorems *)

LEMMA ApplierStepHolds ==
  ASSUME IInv, NEW a \in Applier, ApplierStep(a)
  PROVE  IInv'
<1>1. CASE Verify(a)
  <2>1. /\ pc[a] = "verify" /\ \E to \in {"snapshot", "refused"} : pc' = [pc EXCEPT ![a] = to]
        /\ UNCHANGED <<book, submitted, published, locals, owner, history>>
    BY <1>1 DEF Verify
  <2> QED
    BY <2>1, MoveOnStep DEF Active
<1>2. CASE ReadFails(a)
  BY <1>2, MoveOnStep DEF ReadFails, Active
<1>3. CASE Crash(a)
  BY <1>3, MoveOnStep DEF Crash
<1> QED
  BY <1>1, <1>2, <1>3, PrepareStep, ConfirmAgainStep, BeginStep, SnapshotStep,
     InsertChaptersStep, UpsertOneStep, RestoreOneStep, DiscardNewStep, FetchStaleStep,
     DeleteStaleStep
  DEF ApplierStep

LEMMA StepIInv == IInv /\ [Next]_vars => IInv'
<1> SUFFICES ASSUME IInv, [Next]_vars PROVE IInv'
  OBVIOUS
<1>1. CASE UNCHANGED vars
  <2>1. UNCHANGED <<book, submitted, published, pc, locals, owner, history>>
    BY <1>1 DEF vars
  <2>2. TypeOK'
    BY <2>1 DEF IInv, TypeOK, book, locals, owner, history, Planned
  <2> QED
    BY <2>1, <2>2, BookFrame
<1> QED
  BY <1>1, OwnerStepHolds, ApplierStepHolds DEF Next

LEMMA Invariance == Spec => []IInv
BY InitIInv, StepIInv, PTL DEF Spec

\* Every variable has its type; what fetch_existing_chapter_ids leaves to delete is
\* never one of the chapters the apply itself has made.
THEOREM TypeSafety == Spec => []TypeOK
<1>1. IInv => TypeOK
  BY DEF IInv
<1> QED
  BY <1>1, Invariance, PTL

\* _apply_resolved_plan, with no other apply at work meanwhile, does all of the plan
\* or says so: when it returns, every memory of the plan is where the plan says and
\* the AI-authored chapters are the plan's, except for what the owner moved or
\* edited meanwhile, however many chunks there were and whatever earlier applies,
\* overlapping ones among them, left behind.
THEOREM CompleteSafety == Spec => []ApplyIsComplete
<1>1. IInv => ApplyIsComplete
  BY DEF IInv, Promises
<1> QED
  BY <1>1, Invariance, PTL

\* A rollback that ran to its end, with no other apply at work meanwhile, has undone
\* the apply: every memory of the plan that the owner has not moved is in the chapter
\* it was in, and no chapter of the plan is left.
THEOREM RollbackSafety == Spec => []RollbackRestores
<1>1. IInv => RollbackRestores
  BY DEF IInv, Promises
<1> QED
  BY <1>1, Invariance, PTL

\* memory.chapter_id has no foreign key, yet while no other apply is at work the order
\* of an apply's writes keeps every memory of its plan in a chapter that exists, at
\* every step, also when a call writes and raises, when the rollback fails half way,
\* and after a crash; except those that were not when it began, or the owner moved.
THEOREM NeverLostSafety == Spec => []PlannedNeverLost
<1>1. IInv => PlannedNeverLost
  BY DEF IInv, Promises
<1> QED
  BY <1>1, Invariance, PTL

\* Neither the delete of the stale chapters nor the rollback takes a chapter with
\* edited_by_owner that had it before the applies at work began, however many of them
\* there are at once.
THEOREM EditedSafety == Spec => []EditedBeforeSurvives
<1>1. IInv => EditedBeforeSurvives
  BY DEF IInv, KeptSafe, TypeOK, EditedBeforeSurvives
<1> QED
  BY <1>1, Invariance, PTL
=============================================================================

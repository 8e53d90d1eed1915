-------------------------- MODULE OrganizeJobProofs --------------------------
(***************************************************************************)
(* For any number of overlapping jobs and whatever calls of the database   *)
(* may fail: a run that is closed as ready is sound, what a run ended with *)
(* it keeps, and the memoir is ready only with a proposal.                 *)
(*                                                                         *)
(* Then the pipeline that a job runs, which is ResolvePlan: for any        *)
(* memories, chunks and answers of the models, the plan it may save has    *)
(* every fact once, in order, and no part of a bad answer.                 *)
(***************************************************************************)
EXTENDS OrganizeJob, ResolvePlan, FiniteSetTheorems, SequenceTheorems,
        WellFoundedInduction, TLAPS

\* Where a job has met no failure, and where a run may already be closed.
OnTheWay == {"check", "setRunning", "startRun", "fetchMemories", "startReader",
             "reader", "startOrganizer", "organizer", "saveProposal",
             "setReady", "finishReady"}
Closing == {"setFailed", "finishFailed"} \cup Over

\* A job that is on its way has recorded no failed stage.
NoStageFailed ==
  \A j \in Job : pc[j] \in OnTheWay =>
    \A role \in Role : stageRow[j][role] # "failed"

\* A job says ready after its proposal was saved.
SavedFirst == \A j \in Job : pc[j] \in {"setReady", "finishReady"} => j \in saved

\* A row is opened once, and closed as ready by a job that is past its stages.
RowFollowsJob ==
  \A j \in Job :
    /\ pc[j] \in Request \cup {"startRun"} => runRow[j] = "absent"
    /\ runRow[j] = "ready" => pc[j] \in Closing

IInv ==
  /\ TypeOK
  /\ NoStageFailed
  /\ SavedFirst
  /\ RowFollowsJob
  /\ ReadyRunIsSound

-----------------------------------------------------------------------------

LEMMA InitIInv == Init => IInv
<1> SUFFICES ASSUME Init PROVE IInv
  OBVIOUS
<1>1. TypeOK
  BY DEF Init, TypeOK, Role, RowStatus, Call, Request
<1>2. NoStageFailed /\ SavedFirst
  BY DEF Init, NoStageFailed, SavedFirst
<1>3. RowFollowsJob /\ ReadyRunIsSound
  BY DEF Init, RowFollowsJob, ReadyRunIsSound
<1> QED
  BY <1>1, <1>2, <1>3 DEF IInv

-----------------------------------------------------------------------------
(* Every step keeps the types *)

LEMMA TypeStep ==
  ASSUME TypeOK, [Next]_vars
  PROVE  TypeOK'
<1> USE DEF TypeOK, Role, RowStatus, Call, Request, Pipeline, Over, rows, Goto,
            Then, Reply, Wrote, Answered
<1>1. ASSUME NEW j \in Job, JobStep(j) PROVE TypeOK'
  <2>1. CASE Check(j)         BY <2>1 DEF Check
  <2>2. CASE SetRunning(j)    BY <2>2 DEF SetRunning
  <2>3. CASE StartRun(j)      BY <2>3 DEF StartRun
  <2>4. CASE FetchMemories(j) BY <2>4 DEF FetchMemories
  <2>5. CASE Reader(j)
    <3>1. ASSUME StartStage(j, "reader", "startReader", "reader") PROVE TypeOK'
      BY <3>1 DEF StartStage
    <3>2. ASSUME NEW outcome \in {"ready", "failed"},
                 NEW next \in {"startOrganizer", "setFailed"},
                 EndStage(j, "reader", outcome, next)
          PROVE  TypeOK'
      BY <3>2 DEF EndStage
    <3> QED
      BY <2>5, <3>1, <3>2 DEF Reader, AfterBadReader
  <2>6. CASE Organizer(j)
    <3>1. ASSUME StartStage(j, "organizer", "startOrganizer", "organizer")
          PROVE  TypeOK'
      BY <3>1 DEF StartStage
    <3>2. ASSUME NEW outcome \in {"ready", "failed"},
                 NEW next \in {"saveProposal", "setFailed"},
                 EndStage(j, "organizer", outcome, next)
          PROVE  TypeOK'
      BY <3>2 DEF EndStage
    <3> QED
      BY <2>6, <3>1, <3>2 DEF Organizer, AfterOrganizer
  <2>7. CASE SaveProposal(j)  BY <2>7 DEF SaveProposal
  <2>8. CASE EndReady(j)      BY <2>8 DEF EndReady, SetStatus, FinishRun
  <2>9. CASE EndEmpty(j)      BY <2>9 DEF EndEmpty, SetStatus, FinishRun
  <2>10. CASE EndFailed(j)    BY <2>10 DEF EndFailed, SetStatus, FinishRun
  <2> QED
    BY <1>1, <2>1, <2>2, <2>3, <2>4, <2>5, <2>6, <2>7, <2>8, <2>9, <2>10
    DEF JobStep
<1>2. ASSUME NEW j \in Job, Crash(j) PROVE TypeOK'
  BY <1>2 DEF Crash
<1>3. CASE Stall
  BY <1>3 DEF Stall
<1>4. CASE UNCHANGED vars
  BY <1>4 DEF vars
<1> QED
  BY <1>1, <1>2, <1>3, <1>4 DEF Next

-----------------------------------------------------------------------------
(* The other parts, one lemma: each action concerns one job, so each is     *)
(* stated for that job and for the others.                                  *)

Sound(j) ==
  /\ pc[j] \in OnTheWay => \A role \in Role : stageRow[j][role] # "failed"
  /\ pc[j] \in {"setReady", "finishReady"} => j \in saved
  /\ pc[j] \in Request \cup {"startRun"} => runRow[j] = "absent"
  /\ runRow[j] = "ready" => pc[j] \in Closing
  /\ runRow[j] = "ready" => j \in saved /\ \A role \in Role : stageRow[j][role] # "failed"

LEMMA SoundIsIInv == IInv <=> TypeOK /\ \A j \in Job : Sound(j)
BY DEF IInv, NoStageFailed, SavedFirst, RowFollowsJob, ReadyRunIsSound, Sound

\* A step of one job leaves the rows, the proposal and the step of the others.
LEMMA OthersStep ==
  ASSUME TypeOK, NEW j \in Job, JobStep(j) \/ Crash(j), NEW k \in Job \ {j}
  PROVE  /\ pc'[k] = pc[k]
         /\ runRow'[k] = runRow[k]
         /\ stageRow'[k] = stageRow[k]
         /\ k \in saved' <=> k \in saved
<1> USE DEF TypeOK, rows, Goto, Then
<1>1. CASE Check(j) \/ SetRunning(j) \/ StartRun(j) \/ FetchMemories(j)
  BY <1>1 DEF Check, SetRunning, StartRun, FetchMemories
<1>2. CASE Reader(j) \/ Organizer(j)
  BY <1>2 DEF Reader, Organizer, StartStage, EndStage
<1>3. CASE SaveProposal(j)
  BY <1>3 DEF SaveProposal
<1>4. CASE EndReady(j) \/ EndEmpty(j) \/ EndFailed(j)
  BY <1>4 DEF EndReady, EndEmpty, EndFailed, SetStatus, FinishRun
<1>5. CASE Crash(j)
  BY <1>5 DEF Crash
<1> QED
  BY <1>1, <1>2, <1>3, <1>4, <1>5 DEF JobStep

LEMMA OwnStep ==
  ASSUME TypeOK, NEW j \in Job, Sound(j), JobStep(j) \/ Crash(j)
  PROVE  Sound(j)'
<1> USE DEF TypeOK, Sound, OnTheWay, Closing, Request, Over, rows, Goto, Then
<1>1. CASE Check(j)         BY <1>1 DEF Check
<1>2. CASE SetRunning(j)    BY <1>2 DEF SetRunning
<1>3. CASE StartRun(j)      BY <1>3 DEF StartRun
<1>4. CASE FetchMemories(j) BY <1>4 DEF FetchMemories
<1>5. CASE Reader(j)
  BY <1>5 DEF Reader, StartStage, EndStage, AfterBadReader, Role
<1>6. CASE Organizer(j)
  BY <1>6 DEF Organizer, StartStage, EndStage, AfterOrganizer, Role
<1>7. CASE SaveProposal(j)
  BY <1>7 DEF SaveProposal, Answered, Wrote
<1>8. CASE EndReady(j)
  BY <1>8 DEF EndReady, SetStatus, FinishRun
<1>9. CASE EndEmpty(j) \/ EndFailed(j)
  BY <1>9 DEF EndEmpty, EndFailed, SetStatus, FinishRun, Finishable
<1>10. CASE Crash(j)
  BY <1>10 DEF Crash, Pipeline
<1> QED
  BY <1>1, <1>2, <1>3, <1>4, <1>5, <1>6, <1>7, <1>8, <1>9, <1>10 DEF JobStep

LEMMA StepIInv == IInv /\ [Next]_vars => IInv'
<1> SUFFICES ASSUME IInv, [Next]_vars PROVE IInv'
  OBVIOUS
<1>1. TypeOK /\ \A j \in Job : Sound(j)
  BY SoundIsIInv
<1>2. TypeOK'
  BY <1>1, TypeStep
<1>3. \A j \in Job : Sound(j)'
  <2>1. ASSUME NEW j \in Job, JobStep(j) \/ Crash(j), NEW k \in Job
        PROVE  Sound(k)'
    <3>1. CASE k = j  BY <1>1, <2>1, <3>1, OwnStep
    <3>2. CASE k # j  BY <1>1, <2>1, <3>2, OthersStep DEF Sound
    <3> QED
      BY <3>1, <3>2
  <2>2. CASE Stall
    BY <1>1, <2>2 DEF Stall, rows, Sound
  <2>3. CASE UNCHANGED vars
    BY <1>1, <2>3 DEF vars, rows, Sound
  <2> QED
    BY <2>1, <2>2, <2>3 DEF Next
<1>4. (TypeOK /\ \A j \in Job : Sound(j))' => IInv'
  BY DEF IInv, NoStageFailed, SavedFirst, RowFollowsJob, ReadyRunIsSound, Sound
<1> QED
  BY <1>2, <1>3, <1>4

LEMMA Invariance == Spec => []IInv
<1>1. Init => IInv
  BY InitIInv
<1>2. IInv /\ [Next]_vars => IInv'
  BY StepIInv
<1> QED
  BY <1>1, <1>2, PTL DEF Spec

-----------------------------------------------------------------------------

\* Every state has the types TypeOK gives, and a job knows ids of rows that
\* start_run and start_agent_run really inserted.
THEOREM TypeSafety == Spec => []TypeOK
<1>1. IInv => TypeOK
  BY DEF IInv
<1> QED
  BY <1>1, Invariance, PTL

\* A run closed as ready has saved its proposal and no stage of it is recorded
\* as failed, however many jobs overlap and whatever calls fail.
THEOREM ReadySafety == Spec => []ReadyRunIsSound
<1>1. IInv => ReadyRunIsSound
  BY DEF IInv
<1> QED
  BY <1>1, Invariance, PTL

\* finish_run's guard: what a run ended with, no later exit path replaces.
THEOREM FinalSafety == Spec => RunIsFinal
<1> DEFINE Final == \A j \in Job : runRow[j] \in {"ready", "failed"} =>
                                     runRow'[j] = runRow[j]
<1>1. ASSUME IInv, [Next]_vars PROVE [Final]_vars
  <2>1. TypeOK /\ \A j \in Job : Sound(j)
    BY <1>1, SoundIsIInv
  <2>2. ASSUME NEW j \in Job, JobStep(j) \/ Crash(j) PROVE Final
    <3>1. runRow[j] \in {"ready", "failed"} => runRow'[j] = runRow[j]
      <4>1. CASE StartRun(j)
        BY <2>1, <4>1 DEF StartRun, Sound
      <4>2. CASE EndReady(j) \/ EndEmpty(j) \/ EndFailed(j)
        BY <2>1, <4>2
        DEF EndReady, EndEmpty, EndFailed, SetStatus, FinishRun, Finishable, rows
      <4>3. CASE UNCHANGED runRow
        BY <4>3
      <4> QED
        BY <2>2, <4>1, <4>2, <4>3
        DEF JobStep, Check, SetRunning, FetchMemories, Reader, Organizer,
            StartStage, EndStage, SaveProposal, Crash, rows
    <3> QED
      BY <2>1, <2>2, <3>1, OthersStep
  <2>3. CASE Stall
    BY <2>3 DEF Stall, rows
  <2>4. CASE UNCHANGED vars
    BY <2>4
  <2> QED
    BY <1>1, <2>2, <2>3, <2>4 DEF Next
<1> QED
  BY <1>1, Invariance, PTL DEF RunIsFinal, Spec

\* The memoir becomes ready only by a step of a job that saved its own proposal.
THEOREM ProposalSafety == Spec => ReadyHasProposal
<1> DEFINE Backed == jobStatus' = "ready" /\ jobStatus # "ready" =>
                       \E j \in saved : pc[j] = "setReady" /\ pc'[j] # "setReady"
<1>1. ASSUME IInv, [Next]_vars PROVE [Backed]_vars
  <2>1. \A j \in Job : Sound(j)
    BY <1>1, SoundIsIInv
  <2>2. ASSUME NEW j \in Job, JobStep(j) \/ Crash(j) PROVE Backed
    <3>1. CASE EndReady(j)
      <4>1. pc[j] = "setReady" => j \in saved
        BY <2>1 DEF Sound
      <4>2. CASE FinishRun(j, "finishReady", "ready", "setFailed")
        BY <4>2 DEF FinishRun
      <4>3. CASE SetStatus(j, "setReady", "ready", "finishReady", "setFailed")
        <5>1. PICK reply \in Reply("setReady") :
                Then(j, reply, "finishReady", "setFailed")
          BY <4>3 DEF SetStatus
        <5>2. pc'[j] \in {"finishReady", "setFailed"}
          <6>1. j \in DOMAIN pc
            BY <1>1 DEF IInv, TypeOK
          <6> QED
            BY <5>1, <6>1 DEF Then, Goto
        <5> QED
          BY <4>1, <4>3, <5>2 DEF SetStatus
      <4> QED
        BY <3>1, <4>2, <4>3 DEF EndReady
    <3>2. CASE jobStatus' = jobStatus \/ jobStatus' # "ready"
      BY <3>2
    <3> QED
      BY <2>2, <3>1, <3>2
      DEF JobStep, Check, SetRunning, StartRun, FetchMemories, Reader,
          Organizer, StartStage, EndStage, SaveProposal, EndEmpty, EndFailed,
          SetStatus, FinishRun, Crash
  <2>3. CASE Stall
    BY <2>3 DEF Stall
  <2>4. CASE UNCHANGED vars
    BY <2>4
  <2> QED
    BY <1>1, <2>2, <2>3, <2>4 DEF Next
<1> QED
  BY <1>1, Invariance, PTL DEF ReadyHasProposal, Spec

-----------------------------------------------------------------------------
(* The pipeline: reader, organizer and resolver *)

-----------------------------------------------------------------------------
(* Sorting *)

\* Induction on a finite set: of its subsets that lack a property one is smallest.
LEMMA SmallestSubset ==
  ASSUME NEW S, IsFiniteSet(S), NEW Bad, \A x \in Bad : x \subseteq S, Bad # {}
  PROVE  \E x \in Bad : \A y \in Bad : y \subseteq x => y = x
<1>1. FiniteSubsetsOf(S) = SUBSET S
  BY FS_Subset DEF FiniteSubsetsOf
<1>2. IsWellFoundedOn(StrictSubsetOrdering(S), SUBSET S)
  BY <1>1, FS_StrictSubsetOrderingWellFounded
<1>3. Bad \subseteq SUBSET S
  OBVIOUS
<1>4. \E x \in Bad : \A y \in Bad : ~ (<<y, x>> \in StrictSubsetOrdering(S))
  BY <1>2, <1>3, WFMin
<1> QED
  BY <1>4 DEF StrictSubsetOrdering

LEMMA PrecedesOrders ==
  ASSUME NEW S \in SUBSET Nat, NEW key, \A x \in S : key[x] \in Nat
  PROVE  /\ \A x, y \in S : x = y \/ Precedes(key, x, y) \/ Precedes(key, y, x)
         /\ \A x, y, z \in S :
              Precedes(key, x, y) /\ Precedes(key, y, z) => Precedes(key, x, z)
         /\ \A x \in S : ~ Precedes(key, x, x)
BY DEF Precedes

LEMMA LastExists ==
  ASSUME NEW S \in SUBSET Nat, IsFiniteSet(S), S # {},
         NEW key, \A x \in S : key[x] \in Nat
  PROVE  \E x \in S : \A y \in S \ {x} : Precedes(key, y, x)
<1> DEFINE IsLast(T) == \E x \in T : \A y \in T \ {x} : Precedes(key, y, x)
           Bad == {T \in SUBSET S : T # {} /\ ~ IsLast(T)}
<1>1. ASSUME Bad # {} PROVE FALSE
  <2>1. PICK T \in Bad : \A U \in Bad : U \subseteq T => U = T
    <3>1. \A U \in Bad : U \subseteq S
      OBVIOUS
    <3> HIDE DEF Bad
    <3> QED
      BY <1>1, <3>1, SmallestSubset
  <2>2. PICK y \in T : TRUE
    OBVIOUS
  <2>3. T \ {y} # {}
    <3>1. T # {y}
      <4>1. ASSUME T = {y} PROVE IsLast(T)
        BY <4>1
      <4> QED
        BY <4>1
    <3> QED
      BY <2>2, <3>1
  <2>4. PICK x \in T \ {y} : \A z \in (T \ {y}) \ {x} : Precedes(key, z, x)
    <3>1. T \ {y} \notin Bad
      BY <2>1, <2>2
    <3> QED
      BY <2>3, <3>1
  <2>5. x \in S /\ y \in S /\ T \subseteq S
    OBVIOUS
  <2>6. CASE Precedes(key, y, x)
    <3>1. \A z \in T \ {x} : Precedes(key, z, x)
      BY <2>4, <2>6
    <3>2. IsLast(T)
      BY <3>1
    <3> QED
      BY <3>2
  <2>7. CASE Precedes(key, x, y)
    <3>1. \A z \in T \ {y} : Precedes(key, z, y)
      BY <2>4, <2>5, <2>7, PrecedesOrders
    <3>2. IsLast(T)
      BY <3>1
    <3> QED
      BY <3>2
  <2> QED
    BY <2>4, <2>5, <2>6, <2>7, PrecedesOrders
<1>2. S \notin Bad
  BY <1>1
<1> QED
  BY <1>2

Ordered(S, key, order) ==
  /\ order \in [1 .. Cardinality(S) -> S]
  /\ \A n, o \in 1 .. Cardinality(S) : n < o => Precedes(key, order[n], order[o])

LEMMA OrderExists ==
  ASSUME NEW S \in SUBSET Nat, IsFiniteSet(S), NEW key, \A x \in S : key[x] \in Nat
  PROVE  \E order : Ordered(S, key, order)
<1> DEFINE Bad == {T \in SUBSET S : ~ \E order : Ordered(T, key, order)}
<1>1. ASSUME Bad # {} PROVE FALSE
  <2>1. PICK T \in Bad : \A U \in Bad : U \subseteq T => U = T
    <3>1. \A U \in Bad : U \subseteq S
      OBVIOUS
    <3> HIDE DEF Bad
    <3> QED
      BY <1>1, <3>1, SmallestSubset
  <2>2. IsFiniteSet(T) /\ T \in SUBSET Nat /\ \A x \in T : key[x] \in Nat
    BY FS_Subset
  <2>3. T # {}
    <3>1. Cardinality({}) = 0
      BY FS_EmptySet
    <3>2. Ordered({}, key, [n \in 1 .. 0 |-> n])
      BY <3>1 DEF Ordered
    <3> QED
      BY <3>2
  <2>4. PICK x \in T : \A y \in T \ {x} : Precedes(key, y, x)
    BY <2>2, <2>3, LastExists
  <2>5. PICK before : Ordered(T \ {x}, key, before)
    <3>1. T \ {x} \notin Bad
      BY <2>1, <2>4
    <3>2. T \ {x} \in SUBSET S
      OBVIOUS
    <3> QED
      BY <3>1, <3>2
  <2> DEFINE N == Cardinality(T)
             order == [n \in 1 .. N |-> IF n = N THEN x ELSE before[n]]
  <2>6. N \in Nat /\ N >= 1 /\ Cardinality(T \ {x}) = N - 1
    <3>1. Cardinality(T \ {x}) \in Nat /\ Cardinality(T \ {x}) = N - 1 /\ N \in Nat
      BY <2>2, FS_RemoveElement, FS_CardinalityType
    <3> QED
      BY <3>1
  <2> HIDE DEF N
  <2>7. before \in [1 .. N - 1 -> T \ {x}]
    BY <2>5, <2>6 DEF Ordered
  <2>8. \A n \in 1 .. N : n # N => n \in 1 .. N - 1
    BY <2>6
  <2>9. order \in [1 .. N -> T]
    BY <2>7, <2>8
  <2>10. ASSUME NEW n \in 1 .. N, NEW o \in 1 .. N, n < o
         PROVE  Precedes(key, order[n], order[o])
    <3>1. n \in 1 .. N - 1 /\ order[n] = before[n] /\ before[n] \in T \ {x}
      BY <2>6, <2>7, <2>10
    <3>2. CASE o = N
      BY <2>4, <3>1, <3>2
    <3>3. CASE o # N
      <4>1. o \in 1 .. N - 1
        BY <2>8, <3>3
      <4>2. \A k, l \in 1 .. N - 1 : k < l => Precedes(key, before[k], before[l])
        BY <2>5, <2>6 DEF Ordered
      <4> QED
        BY <2>10, <3>1, <3>3, <4>1, <4>2
    <3> QED
      BY <3>2, <3>3
  <2>11. Ordered(T, key, order)
    BY <2>9, <2>10 DEF Ordered, N
  <2> QED
    BY <2>11
<1>2. S \notin Bad
  BY <1>1
<1> QED
  BY <1>2

\* What SortedBy returns is sorted, and has every number of the set once.
LEMMA SortedByIsOrdered ==
  ASSUME NEW S \in SUBSET Nat, IsFiniteSet(S), NEW key, \A x \in S : key[x] \in Nat
  PROVE  /\ Cardinality(S) \in Nat
         /\ Ordered(S, key, SortedBy(S, key))
         /\ \A n, o \in 1 .. Cardinality(S) :
              SortedBy(S, key)[n] = SortedBy(S, key)[o] => n = o
         /\ \A x \in S : \E n \in 1 .. Cardinality(S) : SortedBy(S, key)[n] = x
<1> DEFINE N == Cardinality(S)
           order == SortedBy(S, key)
<1>1. N \in Nat
  BY FS_CardinalityType
<1>2. Ordered(S, key, order)
  <2>1. PICK sorted : Ordered(S, key, sorted)
    BY OrderExists
  <2>2. order = CHOOSE p \in [1 .. N -> S] :
                  \A n, o \in DOMAIN p : n < o => Precedes(key, p[n], p[o])
    BY DEF SortedBy
  <2> HIDE DEF N
  <2>3. \E p \in [1 .. N -> S] :
          \A n, o \in DOMAIN p : n < o => Precedes(key, p[n], p[o])
    BY <2>1 DEF Ordered, N
  <2>4. /\ order \in [1 .. N -> S]
        /\ \A n, o \in DOMAIN order : n < o => Precedes(key, order[n], order[o])
    BY <2>2, <2>3
  <2>5. DOMAIN order = 1 .. N
    BY <2>4
  <2> QED
    BY <2>4, <2>5 DEF Ordered, N
<1>3. \A n, o \in 1 .. N : order[n] = order[o] => n = o
  <2>1. ASSUME NEW n \in 1 .. N, NEW o \in 1 .. N, n < o PROVE order[n] # order[o]
    BY <1>2, <2>1, PrecedesOrders DEF Ordered
  <2> QED
    BY <1>1, <2>1
<1>4. \A x \in S : \E n \in 1 .. N : order[n] = x
  <2>1. IsFiniteSet(1 .. N) /\ Cardinality(1 .. N) = N
    BY <1>1, FS_Interval
  <2>2. order \in Injection(1 .. N, S)
    BY <1>2, <1>3 DEF Ordered, Injection, IsInjective
  <2>3. order \in Surjection(1 .. N, S)
    BY <2>1, <2>2, FS_Injection
  <2> QED
    BY <2>3 DEF Surjection
<1> QED
  BY <1>1, <1>2, <1>3, <1>4

-----------------------------------------------------------------------------
(* The resolver *)

\* Facts as the reader returns them, and chapters as the organizer does.
Dates(f) == DOMAIN f \subseteq Nat /\ \A m \in DOMAIN f : f[m] \in Nat
Distinct(c) == \A k, l \in DOMAIN c : c[k] = c[l] => k = l
Sorted(f, c) == \A k, l \in DOMAIN c : k < l => f[c[k]] <= f[c[l]]

LEMMA InToSet ==
  \A s, x : x \in ToSet(s) <=> \E i \in DOMAIN s : s[i] = x
BY DEF ToSet

LEMMA ByDateIsSorted ==
  ASSUME NEW f, Dates(f), NEW c \in Seq(Nat), Distinct(c),
         ToSet(c) \subseteq DOMAIN f, NEW d, d = ByDate(f, c)
  PROVE  /\ d \in Seq(DOMAIN f)
         /\ ToSet(d) = ToSet(c)
         /\ Distinct(d)
         /\ Sorted(f, d)
<1> DEFINE I == FactsOf(f, c)
           N == Cardinality(I)
           key == [i \in I |-> f[c[i]]]
           order == SortedBy(I, key)
<1>1. I = 1 .. Len(c) /\ I = DOMAIN c /\ \A i \in I : c[i] \in DOMAIN f
  <2>1. \A i \in DOMAIN c : c[i] \in DOMAIN f
    BY InToSet
  <2>2. I = DOMAIN c
    BY <2>1 DEF FactsOf
  <2> HIDE DEF I
  <2> QED
    BY <2>1, <2>2
<1>2. IsFiniteSet(I) /\ I \in SUBSET Nat
  BY <1>1, FS_Interval
<1>3. \A i \in I : key[i] \in Nat
  BY <1>1 DEF Dates
<1>4. d = [n \in DOMAIN order |-> c[order[n]]]
  BY DEF ByDate
<1> HIDE DEF I, order
<1>5. /\ N \in Nat
      /\ Ordered(I, key, order)
      /\ \A n, o \in 1 .. N : order[n] = order[o] => n = o
      /\ \A x \in I : \E n \in 1 .. N : order[n] = x
  <2> HIDE DEF key
  <2> QED
    BY <1>2, <1>3, SortedByIsOrdered DEF order
<1>6. order \in [1 .. N -> I] /\ \A n, o \in 1 .. N : n < o => Precedes(key, order[n], order[o])
  BY <1>5 DEF Ordered
<1> HIDE DEF N
<1>7. /\ DOMAIN d = 1 .. N
      /\ \A n \in 1 .. N : d[n] = c[order[n]] /\ order[n] \in I
  BY <1>4, <1>6
<1>8. d \in Seq(DOMAIN f)
  <2>1. d \in [1 .. N -> DOMAIN f]
    BY <1>1, <1>4, <1>6, <1>7
  <2> QED
    BY <1>5, <2>1
<1>9. ToSet(d) = ToSet(c)
  <2>1. ASSUME NEW x \in ToSet(d) PROVE x \in ToSet(c)
    <3>1. PICK n \in DOMAIN d : d[n] = x
      BY InToSet
    <3>2. order[n] \in DOMAIN c /\ c[order[n]] = x
      BY <1>1, <1>7, <3>1
    <3> QED
      BY <3>2, InToSet
  <2>2. ASSUME NEW x \in ToSet(c) PROVE x \in ToSet(d)
    <3>1. PICK i \in DOMAIN c : c[i] = x
      BY InToSet
    <3>2. PICK n \in DOMAIN d : order[n] = i
      BY <1>1, <1>5, <1>7
    <3>3. d[n] = x
      BY <1>7, <3>1, <3>2
    <3> QED
      BY <3>3, InToSet
  <2> QED
    BY <2>1, <2>2
<1>10. Distinct(d)
  <2>1. ASSUME NEW k \in 1 .. N, NEW l \in 1 .. N, d[k] = d[l] PROVE k = l
    BY <1>1, <1>5, <1>7, <2>1 DEF Distinct
  <2> QED
    BY <1>7, <2>1 DEF Distinct
<1>11. Sorted(f, d)
  <2>1. ASSUME NEW k \in 1 .. N, NEW l \in 1 .. N, k < l PROVE f[d[k]] <= f[d[l]]
    <3>1. Precedes(key, order[k], order[l])
      BY <1>6, <2>1
    <3>2. key[order[k]] <= key[order[l]]
      BY <1>3, <1>7, <3>1 DEF Precedes
    <3> QED
      BY <1>7, <3>2
  <2> QED
    BY <1>7, <2>1 DEF Sorted
<1> QED
  BY <1>8, <1>9, <1>10, <1>11

\* The key of a chapter is the date of its first memory, once sorted.
LEMMA EarliestIsFirst ==
  ASSUME NEW f, Dates(f), NEW c \in Seq(Nat), Distinct(c),
         ToSet(c) \subseteq DOMAIN f, c # << >>,
         NEW d, d = ByDate(f, c)
  PROVE  d # << >> /\ Earliest(f, c) = f[d[1]] /\ f[d[1]] \in Nat
<1>1. d \in Seq(DOMAIN f) /\ ToSet(d) = ToSet(c) /\ Sorted(f, d)
  BY ByDateIsSorted
<1>2. c[1] \in ToSet(c)
  <2>1. 1 \in DOMAIN c
    OBVIOUS
  <2> QED
    BY <2>1, InToSet
<1>3. d # << >> /\ 1 \in DOMAIN d /\ DOMAIN d = 1 .. Len(d)
  BY <1>1, <1>2, InToSet
<1> DEFINE S == {f[m] : m \in ToSet(d)}
<1>4. {f[c[i]] : i \in FactsOf(f, c)} = S
  <2>1. FactsOf(f, c) = DOMAIN c
    BY InToSet DEF FactsOf
  <2>2. {f[c[i]] : i \in DOMAIN c} = {f[m] : m \in ToSet(c)}
    BY DEF ToSet
  <2> QED
    BY <1>1, <2>1, <2>2
<1>5. \A m \in ToSet(d) : f[d[1]] <= f[m] /\ f[m] \in Nat
  <2>1. \A l \in DOMAIN d : f[d[l]] \in Nat
    BY <1>1 DEF Dates
  <2>2. \A l \in DOMAIN d : f[d[1]] <= f[d[l]]
    BY <1>1, <1>3, <2>1 DEF Sorted
  <2> QED
    BY <2>1, <2>2, InToSet
<1>6. d[1] \in ToSet(d)
  BY <1>3, InToSet
<1>7. f[d[1]] \in S /\ \A y \in S : f[d[1]] <= y /\ y \in Nat
  BY <1>5, <1>6
<1>8. Earliest(f, c) = CHOOSE x \in S : \A y \in S : x <= y
  BY <1>4 DEF Earliest, Min
<1> HIDE DEF S
<1>9. \A x \in S : (\A y \in S : x <= y) => x = f[d[1]]
  BY <1>7
<1> QED
  BY <1>3, <1>7, <1>8, <1>9

\* The chapters of an answer that has passed _validate_ids, in the order of time:
\* those that are not empty, each once, whatever order the answer had.
Chosen(f, chapters, ch, order) ==
  LET kept == {i \in DOMAIN chapters : chapters[i] # << >>}
      N == Cardinality(kept)
  IN  /\ N \in Nat /\ N <= Len(chapters)
      /\ ch \in Seq(Seq(DOMAIN f)) /\ DOMAIN ch = 1 .. N /\ Len(ch) = N
      /\ order \in [1 .. N -> kept]
      /\ \A n, o \in 1 .. N : order[n] = order[o] => n = o
      /\ \A i \in kept : \E n \in 1 .. N : order[n] = i
      /\ \A n \in 1 .. N :
           /\ ToSet(ch[n]) = ToSet(chapters[order[n]])
           /\ ch[n] # << >> /\ Distinct(ch[n]) /\ Sorted(f, ch[n])
      /\ \A n, o \in 1 .. N : n < o => f[ch[n][1]] <= f[ch[o][1]]

LEMMA ChronologicalIsChosen ==
  ASSUME NEW f, Dates(f), NEW chapters \in Seq(Seq(Nat)), ValidIds(f, chapters),
         NEW ch, ch = Chronological(f, chapters)
  PROVE  \E order : Chosen(f, chapters, ch, order)
<1> DEFINE kept == {i \in DOMAIN chapters : chapters[i] # << >>}
           N == Cardinality(kept)
           key == [i \in kept |-> Earliest(f, chapters[i])]
           order == SortedBy(kept, key)
<1>1. DOMAIN chapters = 1 .. Len(chapters) /\ Len(chapters) \in Nat
  OBVIOUS
<1>2. ASSUME NEW i \in DOMAIN chapters
      PROVE  /\ chapters[i] \in Seq(Nat) /\ Distinct(chapters[i])
             /\ ToSet(chapters[i]) \subseteq DOMAIN f
             /\ FactsOf(f, chapters[i]) = DOMAIN chapters[i]
  <2>1. chapters[i] \in Seq(Nat)
    BY <1>2
  <2>2. Distinct(chapters[i])
    BY <1>2 DEF ValidIds, PlacedOnce, Distinct
  <2>3. ToSet(chapters[i]) \subseteq DOMAIN f
    BY <1>2 DEF ValidIds, IdsOf, SentIds
  <2>4. \A k \in DOMAIN chapters[i] : chapters[i][k] \in DOMAIN f
    BY <2>3, InToSet
  <2>5. FactsOf(f, chapters[i]) = DOMAIN chapters[i]
    BY <2>4 DEF FactsOf
  <2> QED
    BY <2>1, <2>2, <2>3, <2>5
<1>3. NonEmpty(f, chapters) = kept
  <2>1. ASSUME NEW i \in DOMAIN chapters
        PROVE  FactsOf(f, chapters[i]) # {} <=> chapters[i] # << >>
    <3>1. chapters[i] \in Seq(Nat) /\ FactsOf(f, chapters[i]) = DOMAIN chapters[i]
      BY <1>2
    <3>2. chapters[i] = << >> <=> Len(chapters[i]) = 0
      BY <3>1, EmptySeq
    <3>3. DOMAIN chapters[i] = 1 .. Len(chapters[i]) /\ Len(chapters[i]) \in Nat
      BY <3>1
    <3>4. CASE Len(chapters[i]) = 0
      BY <3>1, <3>2, <3>3, <3>4
    <3>5. CASE Len(chapters[i]) # 0
      <4>1. 1 \in 1 .. Len(chapters[i])
        BY <3>3, <3>5
      <4> QED
        BY <3>1, <3>2, <3>3, <3>5, <4>1
    <3> QED
      BY <3>4, <3>5
  <2> QED
    BY <2>1 DEF NonEmpty
<1>4. ch = [n \in DOMAIN order |-> ByDate(f, chapters[order[n]])]
  BY <1>3 DEF Chronological
<1>5. kept \subseteq DOMAIN chapters /\ \A i \in kept : chapters[i] # << >>
  OBVIOUS
<1> HIDE DEF kept
<1>6. IsFiniteSet(kept) /\ kept \in SUBSET Nat /\ N <= Len(chapters)
  <2>1. IsFiniteSet(1 .. Len(chapters)) /\ Cardinality(1 .. Len(chapters)) = Len(chapters)
    <3> DEFINE L == Len(chapters)
    <3>1. L \in Nat
      BY <1>1
    <3> HIDE DEF L
    <3>2. IsFiniteSet(1 .. L) /\ Cardinality(1 .. L) = L
      BY <3>1, FS_Interval
    <3> QED
      BY <3>2 DEF L
  <2>2. kept \in SUBSET (1 .. Len(chapters))
    BY <1>1, <1>5
  <2>3. IsFiniteSet(kept) /\ N <= Len(chapters)
    BY <2>1, <2>2, FS_Subset
  <2> QED
    BY <2>2, <2>3
<1>7. ASSUME NEW i \in kept
      PROVE  /\ ByDate(f, chapters[i]) \in Seq(DOMAIN f)
             /\ ToSet(ByDate(f, chapters[i])) = ToSet(chapters[i])
             /\ ByDate(f, chapters[i]) # << >>
             /\ Distinct(ByDate(f, chapters[i])) /\ Sorted(f, ByDate(f, chapters[i]))
             /\ key[i] = f[ByDate(f, chapters[i])[1]] /\ key[i] \in Nat
  <2>1. i \in DOMAIN chapters /\ chapters[i] # << >>
    BY <1>5, <1>7
  <2>2. /\ chapters[i] \in Seq(Nat) /\ Distinct(chapters[i])
        /\ ToSet(chapters[i]) \subseteq DOMAIN f
    BY <1>2, <2>1
  <2>3. key[i] = Earliest(f, chapters[i])
    BY <1>7
  <2> QED
    BY <2>1, <2>2, <2>3, ByDateIsSorted, EarliestIsFirst
<1> HIDE DEF key, order
<1>8. /\ N \in Nat
      /\ Ordered(kept, key, order)
      /\ \A n, o \in 1 .. N : order[n] = order[o] => n = o
      /\ \A x \in kept : \E n \in 1 .. N : order[n] = x
  <2>1. \A i \in kept : key[i] \in Nat
    BY <1>7
  <2> QED
    BY <1>6, <2>1, SortedByIsOrdered DEF order
<1>9. /\ order \in [1 .. N -> kept]
      /\ \A n, o \in 1 .. N : n < o => Precedes(key, order[n], order[o])
  BY <1>8 DEF Ordered
<1> HIDE DEF N
<1>10. /\ DOMAIN ch = 1 .. N
       /\ \A n \in 1 .. N : order[n] \in kept /\ ch[n] = ByDate(f, chapters[order[n]])
  BY <1>4, <1>9
<1>11. ch \in Seq(Seq(DOMAIN f)) /\ Len(ch) = N
  <2>1. ch \in [1 .. N -> Seq(DOMAIN f)]
    <3>1. ch = [n \in 1 .. N |-> ch[n]]
      BY <1>4, <1>10
    <3>2. \A n \in 1 .. N : ch[n] \in Seq(DOMAIN f)
      BY <1>7, <1>10
    <3> QED
      BY <3>1, <3>2
  <2> QED
    BY <1>8, <2>1
<1>12. ASSUME NEW n \in 1 .. N
       PROVE  /\ ToSet(ch[n]) = ToSet(chapters[order[n]])
              /\ ch[n] # << >> /\ Distinct(ch[n]) /\ Sorted(f, ch[n])
  BY <1>7, <1>10
<1>13. ASSUME NEW n \in 1 .. N, NEW o \in 1 .. N, n < o
       PROVE  f[ch[n][1]] <= f[ch[o][1]]
  <2>1. /\ key[order[n]] = f[ch[n][1]] /\ key[order[n]] \in Nat
        /\ key[order[o]] = f[ch[o][1]] /\ key[order[o]] \in Nat
    BY <1>7, <1>10
  <2>2. Precedes(key, order[n], order[o])
    BY <1>9, <1>13
  <2> QED
    BY <2>1, <2>2 DEF Precedes
<1>14. Chosen(f, chapters, ch, order)
  BY <1>6, <1>8, <1>9, <1>10, <1>11, <1>12, <1>13 DEF Chosen, kept, N
<1> QED
  BY <1>14

LEMMA InIdsOf ==
  \A chapters, m :
    m \in IdsOf(chapters) <=> \E i \in DOMAIN chapters : m \in ToSet(chapters[i])
BY DEF IdsOf

\* Sorting chapters loses no id and finds none.
LEMMA ChosenIds ==
  ASSUME NEW f, NEW chapters \in Seq(Seq(Nat)), NEW ch, NEW order,
         Chosen(f, chapters, ch, order)
  PROVE  IdsOf(ch) = IdsOf(chapters)
<1> DEFINE kept == {i \in DOMAIN chapters : chapters[i] # << >>}
           N == Cardinality(kept)
<1>1. /\ DOMAIN ch = 1 .. N
      /\ \A n \in 1 .. N :
           order[n] \in DOMAIN chapters /\ ToSet(ch[n]) = ToSet(chapters[order[n]])
      /\ \A i \in kept : \E n \in 1 .. N : order[n] = i
  BY DEF Chosen
<1>2. ASSUME NEW i \in DOMAIN chapters, NEW m \in ToSet(chapters[i]) PROVE i \in kept
  <2>1. chapters[i] # << >>
    <3>1. ASSUME chapters[i] = << >> PROVE FALSE
      <4>1. \E k \in DOMAIN chapters[i] : TRUE
        BY InToSet
      <4> QED
        BY <3>1, <4>1
    <3> QED
      BY <3>1
  <2> QED
    BY <2>1
<1> HIDE DEF kept, N
<1>3. ASSUME NEW m \in IdsOf(ch) PROVE m \in IdsOf(chapters)
  <2>1. PICK n \in DOMAIN ch : m \in ToSet(ch[n])
    BY InIdsOf
  <2>2. order[n] \in DOMAIN chapters /\ m \in ToSet(chapters[order[n]])
    BY <1>1, <2>1
  <2> QED
    BY <2>2, InIdsOf
<1>4. ASSUME NEW m \in IdsOf(chapters) PROVE m \in IdsOf(ch)
  <2>1. PICK i \in DOMAIN chapters : m \in ToSet(chapters[i])
    BY InIdsOf
  <2>2. PICK n \in 1 .. N : order[n] = i
    BY <1>1, <1>2, <2>1
  <2> QED
    BY <1>1, <2>1, <2>2, InIdsOf
<1> QED
  BY <1>3, <1>4

\* A resolved plan: the chosen chapters, and one for what the answer left out.
Left(f, chapters) == DOMAIN f \ IdsOf(chapters)
Resolved(f, chapters, r, ch, order) ==
  /\ Chosen(f, chapters, ch, order) /\ ValidIds(f, chapters) /\ ch # << >>
  /\ r \in Seq(Seq(Nat)) /\ ~ (Len(r) > MaxChapters)
  /\ \A n \in DOMAIN ch : r[n] = ch[n]
  /\ Len(r) = IF Left(f, chapters) = {} THEN Len(ch) ELSE Len(ch) + 1
  /\ Left(f, chapters) # {} =>
       LET last == r[Len(r)] IN
       /\ ToSet(last) = Left(f, chapters)
       /\ last # << >> /\ Distinct(last) /\ Sorted(f, last)

\* The chapter of what was left out has all of it, in the order of time.
LEMMA CatchAllIsSorted ==
  ASSUME NEW f, Dates(f), IsFiniteSet(DOMAIN f), NEW ids \in SUBSET DOMAIN f, ids # {},
         NEW c, c = CatchAll(f, ids)
  PROVE  /\ c \in Seq(Nat)
         /\ ToSet(c) = ids
         /\ c # << >> /\ Distinct(c) /\ Sorted(f, c)
<1> DEFINE N == Cardinality(ids)
<1>1. IsFiniteSet(ids) /\ ids \in SUBSET Nat /\ \A m \in ids : f[m] \in Nat
  BY FS_Subset DEF Dates
<1>2. c = SortedBy(ids, f)
  BY DEF CatchAll
<1>3. /\ N \in Nat /\ Ordered(ids, f, c)
      /\ \A n, o \in 1 .. N : c[n] = c[o] => n = o
      /\ \A m \in ids : \E n \in 1 .. N : c[n] = m
  BY <1>1, <1>2, SortedByIsOrdered
<1>4. /\ c \in [1 .. N -> ids]
      /\ \A n, o \in 1 .. N : n < o => Precedes(f, c[n], c[o])
  BY <1>3 DEF Ordered
<1> HIDE DEF N
<1>5. DOMAIN c = 1 .. N /\ \A n \in 1 .. N : c[n] \in ids
  BY <1>4
<1>6. c \in Seq(Nat)
  <2>1. c \in [1 .. N -> Nat]
    BY <1>1, <1>4
  <2> QED
    BY <1>3, <2>1
<1>7. ToSet(c) = ids
  <2>1. ASSUME NEW m \in ToSet(c) PROVE m \in ids
    BY <1>5, InToSet
  <2>2. ASSUME NEW m \in ids PROVE m \in ToSet(c)
    BY <1>3, <1>5, InToSet
  <2> QED
    BY <2>1, <2>2
<1>8. c # << >>
  <2>1. \E n \in DOMAIN c : TRUE
    BY <1>3, <1>5
  <2> QED
    BY <2>1
<1>9. Distinct(c)
  BY <1>3, <1>5 DEF Distinct
<1>10. Sorted(f, c)
  <2>1. ASSUME NEW k \in 1 .. N, NEW l \in 1 .. N, k < l PROVE f[c[k]] <= f[c[l]]
    BY <1>1, <1>4, <1>5, <2>1 DEF Precedes
  <2> QED
    BY <1>5, <2>1 DEF Sorted
<1> QED
  BY <1>6, <1>7, <1>8, <1>9, <1>10

LEMMA ResolveIsResolved ==
  ASSUME NEW f, Dates(f), IsFiniteSet(DOMAIN f), NEW chapters \in Seq(Seq(Nat)),
         ~ Rejected(f, chapters), NEW r, r = Resolve(f, chapters)
  PROVE  \E ch, order : Resolved(f, chapters, r, ch, order)
<1> DEFINE ch == Chronological(f, chapters)
           rest == Left(f, chapters)
<1>1. ValidIds(f, chapters) /\ ch # << >> /\ ~ (Len(r) > MaxChapters)
  BY DEF Rejected
<1>2. PICK order : Chosen(f, chapters, ch, order)
  BY <1>1, ChronologicalIsChosen
<1>3. Unplaced(f, ch) = rest
  <2> HIDE DEF ch
  <2> QED
    BY <1>2, ChosenIds DEF Unplaced, Left
<1>4. r = IF rest = {} THEN ch ELSE Append(ch, CatchAll(f, rest))
  BY <1>3 DEF Resolve
<1> HIDE DEF ch
<1>5. ch \in Seq(Seq(Nat)) /\ DOMAIN ch = 1 .. Len(ch)
  <2>1. ch \in Seq(Seq(DOMAIN f)) /\ DOMAIN f \subseteq Nat
    BY <1>2 DEF Chosen, Dates
  <2>2. ch \in Seq(Seq(Nat))
    <3>1. \A n \in 1 .. Len(ch) : ch[n] \in Seq(DOMAIN f)
      BY <2>1
    <3>2. ASSUME NEW n \in 1 .. Len(ch) PROVE ch[n] \in Seq(Nat)
      <4>1. ch[n] \in Seq(DOMAIN f)
        BY <3>1
      <4> QED
        BY <2>1, <4>1
    <3>3. ch \in [1 .. Len(ch) -> Seq(Nat)] /\ Len(ch) \in Nat
      BY <2>1, <3>2
    <3> QED
      BY <3>3
  <2> QED
    BY <2>2
<1>6. CASE rest = {}
  <2>1. Resolved(f, chapters, r, ch, order)
    BY <1>1, <1>2, <1>4, <1>5, <1>6 DEF Resolved
  <2> QED
    BY <2>1
<1>7. CASE rest # {}
  <2> DEFINE c == CatchAll(f, rest)
  <2>1. c \in Seq(Nat) /\ ToSet(c) = rest /\ c # << >> /\ Distinct(c) /\ Sorted(f, c)
    <3>1. rest \in SUBSET DOMAIN f
      BY DEF Left
    <3> HIDE DEF rest
    <3> QED
      BY <1>7, <3>1, CatchAllIsSorted
  <2>2. r = Append(ch, c)
    BY <1>4, <1>7
  <2> HIDE DEF c
  <2>3. /\ r \in Seq(Seq(Nat)) /\ Len(r) = Len(ch) + 1 /\ r[Len(r)] = c
        /\ \A n \in DOMAIN ch : r[n] = ch[n]
    BY <1>5, <2>1, <2>2
  <2>4. Resolved(f, chapters, r, ch, order)
    BY <1>1, <1>2, <1>7, <2>1, <2>3 DEF Resolved
  <2> QED
    BY <2>4
<1> QED
  BY <1>6, <1>7

-----------------------------------------------------------------------------
(* What a resolved plan is *)

LEMMA OnePlace ==
  ASSUME NEW chapters, PlacedOnce(chapters), NEW m
  PROVE  Cardinality(Places(chapters, m)) = IF m \in IdsOf(chapters) THEN 1 ELSE 0
<1> DEFINE places == Places(chapters, m)
<1>1. \A p \in places : p[1] \in DOMAIN chapters /\ p[2] \in DOMAIN chapters[p[1]]
                       /\ p = <<p[1], p[2]>> /\ chapters[p[1]][p[2]] = m
  BY DEF Places
<1>2. \A i \in DOMAIN chapters : \A k \in DOMAIN chapters[i] :
        chapters[i][k] = m => <<i, k>> \in places
  BY DEF Places
<1> HIDE DEF places
<1>3. CASE m \in IdsOf(chapters)
  <2>1. PICK i \in DOMAIN chapters : m \in ToSet(chapters[i])
    BY <1>3, InIdsOf
  <2>2. PICK k \in DOMAIN chapters[i] : chapters[i][k] = m
    BY <2>1, InToSet
  <2>3. ASSUME NEW p \in places PROVE p = <<i, k>>
    <3>1. /\ p[1] \in DOMAIN chapters /\ p[2] \in DOMAIN chapters[p[1]]
          /\ p = <<p[1], p[2]>> /\ chapters[p[1]][p[2]] = m
      BY <1>1
    <3>2. m \in ToSet(chapters[p[1]])
      BY <3>1, InToSet
    <3>3. p[1] = i
      BY <2>1, <3>1, <3>2 DEF PlacedOnce
    <3>4. p[2] = k
      BY <2>2, <3>1, <3>3 DEF PlacedOnce
    <3> QED
      BY <3>1, <3>3, <3>4
  <2>4. places = {<<i, k>>}
    BY <1>2, <2>2, <2>3
  <2> QED
    BY <1>3, <2>4, FS_Singleton DEF places
<1>4. CASE m \notin IdsOf(chapters)
  <2>1. ASSUME NEW p \in places PROVE FALSE
    BY <1>1, <1>4, InIdsOf, InToSet
  <2>2. places = {}
    BY <2>1
  <2> QED
    BY <1>4, <2>2, FS_EmptySet DEF places
<1> QED
  BY <1>3, <1>4

\* Every fact is in the plan, and no id twice.
LEMMA ResolvedPlaces ==
  ASSUME NEW f, NEW chapters \in Seq(Seq(Nat)), NEW r, NEW ch, NEW order,
         Resolved(f, chapters, r, ch, order)
  PROVE  PlacedOnce(r) /\ IdsOf(r) = DOMAIN f
<1> DEFINE N == Len(ch)
           left == Left(f, chapters)
<1>1. PlacedOnce(chapters) /\ IdsOf(chapters) \subseteq DOMAIN f
  BY DEF Resolved, ValidIds, SentIds
<1>2. IdsOf(ch) = IdsOf(chapters)
  BY ChosenIds DEF Resolved
<1>3. /\ N \in Nat /\ DOMAIN ch = 1 .. N
      /\ \A n \in 1 .. N :
           /\ order[n] \in DOMAIN chapters
           /\ ToSet(ch[n]) = ToSet(chapters[order[n]]) /\ Distinct(ch[n])
      /\ \A n, o \in 1 .. N : order[n] = order[o] => n = o
  BY DEF Resolved, Chosen
<1>4. /\ r \in Seq(Seq(Nat)) /\ DOMAIN r = 1 .. Len(r) /\ Len(r) \in Nat
      /\ Len(r) = IF left = {} THEN N ELSE N + 1
      /\ \A n \in 1 .. N : r[n] = ch[n]
      /\ left # {} => ToSet(r[Len(r)]) = left /\ Distinct(r[Len(r)])
  <2>1. r \in Seq(Seq(Nat)) /\ DOMAIN r = 1 .. Len(r) /\ Len(r) \in Nat
    BY DEF Resolved
  <2>2. Len(r) = IF left = {} THEN N ELSE N + 1
    BY DEF Resolved
  <2>3. \A n \in DOMAIN ch : r[n] = ch[n]
    BY DEF Resolved
  <2>4. left # {} => ToSet(r[Len(r)]) = left /\ Distinct(r[Len(r)])
    BY DEF Resolved
  <2> HIDE DEF N, left
  <2> QED
    BY <1>3, <2>1, <2>2, <2>3, <2>4
<1>5. left \cap IdsOf(ch) = {} /\ left \cup IdsOf(ch) = DOMAIN f
  BY <1>1, <1>2 DEF Left
<1> HIDE DEF N, left
<1>6. ASSUME NEW i \in DOMAIN r
      PROVE  i \in 1 .. N \/ (left # {} /\ i = N + 1 /\ i = Len(r))
  BY <1>3, <1>4
<1>7. IdsOf(r) = DOMAIN f
  <2>1. ASSUME NEW m \in IdsOf(r) PROVE m \in DOMAIN f
    <3>1. PICK i \in DOMAIN r : m \in ToSet(r[i])
      BY InIdsOf
    <3>2. CASE i \in 1 .. N
      <4>1. m \in IdsOf(ch)
        BY <1>3, <1>4, <3>1, <3>2, InIdsOf
      <4> QED
        BY <1>5, <4>1
    <3>3. CASE left # {} /\ i = Len(r)
      BY <1>4, <1>5, <3>1, <3>3
    <3> QED
      BY <1>6, <3>2, <3>3
  <2>2. ASSUME NEW m \in DOMAIN f PROVE m \in IdsOf(r)
    <3>1. CASE m \in IdsOf(ch)
      <4>1. PICK i \in DOMAIN ch : m \in ToSet(ch[i])
        BY <3>1, InIdsOf
      <4>2. i \in 1 .. N
        BY <1>3, <4>1
      <4>3. i \in DOMAIN r
        <5>1. N \in Nat
          BY <1>3
        <5>2. Len(r) = N \/ Len(r) = N + 1
          BY <1>4
        <5>3. ASSUME NEW L, L = N \/ L = N + 1 PROVE 1 .. N \subseteq 1 .. L
          BY <5>1, <5>3
        <5>4. 1 .. N \subseteq 1 .. Len(r)
          BY <5>2, <5>3
        <5>5. 1 .. N \subseteq DOMAIN r
          BY <1>4, <5>4
        <5> QED
          BY <4>2, <5>5
      <4>4. r[i] = ch[i]
        BY <1>4, <4>2
      <4> QED
        BY <4>1, <4>3, <4>4, InIdsOf
    <3>2. CASE m \in left
      <4>1. Len(r) \in DOMAIN r /\ m \in ToSet(r[Len(r)])
        BY <1>3, <1>4, <3>2
      <4> QED
        BY <4>1, InIdsOf
    <3> QED
      BY <1>5, <3>1, <3>2
  <2> QED
    BY <2>1, <2>2
<1>8. \A i \in DOMAIN r : Distinct(r[i])
  <2>1. ASSUME NEW i \in DOMAIN r PROVE Distinct(r[i])
    <3>1. CASE i \in 1 .. N
      <4>1. r[i] = ch[i] /\ Distinct(ch[i])
        BY <1>3, <1>4, <3>1
      <4> QED
        BY <4>1
    <3>2. CASE left # {} /\ i = Len(r)
      BY <1>4, <3>2
    <3> QED
      BY <1>6, <3>1, <3>2
  <2> QED
    BY <2>1
<1>9. ASSUME NEW i \in DOMAIN r, NEW k \in DOMAIN r, NEW m \in ToSet(r[i]), m \in ToSet(r[k])
      PROVE  i = k
  <2>1. ASSUME NEW n \in 1 .. N, m \in ToSet(r[n]) PROVE m \notin left
    <3>1. m \in IdsOf(ch)
      BY <1>3, <1>4, <2>1, InIdsOf
    <3> QED
      BY <1>5, <3>1
  <2>2. CASE i \in 1 .. N /\ k \in 1 .. N
    <3>1. /\ m \in ToSet(chapters[order[i]]) /\ m \in ToSet(chapters[order[k]])
          /\ order[i] \in DOMAIN chapters /\ order[k] \in DOMAIN chapters
      BY <1>3, <1>4, <1>9, <2>2
    <3>2. order[i] = order[k]
      BY <1>1, <3>1 DEF PlacedOnce
    <3> QED
      BY <1>3, <2>2, <3>2
  <2>3. CASE i \notin 1 .. N \/ k \notin 1 .. N
    BY <1>4, <1>6, <1>9, <2>1, <2>3
  <2> QED
    BY <2>2, <2>3
<1>10. PlacedOnce(r)
  <2>1. \A i, k \in DOMAIN r : ToSet(r[i]) \cap ToSet(r[k]) # {} => i = k
    BY <1>9
  <2> QED
    BY <1>8, <2>1 DEF PlacedOnce, Distinct
<1> QED
  BY <1>7, <1>10

-----------------------------------------------------------------------------
(* The pipeline *)

PipelineInv ==
  /\ stage \in {"read", "organize", "resolve", "resolved", "rejected"}
  /\ answered \in 0 .. Chunks
  /\ facts \in [DOMAIN facts -> 1 .. Undated] /\ DOMAIN facts \subseteq Id
  /\ stage \in {"organize", "resolve"} => DOMAIN facts # {}
  /\ proposal \in Seq(Seq(Id)) /\ Len(proposal) < MaxChapters
  /\ IF stage = "resolved"
       THEN ~ Rejected(facts, proposal) /\ plan = Resolve(facts, proposal)
       ELSE plan = << >>

LEMMA PipelineInit == ASSUME PlanInit PROVE PipelineInv
<1>1. << >> \in Seq(Seq(Id)) /\ Len(<< >>) = 0
  BY EmptySeq
<1>2. DOMAIN << >> = {} /\ << >> \in [{} -> 1 .. Undated]
  OBVIOUS
<1> QED
  BY <1>1, <1>2, IdAssumption, BoundAssumption DEF PipelineInv, PlanInit

LEMMA PipelineStep == ASSUME PipelineInv, [PlanNext]_planVars PROVE PipelineInv'
<1>1. CASE ReadChunk
  <2>1. ASSUME NEW answer \in Answers,
               facts' = [m \in DOMAIN answer \cup DOMAIN facts |->
                           IF m \in DOMAIN answer THEN answer[m] ELSE facts[m]]
        PROVE  (/\ facts \in [DOMAIN facts -> 1 .. Undated]
                /\ DOMAIN facts \subseteq Id)'
    <3>1. PICK ids \in SUBSET Id : answer \in [ids -> 1 .. Undated]
      BY DEF Answers, Id, Undated
    <3> QED
      BY <2>1, <3>1 DEF PipelineInv
  <2>2. (/\ facts \in [DOMAIN facts -> 1 .. Undated]
         /\ DOMAIN facts \subseteq Id)'
    BY <1>1, <2>1 DEF ReadChunk, PipelineInv
  <2> QED
    BY <1>1, <2>2, BoundAssumption DEF ReadChunk, PipelineInv
<1>2. CASE EndReader
  <2>1. facts # << >> => DOMAIN facts # {}
    <3>1. ASSUME DOMAIN facts = {} PROVE facts = << >>
      <4>1. facts = [m \in DOMAIN facts |-> facts[m]]
        BY DEF PipelineInv
      <4>2. << >> = [m \in DOMAIN << >> |-> << >>[m]] /\ DOMAIN << >> = {}
        OBVIOUS
      <4> QED
        BY <3>1, <4>1, <4>2
    <3> QED
      BY <3>1
  <2> QED
    BY <1>2, <2>1 DEF EndReader, NothingRead, PipelineInv
<1>3. CASE Organize
  <2>1. ASSUME NEW n \in 1 .. MaxOrganized, proposal' \in [1 .. n -> ChapterProposal]
        PROVE  (proposal \in Seq(Seq(Id)) /\ Len(proposal) < MaxChapters)'
    <3>1. ChapterProposal \subseteq Seq(Id)
      BY BoundAssumption DEF ChapterProposal, BoundedSeq, SeqOf, Id
    <3>2. n \in Nat /\ n < MaxChapters
      BY BoundAssumption DEF MaxOrganized
    <3> QED
      BY <2>1, <3>1, <3>2
  <2> QED
    BY <1>3, <2>1 DEF Organize, PipelineInv
<1>4. CASE Resolver
  BY <1>4 DEF Resolver, PipelineInv
<1>5. CASE UNCHANGED planVars
  BY <1>5 DEF planVars, PipelineInv
<1> QED
  BY <1>1, <1>2, <1>3, <1>4, <1>5 DEF PlanNext

LEMMA FactsAreDates ==
  ASSUME PipelineInv
  PROVE  /\ Dates(facts) /\ IsFiniteSet(DOMAIN facts)
         /\ proposal \in Seq(Seq(Nat))
<1>1. Dates(facts) /\ IsFiniteSet(DOMAIN facts)
  <2>1. DOMAIN facts \in SUBSET Id
    BY DEF PipelineInv
  <2>2. IsFiniteSet(DOMAIN facts)
    BY <2>1, IdAssumption, FS_Subset DEF Id
  <2> QED
    BY <2>2, IdAssumption, BoundAssumption DEF PipelineInv, Id, Undated, Dates
<1>2. proposal \in Seq(Seq(Nat))
  BY IdAssumption DEF PipelineInv, Id
<1> QED
  BY <1>1, <1>2

LEMMA PlanIsResolved ==
  ASSUME PipelineInv, stage = "resolved"
  PROVE  /\ proposal \in Seq(Seq(Nat))
         /\ \E ch, order : Resolved(facts, proposal, plan, ch, order)
BY FactsAreDates, ResolveIsResolved DEF PipelineInv

-----------------------------------------------------------------------------
(* What follows for a plan *)

LEMMA FactsOnce == ASSUME PipelineInv PROVE EveryFactOnce
<1> SUFFICES ASSUME stage = "resolved", NEW m \in Id
             PROVE  Cardinality(Places(plan, m)) = IF m \in DOMAIN facts THEN 1 ELSE 0
  BY DEF EveryFactOnce, IsPlan
<1>1. PICK ch, order : Resolved(facts, proposal, plan, ch, order)
  BY PlanIsResolved
<1>2. PlacedOnce(plan) /\ IdsOf(plan) = DOMAIN facts
  BY <1>1, PlanIsResolved, ResolvedPlaces
<1> QED
  BY <1>2, OnePlace

\* The chapters of a plan: the chosen ones, then what the answer left out.
LEMMA PlanChapters ==
  ASSUME NEW f, NEW chapters, NEW r, NEW ch, NEW order, Resolved(f, chapters, r, ch, order)
  PROVE  LET N == Len(ch)
             left == Left(f, chapters)
         IN  /\ N \in Nat /\ N > 0 /\ DOMAIN ch = 1 .. N
             /\ DOMAIN r = 1 .. Len(r) /\ Len(r) \in Nat /\ ~ (Len(r) > MaxChapters)
             /\ left = {} => Len(r) = N
             /\ left # {} => Len(r) = N + 1
             /\ \A n \in 1 .. N : r[n] = ch[n]
<1>1. /\ ch \in Seq(Seq(DOMAIN f)) /\ ch # << >> /\ r \in Seq(Seq(Nat))
      /\ \A n \in DOMAIN ch : r[n] = ch[n]
      /\ ~ (Len(r) > MaxChapters)
  BY DEF Resolved, Chosen
<1>2. Len(r) = IF Left(f, chapters) = {} THEN Len(ch) ELSE Len(ch) + 1
  BY DEF Resolved
<1>3. DOMAIN ch = 1 .. Len(ch) /\ Len(ch) \in Nat /\ Len(ch) > 0
  BY <1>1, EmptySeq
<1>4. DOMAIN r = 1 .. Len(r) /\ Len(r) \in Nat
  BY <1>1
<1>5. \A n \in 1 .. Len(ch) : r[n] = ch[n]
  BY <1>1, <1>3
<1>6. /\ Left(f, chapters) = {} => Len(r) = Len(ch)
      /\ Left(f, chapters) # {} => Len(r) = Len(ch) + 1
  BY <1>2
<1> QED
  BY <1>1, <1>3, <1>4, <1>5, <1>6, Zenon

LEMMA InOrder == ASSUME PipelineInv PROVE BookInOrder
<1> SUFFICES ASSUME stage = "resolved" PROVE BookInOrder
  BY DEF BookInOrder, IsPlan
<1>1. PICK ch, order : Resolved(facts, proposal, plan, ch, order)
  BY PlanIsResolved
<1> DEFINE N == Len(ch)
           left == Left(facts, proposal)
<1>2. /\ N \in Nat /\ DOMAIN plan = 1 .. Len(plan) /\ Len(plan) \in Nat
      /\ left = {} => Len(plan) = N
      /\ left # {} => Len(plan) = N + 1
      /\ \A n \in 1 .. N : plan[n] = ch[n]
  BY <1>1, PlanChapters
<1>3. \A n \in 1 .. N : ch[n] # << >> /\ Sorted(facts, ch[n])
  BY <1>1 DEF Resolved, Chosen
<1>4. \A n, o \in 1 .. N : n < o => facts[ch[n][1]] <= facts[ch[o][1]]
  BY <1>1 DEF Resolved, Chosen
<1>5. left # {} => /\ ToSet(plan[Len(plan)]) = left
                   /\ plan[Len(plan)] # << >> /\ Sorted(facts, plan[Len(plan)])
  BY <1>1 DEF Resolved
<1> HIDE DEF N
<1>6. left = DOMAIN facts \ IdsOf(proposal)
  BY DEF Left
<1> HIDE DEF left
<1>7. ASSUME NEW i \in DOMAIN plan PROVE plan[i] # << >> /\ InTime(plan[i])
  <2>1. plan[i] # << >> /\ Sorted(facts, plan[i])
    <3>1. CASE i \in 1 .. N
      BY <1>2, <1>3, <3>1
    <3>2. CASE i \notin 1 .. N
      <4>1. i \in 1 .. Len(plan)
        BY <1>2
      <4>2. left # {}
        BY <1>2, <3>2, <4>1
      <4>3. Len(plan) = N + 1
        BY <1>2, <4>2
      <4>4. i = Len(plan)
        BY <1>2, <3>2, <4>1, <4>3
      <4> QED
        BY <1>5, <4>2, <4>4
    <3> QED
      BY <3>1, <3>2
  <2> QED
    BY <2>1 DEF InTime, Sorted
<1>8. (IF left = {} THEN DOMAIN plan ELSE 1 .. Len(plan) - 1) = 1 .. N
  <2>1. CASE left = {}
    BY <1>2, <2>1
  <2>2. CASE left # {}
    <3>1. N \in Nat /\ Len(plan) = N + 1
      BY <1>2, <2>2, Zenon
    <3>2. Len(plan) - 1 = N
      BY <3>1
    <3> QED
      BY <2>2, <3>2
  <2> QED
    BY <2>1, <2>2
<1>9. \A i, k \in 1 .. N : i < k => facts[plan[i][1]] <= facts[plan[k][1]]
  BY <1>2, <1>4
<1> QED
  BY <1>5, <1>6, <1>7, <1>8, <1>9 DEF BookInOrder

LEMMA ChaptersKept ==
  ASSUME PipelineInv, stage = "resolved"
  PROVE  {ToSet(proposal[i]) : i \in DOMAIN proposal} \ {{}}
           = {ToSet(plan[i]) : i \in DOMAIN plan} \ {DOMAIN facts \ IdsOf(proposal)}
<1>1. PICK ch, order : Resolved(facts, proposal, plan, ch, order)
  BY PlanIsResolved
<1> DEFINE N == Len(ch)
           left == Left(facts, proposal)
<1>2. /\ N \in Nat /\ DOMAIN ch = 1 .. N
      /\ DOMAIN plan = 1 .. Len(plan) /\ Len(plan) \in Nat
      /\ left = {} => Len(plan) = N
      /\ left # {} => Len(plan) = N + 1
      /\ \A n \in 1 .. N : plan[n] = ch[n]
  BY <1>1, PlanChapters
<1>3. left # {} => ToSet(plan[Len(plan)]) = left
  BY <1>1 DEF Resolved
<1>4. /\ \A n \in 1 .. N :
           order[n] \in DOMAIN proposal /\ ToSet(ch[n]) = ToSet(proposal[order[n]])
           /\ ch[n] # << >> /\ ch[n] \in Seq(DOMAIN facts)
      /\ \A i \in DOMAIN proposal : proposal[i] # << >> => \E n \in 1 .. N : order[n] = i
  <2> DEFINE kept == {i \in DOMAIN proposal : proposal[i] # << >>}
  <2>1. /\ ch \in Seq(Seq(DOMAIN facts)) /\ DOMAIN ch = 1 .. Cardinality(kept)
        /\ order \in [1 .. Cardinality(kept) -> kept]
        /\ \A i \in kept : \E n \in 1 .. Cardinality(kept) : order[n] = i
        /\ \A n \in 1 .. Cardinality(kept) :
             ToSet(ch[n]) = ToSet(proposal[order[n]]) /\ ch[n] # << >>
    BY <1>1 DEF Resolved, Chosen
  <2>2. 1 .. Cardinality(kept) = 1 .. N
    BY <1>2, <2>1
  <2>3. \A n \in 1 .. N : ch[n] \in Seq(DOMAIN facts)
    <3>1. ch \in Seq(Seq(DOMAIN facts)) /\ DOMAIN ch = 1 .. N
      BY <1>2, <2>1
    <3> QED
      BY <3>1
  <2>4. \A n \in 1 .. N : order[n] \in kept
    BY <2>1, <2>2
  <2> QED
    BY <2>1, <2>2, <2>3, <2>4
<1>5. left = DOMAIN facts \ IdsOf(proposal)
  BY DEF Left
<1> HIDE DEF N, left
<1>6. ASSUME NEW n \in 1 .. N
      PROVE  n \in DOMAIN plan /\ ToSet(plan[n]) = ToSet(proposal[order[n]])
             /\ ToSet(plan[n]) # {} /\ ToSet(plan[n]) # left
  <2>1. n \in DOMAIN plan /\ ToSet(plan[n]) = ToSet(ch[n])
    <3>1. n \in 1 .. Len(plan)
      <4>1. N \in Nat /\ (Len(plan) = N \/ Len(plan) = N + 1)
        BY <1>2, Zenon
      <4> QED
        BY <4>1
    <3>2. plan[n] = ch[n]
      BY <1>2
    <3> QED
      BY <1>2, <3>1, <3>2
  <2>2. ch[n][1] \in ToSet(ch[n])
    <3>1. 1 \in DOMAIN ch[n]
      BY <1>4
    <3> QED
      BY <3>1, InToSet
  <2>3. ch[n][1] \in IdsOf(proposal)
    BY <1>4, <2>2, InIdsOf
  <2> QED
    BY <1>4, <1>5, <2>1, <2>2, <2>3
<1>7. ASSUME NEW i \in DOMAIN proposal, ToSet(proposal[i]) # {}
      PROVE  \E n \in 1 .. N : order[n] = i
  <2>1. PICK m : m \in ToSet(proposal[i])
    BY <1>7
  <2>2. proposal[i] # << >>
    <3>1. ASSUME proposal[i] = << >> PROVE FALSE
      <4>1. \E k \in DOMAIN proposal[i] : TRUE
        BY <2>1, InToSet
      <4> QED
        BY <3>1, <4>1
    <3> QED
      BY <3>1
  <2> QED
    BY <1>4, <2>2
<1>8. ASSUME NEW i \in DOMAIN plan, ToSet(plan[i]) # left PROVE i \in 1 .. N
  <2>1. i \in 1 .. Len(plan)
    BY <1>2
  <2>2. CASE left = {}
    <3>1. Len(plan) = N
      BY <1>2, <2>2
    <3> QED
      BY <2>1, <3>1
  <2>3. CASE left # {}
    <3>1. Len(plan) = N + 1 /\ i # Len(plan)
      BY <1>2, <1>3, <1>8, <2>3
    <3> QED
      BY <1>2, <2>1, <3>1
  <2> QED
    BY <2>2, <2>3
<1>9. ASSUME NEW i \in DOMAIN proposal, ToSet(proposal[i]) # {}
      PROVE  \E n \in DOMAIN plan : ToSet(plan[n]) = ToSet(proposal[i])
                                     /\ ToSet(plan[n]) # left
  BY <1>6, <1>7, <1>9
<1>10. ASSUME NEW n \in DOMAIN plan, ToSet(plan[n]) # left
       PROVE  /\ ToSet(plan[n]) # {}
              /\ \E i \in DOMAIN proposal : ToSet(proposal[i]) = ToSet(plan[n])
  BY <1>4, <1>6, <1>8, <1>10
<1> QED
  BY <1>5, <1>9, <1>10

\* With MaxChapters - 1 chapters from the organizer the catch-all has a slot.
LEMMA SlotIsLeft ==
  ASSUME PipelineInv, stage = "resolve",
         ValidIds(facts, proposal), IdsOf(proposal) # {}
  PROVE  ~ Rejected(facts, proposal)
<1> DEFINE ch == Chronological(facts, proposal)
           rest == Unplaced(facts, ch)
<1>1. Dates(facts) /\ proposal \in Seq(Seq(Nat)) /\ Len(proposal) < MaxChapters
  BY FactsAreDates DEF PipelineInv
<1>2. PICK order : Chosen(facts, proposal, ch, order)
  BY <1>1, ChronologicalIsChosen
<1>3. Resolve(facts, proposal)
        = IF rest = {} THEN ch ELSE Append(ch, CatchAll(facts, rest))
  BY DEF Resolve
<1> HIDE DEF ch, rest
<1>4. /\ ch \in Seq(Seq(DOMAIN facts)) /\ Len(ch) <= Len(proposal) /\ DOMAIN ch = 1 .. Len(ch)
      /\ Len(ch) \in Nat /\ Len(proposal) \in Nat
  BY <1>1, <1>2 DEF Chosen
<1>5. ch # << >>
  <2>1. IdsOf(ch) # {}
    BY <1>1, <1>2, ChosenIds
  <2>2. \E i \in DOMAIN ch : TRUE
    BY <2>1, InIdsOf
  <2> QED
    BY <2>2
<1>6. Len(Resolve(facts, proposal)) <= Len(ch) + 1
      /\ Len(Resolve(facts, proposal)) \in Nat
  <2> DEFINE c == CatchAll(facts, rest)
  <2>1. Len(Append(ch, c)) = Len(ch) + 1
    <3> HIDE DEF c
    <3> QED
      BY <1>4
  <2> QED
    BY <1>3, <1>4, <2>1
<1>7. ~ (Len(Resolve(facts, proposal)) > MaxChapters)
  BY <1>1, <1>4, <1>6, BoundAssumption
<1> QED
  BY <1>5, <1>7 DEF Rejected, ch

LEMMA SoundPlan == ASSUME PipelineInv PROVE PlanIsSound
<1>1. GroupsKept
  <2>1. stage = "resolved" =>
          {ToSet(proposal[i]) : i \in DOMAIN proposal} \ {{}}
            = {ToSet(plan[i]) : i \in DOMAIN plan} \ {DOMAIN facts \ IdsOf(proposal)}
    BY ChaptersKept
  <2>2. stage = "resolve" /\ ValidIds(facts, proposal) /\ IdsOf(proposal) # {}
          => ~ Rejected(facts, proposal)
    BY SlotIsLeft
  <2> QED
    BY <2>1, <2>2 DEF GroupsKept, IsPlan
<1>2. Len(plan) <= MaxChapters
  <2>1. CASE stage = "resolved"
    <3>1. PICK ch, order : Resolved(facts, proposal, plan, ch, order)
      BY <2>1, PlanIsResolved
    <3>2. Len(plan) \in Nat /\ ~ (Len(plan) > MaxChapters)
      BY <3>1, PlanChapters
    <3> QED
      BY <3>2, BoundAssumption
  <2>2. CASE stage # "resolved"
    <3>1. plan = << >> /\ Len(<< >>) = 0
      BY <2>2, EmptySeq DEF PipelineInv
    <3> QED
      BY <3>1, BoundAssumption
  <2> QED
    BY <2>1, <2>2
<1>3. ToSet(facts) \subseteq 1 .. Undated
  <2>1. ASSUME NEW x \in ToSet(facts) PROVE x \in 1 .. Undated
    <3>1. PICK m \in DOMAIN facts : facts[m] = x
      BY InToSet
    <3> QED
      BY <3>1 DEF PipelineInv, Undated
  <2> QED
    BY <2>1
<1>4. PlanTypes
  BY <1>2, <1>3 DEF PlanTypes, PipelineInv, Id
<1> QED
  BY <1>1, <1>4 DEF PlanIsSound

LEMMA PipelineInvariant == PlanSpec => []PipelineInv
<1>1. PlanInit => PipelineInv
  BY PipelineInit
<1>2. PipelineInv /\ [PlanNext]_planVars => PipelineInv'
  BY PipelineStep
<1> QED
  BY <1>1, <1>2, PTL DEF PlanSpec

\* A plan has every memory that the reader returned a fact of in one chapter, once,
\* and nothing else (resolve_plan: "Nothing is silently dropped"), for any answer of
\* either model and any limit on chapters.
THEOREM PlanHasEveryFactOnce == PlanSpec => []EveryFactOnce
<1>1. PipelineInv => EveryFactOnce
  BY FactsOnce
<1> QED
  BY <1>1, PipelineInvariant, PTL

\* A plan is in the order of time, within its chapters and from one to the next,
\* and what the organizer left out is its last chapter (resolve_plan with
\* _chronological_sort_key), whatever order the model gave.
THEOREM PlanIsInOrder == PlanSpec => []BookInOrder
<1>1. PipelineInv => BookInOrder
  BY InOrder
<1> QED
  BY <1>1, PipelineInvariant, PTL

\* A plan is within MAX_CHAPTERS and keeps the organizer's chapters; an answer within
\* MAX_ORGANIZED_CHAPTERS and with valid ids is never refused for its catch-all.
THEOREM PlanStaysSound == PlanSpec => []PlanIsSound
<1>1. PipelineInv => PlanIsSound
  BY SoundPlan
<1> QED
  BY <1>1, PipelineInvariant, PTL

=============================================================================

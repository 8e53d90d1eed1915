--------------------------- MODULE ProposalProofs ---------------------------
(***************************************************************************)
(* The inductive invariant of Proposal, and what follows from it for any   *)
(* number of proposals, saves and confirmations.                           *)
(***************************************************************************)
EXTENDS Proposal, TLAPS

\* Steps of a confirmer that no apply of its plan returned to, and its own did.
Before == {"claimed", "writing", "releasing"}
After == {"written", "recorded"}

\* A confirmer that holds a proposal knows which; nobody put that row back to
\* pending meanwhile; and its step tells whether the plan is written.
HolderKnows ==
  \A c \in Confirmer :
    /\ confPc[c] \in Holding \cup {"recorded"} => held[c] \in Proposal
    /\ confPc[c] \in Holding =>
         status[held[c]] \in {"applying", "superseded", "expired"}
    /\ confPc[c] \in Before => written[held[c]] = unheard[held[c]]
    /\ confPc[c] \in After => written[held[c]] = unheard[held[c]] + 1

\* The row of a plan of which an apply returned is past pending.  Nothing is
\* counted as raised that is not counted as written.
WrittenIsPast ==
  \A p \in Proposal :
    /\ unheard[p] <= written[p]
    /\ written[p] > unheard[p] => status[p] \notin {"absent", "pending"}

\* Nobody inserted an absent row, and a save that is not over inserted none.
AuthorsAreDone ==
  /\ \A p \in Proposal : status[p] = "absent" => author[p] = None
  /\ \A s \in Saver, p \in Proposal :
       savePc[s] \in {"idle", "supersede", "insert"} => author[p] # s

\* Since its supersede, what is live was inserted by somebody else.
RivalsOnly ==
  \A s \in Saver, p \in Proposal :
    savePc[s] = "insert" /\ status[p] \in Live => author[p] \in Saver \ {s}

IInv ==
  /\ TypeOK
  /\ HolderKnows
  /\ ClaimIsExclusive
  /\ WrittenOnce
  /\ AppliedWasWritten
  /\ WrittenIsPast
  /\ OnePending
  /\ AuthorsAreDone
  /\ RivalsOnly
  /\ RetryNeedsRival

-----------------------------------------------------------------------------
(* The initial states *)

LEMMA InitIInv == Init => IInv
<1> SUFFICES ASSUME Init PROVE IInv
  OBVIOUS
<1> USE DEF Init
<1>1. TypeOK
  BY DEF TypeOK, Status, Live, SavePc, ConfPc
<1>2. HolderKnows /\ ClaimIsExclusive
  BY DEF HolderKnows, ClaimIsExclusive, Holding, Before, After
<1>3. WrittenOnce /\ AppliedWasWritten /\ WrittenIsPast
  BY DEF WrittenOnce, AppliedWasWritten, WrittenIsPast, Live
<1>4. OnePending
  BY DEF OnePending, Pending, Live
<1>5. AuthorsAreDone /\ RivalsOnly /\ RetryNeedsRival
  BY NoneIsNoSaver DEF AuthorsAreDone, RivalsOnly, RetryNeedsRival
<1> QED
  BY <1>1, <1>2, <1>3, <1>4, <1>5 DEF IInv

-----------------------------------------------------------------------------
(* Every step keeps the types: what is written and audited is a proposal,  *)
(* because a confirmer that gets there holds one.                          *)

LEMMA TypeStep ==
  ASSUME TypeOK, HolderKnows, [Next]_vars
  PROVE  TypeOK'
<1> USE DEF TypeOK, Status, Live, SavePc, ConfPc, saverVars, confirmVars
<1>1. ASSUME NEW s \in Saver, SaverStep(s) PROVE TypeOK'
  <2>1. CASE CallSave(s)       BY <2>1 DEF CallSave
  <2>2. CASE Supersede(s)      BY <2>2 DEF Supersede, Retired
  <2>3. ASSUME NEW p \in Proposal, Insert(s, p) PROVE TypeOK'
    BY <2>3 DEF Insert
  <2>4. CASE LoseInsertRace(s) BY <2>4 DEF LoseInsertRace, MaxAttempts
  <2>5. CASE SaverCrash(s)     BY <2>5 DEF SaverCrash
  <2> QED
    BY <1>1, <2>1, <2>2, <2>3, <2>4, <2>5 DEF SaverStep
<1>2. ASSUME NEW c \in Confirmer, ConfirmerStep(c) PROVE TypeOK'
  <2>1. ASSUME NEW p \in Proposal, Claim(c, p) PROVE TypeOK'
    BY <2>1 DEF Claim, SetIf
  <2>2. CASE MarkExpired(c)    BY <2>2 DEF MarkExpired, SetIf, Retired
  <2>3. CASE StartWriting(c)   BY <2>3 DEF StartWriting
  <2>4. CASE ApplyFails(c)     BY <2>4 DEF ApplyFails, AfterFailedApply
  <2>5. CASE FinishWriting(c)
    BY <2>5 DEF FinishWriting, HolderKnows, Holding, AfterFailedApply
  <2>6. CASE Release(c)        BY <2>6 DEF Release, SetIf
  <2>7. CASE MarkApplied(c)
    BY <2>7 DEF MarkApplied, SetIf, Retired, AfterFailedMark
  <2>8. CASE RecordAction(c)
    BY <2>8 DEF RecordAction, HolderKnows
  <2>9. CASE ConfirmerCrash(c) BY <2>9 DEF ConfirmerCrash
  <2> QED
    BY <1>2, <2>1, <2>2, <2>3, <2>4, <2>5, <2>6, <2>7, <2>8, <2>9
    DEF ConfirmerStep
<1>3. ASSUME NEW p \in Proposal, Age(p) PROVE TypeOK'
  BY <1>3 DEF Age
<1>4. CASE UNCHANGED vars
  BY <1>4 DEF vars
<1> QED
  BY <1>1, <1>2, <1>3, <1>4 DEF Next

-----------------------------------------------------------------------------
(* One lemma for each other part of the invariant.  Its last case is every  *)
(* action that leaves the variables of that part alone.                     *)

LEMMA HolderStep ==
  ASSUME TypeOK, HolderKnows, ClaimIsExclusive, WrittenOnce, WrittenIsPast,
         [Next]_vars
  PROVE  HolderKnows'
<1> USE DEF TypeOK, HolderKnows, Holding, Before, After, saverVars, confirmVars
<1>1. ASSUME NEW s \in Saver, SaverStep(s) PROVE HolderKnows'
  <2>1. CASE Supersede(s)
    BY <2>1 DEF Supersede, Supersedable, Live
  <2>2. ASSUME NEW p \in Proposal, Insert(s, p) PROVE HolderKnows'
    BY <2>2 DEF Insert
  <2>3. CASE UNCHANGED <<status, confirmVars>>
    BY <2>3
  <2> QED
    BY <1>1, <2>1, <2>2, <2>3
    DEF SaverStep, CallSave, LoseInsertRace, SaverCrash
<1>2. ASSUME NEW c \in Confirmer, ConfirmerStep(c) PROVE HolderKnows'
  <2>1. ASSUME NEW p \in Proposal, Claim(c, p) PROVE HolderKnows'
    <3>1. status[p] = "pending" => written[p] = unheard[p]
      BY DEF WrittenIsPast
    <3>2. confPc'[c] \in Holding \cup {"recorded"} =>
             confPc'[c] = "claimed" /\ status'[p] = "applying"
      BY <2>1 DEF Claim, SetIf, Claimable, Wrote, Answered
    <3>3. \A d \in Confirmer \ {c} :
            /\ confPc'[d] = confPc[d] /\ held'[d] = held[d]
            /\ confPc[d] \in Holding => status'[held[d]] = status[held[d]]
      BY <2>1 DEF Claim, SetIf, Claimable
    <3>4. held'[c] = p /\ UNCHANGED <<written, unheard>>
      BY <2>1 DEF Claim
    <3>5. confPc'[c] = "claimed" => status[p] = "pending"
      BY <2>1 DEF Claim, Claimable
    <3> QED
      BY <3>1, <3>2, <3>3, <3>4, <3>5
  <2>2. CASE MarkExpired(c)
    BY <2>2 DEF MarkExpired, SetIf
  <2>3. CASE FinishWriting(c)
    BY <2>3 DEF FinishWriting, ClaimIsExclusive, AfterFailedApply
  <2>4. CASE Release(c)
    BY <2>4 DEF Release, SetIf, Releasable, ClaimIsExclusive
  <2>5. CASE MarkApplied(c)
    BY <2>5 DEF MarkApplied, SetIf, Recordable, AfterFailedMark, ClaimIsExclusive
  <2>6. CASE StartWriting(c) \/ ApplyFails(c)
    BY <2>6 DEF StartWriting, ApplyFails, AfterFailedApply
  <2>7. CASE RecordAction(c) \/ ConfirmerCrash(c)
    BY <2>7 DEF RecordAction, ConfirmerCrash
  <2> QED
    BY <1>2, <2>1, <2>2, <2>3, <2>4, <2>5, <2>6, <2>7 DEF ConfirmerStep
<1>3. CASE UNCHANGED <<status, confirmVars>>
  BY <1>3
<1> QED
  BY <1>1, <1>2, <1>3 DEF Next, Age, vars

\* Only a pending row can be claimed, and no holder's row is pending.
LEMMA ExclusiveStep ==
  ASSUME TypeOK, HolderKnows, ClaimIsExclusive, [Next]_vars
  PROVE  ClaimIsExclusive'
<1> USE DEF TypeOK, ClaimIsExclusive, Holding, saverVars, confirmVars
<1>1. ASSUME NEW c \in Confirmer, NEW p \in Proposal, Claim(c, p)
      PROVE  ClaimIsExclusive'
  <2>1. ASSUME confPc'[c] \in Holding, NEW d \in Confirmer, confPc[d] \in Holding
        PROVE  held[d] # p
    BY <1>1, <2>1 DEF Claim, Claimable, HolderKnows
  <2> QED
    BY <1>1, <2>1 DEF Claim
<1>2. ASSUME NEW c \in Confirmer, UNCHANGED held,
             confPc' = [confPc EXCEPT ![c] = confPc'[c]],
             confPc'[c] \in Holding => confPc[c] \in Holding
      PROVE  ClaimIsExclusive'
  BY <1>2
<1>3. ASSUME NEW c \in Confirmer, ConfirmerStep(c) PROVE ClaimIsExclusive'
  <2>1. CASE MarkExpired(c) \/ StartWriting(c) \/ ApplyFails(c)
    BY <1>2, <2>1 DEF MarkExpired, StartWriting, ApplyFails, AfterFailedApply
  <2>2. CASE FinishWriting(c) \/ Release(c) \/ MarkApplied(c)
    BY <1>2, <2>2
    DEF FinishWriting, Release, MarkApplied, AfterFailedApply, AfterFailedMark
  <2>3. CASE RecordAction(c) \/ ConfirmerCrash(c)
    BY <1>2, <2>3 DEF RecordAction, ConfirmerCrash
  <2> QED
    BY <1>1, <1>3, <2>1, <2>2, <2>3 DEF ConfirmerStep
<1>4. CASE UNCHANGED confirmVars
  BY <1>4
<1> QED
  BY <1>3, <1>4
  DEF Next, SaverStep, CallSave, Supersede, Insert, LoseInsertRace, SaverCrash,
      Age, vars

\* Writing starts from a plan that is not written, and no status leads back.
LEMMA WrittenStep ==
  ASSUME TypeOK, HolderKnows, WrittenOnce, AppliedWasWritten, WrittenIsPast,
         [Next]_vars
  PROVE  WrittenOnce' /\ AppliedWasWritten' /\ WrittenIsPast'
<1> DEFINE Goal == WrittenOnce /\ AppliedWasWritten /\ WrittenIsPast
<1> USE DEF TypeOK, HolderKnows, WrittenOnce, AppliedWasWritten, WrittenIsPast,
            saverVars, confirmVars
<1>1. ASSUME NEW s \in Saver, SaverStep(s) PROVE Goal'
  <2>1. CASE Supersede(s)
    BY <2>1 DEF Supersede, Supersedable, Live
  <2>2. ASSUME NEW p \in Proposal, Insert(s, p) PROVE Goal'
    BY <2>2 DEF Insert
  <2>3. CASE UNCHANGED <<status, confirmVars>>
    BY <2>3
  <2> QED
    BY <1>1, <2>1, <2>2, <2>3
    DEF SaverStep, CallSave, LoseInsertRace, SaverCrash
<1>2. ASSUME NEW c \in Confirmer, ConfirmerStep(c) PROVE Goal'
  <2>1. ASSUME NEW p \in Proposal, Claim(c, p) PROVE Goal'
    BY <2>1 DEF Claim, SetIf, Claimable
  <2>2. CASE MarkExpired(c)
    BY <2>2 DEF MarkExpired, SetIf, Holding, Before
  <2>3. CASE FinishWriting(c)
    BY <2>3 DEF FinishWriting, Holding, Before
  <2>4. CASE Release(c)
    BY <2>4 DEF Release, SetIf, Releasable, Holding, Before
  <2>5. CASE MarkApplied(c)
    BY <2>5 DEF MarkApplied, SetIf, Recordable, Holding, After
  <2>6. CASE RecordAction(c)
    BY <2>6 DEF RecordAction, After
  <2>7. CASE UNCHANGED <<status, written, unheard, audited>>
    BY <2>7
  <2> QED
    BY <1>2, <2>1, <2>2, <2>3, <2>4, <2>5, <2>6, <2>7
    DEF ConfirmerStep, StartWriting, ApplyFails, ConfirmerCrash
<1>3. CASE UNCHANGED <<status, confirmVars>>
  BY <1>3
<1> QED
  BY <1>1, <1>2, <1>3 DEF Next, Age, vars

\* A row becomes pending only where the unique index finds the slot free.
LEMMA PendingStep ==
  ASSUME TypeOK, OnePending, [Next]_vars
  PROVE  OnePending'
<1> USE DEF TypeOK, OnePending, Pending
<1>1. ASSUME NEW s \in Saver, NEW p \in Proposal, Insert(s, p)
      PROVE  OnePending'
  BY <1>1 DEF Insert, SlotFree
<1>2. ASSUME NEW c \in Confirmer, Release(c) PROVE OnePending'
  BY <1>2 DEF Release, SetIf, SlotFree
<1>3. ASSUME Pending' \subseteq Pending PROVE OnePending'
  BY <1>3
<1>4. ASSUME NEW s \in Saver, Supersede(s) PROVE OnePending'
  BY <1>3, <1>4 DEF Supersede
<1>5. ASSUME NEW c \in Confirmer, NEW p \in Proposal, Claim(c, p)
      PROVE  OnePending'
  BY <1>3, <1>5 DEF Claim, SetIf
<1>6. ASSUME NEW c \in Confirmer, MarkExpired(c) \/ MarkApplied(c)
      PROVE  OnePending'
  BY <1>3, <1>6 DEF MarkExpired, MarkApplied, SetIf
<1>7. CASE UNCHANGED status
  BY <1>7
<1> QED
  BY <1>1, <1>2, <1>4, <1>5, <1>6, <1>7
  DEF Next, SaverStep, CallSave, LoseInsertRace, SaverCrash, ConfirmerStep,
      StartWriting, ApplyFails, FinishWriting, RecordAction, ConfirmerCrash,
      Age, vars

\* What a confirmer does to a row: it stays inserted, and only what was live
\* is live afterwards.
LEMMA ConfirmerKeepsLife ==
  ASSUME TypeOK, HolderKnows, NEW c \in Confirmer, ConfirmerStep(c)
  PROVE  /\ UNCHANGED saverVars
         /\ \A p \in Proposal :
              /\ status'[p] = "absent" <=> status[p] = "absent"
              /\ status'[p] \in Live => status[p] \in Live
<1> USE DEF TypeOK, SetIf, Live
<1> DEFINE Keeps == \A p \in Proposal :
                      /\ status'[p] = "absent" <=> status[p] = "absent"
                      /\ status'[p] \in Live => status[p] \in Live
<1>1. ASSUME NEW p \in Proposal, Claim(c, p) PROVE Keeps
  BY <1>1 DEF Claim, Claimable
<1>2. ASSUME MarkExpired(c) PROVE Keeps
  BY <1>2 DEF MarkExpired, HolderKnows, Holding
<1>3. ASSUME Release(c) PROVE Keeps
  BY <1>3 DEF Release, Releasable
<1>4. ASSUME MarkApplied(c) PROVE Keeps
  BY <1>4 DEF MarkApplied, Recordable
<1>5. ASSUME UNCHANGED status PROVE Keeps
  BY <1>5
<1>6. UNCHANGED saverVars
  BY DEF ConfirmerStep, Claim, MarkExpired, StartWriting, ApplyFails,
         FinishWriting, Release, MarkApplied, RecordAction, ConfirmerCrash,
         saverVars
<1> QED
  BY <1>1, <1>2, <1>3, <1>4, <1>5, <1>6
  DEF ConfirmerStep, StartWriting, ApplyFails, FinishWriting, RecordAction,
      ConfirmerCrash

\* Between its supersede and its insert a save sees only rows of its rivals
\* come to life.
LEMMA RivalStep ==
  ASSUME TypeOK, HolderKnows, AuthorsAreDone, RivalsOnly, RetryNeedsRival,
         [Next]_vars
  PROVE  AuthorsAreDone' /\ RivalsOnly' /\ RetryNeedsRival'
<1> DEFINE Goal == AuthorsAreDone /\ RivalsOnly /\ RetryNeedsRival
<1> USE NoneIsNoSaver
    DEF TypeOK, AuthorsAreDone, RivalsOnly, RetryNeedsRival, saverVars
<1>1. ASSUME NEW s \in Saver, SaverStep(s) PROVE Goal'
  <2>1. CASE CallSave(s)
    BY <2>1 DEF CallSave
  <2>2. CASE Supersede(s)
    BY <2>2 DEF Supersede, Supersedable, Live, Wrote, Answered
  <2>3. ASSUME NEW p \in Proposal, Insert(s, p) PROVE Goal'
    <3>1. AuthorsAreDone'
      BY <2>3 DEF Insert
    <3>2. RivalsOnly'
      BY <2>3 DEF Insert, Live
    <3>3. RetryNeedsRival'
      <4>1. \A q \in Proposal : author[q] # None => author'[q] = author[q]
        BY <2>3 DEF Insert
      <4> QED
        BY <2>3, <4>1 DEF Insert
    <3> QED
      BY <3>1, <3>2, <3>3
  <2>4. CASE LoseInsertRace(s)
    BY <2>4 DEF LoseInsertRace, MaxAttempts, Pending, Live
  <2>5. CASE SaverCrash(s)
    BY <2>5 DEF SaverCrash
  <2> QED
    BY <1>1, <2>1, <2>2, <2>3, <2>4, <2>5 DEF SaverStep
<1>2. ASSUME NEW c \in Confirmer, ConfirmerStep(c) PROVE Goal'
  BY <1>2, ConfirmerKeepsLife
<1>3. CASE UNCHANGED <<status, saverVars>>
  BY <1>3
<1> QED
  BY <1>1, <1>2, <1>3 DEF Next, Age, vars

-----------------------------------------------------------------------------
(* The invariant, for any number of proposals, saves and confirmations *)

THEOREM Invariance == Spec => []IInv
<1>1. IInv /\ [Next]_vars => IInv'
  BY TypeStep, HolderStep, ExclusiveStep, WrittenStep, PendingStep, RivalStep
  DEF IInv
<1> QED
  BY InitIInv, <1>1, PTL DEF Spec

-----------------------------------------------------------------------------
(* The theorems *)

\* Every variable has its type, whatever order the calls interleave in.
THEOREM TypeSafety == Spec => []TypeOK
BY Invariance, PTL DEF IInv

\* No two confirmations, of any number, own the same proposal at once.
THEOREM ClaimSafety == Spec => []ClaimIsExclusive
BY Invariance, PTL DEF IInv

\* At most one apply of a plan returns: the plan is written to its last row at
\* most once more than its applies raised after that row.
THEOREM WriteSafety == Spec => []WrittenOnce
BY Invariance, PTL DEF IInv

\* What the applied status and the audit trail say was applied was written, by
\* an apply that returned.
THEOREM RecordSafety == Spec => []AppliedWasWritten
BY Invariance, PTL DEF IInv

\* A plan of which an apply returned is never offered to the owner again.
THEOREM OfferSafety == Spec => []WrittenIsNotOffered
<1>1. IInv => WrittenIsNotOffered
  BY DEF IInv, WrittenIsPast, WrittenIsNotOffered
<1> QED
  BY Invariance, <1>1, PTL

\* The memoir never has two proposals that can be confirmed.
THEOREM PendingSafety == Spec => []OnePending
BY Invariance, PTL DEF IInv

\* Only another save's insert makes a save try again.
THEOREM RetrySafety == Spec => []RetryNeedsRival
BY Invariance, PTL DEF IInv

-----------------------------------------------------------------------------
(* Retirement is for good, and the refinement *)

\* What a step may do to a retired row.
LEMMA RetiredStep ==
  ASSUME IInv, [Next]_vars, NEW p \in Proposal, status[p] \in Retired
  PROVE  /\ status'[p] \in Retired
         /\ status[p] = "applied" => status'[p] = "applied"
<1> USE DEF IInv, TypeOK, Retired
<1>1. ASSUME NEW s \in Saver, Supersede(s)
      PROVE  status'[p] = status[p]
  BY <1>1 DEF Supersede, Supersedable, Live
<1>2. ASSUME NEW s \in Saver, NEW q \in Proposal, Insert(s, q)
      PROVE  status'[p] = status[p]
  BY <1>2 DEF Insert
<1>3. ASSUME NEW c \in Confirmer, NEW q \in Proposal, Claim(c, q)
      PROVE  status'[p] = status[p]
  BY <1>3 DEF Claim, SetIf, Claimable
<1>4. ASSUME NEW c \in Confirmer, Release(c) \/ MarkApplied(c)
      PROVE  status'[p] = status[p]
  BY <1>4 DEF Release, MarkApplied, SetIf, Releasable, Recordable
<1>5. ASSUME NEW c \in Confirmer, MarkExpired(c)
      PROVE  /\ status'[p] \in Retired
             /\ status[p] = "applied" => status'[p] = "applied"
  BY <1>5 DEF MarkExpired, SetIf, HolderKnows, Holding
<1>6. CASE UNCHANGED status
  BY <1>6
<1> QED
  BY <1>1, <1>2, <1>3, <1>4, <1>5, <1>6
  DEF Next, SaverStep, CallSave, LoseInsertRace, SaverCrash, ConfirmerStep,
      StartWriting, ApplyFails, FinishWriting, RecordAction, ConfirmerCrash,
      Age, vars

\* No late release, claim or apply brings a retired proposal back.
THEOREM RetiredSafety == Spec => RetiredForGood
<1>1. IInv /\ [Next]_vars =>
        [\A p \in Proposal :
           /\ status[p] \in Retired => status'[p] \in Retired
           /\ status[p] = "applied" => status'[p] = "applied"]_vars
  BY RetiredStep DEF Retired
<1> QED
  BY Invariance, <1>1, PTL DEF Spec, RetiredForGood

\* Each step is a move of ProposalOffer: an insert or a release that finds the
\* slot free puts a plan on offer, a claim takes it, an update to a retired
\* status closes it, and the end of an apply applies it.
LEMMA OfferStep ==
  ASSUME IInv, [Next]_vars
  PROVE  [Offer!Next]_(Offer!vars)
<1> DEFINE closed == {p \in Proposal : status[p] \in Retired}
           applied == {p \in Proposal : written[p] > unheard[p]}
<1> USE DEF IInv, TypeOK
<1>1. ASSUME NEW p \in Proposal, Pending = {}, Pending' = {p},
             p \notin closed \cup applied, UNCHANGED <<closed, applied>>
      PROVE  Offer!Next
  BY <1>1 DEF Offer!Next, Offer!Put
<1>2. ASSUME Pending' = {}, UNCHANGED <<closed, applied>>
      PROVE  Offer!Next
  BY <1>2 DEF Offer!Next, Offer!Take
<1>3. ASSUME NEW S \in SUBSET Proposal, closed' = closed \cup S,
             Pending' = Pending \ S, UNCHANGED applied
      PROVE  Offer!Next
  BY <1>3 DEF Offer!Next, Offer!Close
<1>4. ASSUME NEW p \in Proposal, p \notin Pending \cup applied,
             applied' = applied \cup {p}, UNCHANGED <<Pending, closed>>
      PROVE  Offer!Next
  BY <1>4 DEF Offer!Next, Offer!Apply
<1>5. ASSUME UNCHANGED <<status, written, unheard>> PROVE UNCHANGED Offer!vars
  BY <1>5 DEF Offer!vars, Pending
<1> HIDE DEF closed, applied
<1>6. ASSUME NEW s \in Saver, SaverStep(s) PROVE [Offer!Next]_(Offer!vars)
  <2>1. CASE Supersede(s)
    <3>1. UNCHANGED applied
      BY <2>1 DEF Supersede, confirmVars, applied
    <3>2. CASE UNCHANGED status
      BY <1>5, <2>1, <3>2 DEF Supersede, confirmVars
    <3>3. CASE status' = [p \in Proposal |-> IF status[p] \in Supersedable
                                               THEN "superseded" ELSE status[p]]
      <4> DEFINE S == {p \in Proposal : status[p] \in Live}
      <4>1. closed' = closed \cup S
        BY <3>3 DEF closed, Retired, Supersedable
      <4>2. Pending' = Pending \ S
        BY <3>3 DEF Pending, Live, Supersedable
      <4>3. S \in SUBSET Proposal
        OBVIOUS
      <4> HIDE DEF S
      <4> QED
        BY <1>3, <3>1, <4>1, <4>2, <4>3
    <3> QED
      BY <2>1, <3>2, <3>3 DEF Supersede
  <2>2. ASSUME NEW p \in Proposal, Insert(s, p) PROVE [Offer!Next]_(Offer!vars)
    <3>1. CASE UNCHANGED status
      BY <1>5, <2>2, <3>1 DEF Insert, confirmVars
    <3>2. CASE status' = [status EXCEPT ![p] = "pending"]
      <4>1. Pending = {} /\ Pending' = {p}
        BY <2>2, <3>2 DEF Insert, SlotFree, Pending
      <4>2. p \notin closed \cup applied
        BY <2>2 DEF Insert, WrittenIsPast, closed, applied, Retired
      <4>3. UNCHANGED <<closed, applied>>
        BY <2>2, <3>2 DEF Insert, closed, applied, Retired, confirmVars
      <4> QED
        BY <1>1, <4>1, <4>2, <4>3
    <3> QED
      BY <2>2, <3>1, <3>2 DEF Insert
  <2>3. CASE CallSave(s) \/ LoseInsertRace(s) \/ SaverCrash(s)
    BY <1>5, <2>3 DEF CallSave, LoseInsertRace, SaverCrash, confirmVars
  <2> QED
    BY <1>6, <2>1, <2>2, <2>3 DEF SaverStep
<1>7. ASSUME NEW c \in Confirmer, ConfirmerStep(c)
      PROVE  [Offer!Next]_(Offer!vars)
  <2>1. ASSUME NEW p \in Proposal, Claim(c, p) PROVE [Offer!Next]_(Offer!vars)
    <3>1. CASE UNCHANGED status
      BY <1>5, <2>1, <3>1 DEF Claim
    <3>2. CASE status[p] = "pending" /\ status' = [status EXCEPT ![p] = "applying"]
      <4>1. Pending' = {}
        BY <3>2 DEF Pending, OnePending
      <4>2. UNCHANGED <<closed, applied>>
        BY <2>1, <3>2 DEF Claim, closed, applied, Retired
      <4> QED
        BY <1>2, <4>1, <4>2
    <3> QED
      BY <2>1, <3>1, <3>2 DEF Claim, SetIf, Claimable
  <2>2. ASSUME NEW st \in {"expired", "applied"},
               held[c] \in Proposal, held[c] \notin Pending,
               status' = [status EXCEPT ![held[c]] = st],
               UNCHANGED <<written, unheard>>
        PROVE  Offer!Next
    <3>1. closed' = closed \cup {held[c]}
      BY <2>2 DEF closed, Retired
    <3>2. Pending' = Pending \ {held[c]}
      BY <2>2 DEF Pending
    <3>3. UNCHANGED applied
      BY <2>2 DEF applied
    <3>4. {held[c]} \in SUBSET Proposal
      BY <2>2
    <3> QED
      BY <1>3, <3>1, <3>2, <3>3, <3>4
  <2>3. confPc[c] \in Holding => held[c] \in Proposal /\ held[c] \notin Pending
    BY DEF HolderKnows, Pending
  <2>4. CASE MarkExpired(c)
    BY <1>5, <2>2, <2>3, <2>4 DEF MarkExpired, SetIf, Holding
  <2>5. CASE MarkApplied(c)
    BY <1>5, <2>2, <2>3, <2>5 DEF MarkApplied, SetIf, Holding
  <2>6. CASE FinishWriting(c)
    <3>1. held[c] \in Proposal /\ held[c] \notin Pending \cup applied
      BY <2>3, <2>6 DEF FinishWriting, Holding, HolderKnows, Before, applied
    <3>2. UNCHANGED <<Pending, closed>>
      BY <2>6 DEF FinishWriting, Pending, closed
    <3>3. CASE UNCHANGED unheard
      <4>1. applied' = applied \cup {held[c]}
        BY <2>6, <3>1, <3>3 DEF FinishWriting, HolderKnows, Before, applied
      <4> QED
        BY <1>4, <3>1, <3>2, <4>1
    <3>4. CASE unheard' = [unheard EXCEPT ![held[c]] = @ + 1]
      <4>1. UNCHANGED applied
        BY <2>6, <3>1, <3>4 DEF FinishWriting, applied
      <4> QED
        BY <3>2, <4>1 DEF Offer!vars, closed, applied
    <3> QED
      BY <2>6, <3>3, <3>4 DEF FinishWriting
  <2>7. CASE Release(c)
    <3>1. CASE UNCHANGED status
      BY <1>5, <2>7, <3>1 DEF Release
    <3>2. CASE /\ Releasable(held[c]) /\ SlotFree(held[c])
               /\ status' = [status EXCEPT ![held[c]] = "pending"]
      <4>1. held[c] \in Proposal /\ written[held[c]] = unheard[held[c]]
        BY <2>7 DEF Release, HolderKnows, Holding, Before
      <4>2. Pending = {} /\ Pending' = {held[c]}
        BY <3>2, <4>1 DEF Releasable, SlotFree, Pending
      <4>3. held[c] \notin closed \cup applied
        BY <3>2, <4>1 DEF Releasable, closed, applied, Retired
      <4>4. UNCHANGED <<closed, applied>>
        BY <2>7, <3>2, <4>1 DEF Release, Releasable, closed, applied, Retired
      <4> QED
        BY <1>1, <4>1, <4>2, <4>3, <4>4
    <3> QED
      BY <2>7, <3>1, <3>2 DEF Release, SetIf
  <2>8. CASE \/ StartWriting(c) \/ ApplyFails(c) \/ RecordAction(c)
             \/ ConfirmerCrash(c)
    BY <1>5, <2>8 DEF StartWriting, ApplyFails, RecordAction, ConfirmerCrash
  <2> QED
    BY <1>7, <2>1, <2>4, <2>5, <2>6, <2>7, <2>8 DEF ConfirmerStep
<1>8. CASE UNCHANGED <<status, written, unheard>>
  BY <1>5, <1>8
<1> QED
  BY <1>6, <1>7, <1>8 DEF Next, Age, vars, confirmVars

\* The table keeps the promise of ProposalOffer, for any number of calls.
THEOREM OfferRefinement == Spec => OfferSpec
<1>1. Init => Offer!Init
  <2> SUFFICES ASSUME Init PROVE Offer!Init
    OBVIOUS
  <2>1. Pending = {} \/ \E p \in Proposal : Pending = {p}
    BY DEF Init, Pending, Live
  <2>2. \A p \in Proposal : status[p] \notin Retired
    BY DEF Init, Live, Retired
  <2>3. \A p \in Proposal : written[p] = 0 /\ unheard[p] = 0
    BY DEF Init
  <2> QED
    BY <2>1, <2>2, <2>3 DEF Offer!Init
<1>2. IInv /\ [Next]_vars => [Offer!Next]_(Offer!vars)
  BY OfferStep
<1> QED
  BY Invariance, <1>1, <1>2, PTL DEF Spec, OfferSpec, Offer!Spec

=============================================================================

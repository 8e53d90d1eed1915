------------------------------ MODULE Proposal ------------------------------
(***************************************************************************)
(* The table organization_proposal of one memoir, and the two kinds of     *)
(* calls that write it: save_proposal, the last step of an organize job,   *)
(* and confirm_proposal, the owner's apply request.                        *)
(*                                                                         *)
(* Every database call is one step, because every .execute() of the REST   *)
(* client is a transaction of its own.  A call has three outcomes: "ok";   *)
(* "error", it raised and wrote nothing; "lost", it wrote and then raised, *)
(* because the answer did not come back.  The API runs as several worker   *)
(* processes and organize jobs run on their threads, so calls interleave   *)
(* at every step and a process may die between any two of them.            *)
(*                                                                         *)
(* What confirm_proposal writes to chapters and memories is the subject of *)
(* ChapterApply; here it is one interval, from StartWriting to its end.    *)
(***************************************************************************)
EXTENDS Naturals

CONSTANTS
  Proposal,     \* the ids the database may give to proposals of the memoir
  Saver,        \* calls of save_proposal, each runs at most once
  Confirmer,    \* calls of confirm_proposal, each runs at most once
  None          \* no proposal; no saver

ASSUME NoneIsNoSaver == None \notin Saver

VARIABLES
  status,       \* the column status; "absent" before the row is inserted
  old,          \* the rows created more than PROPOSAL_TTL_HOURS ago
  savePc,       \* where each call of save_proposal is
  attempt,      \* its loop variable, counted from 1
  author,       \* history: the saver that inserted each row
  confPc,       \* where each call of confirm_proposal is
  held,         \* the proposal each confirmer asked for
  written,      \* history: how often each plan was written to its last row
  unheard,      \* history: how often the apply that did so raised all the same
  audited       \* the proposals organization_action_audit names

saverVars == <<savePc, attempt, author>>
confirmVars == <<confPc, held, written, unheard, audited>>
vars == <<status, old, saverVars, confirmVars>>

-----------------------------------------------------------------------------

Live == {"pending", "applying"}
Retired == {"applied", "superseded", "expired"}
Status == {"absent"} \cup Live \cup Retired

SavePc == {"idle", "supersede", "insert", "saved", "failed", "crashed"}
ConfPc == {"idle", "claimed", "writing", "releasing", "written", "recorded",
           "done", "crashed"}

\* The steps of a confirmer that won the claim and may still write the row.
Holding == {"claimed", "writing", "releasing", "written"}

Reply == {"ok", "error", "lost"}
Wrote(reply) == reply # "error"
Answered(reply) == reply = "ok"

Pending == {p \in Proposal : status[p] = "pending"}

(***************************************************************************)
(* Variants of the definitions below that have a plausible bug, which the   *)
(* properties must notice.                                                  *)
(***************************************************************************)
AnySlot(p) == TRUE                            \* no partial unique index
SupersedePendingOnly == {"pending"}           \* stranded rows are left alone
ClaimableWhileLive(p) == status[p] \in Live   \* a claim without its guard
ReleasableAlways(p) == TRUE                   \* a release without its guard
ThreeAttempts == 3                            \* one retry too many
SwallowedFailure == "written"                 \* the handler forgets to raise
MarkInsideTry == "releasing"                  \* the mark is inside the try

\* uq_organization_proposal_one_pending: p may become pending.
SlotFree(p) == Pending \subseteq {p}

\* The statuses an update of the row is filtered on: supersede, claim, and the
\* two updates that end a claim.
Supersedable == Live
Claimable(p) == status[p] = "pending"
Releasable(p) == status[p] = "applying"
Recordable(p) == status[p] = "applying"

\* The statuses once row p has become st, if the filter matched it.
SetIf(matched, p, st) == IF matched THEN [status EXCEPT ![p] = st] ELSE status

\* How often save_proposal tries, and what an apply that failed and a
\* mark_proposal_applied that raised go on to.
MaxAttempts == 2
AfterFailedApply == "releasing"
AfterFailedMark == "done"

-----------------------------------------------------------------------------
(* save_proposal *)

\* The organize pipeline has a plan and calls save_proposal.
CallSave(s) ==
  /\ savePc[s] = "idle"
  /\ savePc' = [savePc EXCEPT ![s] = "supersede"]
  /\ UNCHANGED <<status, old, attempt, author, confirmVars>>

\* _supersede_pending retires every live row in one statement.
Supersede(s) ==
  /\ savePc[s] = "supersede"
  /\ \E reply \in Reply :
       /\ status' = [p \in Proposal |->
                       IF Wrote(reply) /\ status[p] \in Supersedable
                         THEN "superseded" ELSE status[p]]
       /\ savePc' = [savePc EXCEPT
                       ![s] = IF Answered(reply) THEN "insert" ELSE "failed"]
  /\ UNCHANGED <<old, attempt, author, confirmVars>>

\* The insert of a new pending row, when the unique index admits it.
Insert(s, p) ==
  /\ savePc[s] = "insert"
  /\ status[p] = "absent"
  /\ SlotFree(p)
  /\ \E reply \in Reply :
       /\ IF Wrote(reply)
            THEN /\ status' = [status EXCEPT ![p] = "pending"]
                 /\ author' = [author EXCEPT ![p] = s]
            ELSE UNCHANGED <<status, author>>
       /\ savePc' = [savePc EXCEPT
                       ![s] = IF Answered(reply) THEN "saved" ELSE "failed"]
  /\ UNCHANGED <<old, attempt, confirmVars>>

\* The insert loses the one-pending race: a unique violation, which is
\* retried once from the supersede and raised the second time.
LoseInsertRace(s) ==
  /\ savePc[s] = "insert"
  /\ Pending # {}
  /\ savePc' = [savePc EXCEPT
                  ![s] = IF attempt[s] < MaxAttempts THEN "supersede"
                                                     ELSE "failed"]
  /\ attempt' = [attempt EXCEPT ![s] = IF @ < MaxAttempts THEN @ + 1 ELSE @]
  /\ UNCHANGED <<status, old, author, confirmVars>>

SaverCrash(s) ==
  /\ savePc[s] \in {"supersede", "insert"}
  /\ savePc' = [savePc EXCEPT ![s] = "crashed"]
  /\ UNCHANGED <<status, old, attempt, author, confirmVars>>

-----------------------------------------------------------------------------
(* confirm_proposal *)

\* claim_proposal, the compare-and-swap from pending to applying.  A claim
\* that matches no row is answered 404 or 409; one that raises is a 500, even
\* when the row was claimed and only the answer was lost.
Claim(c, p) ==
  /\ confPc[c] = "idle"
  /\ status[p] # "absent"
  /\ held' = [held EXCEPT ![c] = p]
  /\ \E reply \in Reply :
       /\ status' = SetIf(Wrote(reply) /\ Claimable(p), p, "applying")
       /\ confPc' = [confPc EXCEPT
                       ![c] = IF Answered(reply) /\ Claimable(p)
                                THEN "claimed" ELSE "done"]
  /\ UNCHANGED <<old, saverVars, written, unheard, audited>>

\* is_proposal_expired holds: mark_proposal_expired, whose update is not
\* guarded on the status, then the 409 that leads through release_proposal.
MarkExpired(c) ==
  /\ confPc[c] = "claimed"
  /\ held[c] \in old
  /\ \E reply \in Reply :
       status' = SetIf(Wrote(reply), held[c], "expired")
  /\ confPc' = [confPc EXCEPT ![c] = "releasing"]
  /\ UNCHANGED <<old, saverVars, held, written, unheard, audited>>

\* The plan is fresh; from here on _apply_resolved_plan is writing.
StartWriting(c) ==
  /\ confPc[c] = "claimed"
  /\ held[c] \notin old
  /\ confPc' = [confPc EXCEPT ![c] = "writing"]
  /\ UNCHANGED <<status, old, saverVars, held, written, unheard, audited>>

\* The stored plan, the membership check or a call of the plan raised before
\* its last row was written.
ApplyFails(c) ==
  /\ confPc[c] = "writing"
  /\ confPc' = [confPc EXCEPT ![c] = AfterFailedApply]
  /\ UNCHANGED <<status, old, saverVars, held, written, unheard, audited>>

\* The last row of the plan is written.  _apply_resolved_plan returns, or it
\* raises even so: the delete of the replaced chapters, outside its try, was
\* committed and its answer lost, or the read before it failed with none of
\* them to delete.
FinishWriting(c) ==
  /\ confPc[c] = "writing"
  /\ written' = [written EXCEPT ![held[c]] = @ + 1]
  /\ \/ /\ confPc' = [confPc EXCEPT ![c] = "written"]
        /\ UNCHANGED unheard
     \/ /\ confPc' = [confPc EXCEPT ![c] = AfterFailedApply]
        /\ unheard' = [unheard EXCEPT ![held[c]] = @ + 1]
  /\ UNCHANGED <<status, old, saverVars, held, audited>>

\* release_proposal: applying back to pending.  The unique index refuses it
\* while another proposal is pending, and nobody tries again.
Release(c) ==
  /\ confPc[c] = "releasing"
  /\ \E reply \in Reply :
       status' = SetIf(Wrote(reply) /\ Releasable(held[c]) /\ SlotFree(held[c]),
                       held[c], "pending")
  /\ confPc' = [confPc EXCEPT ![c] = "done"]
  /\ UNCHANGED <<old, saverVars, held, written, unheard, audited>>

\* mark_proposal_applied, outside the try: if it raises, the request ends and
\* the row stays as it is.
MarkApplied(c) ==
  /\ confPc[c] = "written"
  /\ \E reply \in Reply :
       /\ status' = SetIf(Wrote(reply) /\ Recordable(held[c]), held[c], "applied")
       /\ confPc' = [confPc EXCEPT
                       ![c] = IF Answered(reply) THEN "recorded"
                                                 ELSE AfterFailedMark]
  /\ UNCHANGED <<old, saverVars, held, written, unheard, audited>>

\* record_action, which swallows its own failure.
RecordAction(c) ==
  /\ confPc[c] = "recorded"
  /\ \E reply \in Reply :
       audited' = IF Wrote(reply) THEN audited \cup {held[c]} ELSE audited
  /\ confPc' = [confPc EXCEPT ![c] = "done"]
  /\ UNCHANGED <<status, old, saverVars, held, written, unheard>>

ConfirmerCrash(c) ==
  /\ confPc[c] \in Holding \cup {"recorded"}
  /\ confPc' = [confPc EXCEPT ![c] = "crashed"]
  /\ UNCHANGED <<status, old, saverVars, held, written, unheard, audited>>

-----------------------------------------------------------------------------

\* A row passes its time to live.
Age(p) ==
  /\ status[p] \in Live
  /\ p \notin old
  /\ old' = old \cup {p}
  /\ UNCHANGED <<status, saverVars, confirmVars>>

\* Earlier sessions may have left one proposal: unconfirmed, or stranded in
\* applying by a process that died.
Init ==
  /\ \E p \in Proposal, st \in {"absent"} \cup Live :
       status = [q \in Proposal |-> IF q = p THEN st ELSE "absent"]
  /\ old = {}
  /\ savePc = [s \in Saver |-> "idle"]
  /\ attempt = [s \in Saver |-> 1]
  /\ author = [p \in Proposal |-> None]
  /\ confPc = [c \in Confirmer |-> "idle"]
  /\ held = [c \in Confirmer |-> None]
  /\ written = [p \in Proposal |-> 0]
  /\ unheard = [p \in Proposal |-> 0]
  /\ audited = {}

SaverStep(s) ==
  \/ CallSave(s)
  \/ Supersede(s)
  \/ \E p \in Proposal : Insert(s, p)
  \/ LoseInsertRace(s)
  \/ SaverCrash(s)

ConfirmerStep(c) ==
  \/ \E p \in Proposal : Claim(c, p)
  \/ MarkExpired(c)
  \/ StartWriting(c)
  \/ ApplyFails(c)
  \/ FinishWriting(c)
  \/ Release(c)
  \/ MarkApplied(c)
  \/ RecordAction(c)
  \/ ConfirmerCrash(c)

Next ==
  \/ \E s \in Saver : SaverStep(s)
  \/ \E c \in Confirmer : ConfirmerStep(c)
  \/ \E p \in Proposal : Age(p)

Spec == Init /\ [][Next]_vars

-----------------------------------------------------------------------------
(* Properties *)

\* Every variable has its type.
TypeOK ==
  /\ status \in [Proposal -> Status]
  /\ old \subseteq Proposal
  /\ savePc \in [Saver -> SavePc]
  /\ attempt \in [Saver -> {1, 2}]
  /\ author \in [Proposal -> Saver \cup {None}]
  /\ confPc \in [Confirmer -> ConfPc]
  /\ held \in [Confirmer -> Proposal \cup {None}]
  /\ written \in [Proposal -> Nat]
  /\ unheard \in [Proposal -> Nat]
  /\ audited \subseteq Proposal

\* Two confirmations never both believe they own the same proposal: a double
\* click, a retry after a 500 and a claim whose answer was lost included.
ClaimIsExclusive ==
  \A c, d \in Confirmer :
    /\ confPc[c] \in Holding
    /\ confPc[d] \in Holding
    /\ held[c] = held[d]
    => c = d

\* Of the applies of one plan at most one returns, whatever fails, is released,
\* superseded or tried again.  One that raised after the last row was written
\* does not count: its proposal is released, the owner is offered it again, and
\* it may be written again.
WrittenOnce == \A p \in Proposal : written[p] <= unheard[p] + 1

\* A row that says applied, and an audit entry, are never about a plan of which
\* no apply wrote the last row and returned.
AppliedWasWritten ==
  \A p \in Proposal :
    status[p] = "applied" \/ p \in audited => written[p] = unheard[p] + 1

\* The owner is never offered a plan again of which an apply returned.
WrittenIsNotOffered ==
  \A p \in Proposal : written[p] > unheard[p] => status[p] # "pending"

\* At most one proposal of the memoir can be confirmed.
OnePending == \A p, q \in Pending : p = q

\* A save needs its second attempt only because another save inserted a row:
\* a proposal left by an earlier session, stranded in applying or released by
\* a confirmer in the meantime, cannot make it lose the race.
RetryNeedsRival ==
  \A s \in Saver :
    attempt[s] = 2 => \E p \in Proposal : author[p] \in Saver \ {s}

\* A retired proposal stays retired: no late release, claim or apply brings
\* it back, and an applied one keeps its record.
RetiredForGood ==
  [][\A p \in Proposal :
       /\ status[p] \in Retired => status'[p] \in Retired
       /\ status[p] = "applied" => status'[p] = "applied"]_vars

-----------------------------------------------------------------------------
(* What the owner is promised, of which this module is an implementation *)

Offer == INSTANCE ProposalOffer WITH
           offered <- Pending,
           closed <- {p \in Proposal : status[p] \in Retired},
           applied <- {p \in Proposal : written[p] > unheard[p]}

\* Seen through its pending and retired rows and the plans of which an apply
\* returned, the table only ever makes the moves ProposalOffer allows.
OfferSpec == Offer!Spec

=============================================================================

------------------------------ MODULE Narrative ------------------------------
(***************************************************************************)
(* The AI-composed narrative of one memoir: whole generations, single      *)
(* section regenerations, the owner's edits and deletes, the review mark   *)
(* and the gate that publishing puts on it.                                *)
(*                                                                         *)
(* Jobs run in the background, each with its own thread, beside the owner, *)
(* who has one page open.  A call of the database is one step with a Reply *)
(* as in Proposal.  The reads a job makes before it first writes, and its  *)
(* calls of the language model, are one step: they write nothing.  The     *)
(* sections of one chapter stand for the one to six a model may return.    *)
(*                                                                         *)
(* No step is fair: a job that a crash or a deploy kills is one that takes *)
(* no further step, at any of its calls.                                   *)
(***************************************************************************)
EXTENDS Naturals

CONSTANTS
  Generator,    \* requests to generate the whole narrative
  Regenerator,  \* requests to regenerate one section
  Chapter,
  Memory,
  Assigned,     \* [Chapter -> SUBSET Memory], the memories of each chapter
  None,
  Faulty,       \* the calls that may fail
  MaxActs       \* bound on what the owner does

VARIABLES
  section,      \* rows of narrative_section: absent, or who wrote the body
  source,       \* rows of narrative_source
  origin,       \* ghost: what a section cited when it was generated
  uncitedBy,    \* ghost: the job whose call last left a section without citations
  run,          \* rows of narrative_generation_run, by job
  latest,       \* the job whose row was opened last
  stalled,      \* that row is older than STALL_THRESHOLD_SECONDS
  pc,           \* the next call of each job, or how it ended
  runId,        \* the jobs that know the id of their row
  draft,        \* what the model answered to a job: a section's citations
  target,       \* the section of a regeneration
  act,          \* the next call of the owner's request
  acts,         \* how many requests the owner has made, marks apart
  live,         \* the memories that are submitted and not deleted
  published,    \* memoir.status is published
  reviewed,     \* memoir.narrative_reviewed_at: none, or what was read: the
                \* text as it is (read), as it was (stale), or older (blind)
  viewed,       \* ghost: the owner's page shows the text as it is
  author,       \* ghost: who wrote text last, a job or the owner
  ownerCut,     \* ghost: the owner's last edit or delete raised halfway
  crossed       \* ghost: one generation deleted while another had to insert

book == <<section, source, origin, uncitedBy>>
tracking == <<run, latest, stalled, runId>>
page == <<act, acts>>
review == <<reviewed, viewed, author, ownerCut>>
vars == <<book, tracking, pc, draft, target, page, live, published, review, crossed>>

-----------------------------------------------------------------------------

Job == Generator \cup Regenerator
SectionId == Generator \X Chapter
SectionsOf(g) == {g} \X Chapter
RunStatus == {"absent", "processing", "ready", "failed"}
JobCall == {"check", "startRun", "compose", "delete", "insert", "sources",
            "update", "delSources", "insSources", "reread", "clear",
            "finishReady", "finishFailed"}
JobOver == {"refused", "ended", "raised"}
OwnerCall == {"page", "clear", "publish"}
WriteCall == (JobCall \ {"check", "compose", "reread"}) \cup {"edit"}

ASSUME NarrativeAssumption ==
  /\ Faulty \subseteq WriteCall
  /\ Assigned \in [Chapter -> SUBSET Memory]
  /\ None \notin SectionId \cup Job

\* A job is of one kind, and the owner is none; what the bound may be.
ASSUME WriterAssumption ==
  /\ Generator \cap Regenerator = {}
  /\ "owner" \notin Job
  /\ MaxActs \in Nat

Reply(call) == IF call \in Faulty THEN {"ok", "error", "lost"} ELSE {"ok"}
Wrote(reply) == reply # "error"
Answered(reply) == reply = "ok"

Written == {s \in SectionId : section[s] # "absent"}
SourcesOf(s) == {m \in Memory : <<s, m>> \in source}

-----------------------------------------------------------------------------
(* Variants with a plausible bug, which the properties must notice *)

TrustAnyId(cites, sent) == cites # {}       \* unknown ids are not rejected
KeepOthers(g) == Written \cap SectionsOf(g)   \* deletes only its own sections
SkipSources == "clear"                      \* the citations are not stored
NoForeignKey(d) == TRUE                     \* citations of sections that are gone
EditAndDone == "page"                       \* an edit leaves the review mark

-----------------------------------------------------------------------------
(* Reads *)

\* fetch_chapter_memories_for_narrative: submitted, not deleted, in the chapter
ChapterMemories(k) == Assigned[k] \cap live

\* fetch_memories_for_narrative_by_ids
MemoriesById(ids) == ids \cap live

\* compute_effective_status of the run fetch_latest_run returns
EffectiveStatus ==
  IF latest = None THEN "none"
  ELSE IF run[latest] = "processing" /\ stalled THEN "stalled" ELSE run[latest]

\* _validate_sections: a section cites something, and only what was sent
Grounded(cites, sent) == cites # {} /\ cites \subseteq sent

\* prevent_writes_to_published_memoir, on narrative_section
Immutable == published

-----------------------------------------------------------------------------
(* Steps of a job *)

Goto(j, to) == pc' = [pc EXCEPT ![j] = to]

\* An exception after the run was opened: the branch that closes it.
Failed(j) == Goto(j, "finishFailed")

\* A write of text: the page is out of date, and so is a mark on it.
TextChanges(writer, keepsPage) ==
  /\ viewed' = (viewed /\ keepsPage)
  /\ reviewed' = IF reviewed = "read" THEN "stale" ELSE reviewed
  /\ author' = writer

\* clear_narrative_reviewed
ClearReviewed == reviewed' = "none" /\ UNCHANGED <<viewed, author>>

\* What the request of a job checks: assert_memoir_editable, chapters or the
\* section exist, and no run is processing.  The task is then scheduled.
NothingProcessing == EffectiveStatus # "processing"

CheckGenerate(g) ==
  /\ pc[g] = "check"
  /\ Goto(g, IF ~ published /\ Chapter # {} /\ NothingProcessing
               THEN "startRun" ELSE "refused")
  /\ UNCHANGED <<book, tracking, draft, target, page, live, published, review, crossed>>

CheckRegenerate(r) ==
  /\ pc[r] = "check"
  /\ \E s \in SectionId :
       /\ Goto(r, IF ~ published /\ s \in Written /\ NothingProcessing
                    THEN "startRun" ELSE "refused")
       /\ target' = [target EXCEPT ![r] = s]
  /\ UNCHANGED <<book, tracking, draft, page, live, published, review, crossed>>

\* start_run, in the background; if it raises the job goes on without an id.
StartRun(j) ==
  /\ pc[j] = "startRun"
  /\ \E reply \in Reply("startRun") :
       /\ IF Wrote(reply)
            THEN /\ run' = [run EXCEPT ![j] = "processing"]
                 /\ latest' = j
                 /\ stalled' = FALSE
            ELSE UNCHANGED <<run, latest, stalled>>
       /\ runId' = IF Answered(reply) THEN runId \cup {j} ELSE runId
  /\ Goto(j, "compose")
  /\ UNCHANGED <<book, draft, target, page, live, published, review, crossed>>

\* generate_narrative, up to its first write: each chapter that has memories is
\* sent, and one section that is not grounded discards the whole generation.
Sent == {k \in Chapter : ChapterMemories(k) # {}}

Compose(g) ==
  /\ pc[g] = "compose"
  /\ \/ Failed(g) /\ UNCHANGED draft
     \/ \E d \in [{g} \X Sent -> SUBSET Memory] :
          /\ d # << >>
          /\ \A s \in DOMAIN d : Grounded(d[s], ChapterMemories(s[2]))
          /\ draft' = [draft EXCEPT ![g] = d]
          /\ Goto(g, "delete")
  /\ UNCHANGED <<book, tracking, target, page, live, published, review, crossed>>

\* The delete of replace_all_sections; citations go with their sections.
Replaced(g) == Written

DeleteAll(g) ==
  /\ pc[g] = "delete"
  /\ LET gone == Replaced(g) IN
     IF Immutable /\ gone # {}
       THEN Failed(g) /\ UNCHANGED <<section, source, review>>
       ELSE \E reply \in Reply("delete") :
              /\ Goto(g, IF Answered(reply) THEN "insert" ELSE "finishFailed")
              /\ IF Wrote(reply) /\ gone # {}
                   THEN /\ section' = [s \in SectionId |->
                             IF s \in gone THEN "absent" ELSE section[s]]
                        /\ source' = {x \in source : x[1] \notin gone}
                        /\ TextChanges(g, FALSE) /\ UNCHANGED ownerCut
                   ELSE UNCHANGED <<section, source, review>>
  /\ crossed' = (crossed \/ \E h \in Generator \ {g} : pc[h] = "insert")
  /\ UNCHANGED <<origin, uncitedBy, tracking, draft, target, page, live, published>>

\* Its insert of the sections, in one call.
AfterInsert == "sources"
AfterBadInsert == "finishFailed"

InsertSections(g) ==
  /\ pc[g] = "insert"
  /\ IF Immutable
       THEN Goto(g, AfterBadInsert) /\ UNCHANGED <<section, origin, uncitedBy, review>>
       ELSE \E reply \in Reply("insert") :
              /\ Goto(g, IF Answered(reply) THEN AfterInsert ELSE AfterBadInsert)
              /\ IF Wrote(reply)
                   THEN /\ section' = [s \in SectionId |->
                             IF s \in DOMAIN draft[g] THEN "generated" ELSE section[s]]
                        /\ origin' = [s \in SectionId |->
                             IF s \in DOMAIN draft[g] THEN draft[g][s] ELSE origin[s]]
                        /\ uncitedBy' = [s \in SectionId |->
                             IF s \in DOMAIN draft[g] THEN g ELSE uncitedBy[s]]
                        /\ TextChanges(g, FALSE) /\ UNCHANGED ownerCut
                   ELSE UNCHANGED <<section, origin, uncitedBy, review>>
  /\ UNCHANGED <<source, tracking, draft, target, page, live, published, crossed>>

\* And its insert of the citations; one for a section that is gone is refused.
Citable(d) == DOMAIN d \subseteq Written

InsertSources(g) ==
  /\ pc[g] = "sources"
  /\ IF Citable(draft[g])
       THEN \E reply \in Reply("sources") :
              /\ Goto(g, IF Answered(reply) THEN "clear" ELSE "finishFailed")
              /\ source' = IF Wrote(reply)
                             THEN source \cup {x \in (DOMAIN draft[g]) \X Memory :
                                                 x[2] \in draft[g][x[1]]}
                             ELSE source
       ELSE Failed(g) /\ UNCHANGED source
  /\ UNCHANGED <<section, origin, uncitedBy, tracking, draft, target, page, live, published,
                 review, crossed>>

\* regenerate_section, up to its first write.  A section that is gone answers
\* 404, which leaves the task and its run as they are.
ComposeOne(r) ==
  /\ pc[r] = "compose"
  /\ LET s == target[r]
         sent == MemoriesById(SourcesOf(s)) IN
     IF s \notin Written
       THEN Goto(r, "raised") /\ UNCHANGED draft
       ELSE \/ Failed(r) /\ UNCHANGED draft
            \/ \E cites \in SUBSET Memory :
                 /\ Grounded(cites, sent)
                 /\ draft' = [draft EXCEPT ![r] = [x \in {s} |-> cites]]
                 /\ Goto(r, "update")
  /\ UNCHANGED <<book, tracking, target, page, live, published, review, crossed>>

\* The update of replace_section_from_regeneration.
UpdateSection(r) ==
  /\ pc[r] = "update"
  /\ LET s == target[r] IN
     IF s \notin Written
       THEN Goto(r, "raised") /\ UNCHANGED <<section, review>>
       ELSE IF Immutable
       THEN Failed(r) /\ UNCHANGED <<section, review>>
       ELSE \E reply \in Reply("update") :
              /\ Goto(r, IF Answered(reply) THEN "delSources" ELSE "finishFailed")
              /\ IF Wrote(reply)
                   THEN /\ section' = [section EXCEPT ![s] = "generated"]
                        /\ TextChanges(r, FALSE) /\ UNCHANGED ownerCut
                   ELSE UNCHANGED <<section, review>>
  /\ UNCHANGED <<source, origin, uncitedBy, tracking, draft, target, page, live, published,
                 crossed>>

\* Its delete and insert of the citations, and the read it returns.
DeleteSources(r) ==
  /\ pc[r] = "delSources"
  /\ \E reply \in Reply("delSources") :
       /\ Goto(r, IF Answered(reply) THEN "insSources" ELSE "finishFailed")
       /\ IF Wrote(reply)
            THEN /\ source' = {x \in source : x[1] # target[r]}
                 /\ uncitedBy' = [uncitedBy EXCEPT ![target[r]] = r]
            ELSE UNCHANGED <<source, uncitedBy>>
  /\ UNCHANGED <<section, origin, tracking, draft, target, page, live, published, review, crossed>>

\* A citation that another regeneration has stored meanwhile is a duplicate key.
ReplaceSources(r) ==
  /\ pc[r] = "insSources"
  /\ LET s == target[r]
         new == {s} \X draft[r][s] IN
     IF s \in Written /\ new \cap source = {}
       THEN \E reply \in Reply("insSources") :
              /\ Goto(r, IF Answered(reply) THEN "reread" ELSE "finishFailed")
              /\ source' = IF Wrote(reply) THEN source \cup new ELSE source
       ELSE Failed(r) /\ UNCHANGED source
  /\ UNCHANGED <<section, origin, uncitedBy, tracking, draft, target, page, live, published,
                 review, crossed>>

AfterReread == "clear"

Reread(r) ==
  /\ pc[r] = "reread"
  /\ Goto(r, IF target[r] \in Written THEN AfterReread ELSE "raised")
  /\ UNCHANGED <<book, tracking, draft, target, page, live, published, review, crossed>>

\* Both end by clearing the review mark, and close the run.
ClearByJob(j) ==
  /\ pc[j] = "clear"
  /\ \E reply \in Reply("clear") :
       /\ Goto(j, IF Answered(reply) THEN "finishReady" ELSE "finishFailed")
       /\ IF Wrote(reply) THEN ClearReviewed ELSE UNCHANGED <<reviewed, viewed, author>>
  /\ UNCHANGED <<book, tracking, draft, target, page, live, published, ownerCut, crossed>>

\* finish_run: only with an id, only a processing row, and errors swallowed.
Finishable(j) == run[j] = "processing"

FinishRun(j, call, st) ==
  /\ pc[j] = call
  /\ Goto(j, "ended")
  /\ draft' = [draft EXCEPT ![j] = << >>]
  /\ \E reply \in IF j \in runId THEN Reply(call) ELSE {"error"} :
       run' = IF Wrote(reply) /\ Finishable(j) THEN [run EXCEPT ![j] = st] ELSE run
  /\ UNCHANGED <<book, latest, stalled, runId, target, page, live, published, review, crossed>>

EndJob(j) ==
  \/ ClearByJob(j)
  \/ FinishRun(j, "finishReady", "ready")
  \/ FinishRun(j, "finishFailed", "failed")

\* generate_narrative_background and regenerate_section_background
Generate(g) ==
  \/ CheckGenerate(g) \/ StartRun(g) \/ Compose(g) \/ DeleteAll(g)
  \/ InsertSections(g) \/ InsertSources(g) \/ EndJob(g)

Regenerate(r) ==
  \/ CheckRegenerate(r) \/ StartRun(r) \/ ComposeOne(r) \/ UpdateSection(r)
  \/ DeleteSources(r) \/ ReplaceSources(r) \/ Reread(r) \/ EndJob(r)

Stall ==
  /\ EffectiveStatus = "processing"
  /\ stalled' = TRUE
  /\ UNCHANGED <<book, run, latest, runId, pc, draft, target, page, live, published, review, crossed>>

-----------------------------------------------------------------------------
(* The owner, whose page sends one request at a time: as nobody else       *)
(* publishes, what a request reads of the status holds when it writes.     *)

\* list_narrative_sections, on the owner's page
View ==
  /\ act = "page"
  /\ ~ viewed
  /\ viewed' = TRUE
  /\ UNCHANGED <<book, tracking, pc, draft, target, page, live, published, reviewed, author,
                 ownerCut, crossed>>

\* update_section_body and delete_section; a section that is gone answers 404.  A
\* request that raises, or dies, ends here: its second call never comes.
WriteByOwner(s, body, next) ==
  /\ act = "page"
  /\ acts < MaxActs
  /\ ~ published
  /\ acts' = acts + 1
  /\ \E reply \in Reply("edit") :
       /\ act' = IF Answered(reply) THEN next ELSE "page"
       /\ IF Wrote(reply)
            THEN /\ section' = [section EXCEPT ![s] = body]
                 /\ source' = IF body = "absent" THEN {x \in source : x[1] # s} ELSE source
                 /\ TextChanges("owner", TRUE)
                 /\ ownerCut' = ~ Answered(reply)
            ELSE UNCHANGED <<section, source, review>>
  /\ UNCHANGED <<origin, uncitedBy, tracking, pc, draft, target, live, published, crossed>>

AfterEdit == "clear"

UpdateBody == \E s \in Written : WriteByOwner(s, "edited", AfterEdit)
DeleteSection == \E s \in Written : WriteByOwner(s, "absent", "clear")

\* clear_narrative_reviewed of the same request, which may raise as well
ClearByOwner ==
  /\ act = "clear"
  /\ act' = "page"
  /\ \E reply \in Reply("clear") :
       /\ IF Wrote(reply) THEN ClearReviewed ELSE UNCHANGED <<reviewed, viewed, author>>
       /\ ownerCut' = ~ Answered(reply)
  /\ UNCHANGED <<book, tracking, pc, draft, target, acts, live, published, crossed>>

\* mark_narrative_reviewed, which takes no version of what was read
Mark ==
  /\ act = "page"
  /\ ~ published
  /\ reviewed' = IF viewed THEN "read" ELSE "blind"
  /\ UNCHANGED <<book, tracking, pc, draft, target, page, live, published, viewed, author,
                 ownerCut, crossed>>

\* publish_memoir: what it checks, and the transaction, which checks less.
ReviewGate == Written = {} \/ reviewed # "none"

PublishGate ==
  /\ act = "page"
  /\ acts < MaxActs
  /\ acts' = acts + 1
  /\ act' = IF ~ published /\ live # {} /\ ReviewGate THEN "publish" ELSE "page"
  /\ UNCHANGED <<book, tracking, pc, draft, target, live, published, review, crossed>>

PublishTx ==
  /\ act = "publish"
  /\ act' = "page"
  /\ published' = (published \/ live # {})
  /\ UNCHANGED <<book, tracking, pc, draft, target, acts, live, review, crossed>>

Owner ==
  \/ View \/ UpdateBody \/ DeleteSection \/ ClearByOwner
  \/ Mark \/ PublishGate \/ PublishTx

\* A contributor takes a memory back; the trigger refuses it once published.
Withdraw(m) ==
  /\ ~ published
  /\ m \in live
  /\ live' = live \ {m}
  /\ UNCHANGED <<book, tracking, pc, draft, target, page, published, review, crossed>>

-----------------------------------------------------------------------------

Init ==
  /\ section = [s \in SectionId |-> "absent"]
  /\ source = {}
  /\ origin = [s \in SectionId |-> {}]
  /\ uncitedBy = [s \in SectionId |-> None]
  /\ run = [j \in Job |-> "absent"]
  /\ latest = None
  /\ stalled = FALSE
  /\ pc = [j \in Job |-> "check"]
  /\ runId = {}
  /\ draft = [j \in Job |-> << >>]
  /\ target = [r \in Regenerator |-> None]
  /\ act = "page"
  /\ acts = 0
  /\ live = Memory
  /\ published = FALSE
  /\ reviewed = "none"
  /\ viewed = TRUE
  /\ author = "owner"
  /\ ownerCut = FALSE
  /\ crossed = FALSE

Next ==
  \/ \E g \in Generator : Generate(g)
  \/ \E r \in Regenerator : Regenerate(r)
  \/ \E m \in Memory : Withdraw(m)
  \/ Stall
  \/ Owner

Spec == Init /\ [][Next]_vars

-----------------------------------------------------------------------------
(* Properties *)

TypeOK ==
  /\ section \in [SectionId -> {"absent", "generated", "edited"}]
  /\ source \subseteq Written \X Memory
  /\ origin \in [SectionId -> SUBSET Memory]
  /\ uncitedBy \in [SectionId -> Job \cup {None}]
  /\ run \in [Job -> RunStatus]
  /\ latest \in Job \cup {None}
  /\ runId \subseteq Job
  /\ pc \in [Job -> JobCall \cup JobOver]
  /\ \A j \in Job : DOMAIN draft[j] \subseteq SectionId
  /\ target \in [Regenerator -> SectionId \cup {None}]
  /\ act \in OwnerCall
  /\ acts \in 0 .. MaxActs
  /\ live \subseteq Memory
  /\ {stalled, published, viewed, ownerCut, crossed} \subseteq BOOLEAN
  /\ reviewed \in {"none", "read", "stale", "blind"}
  /\ author \in Job \cup {"owner"}

\* Between a first write of text and the call that clears the review mark, or
\* stopped by an error.  (A job that a crash killed stays at its call.)
Writing(j) == pc[j] \in {"insert", "sources", "delSources", "insSources", "reread", "clear"}
Stopped(j) == pc[j] \in {"finishFailed", "ended", "raised"} /\ run[j] # "ready"

\* A review mark is a claim about this very text.  If it is about an earlier one,
\* whoever wrote the text last is on the way to clear the mark or failed on that
\* way: that very job, or the owner, whose edit and whose clearing are two calls.
StaleReviewHasWriter ==
  reviewed = "stale" =>
    \/ author = "owner" /\ (act = "clear" \/ ownerCut)
    \/ author \in Job /\ (Writing(author) \/ Stopped(author))

\* A section without citations is answered for by the job whose call left it so,
\* its own generation or a regeneration of it: that job is about to store them, or
\* failed or died there.
AnswersFor(j, s) ==
  \/ j = s[1] /\ (pc[j] = "sources" \/ Stopped(j))
  \/ j \in Regenerator /\ target[j] = s /\ (pc[j] = "insSources" \/ Stopped(j))

UncitedHasWriter ==
  \A s \in Written :
    SourcesOf(s) = {} => uncitedBy[s] \in Job /\ AnswersFor(uncitedBy[s], s)

\* However regenerations, edits and deletes interleave, a section never cites
\* a memory that its generation did not draw on.  (It may lose some: the answer of
\* a regeneration is stored as it is, and need not name all it was sent.)
SourcesWithinOrigin == \A x \in source : x[2] \in origin[x[1]]

\* The rows of the book are sound: of their types, cited, and cited rightly.
BookIsSound == TypeOK /\ UncitedHasWriter /\ SourcesWithinOrigin

\* The book is one generation's.  Sections of two are there together only if
\* one deleted the old ones while the other was about to insert its own, which
\* the check for a processing run lets happen.
MixedHasCrossed ==
  (\E s, t \in Written : s[1] # t[1]) => crossed

\* memoir_service.publish_memoir and clear_narrative_reviewed: a book with
\* sections is published only under a mark that was made on that very text.
PublishedIsMarked ==
  [][~ published /\ published' => Written = {} \/ reviewed \in {"read", "blind"}]_vars
=============================================================================

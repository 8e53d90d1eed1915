# Formal models of the memoir backend

The backend keeps a family's memoirs: memories with their photos and recordings,
grouped into chapters, told as a narrative, published, shared by link. It is a
FastAPI application over a hosted Postgres that it reaches through PostgREST
(`supabase_admin.table(...).execute()`). This directory holds TLA+ models of the
parts where order, failure and concurrency decide whether an owner's work
survives, the TLC configurations that check them, and proofs that TLAPS checks.

Paths are relative to the root of the repository, line numbers to the commit
the models were written against. `PROJECT.json` maps every definition to its lines.

1. [How the program runs](#how-the-program-runs)
2. [Inventory](#inventory)
3. [Modules](#modules)
4. [Runs](#runs)
5. [Fairness](#fairness)
6. [Proofs](#proofs)
7. [Where code and documentation disagree](#where-code-and-documentation-disagree)
8. [Abstractions and limits](#abstractions-and-limits)
9. [Plan](#plan)

## How the program runs

Four facts about the program shape every model.

**A call is a transaction, and a request is many calls.** Each `.execute()` is one
HTTP request to PostgREST and one transaction. There is no transaction around
two of them; `_apply_resolved_plan` says so and compensates instead. So one call
of the database is one step of a model, and everything else may happen between two.

**A call ends in one of three ways.** It is answered (`ok`); it raises and wrote
nothing (`error`); or it was committed and the answer was lost, so that it raises
having written (`lost`). The operators `Reply`, `Wrote` and `Answered` carry this
through every module. The third outcome is what a test with a mocked client
hardly ever tries.

**Several processes.** `Dockerfile` starts uvicorn with
`--workers ${WEB_CONCURRENCY:-2}`; a background job is a plain function on a
thread of the worker that took the request, and if it prompts a model it runs an event
loop of its own there (`asyncio.run`, `organization_service.py:741`,
`narrative_service.py:232`, `320`). Requests, jobs and their retries run
at once, and the only mutual exclusion between them is what the database
enforces: a filtered update (compare-and-swap), a partial unique index, a trigger. The
one thing in memory that the models are about, the circuit breakers, the threads of a
worker share without a lock. An `async def` handler calls the synchronous client and so
holds the event loop of its worker, except where it waits for a language model (the
archive chat) or a timer; what comes
between two of its calls is the other workers, the jobs on their threads and every
other client of the database.

**A process may die** between any two calls, with all its threads. The models let
each request or job crash by itself, which includes every way a whole process can.

## Inventory

| component | state | operations | what makes it hard | what makes it correct |
|---|---|---|---|---|
| Proposal table (`integrations/proposal_repository.py`, its migration) | rows of `organization_proposal` with a status; audit rows | save (supersede, then insert, one retry), claim, release, mark expired, mark applied, record | compare-and-swap life cycle driven by concurrent calls of which any may fail or be lost; rows stranded by a crash | one confirmation owns a proposal; one apply of a plan returns, and it is not offered again after; a retired plan never comes back; one offer at a time |
| Applying a proposal (`organization_service.confirm_proposal`, `_apply_resolved_plan`, `organization_repository.py`) | rows of `chapter`, columns `chapter_id` and `position_in_chapter` of `memory` | insert chapters, assign in chunks, delete the replaced ones; rollback | eight kinds of call without a transaction, against an owner who edits, moves, unsubmits and publishes | success is the whole plan, a rollback restores and no planned memory is lost, unless applies overlap; hand-edited chapters survive |
| Organize job (`api/organization.py`, `organization_service`, `organization_run_repository.py`) | `memoir.organization_status`, rows of `organization_job_run` and `organization_agent_run` | trigger, pipeline stages, outcome, stall detection | check-then-act trigger; three records of one outcome, each written by a call that may fail; jobs that die | who says ready has saved a proposal; ends are final; nothing shows running for ever |
| Reader, organizer, resolver (`organization_service`, `schemas/organization.py`) | facts, proposed chapters, resolved plan | read in chunks, organize, resolve | anything a language model may answer | every fact placed once; all or nothing; order of time |
| Manual chapter edits | chapters, memories | edit, move, reorder | check-then-write against a running apply | what the owner did stays |
| Archive chat | a sliding window per user, in memory | ask, propose an action | one window per worker | the limit holds per worker |
| Narrative (`narrative_service.py`, `narrative_repository.py`, `api/narrative.py`) | sections with sources, review mark, run rows | generate, regenerate, edit, delete, review | delete and insert of sections in separate calls; long jobs over the owner's edits | a review is of the text it names; every section cites what it was written from; one generation's text at a time |
| Memoir and publishing (`memoir_service.py`, `publish_memoir_tx`, immutability triggers) | memoir status, snapshot | create, publish | a gate read before the transaction that does not check it | what is published was reviewed; it never changes again |
| Transcription (`transcription_service.py`) | transcript rows, attempt count, status of the asset | enqueue, transcribe, retry, correct | read-then-write of a counter and of a snapshot minutes old; four writes of which any may fail | the owner's correction wins; attempts are bounded; ready means a provider's answer |
| Language model and speech routers (`integrations/llm`, `integrations/stt`) | one circuit breaker per provider, in memory | complete, transcribe | threads inside a method of a shared breaker; concurrent failures and successes around a cooldown | failover when and only when it is safe; an open circuit keeps calls out; a prompt ends |
| Share links, reader access (`share_service.py`, `reader_access.py`, `api/share.py`) | links, open count, reader tokens | create, update, revoke, unlock, resolve | two creations at once; revocation and policy against tokens good for a day | a revoked link opens nothing; a link nobody configured opens for nobody; one live link |
| Comments (`comments_service.py`, `api/comments.py`) | comment rows | write, hide, delete | two routes with different checks | what is written was allowed |
| Export (`export_service.py`, `export_repository.py`) | export job rows, files | enqueue, render, read | an upload whose row update fails; reads of a narrative being replaced | ready means a file; no original text beside a narrative |
| Memories (`memory_service.py`, `memory_repository.py`) | memory rows, media links | create, update, delete | insert, then verify media, then link, then schedule; check, then delete | attachments stay; success means attached; what is submitted is kept |
| Media and storage (`media_service.py`, `storage_adapter.py`) | asset rows, objects | presign, register | lookup before the insert; an object removed under another save | a row has its object; a retry with a checksum makes no second row |
| Authorization | participants | role checks | read before every write | owner-only |
| Accounts, sessions, profiles | external auth service; profile rows | sign up, sign in, refresh | delegated | delegated |
| Request limits | sliding window per key and worker | check | memory bound | limit per worker |
| Organizer page, search | none | read | none | none |
| Shell, configuration, migrations, deployment | settings, schema | boot, migrate | run once, by hand | settings are validated |

`PROJECT.json` lists the same components with what is and is not modelled, and
under `hazards` what in each is hard to test, line by line, with the properties
aimed at it.

How they meet: the trigger route starts the job on a thread; the job reads
memories and chapters, calls the language model router, and ends in a saved
proposal; the owner reviews the proposal and the apply route claims it, writes
chapters and memories, and marks it applied. The owner's edits, moves and the
publish request touch the same rows at any time. Narrative generation follows
the same pattern (run row, background task, sections), and publish reads its
review mark. A transcription job is started by the memory and media requests. A
publish makes the first share link, and from then on the triggers refuse writes to
what readers see; an export and a reader's page put the same tables together from
several reads each. The published flag is what ties the modules together: each
has its own publish step, at any moment of what it models.

## Modules

| module | models | builds on |
|---|---|---|
| `ProposalOffer` | what the owner is promised of proposals: the abstract specification | |
| `Proposal` | the proposal table, call by call | `INSTANCE ProposalOffer` (refinement) |
| `MCProposal` | symmetry, documentation claim, fairness of `Proposal` | `Proposal` |
| `ProposalProofs` | inductive invariant, safety theorems, refinement theorem | `Proposal` |
| `ChapterApply` | an apply's effect on the book, and the owner meanwhile | |
| `ChapterApplyProofs` | inductive invariant and safety theorems | `ChapterApply` |
| `OrganizeJob` | the trigger, the job, its status and run rows | |
| `OrganizeJobProofs` | inductive invariants and safety theorems | `OrganizeJob`, `ResolvePlan` |
| `ResolvePlan` | reader, organizer and resolver | |
| `Narrative` | generation, regeneration, the owner's edits and review, publish and its gate | |
| `NarrativeProofs` | inductive invariant and safety theorems | `Narrative` |
| `Transcription` | one recording: requests, retries, jobs, corrections, publish | |
| `TranscriptionProofs` | inductive invariant and safety theorems | `Transcription` |
| `Memories` | uploads, media rows, memories, attachments, what is scheduled for transcription | |
| `MemoriesProofs` | inductive invariant and safety theorems | `Memories` |
| `Router` | provider chains, attempts and circuit breakers of prompts and of transcriptions | |
| `RouterProofs` | inductive invariant and safety theorems | `Router` |
| `Sharing` | share links, unlocks, tokens, readers' requests, comments | |
| `SharingProofs` | inductive invariants and safety theorems | `Sharing`, `Reading` |
| `Reading` | a PDF export and a visitor's page, read query by query from a changing archive | |
| `MCChapterApply`, `MCNarrative`, `MCTranscription`, `MCRouter`, `MCSharing`, `MCReading` | constants, symmetry and view of the modules they name | those |

Each module has a short section of *variants*: definitions with a plausible bug,
which replace the faithful one to see that a property notices. They are not part
of any behaviour. In every module the state of a request or job is the name of its
next call (`pc`), a process that dies is one that takes no further step, and the
guard `published` (`Immutable`, `Admitted`) is the immutability trigger.

### Proposal

`status`, `old` are the columns `status` and `created_at` (against
`PROPOSAL_TTL_HOURS`) of the rows of one memoir. A `Saver` is one call of
`save_proposal`, with its loop variable `attempt`; a `Confirmer` is one call of
`confirm_proposal`, with the proposal it `held`. `savePc` and `confPc` say which
call of the database is next. The filters of the four updates are definitions of
their own (`Supersedable`, `Claimable`, `Releasable`, `Recordable`), because they
are where the correctness lies; `SlotFree` is the partial unique index
`uq_organization_proposal_one_pending`. `author`, `written` and `unheard` are
history, `audited` is the audit table.

`written` counts how often the last row of a plan was written, `unheard` how often the
apply that wrote it raised even so: its last call, the delete of the replaced chapters
(`organization_service.py:872`), is outside its try and can be committed with the answer
lost. `confirm_proposal` then releases the proposal, and the owner may apply it again.
So a plan may be written several times; what holds is that at most one apply of it
returns (`WrittenOnce`: `written <= unheard + 1`), that only such a plan is marked
applied or audited, and that it is not offered after.

`MarkExpired` has no status guard, as in the code. `MarkApplied` is outside the
try, as in the code: if it raises, the row stays in `applying`. `Init` lets an
earlier session have left a pending or a stranded row.

`ProposalOffer` states the promise without the mechanism: at most one plan on offer; a
plan taken away can come back; a closed or applied one cannot; a plan is applied at most
once, where applied is what the owner was told is in the book. `OfferSpec` instantiates
it with the pending and retired rows and the plans of which an apply returned (`written
> unheard`), and the run `Proposal` and the theorem `OfferRefinement` show that every
behaviour of the table is one of it. The refinement contains what earlier had properties
of its own: one pending row, no plan on offer whose apply returned, retired for good.
These, and the exclusive claim, are theorems still.

### ChapterApply

`chapters` and `edited` are the table `chapter` with `edited_by_owner`;
`chapterOf` and `position` are columns of `memory`. `memory.chapter_id` has no
foreign key in effect on these paths, so it can name a deleted chapter: such a
memory is in no chapter and not unassigned either (`Lost`). An `Applier` is one
call of `confirm_proposal` with the plan it confirms. The steps are the calls of
`_apply_resolved_plan`, in its order: snapshot, insert, upsert by chunks, and then
either fetch and delete of the stale chapters, or restore one by one and delete of
the new chapters. `delete_chapters` of the stale ones is outside every try.

The owner edits a chapter, moves a memory (check and write are two steps), takes
a memory back to draft, publishes; after publishing, the immutability triggers
make every write raise, the rollback's included. `ConfirmAgain` is a retry of a
proposal that was given back. `Begin` is the route's `assert_memoir_editable`
followed by the claim. The claim is of a row, not of the memoir, and
`_supersede_pending` retires rows in `applying` too (`proposal_repository.py:129-131`),
so two applies can be at work at once, and in the model any number can. Each then takes
the other's new chapters for stale ones and deletes them, and the memories in them point
to nothing: neither has placed its plan, and neither rollback restores.

`lone` is the apply that began last, if no other was at work then or has begun since.
What an apply promises of its own end is said of it: `ApplyIsComplete`,
`RollbackRestores`, `PlannedNeverLost`; each names the exception. What the owner edited
before survives any number of overlapping applies, and `EditedBeforeSurvives` says so
without it: `kept` is what was edited when the oldest of those at work began.

### OrganizeJob

One `Job` is a request and the job it starts. `pc` names the next call, in the order of
the source: check, set running, open the run row, fetch, the stages with their rows,
save, set ready, close the run; and the except branches. `runId` and `stageId` are the
ids the job knows, which is less than the rows that exist when an answer was lost.
`saved` are the jobs whose own `save_proposal` is over. `Effective` is
`compute_effective_organization_status`; `Stall` is the passing of
`STALL_THRESHOLD_SECONDS`.

`finish_run(None)` filters the uuid column `id` on the text `None`, which Postgres
refuses (an assumption about the database), so `FinishRun` of a job without an id
always raises. The model calls' outcome is a choice; `save_proposal` is one call
here and `Proposal` opens it up. `prepare_proposal`'s reads are part of
`FetchMemories`, the last reads before the save part of `SaveProposal`'s failure.

### ResolvePlan

A language model may answer anything its response schema admits, so `ReadChunk`
chooses any partial function from ids to dates, ids nobody sent included, and
`Organize` any chapters of any ids up to `MAX_ORGANIZED_CHAPTERS`, empty chapters
and repeated ids included. `Resolve` and `Rejected` are `resolve_plan`: id
validation, the two stable sorts, the catch-all, the chapter cap. An id is a
number in the order of the id strings, a date likewise, `Undated` after all dates.
`SortedBy` is what Python's stable `list.sort` leaves: the one enumeration of the
ids, or of their places in a list, in which keys ascend and equal keys keep their order.
`refine_organization_plan` has no caller in the application and is left out.

The properties speak of the facts the reader returned. A chunk that failed returns none:
its memories have no fact and are in no chapter of the plan, not even the catch-all.

### Narrative

`section` holds how the body of each row of `narrative_section` was written, `source`
the rows of `narrative_source`, `run` and `latest` the rows of
`narrative_generation_run`, `reviewed` the column `narrative_reviewed_at` with what it
is about: the text as it is (`read`), a text that has changed since (`stale`), or one
the owner's page did not show when the mark was made (`blind`). `author` is who wrote
text last, a job or the owner, and `uncitedBy` the job whose call last left a section
without citations: the properties hold that very one to account. A `Generator` is one
call of `generate_narrative_background` after its route's checks (`CheckGenerate`), a
`Regenerator` one of `regenerate_section_background`. `Compose` is everything up to the
first write: the reads, the calls of the model and `_validate_sections`, whose verdict
is `Grounded`. Then follow the calls of `replace_all_sections` (delete, insert, insert
of citations) or of `replace_section_from_regeneration` (update, delete and insert of
citations, re-read), `clear_narrative_reviewed` and `finish_run`. A failure takes the
except branch of the task; an `HTTPException` of a section that is gone leaves it
without closing the run, as in the code.

The owner's page sends one request at a time: view, edit, delete, mark, publish.
An edit and a delete are a write and the call that clears the mark
(`api/narrative.py:229-232`, `247-248`); either may raise, and the owner's process may
die between them. Then a mark on an older text stays, and `ownerCut` says so. `PublishGate`
and `PublishTx` are `publish_memoir`: what its gate reads (`ReviewGate`) and the
transaction are two steps.
The foreign keys of `narrative_source` (cascade, refusal) are part of the steps. A
regeneration stores the citations of its answer, which may be fewer than it was sent:
`SourcesWithinOrigin` says that they never grow, not that they stay.

### Transcription

One asset: `status` is `media_asset.transcription_status`, `row` its transcript with
what matters of it (is there a raw text, and is it words or the empty text; an owner's
text; what is displayed; the attempt count), `old` that `updated_at` is past the stall
threshold. A `Job` is a request (`Enqueue`, `Retry` with their guards) and the task it
schedules, `transcribe_and_store_audio`: read the asset, read the row into `snap`, count
the attempt, set processing, transcribe, save text and set ready, or save the error and
set failed. `raw` and the displayed text come from the snapshot, as in
`_save_transcript`; the first two writes are outside the try. A provider may answer with
an empty text (`stt/router.py:185`, `234`), which is stored as it is
(`transcription_service.py:238`): a recording of silence is ready and shows nothing.
`teller` is the job that wrote the status last. `Correct` is the owner's edit, which
another client of the same database makes. `Admitted` is the trigger, which on a
published memoir lets only a change of status through.

Jobs that overlap can pass the cap and set each other's results back; the ghost
`overlapped` marks such behaviours, and the properties say what holds without.

### Memories

`object` is what storage holds under a key, `asset`, `memory` and `link` are the rows
of `media_asset`, `memory` and `memory_media`, `queued` the assets handed to
transcription. A `Saver` is one call of `save_metadata` (inspect the object, remove
it if refused, look the checksum up, insert), a `Creator` one of `create_memory`, an
`Updater` one of `update_memory`, a `Deleter` one of `delete_memory`. `AttachMedia`
is what creation and change share: verify, read what is attached, link, schedule. The
last may raise, since it reads each asset again (`memory_service.py:111`, `295`), and
then the background tasks that were scheduled so far are dropped with the response.
`Immutable` refuses the writes that the triggers refuse, `Link` also the duplicate
and the dangling row that the keys of `memory_media` refuse (migration
`080151e0f1e8`:33-36).

Two things limit what a retry of a save can be promised. The checksum is optional
(`schemas/media.py:83`), and a save without one is never recognised: its retry makes a
second row. And the lookup (`media_repository.py:46`) goes through the client that is
subject to row-level security (`supabase_client.py:34`), not the admin one, so what it
is shown depends on a session and on policies outside this repository: it may miss the
row that is there. `unseen` are the saves it happened to, `met` those that looked up
while another inserted, and `OneRowPerSum` excepts both by name.

### Router

A call is one of `complete_json` or `complete_text` (a *prompt*), or of
`transcribe_audio` (a *recording*). Calls run in threads: the jobs that organize and
narrate are background tasks of the threadpool with an event loop each, transcriptions
are background tasks too, and all of them share the breakers of their process. `breaker`
has the fields of `_CircuitBreaker` (`failures`, `opened`) and two ghosts.

The interpreter switches threads at calls of functions, so a method of a breaker is one
step up to its call of `time.monotonic` and another from there, for prompts as for
recordings. `is_open` is `Look` and then `Elapse`: `Break`, `Probe` or `Skip`.
`record_failure` is the count (`RecordFailure`), and `Open` where it opens the circuit.
If another thread closes the circuit in the middle of `is_open`, the subtraction raises
`TypeError`, which no handler of the routers catches: the call ends `broken`. If it does
so in the middle of `record_failure`, the circuit opens although a call has just
succeeded. (Prompts that share one loop, as the readers of one job do, interleave less
than the model allows.)

The classes of answers are `ok`, `outage`, `fatal` and `rejected`. A prompt is sent again
after an outage only, and fails over; `fatal` is counted and raised (`Refuse`), `rejected`
raised without telling the breaker (`Reject`). A recording is sent again after any
exception (`Retried`), a rejected file included: `transcribe_audio` does not look at it.
A service without its key is not in a chain, so a chain may be empty, and then a call ends
`exhausted` at once. `Load` says which calls are prompts and what the chains are.

### Sharing

`link` holds the rows of `memoir_link`, `policy` whether `comment_policy` lets readers
comment, `token` what each reader's JWT says, `comment` what was written. Requests
are `create_or_get_share_link` (look, insert), `update_share_link` (look, policy,
row), `revoke_share_link` (look, write), `unlock_share_link` (link, memoir, count,
token) and the visits: a page (`get_share_context`), the older `read_shared_memoir`,
which also counts, a comment under `/api/share`, and what goes by the token alone
(`TokenOnly`, by `resolve_memoir_access`): a comment under `/api/comments` (`dual`) and
the narrative with its sources under `/api/memoirs/{id}/narrative` (`show`,
`api/narrative.py:144-210`). Rows and tokens expire. `VisitWasAllowed` is about
`/api/share`; what goes by the token alone stays open for the token's day, whatever
became of the link, and the model has it do so.

### Reading

An export job is `process_export_background`: its row, three reads of the archive, the
sections, their citations, rendering, upload, the row again; an exception anywhere
ends in `failed`, which may fail too. A visitor's page is `get_full_memoir_view` for a
reader, the feed for a participant, and `Ask` is the Sources button. The archive
changes between any two reads: memories are written (`Write`, all requests of
`Memories` in one step), a recording gets a transcript, the narrative is replaced
(the three calls of `Narrative`, of which the insert and the citations may fail), the
owner deletes a section, the memoir is published. `BestKind` and `KindFor`
are the attribution line: display names, and of what each of them gave the first kind
of least priority. A photograph and a video have the same priority, and the order in
which the database returns the citations decides between them: `KindFor` says which
kinds are best, and no property tells these two apart.

`printed` and `told` are what a publication fixes: the memories that were submitted then,
and the sections last stored as the owner left them. If the publication falls between the
delete and the insert of a generation, or that insert had failed (`gap`), the triggers
refuse what would follow, and readers get a book without a section for ever.
`PageIsTheBook` states this exception; it does not speak of citations, which no trigger
covers and a writer caught by the publication still stores.

## Runs

| run | instance | what it shows |
|---|---|---|
| `Proposal` | 3 proposals, 3 saves, 2 confirmations | safety of the table, and the refinement of `ProposalOffer` |
| `ProposalStranded` | 2 proposals, 1 save, 2 confirmations | a statement of the migration, violated, see below |
| `ChapterApply` | 2 memories, 1 former chapter, 2 applies, in turn or at once, 1 act of the owner | edited chapters survive; of an apply that no other overlapped, success is the whole plan, a finished rollback restores, and no planned memory is lost |
| `OrganizeJob` | 2 jobs, every call may fail | run rows are sound and final, who says ready has saved, nothing runs for ever |
| `ResolvePlan` | 4 ids (1 never sent), 2 dates, 2 chapters and the catch-all, 2 chunks | the resolver places every fact once, in order, or rejects the whole |
| `Narrative` | 2 generations, 1 regeneration, 1 edit or delete, 1 chapter | where a mark is about an older text, a section cites nothing or two generations mix, who left it so is on the way to mend it or an error stopped them; citations never grow |
| `NarrativeMark` | 2 generations, no failures | the review gate's promise, violated, see below |
| `Transcription` | 3 requests or retries, a cap of 2, every call may fail | what is processing has its job and what is ready an answer, the cap holds without overlap, ready is final, the correction is shown |
| `Memories` | 2 saves of one upload, a create, a change, a delete, a publish | rows have objects, one checksum one row unless the lookup missed it, success means attached and scheduled, only what is attached is transcribed, submitted memories are kept |
| `Router` | 4 recordings over one provider, or 3 prompts over two and a recording with no key; threshold 2, cooldown 1, 2 attempts | when a circuit opens, whom it keeps out, what closes it, what breaks a call, what is retried; every prompt ends |
| `Sharing` | 3 links, 2 changes, a revocation, a reader, 2 visits | links, tokens, revocation, policy and count |
| `Reading` | an export, a visitor, 3 memories, 2 acts of the family | files, attribution, no original text beside a narrative that was there throughout, a reader's page is the published book or has no section |

An invariant that has parts (`BookIsSound`, `StatusIsTrue`, `CatalogueIsSound`,
`AttachedAsTold`, `RoutingIsSound`, `LinksAreSound`, `VisitWasAllowed`,
`ExportRowIsTrue`, `AttributionIsTrue`, `PlanIsSound`) is the conjunction of named
ones, each with its own comment; the type invariant is a part of one. Most conjuncts have
a mutant of their own.

Why these bounds are enough for the hazards listed:

- *Proposal.* Three saves are what an insert race needs to be lost twice: two
  rivals and the save that raises. Three rows let one be superseded, one be
  applying and one be pending. Two confirmations contest one row or hold two.
- *ChapterApply.* `UpsertChunk = 1` and two memories give an upsert of two chunks,
  so one can fail after the other was written; two slots give plans of one and of
  two chapters. One former chapter is edited or replaced, and the first apply leaves up to
  two more, of which the owner may edit one, so a second apply meets both kinds together.
  The two are at work at once, or the second meets what a failed, rolled back or
  crashed first one left, with its own plan or the same. One act of the owner may fall
  anywhere.
- *OrganizeJob.* Two jobs overlap at every pair of steps; `Faulty` holds every call.
- *ResolvePlan.* `MaxIds = 2` per chapter and two chapters allow repetition within
  and across chapters, empty chapters, and an organizer that fills its slots and
  leaves an id over; two dates and `Undated` give every order and every tie.
- *Narrative.* Two generations cross; a regeneration meets a section that is
  deleted or replaced; the second memory is one the model names without having been
  sent it. Failures (`Faulty`) are of the calls between the first
  write of text and the clearing of the mark, where they leave most behind, the owner's
  edit, delete and clearing included.
- *Transcription.* Three requests reach the cap of two and go past it.
- *Memories.* One file saved twice is the retry and the race; a create and a change
  attach to the same memory. `Faulty` are the calls whose failure can leave something
  behind.
- *Router.* Two failures open a circuit, so of four recordings two open it, a third can
  be in the middle of a method and a fourth succeed. Three prompts over two providers
  fail over, together or apart. `MaxTime` is one cooldown: one that has passed, and times
  kept from before and after it. Prompts and recordings share no breaker in the code, as
  the services differ, so a load is of one kind; a recording with no key is the empty
  chain.
- *Sharing.* Two creators race beside the link that the publish made; two changes
  and a revocation cross a visit. Of the calls only `count` fails (`Faulty`): a
  failure of another ends its request, as an owner or reader who comes no further.
- *Reading.* Three memories: a recording behind a photograph, a text of the same
  display name, one by nobody named. Two acts are a withdrawal and a replacement. Beside
  the calls of the export the generation's insert and citations may fail.

`CHECK_DEADLOCK FALSE` is in every configuration because requests and jobs run
once each: when all have ended, the models stop, as they should.

Symmetry reduces `Proposal`, `ChapterApply`, `Narrative`, `Transcription` and `Sharing`,
whose ids are interchangeable; the runs that check liveness use none. `ChapterApply` has
a `VIEW` too: what a call of `confirm_proposal` holds in local variables (`todo`, `stale`,
`before`) goes with the call, since no action reads it afterwards. The snapshot of the
lone apply is kept, for `RollbackRestores` to compare with.

## Fairness

Three runs use it. `OrganizeJob` (`FairSpec`) assumes that time passes (weak
fairness of `Stall`) and that a job goes on (of `JobStep(j)`); a crash is never
fair and never excluded, and a step may choose to fail every time. For
`NoEternalRunning` the first is what counts: `stalled` is computed from the clock
at every read, not by a job that could die. `ProposalStranded` (`FairSpec` of
`MCProposal`) assumes that running calls go on unless they crash and that rows
age; `CallSave` has no fairness, because nothing makes an owner organize again.
Its counterexample is therefore a row that stays in `applying` while everything
the program does by itself has been done. `Router` assumes of every step of a prompt
that it is taken: the operating system schedules the thread, a request ends by its
timeout at the latest, and a back-off by its timer. Which answer is not fair, so
`PromptEnds` holds for providers that always fail, and `broken` counts as an end.
Transcriptions have no fairness: the client of the first service polls without a limit.
The clock need not tick.

## Proofs

The eight proof modules prove for every value of the constants what the runs show on
small instances. Each extends the module it is about, and two of them a second one:
the pipeline that a job runs is with the job, what a reader is given is with the link
it came by. (The names of `ResolvePlan` and `Reading` are therefore apart from those of
`OrganizeJob` and `Sharing`: `PlanSpec`, `ReadingSpec`, `exportPc`.) Assumptions are
the `ASSUME`s of those modules, and nothing else:

| module | assumed of its constants |
|---|---|
| `Proposal` | `NoneIsNoSaver`: `None` is not a saver |
| `ChapterApply` | `SlotsAssumption`, `ActsAssumption`: what kind of numbers the bounds are; `IdsAssumption`: a memoir has finitely many memories, and ids of different kinds differ |
| `OrganizeJob` | `FaultyAssumption`: `Faulty` is a set of calls |
| `ResolvePlan` | `IdAssumption`: ids are numbers, and finitely many; `BoundAssumption`: what kind of numbers the bounds are, and room for one chapter beside the catch-all |
| `Narrative` | `NarrativeAssumption`: types; `WriterAssumption`: a job is of one kind, and the owner is none |
| `Transcription` | `TranscriptionAssumption`: types, and a cap that is positive |
| `Memories` | `MemoriesAssumption`: types; `RequestAssumption`: a request is of one kind, `None` is no row |
| `Router` | `RouterAssumption`: types, among them that a chain is a finite sequence, maybe empty |
| `Sharing` | `SharingAssumption`: types; `RequestAssumption`: a request is of one kind, `None` is no row, and the requests that count an opening are finitely many |
| `Reading` | `ReadingAssumption`: types, and which calls of an export may fail |

| theorem | property |
|---|---|
| `ProposalProofs!TypeSafety` | `TypeOK` |
| `ClaimSafety` | `ClaimIsExclusive` |
| `WriteSafety` | `WrittenOnce` |
| `RecordSafety` | `AppliedWasWritten` |
| `OfferSafety` | `WrittenIsNotOffered` |
| `PendingSafety` | `OnePending` |
| `RetrySafety` | `RetryNeedsRival` |
| `RetiredSafety` | `RetiredForGood` |
| `OfferRefinement` | `OfferSpec` |
| `OrganizeJobProofs!TypeSafety` | `TypeOK` |
| `ReadySafety` | `ReadyRunIsSound` |
| `FinalSafety` | `RunIsFinal` |
| `ProposalSafety` | `ReadyHasProposal` |
| `PlanHasEveryFactOnce` | `EveryFactOnce` |
| `PlanIsInOrder` | `BookInOrder` |
| `PlanStaysSound` | `PlanIsSound` |
| `ChapterApplyProofs!TypeSafety` | `TypeOK` |
| `CompleteSafety` | `ApplyIsComplete` |
| `RollbackSafety` | `RollbackRestores` |
| `NeverLostSafety` | `PlannedNeverLost` |
| `EditedSafety` | `EditedBeforeSurvives` |
| `NarrativeProofs!BookSafety` | `BookIsSound` |
| `StaleSafety` | `StaleReviewHasWriter` |
| `MixedSafety` | `MixedHasCrossed` |
| `TranscriptionProofs!StatusSafety` | `StatusIsTrue` |
| `CapSafety` | `CapWithoutOverlap` |
| `CorrectionSafety` | `CorrectionIsShown` |
| `ReadySafety` | `ReadyIsFinal` |
| `MemoriesProofs!CatalogueSafety` | `CatalogueIsSound` |
| `AttachedSafety` | `AttachedAsTold` |
| `KeptSafety` | `SubmittedIsKept` |
| `RouterProofs!RoutingSafety` | `RoutingIsSound` |
| `OpensSafety` | `OpensOnStreak` |
| `ClosesSafety` | `ClosesByOldCall` |
| `SharingProofs!LinksSafety` | `LinksAreSound` |
| `VisitSafety` | `VisitWasAllowed` |
| `OpensSafety` | `OpensAddUp` |
| `ExportRowsAreTrue` | `ExportRowIsTrue` |
| `OriginalsStayOut` | `WordsStayOut` |
| `NamesAreRight` | `AttributionIsTrue` |
| `ReadersSeeTheBook` | `PageIsTheBook` |

**Proposal.** None of the properties is inductive as it stands. `WrittenOnce`, say,
needs to know that a confirmer about to finish writing holds a plan of which no apply
returned; that follows from its claim only if no other path led back to `pending` in
between. `HolderKnows` says so: while a confirmer holds a row, the row is
`applying`, `superseded` or `expired`, never `pending`, and the confirmer's step
tells whether an apply of the plan returned (`written` and `unheard` are equal, or one
apart). Since `Claimable` asks for `pending`, two
holders of one row cannot arise (`ClaimIsExclusive`), and a release can only be
that of the sole holder. `WrittenIsPast` keeps the row of a plan whose apply returned
away from `pending`.
For the retry, `AuthorsAreDone` says that a save that is not over inserted
nothing, and `RivalsOnly` that after its supersede every live row came from
another save; when the insert is refused, some row is pending, so a rival exists.
The refinement is proved step by step: each action maps to a move of
`ProposalOffer` or to a stutter, under the invariant.

**OrganizeJob.** `NoStageFailed` and `SavedFirst` carry the order of the pipeline to
the moment a run is closed, `RowFollowsJob` says that a row is opened once and
that only a job past its stages has closed one. `FinalSafety` needs the latter:
a second end meets `Finishable`, and the one step that sets a row regardless, the
opening, happens while there is none. `ReadyHasProposal` is about a step: the job that
sets ready is in `saved`, by `SavedFirst`, whatever other jobs did.

**ChapterApply.** Each promise is about the end of an apply, so the invariant says how
far it has come. `AssignedSoFar` and `RestoredSoFar` are what the loops have done of
their work: every memory of the plan that is no longer in `todo`, and that the owner did
not move, is where the plan, or the snapshot, puts it. `SnapshotHolds` keeps the
snapshot usable: the chapters in it exist until the rollback is over, since the one call
that deletes chapters comes after the last assignment, and they are not the plan's own,
which `NewAreNew` says are inserted no earlier than by this apply's insert.
`StaleIsRight` is the hinge of the delete: what was fetched is all that was neither
edited nor new. All this is said of `lone` only (`LoneFits`), and `OnlyLone` that no
other apply is at work beside it, which keeps an earlier one, dead or finished, out. For
overlapping applies one thing is left, and its invariant needs no `lone`: `KeptSafe`
says of each apply at work that what was edited before it began is not among its own
chapters nor among those it is about to delete. The owner's own steps preserve each part
because every one of them excepts what the owner moved, and a memory that had lost its
chapter before (`lost`).

**Narrative.** The properties name the job or the owner they hold to account, and the
ghosts say who that is: `AnswersFor(uncitedBy[s], s)` for a section without a citation,
its own generation or a regeneration of that very section, each only between its two
calls or once it has failed there; `author` for a mark on an older text. So a step of
another job cannot discharge them, and the proof is that a job leaves the place where it
answers only by mending what it left or by failing. `GeneratorsFit` and
`RegeneratorsFit` say what is in the hands of a job: citations, never none, and of no
memory but those that its section was made of (`origin`). From `crossed` on nothing is
claimed about the mixture; before, `OneBook` says that a generation about to insert is
alone and finds the book empty. Since most steps are one job's, what they leave alone is
proved once (`Aside`, `OthersHold`).

**Transcription.** Two jobs that overlap break every one of these facts, so the
invariant speaks of behaviours in which none did, and `AtWorkAlone` says what that
gives: a job that calls the database is the only one at work. `AttemptsFirst` then
carries the cap: what the job read is still what the row says, so its first write counts
an attempt before the call of the provider it stands for. `TextFirst` and `ReadyRests`
are the order of the last two writes: the provider's answer, be it empty, is there
before the status, and beside a finished recording only the job that made it so
(`teller`) goes on, having mistaken a lost answer for a failure. `JobsKnow` says that a
job has read every correction that was not made under it, which is what makes its
display text the correction, and `EditsStay` that it knows of none that is not on the
row. What any of the writes does, answered or not, is stated once (`SaveEffect`,
`StatusEffect`).

**Memories.** Three checks are made in one call and used in a later one, and each has
its invariant. `NoTwin` is the lookup of a checksum: who is about to insert is alone with
it and no row has it, unless that save or the other missed something (`Missed`: it looked
up while the other inserted, or was not shown the row). `LookedUpIsGood`
and `RemovedWasBad` are the inspection of the object: what passed is good until a
refused save of the same key removes it. `VerifiedIsThere` and `LinkedIsAttached` are
the verification of attachments, which holds on since no operation takes a media row
or a link away. `CheckedIsDraft` is the check of a delete, for each memory
whose status was not written between it and the write (`raced`).

**Router.** Of each breaker the invariant says `Sound`: an open one has admitted nobody
since it opened, and it has counted no more failures than there were in a row (`streak`,
which stops at the threshold). Of each call it says what a thread in the middle of a method
knows (`KnowsStill`): the circuit it found open is open, the streak it counted is as long
as the threshold, unless another thread closed that circuit meanwhile (`crossed`). Hence
`BrokenByAnother`. `AttemptsLeft`, `FirstFirst` and `ClockPast` are about counters and the
time a call holds. The action properties follow step by step: what each method of the
breaker may do to it is `Lawful` or one of the two exceptions, `OpensLaw` and `ClosesLaw`
are what a step may do to all of them, and `Keeps` says which changes leave what others
know as it was.

**Sharing.** `OneLive` is the creation's check before its insert, under `raced`.
`InertLinks` and `InertReads` say that a link opens for nobody until its owner has
configured it, neither by its row nor by what a reader has read of it. `LiveVisits`
follows a visit under `/api/share` from its first read: what it goes on with was alive
when it came, and its token is for that link. `PolicyIsNoted` says that no moment at
which comments were on passes a visit by. For the counts, `ReadsCount` says that what
an opening has read is still the count unless two crossed on that link, and
`OpenedOnce` bounds the openings by the finitely many requests that make them.

**ResolvePlan.** The state machine is short and its invariant, `PipelineInv`, says
little more than that a plan is what `Resolve` makes of what was read and proposed; the
work is in the operators. That a sorted order exists at all (`OrderExists`) is an
induction on a finite set, put as: of its subsets that are not empty and lack a last
element one is smallest (`SmallestSubset`, from the well-foundedness of strict
inclusion), and from there one element at a time. `SortedByIsOrdered` then gives what
every sort of the resolver needs: the order has every element, once, and keys ascend
along it. `ByDateIsSorted` applies it to a chapter, `ChronologicalIsChosen` to the
chapters and `CatchAllIsSorted` to the rest; `Chosen` and `Resolved` say of the result
what the properties ask. The chapters proposed are at most one fewer than the limit,
which is why the catch-all always finds a slot (`SlotIsLeft`).

**Reading.** Two readers of the citations, the export and the Sources button, drop what
has no row, each by its own query. `CitesHaveRows` says that neither drops anything: a
citation is of a memory that has a row, and a deletion leaves the row. So both show what
the citations say, and the rest is `AttributionIs`: among the kinds of any citations a
best one exists, because a set of numbers that is not empty has a least one
(`LeastExists`), and it is a recording if there is any. `JobFits` follows a job: it comes to
render without a section only if there was a moment without one (`bare`), and its row is
ready only after its file is stored. `BookFits` says what the sections are at any moment:
those last stored, less what the owner deleted, or none after the delete of a generation
that has not inserted (`gap`). `PageFits` follows a reader: the memoir was published
when the page was opened, the triggers let no memory and no section change after that, so
what an earlier query returned is still the book when the last one has returned.

Only model-checked: `NoEternalRunning`, `PromptEnds` and the statement of
`ProposalStranded`. They are liveness under fairness, which is outside the prover's reach.
Everything else that a passing run checks is a theorem.

## Where code and documentation disagree

Two runs check one statement each of a comment or a migration, which TLC finds
violated by what the code does.

| run | the statement | what happens |
|---|---|---|
| `ProposalStranded` | "the same age check that reaps a stale `pending` row reaps a stranded `applying` one" (migration `e7a41c5b9f32`:43-45) | the check runs on claimed rows, and a stranded one cannot be claimed; a later save retires it |
| `NarrativeMark` | "Nobody should be able to publish an unread AI biography of their dead parent" (`memoir_service.py:314-316`) | the gate is read before the transaction, which does not check it: a job that is running writes its text in between, or publish meets a mark made on an older text that the job has not cleared yet |

Met while modelling, and left to the models without a run of their own. Some may be
judged acceptable; then the sentence should change.

- A claimed proposal is said to be "no longer eligible for supersede"
  (`organization_service.py:1039-1041`); `_supersede_pending` retires `applying` rows
  too (`proposal_repository.py:115-131`, for stranded ones), so two applies can overlap.
  Each then deletes the other's new chapters, and the memories in them point to nothing.
- Edited chapters "were never in the fetched id set, so they are structurally
  protected" (866-868); an edit between the fetch and the delete is deleted.
- "Nothing is silently dropped" (479-480): a memory the reader left out, or whose chunk
  failed, gets no chapter, and the one it is in is deleted.
- "A None run_id makes this a no-op" (758): the filter raises, and a job that saved
  its proposal is shown as failed.
- Every id is checked against "the exact set that was sent" (27-28): the
  organizer's ids are, against the reader's; the reader's are not.
- The unique index covers `pending` only, so one row may be `applying` beside a
  pending one (migration `e7a41c5b9f32`:51-52 says one live row).
- "Any failure restores every touched memory [...] and deletes the newly created
  chapters" (`organization_service.py:802-805`). When `insert_chapters` raises after its
  rows were written, they stay. The last delete (872) is outside the try: if it fails, or
  its answer is lost, the whole plan is written, the owner is told of a failure, the
  proposal is released, and the plan may be written once more.
- `_save_transcript` carries the raw text forward (`transcription_service.py:46-51`),
  from the snapshot: a job that saved the text, lost an answer and takes the failure
  path writes the snapshot's, which has none. The task is said to end in ready or
  failed (190-191): its first two writes are outside the try.
- "A genuinely rejected file [...] should fail over immediately rather than twice"
  (`stt/router.py:97-100`): the loop retries every exception, a rejected file too.
- `is_open` reads `_opened_at` twice (`llm/router.py:73-75`, `stt/router.py:64-66`): if
  another thread closes the circuit in between, the caller gets a `TypeError` instead of
  an answer from a provider that works.
- The breaker is said to let one probe through and to reset on its outcome
  (`llm/router.py:76-78`): it closes for every caller at the cooldown.
- An empty response is said to be failed over (`llm/router.py:9-10`), and a 400 for an
  unsupported schema too (`llm/provider.py:90-92`): neither is an infrastructure
  failure to `_is_infrastructure_failure`, and both are raised.
- "The attribution (which memories) stays fixed" when a section is regenerated
  (`narrative_service.py:265-267`): the answer must not go beyond what was sent, but may
  name less, and what it names is stored.
- "No reader can ever observe the brief window with zero sections"
  (`narrative_repository.py:198-202`): a publication between the delete and the insert
  makes the triggers refuse the insert, and readers find no section for ever.
- "Editing is the owner correcting/curating this exact text -- the prior review no longer
  describes the current content" (`api/narrative.py:230-231`), but clearing the mark is a
  call of its own that may raise (232, 248): the edit stays, and so does the mark.
- "The PDF contains the AI narrative and photographs, never the full source memory text"
  (`export_service.py:141-147`): of an export that reads the sections while a generation
  has deleted and not yet inserted them, the PDF holds the full texts. `WordsStayOut`
  excepts such jobs by name.
- An export whose process dies leaves its row `queued`; nothing reaps it. `QueuedHasWorker`
  counts such a job as at work, and says so.
- "One live link per scope per memoir" is said to be a constraint of the schema
  (`share_repository.py:56`); no migration has it, and two requests make two links.
- A reader's comment is said to need commenting enabled (`api/comments.py:38-39`); that
  route goes by the token, issued up to a day before, and by no look at the link. The
  same holds for reading the narrative and its sources
  (`api/narrative.py:144-210`): a reader whose link was revoked still has both until the
  token ends.
- The lookup "to prevent duplicate ghost uploads" (`media_repository.py:40-42`) needs a
  checksum, which is optional, and is subject to row-level security: see
  [Memories](#memories).
- The payload of the PDF is read without a filter on status or `deleted_at`
  (`export_repository.py:61-69`): without a narrative, drafts and deleted memories are
  in it.

## Abstractions and limits

- Texts, titles, summaries, prompts, timestamps and error messages are left out. A
  date is kept only as far as the resolver compares it.
- One memoir at a time. No operation of these modules touches two.
- A write that was sent by a process that then died, and reaches the database
  later, is not modelled: a call is over when its caller takes the next step.
- Participants and roles are fixed; every request is by somebody allowed to make it.
- `ChapterApply.Prepare` takes its reads (memories, locked ids) as one step. The
  properties that hold do not depend on the plan being made of one snapshot, since
  any plan over the organizable memories can be stale by the time it is applied.
- Deletion of memories is in `Memories` and `Reading`; in `ChapterApply` and
  `Narrative` a memory that leaves the submitted set stands for it.
- The upserts of `assign_memories_to_chapters` are taken as the docstring describes
  them. Whether the rows it sends satisfy the columns that must not be null is a
  question for the database, not for this model; a refusal is one of the outcomes.
- The cap of 64 stage rows per run is not reached by a job that opens two.
- `READER_CHUNK_SIZE`, the semaphore and the deadline decide how many reader calls
  there are and which fail; the model lets any of them fail.
- A breaker is made at the first use of its provider (`_breaker_for`, `llm/router.py:103`),
  and two threads may make one each, the first of which is forgotten. `Router` is about
  breakers that exist. Each worker process has its own.
- `MaxCount` in `Router` bounds how far a breaker counts, `MaxTime` its clock;
  `MaxActs` bounds what an owner or a family does; `Faulty` which calls may fail.

### Not modelled

- *Archive chat, request limits.* Sliding windows in the memory of one worker, read
  and appended to without an await or a lock between; nothing interleaves with them.
- *Accounts, sessions, profiles.* The hosted authentication service does the work;
  what remains are single-row reads and updates.
- *Organizer page, search, previews, lists of participants.* They read and render.
- *Shell, configuration, migrations, deployment.* Wiring and settings at boot; what
  the migrations install (indexes, triggers, the publish function, foreign keys)
  is in the modules that meet it.
- *`create_memoir`, cover photo, dashboard.* Creation compensates by deleting the
  memoir it inserted when the owner's participant row fails; no other request can
  know the memoir yet.
- *`reorder_chapters_in_db`.* It writes `sort_order`, which no other operation reads.

## Plan

Done: `Proposal` with its refinement, `ChapterApply`, `OrganizeJob`, `ResolvePlan`,
`Narrative`, `Transcription`, `Memories`, `Router`, `Sharing` and `Reading`, each
model-checked and with every safety property proved.

Next:

1. Parts of the inductive invariants that deserve to be read as promises of their own:
   `SnapshotHolds`, `OneBook`, `OneLive`.
2. `OrganizationSystem`: `OrganizeJob` with `Proposal` inside its save, and
   `ChapterApply` inside a confirmation's interval, for the question that spans
   them: what an owner sees after any run is a memoir one of the plans describes.
3. `create_memoir` with its compensation, if it grows a second writer.

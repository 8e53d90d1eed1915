------------------------------ MODULE Reading ------------------------------
(***************************************************************************)
(* What leaves the archive of one memoir: the PDF of an export job, the    *)
(* page of a reader or of a participant, and the sources behind a section. *)
(* Each is put together from several queries, one step each, while         *)
(* memories come and go, a recording is transcribed, the narrative is      *)
(* replaced and the memoir is published.                                   *)
(*                                                                         *)
(* The narrative's writer is Narrative reduced to the three calls of       *)
(* replace_all_sections, by one generation after the other, and to the     *)
(* sections that the owner deletes.  Media are reduced to the kinds linked *)
(* to each memory; signed URLs, captions and layout are left out.          *)
(*                                                                         *)
(* No step is fair: a job or a writer that a crash kills takes no further  *)
(* step.                                                                   *)
(*                                                                         *)
(* Names are apart from those of Sharing, for SharingProofs extends both.  *)
(***************************************************************************)
EXTENDS Naturals, Sequences, FiniteSetsExt

CONSTANTS
  Memory,
  Section,
  Job,          \* export jobs
  Visitor,      \* each comes with an unlocked link or with an account
  Name,         \* display names
  Null,
  NameOf,       \* [Memory -> Name \cup {Null}], its author's display name
  LinksOf,      \* [Memory -> Seq(MediaKind)], its media in the order of the links
  ReadingFaulty, \* the calls that may fail
  MaxActs       \* bound on what the family does

VARIABLES
  memory,       \* rows of memory
  spoken,       \* memories whose recording has a transcript
  section,      \* rows of narrative_section
  cites,        \* rows of narrative_source, by section
  draft,        \* what the writer of the narrative has still to store
  writer,       \* the next call of that writer
  published,
  acts,
  row,          \* rows of memoir_export, by job
  file,         \* objects under exports/pdf-archives
  exportPc,     \* the next call of each job, or how it ended
  pdf,          \* what a job has read, and then what its file says
  bare,         \* ghost: jobs that began or ran while there was no section
  told,         \* ghost: the sections last stored, less those the owner deleted
  gap,          \* ghost: a generation deleted the sections and stored none since
  printed,      \* ghost: the memories that were submitted when it was published
  page          \* what each visitor has read

telling == <<told, gap, printed>>
archive == <<memory, spoken, section, cites, draft, writer, published, acts, bare, telling>>
export == <<row, file, exportPc, pdf>>
readingVars == <<archive, export, page>>

-----------------------------------------------------------------------------

MediaKind == {"audio", "photo", "video"}
Label == MediaKind \cup {"text"}
JobCall == {"request", "memories", "transcripts", "sections", "sources",
            "render", "upload", "ready", "failed"}
JobOver == {"refused", "ended", "raised"}
PageCall == {"away", "memories", "transcripts", "sections", "sources", "shown"}

ASSUME ReadingAssumption ==
  /\ ReadingFaulty \subseteq
       {"request", "render", "upload", "ready", "failed", "insert", "sources"}
  /\ NameOf \in [Memory -> Name \cup {Null}]
  /\ \A m \in Memory : LinksOf[m] \in Seq(MediaKind)
  /\ MaxActs \in Nat

ReadingReply(call) == IF call \in ReadingFaulty THEN {"ok", "error", "lost"} ELSE {"ok"}
Stored(reply) == reply # "error"
Confirmed(reply) == reply = "ok"

Recorded(m) == \E i \in DOMAIN LinksOf[m] : LinksOf[m][i] = "audio"
NotDeleted == {m \in Memory : memory[m] \in {"draft", "submitted"}}
Submitted == {m \in Memory : memory[m] = "submitted"}

\* A memory is deleted by setting deleted_at: its row stays.
MemoryRows == {m \in Memory : memory[m] # "absent"}

NoCites == [s \in Section |-> {}]
Blank == [words |-> {}, voices |-> {}, sections |-> {}, cites |-> NoCites, named |-> NoCites]
NoPage == [at |-> "away", as |-> "reader", memories |-> {}, voices |-> {}, sections |-> {},
           cites |-> NoCites, asked |-> Null, originals |-> {}]

-----------------------------------------------------------------------------
(* Variants with a plausible bug, which the properties must notice *)

LastKind(kinds) == kinds[Len(kinds)]
CountMissing(ms) == {NameOf[m] : m \in ms}   \* an empty name is not left out
NoTrigger == TRUE                            \* before the trigger existed
SwallowError == "ended"                      \* the except branch only logs
ReadyFirst == "ready"                        \* the row is set before the upload
OnlySubmitted(s) == cites[s] \cap Submitted  \* one of two reads gains a filter

\* whether there is a narrative is told from its attribution
ByAttribution(j) == \E s \in pdf[j].sections : pdf[j].named[s] # {}

-----------------------------------------------------------------------------
(* The attribution line *)

Priority(k) == CASE k = "audio" -> 0 [] k \in {"photo", "video"} -> 1 [] OTHER -> 2

\* Of the kinds of a memory the first of least priority is kept.
BestKind(kinds) ==
  LET IsBest(i) == \A k \in DOMAIN kinds : Priority(kinds[i]) <= Priority(kinds[k])
  IN  kinds[Min({i \in DOMAIN kinds : IsBest(i)})]

\* kind_by_memory, and the default for a memory with no media
KindOf(m) == IF LinksOf[m] = << >> THEN "text" ELSE BestKind(LinksOf[m])

Contributors(ms) == {NameOf[m] : m \in ms} \ {Null}

\* best_kind_by_contributor: contributors are told apart by display name, and
\* between a photograph and a video the order of the citations decides.
KindFor(name, ms) ==
  LET kinds == {KindOf(m) : m \in {o \in ms : NameOf[o] = name}}
  IN  CHOOSE k \in kinds : \A l \in kinds : Priority(k) <= Priority(l)

Attribution(ms) == {<<n, KindFor(n, ms)>> : n \in Contributors(ms)}

-----------------------------------------------------------------------------
(* The archive *)

\* prevent_writes_to_published_memoir, on memory, memory_media and
\* narrative_section; it does not cover narrative_source
Admitted == ~ published

Act == acts < MaxActs /\ acts' = acts + 1

\* create_memory, update_memory and delete_memory, which refuses a submitted
\* memory; the calls they consist of are in Memories.
Write(m, status) ==
  /\ Act
  /\ Admitted
  /\ \/ memory[m] = "absent" /\ status \in {"draft", "submitted"}
     \/ memory[m] = "draft" /\ status \in {"submitted", "deleted"}
     \/ memory[m] = "submitted" /\ status = "draft"
  /\ memory' = [memory EXCEPT ![m] = status]
  /\ UNCHANGED <<spoken, section, cites, draft, writer, published, bare, telling, export, page>>

\* The transcription of a recording, which the trigger lets through.
Transcribe(m) ==
  /\ m \in MemoryRows \ spoken
  /\ Recorded(m)
  /\ spoken' = spoken \cup {m}
  /\ UNCHANGED <<memory, section, cites, draft, writer, published, acts, bare, telling, export,
                 page>>

Running == {j \in Job : exportPc[j] \in JobCall \ {"request", "failed"}}

\* replace_all_sections: the delete takes the citations with it (ON DELETE
\* CASCADE); the model has answered from the submitted memories.
DeleteAll ==
  /\ writer = "idle"
  /\ Act
  /\ Admitted
  /\ section' = {}
  /\ cites' = NoCites
  /\ gap' = TRUE
  /\ writer' = "insert"
  /\ draft' \in [Section -> (SUBSET Submitted) \ {{}}]
  /\ bare' = bare \cup Running
  /\ UNCHANGED <<memory, spoken, published, told, printed, export, page>>

\* The writer goes on, or ends: at its last call, by an error or a lost answer.
WriterTo(to) ==
  /\ writer' = to
  /\ draft' = IF to = "idle" THEN NoCites ELSE draft

InsertSections ==
  /\ writer = "insert"
  /\ \E reply \in IF Admitted THEN ReadingReply("insert") ELSE {"error"} :
       /\ WriterTo(IF Confirmed(reply) THEN "sources" ELSE "idle")
       /\ IF Stored(reply)
            THEN section' = Section /\ told' = Section /\ gap' = FALSE
            ELSE UNCHANGED <<section, told, gap>>
  /\ UNCHANGED <<memory, spoken, cites, published, acts, bare, printed, export, page>>

\* One citation of a section that is gone, and none is stored.
InsertSources ==
  /\ writer = "sources"
  /\ WriterTo("idle")
  /\ \E reply \in IF section = Section THEN ReadingReply("sources") ELSE {"error"} :
       cites' = IF Stored(reply) THEN draft ELSE cites
  /\ UNCHANGED <<memory, spoken, section, published, acts, bare, telling, export, page>>

\* delete_section, by the owner
DeleteSection(s) ==
  /\ Act
  /\ Admitted
  /\ s \in section
  /\ section' = section \ {s}
  /\ told' = told \ {s}
  /\ cites' = [cites EXCEPT ![s] = {}]
  /\ bare' = IF section' = {} THEN bare \cup Running ELSE bare
  /\ UNCHANGED <<memory, spoken, draft, writer, published, gap, printed, export, page>>

\* publish_memoir_tx, behind the review gate of Narrative
Publish ==
  /\ ~ published
  /\ published' = TRUE
  /\ printed' = Submitted
  /\ UNCHANGED <<memory, spoken, section, cites, draft, writer, acts, bare, told, gap, export,
                 page>>

-----------------------------------------------------------------------------
(* An export job *)

Proceed(j, to) == exportPc' = [exportPc EXCEPT ![j] = to]

\* An exception anywhere in process_export_background.
AfterError == "failed"

\* request_memoir_export: a lost answer leaves a row that nobody works on
RequestExport(j) ==
  /\ exportPc[j] = "request"
  /\ \E reply \in ReadingReply("request") :
       /\ row' = IF Stored(reply) THEN [row EXCEPT ![j].status = "queued"] ELSE row
       /\ Proceed(j, IF Confirmed(reply) THEN "memories" ELSE "refused")
  /\ bare' = IF section = {} THEN bare \cup {j} ELSE bare
  /\ UNCHANGED <<memory, spoken, section, cites, draft, writer, published, acts, telling, file, pdf,
                 page>>

\* The memories of the PDF: neither their status nor deleted_at is looked at.
ReadMemories(j) ==
  /\ exportPc[j] = "memories"
  /\ pdf' = [pdf EXCEPT ![j].words = MemoryRows]
  /\ Proceed(j, "transcripts")
  /\ UNCHANGED <<archive, row, file, page>>

ReadTranscripts(j) ==
  /\ exportPc[j] = "transcripts"
  /\ pdf' = [pdf EXCEPT ![j].voices = spoken]
  /\ Proceed(j, "sections")
  /\ UNCHANGED <<archive, row, file, page>>

ReadSections(j) ==
  /\ exportPc[j] = "sections"
  /\ pdf' = [pdf EXCEPT ![j].sections = section]
  /\ Proceed(j, IF section = {} THEN "render" ELSE "sources")
  /\ UNCHANGED <<archive, row, file, page>>

\* fetch_sections_for_export once it has the ids of the sections.  The rows
\* and names it reads after the citations are never removed or renamed.
CitedBy(s) == cites[s] \cap MemoryRows

ReadSources(j) ==
  /\ exportPc[j] = "sources"
  /\ LET cited == [s \in Section |-> IF s \in pdf[j].sections THEN CitedBy(s) ELSE {}]
     IN  pdf' = [pdf EXCEPT ![j].cites = [s \in Section |->
                                            IF s \in pdf[j].sections THEN cites[s] ELSE {}],
                            ![j].named = [s \in Section |-> Attribution(cited[s])]]
  /\ Proceed(j, "render")
  /\ UNCHANGED <<archive, row, file, page>>

\* _render_memoir_html: a narrative takes the place of memories and transcripts.
HasNarrative(j) == pdf[j].sections # {}
AfterRender == "upload"

Render(j) ==
  /\ exportPc[j] = "render"
  /\ \/ /\ pdf' = [pdf EXCEPT ![j].words = IF HasNarrative(j) THEN {} ELSE @,
                              ![j].voices = IF HasNarrative(j) THEN {} ELSE @]
        /\ Proceed(j, AfterRender)
     \/ /\ "render" \in ReadingFaulty   \* pisa_status.err, or an exception
        /\ Proceed(j, AfterError)
        /\ UNCHANGED pdf
  /\ UNCHANGED <<archive, row, file, page>>

Upload(j) ==
  /\ exportPc[j] = "upload"
  /\ \E reply \in ReadingReply("upload") :
       /\ file' = IF Stored(reply) THEN file \cup {j} ELSE file
       /\ Proceed(j, IF Confirmed(reply) THEN "ready" ELSE AfterError)
  /\ UNCHANGED <<archive, row, pdf, page>>

\* update_job_status: a field that is not given keeps its value
MarkReady(j) ==
  /\ exportPc[j] = "ready"
  /\ \E reply \in ReadingReply("ready") :
       /\ row' = IF Stored(reply) THEN [row EXCEPT ![j].status = "ready", ![j].keyed = TRUE]
                                ELSE row
       /\ Proceed(j, IF Confirmed(reply) THEN "ended" ELSE AfterError)
  /\ UNCHANGED <<archive, file, pdf, page>>

MarkFailed(j) ==
  /\ exportPc[j] = "failed"
  /\ \E reply \in ReadingReply("failed") :
       /\ row' = IF Stored(reply) THEN [row EXCEPT ![j].status = "failed"] ELSE row
       /\ Proceed(j, IF Confirmed(reply) THEN "ended" ELSE "raised")
  /\ UNCHANGED <<archive, file, pdf, page>>

Export(j) ==
  \/ RequestExport(j) \/ ReadMemories(j) \/ ReadTranscripts(j) \/ ReadSections(j)
  \/ ReadSources(j) \/ Render(j) \/ Upload(j) \/ MarkReady(j) \/ MarkFailed(j)

\* get_latest_export_status gives out a download link
Offered(j) == row[j].status = "ready" /\ row[j].keyed

-----------------------------------------------------------------------------
(* A visitor's page *)

See(v, field, value, to) ==
  /\ page' = [page EXCEPT ![v] = [@ EXCEPT ![field] = value, !.at = to]]
  /\ UNCHANGED <<archive, export>>

\* A reader's link works for a published memoir only; a participant's feed and
\* narrative are there before that.
Role == {"reader", "participant"}
Allowed(role) == role = "reader" => published

Open(v, role) ==
  /\ page[v].at = "away"
  /\ Allowed(role)
  /\ page' = [page EXCEPT ![v] = [NoPage EXCEPT !.at = "memories", !.as = role]]
  /\ UNCHANGED <<archive, export>>

\* get_full_memoir_view
ReaderMemories == Submitted

\* fetch_memoir_feed_records
FeedMemories == NotDeleted

SeeMemories(v) ==
  /\ page[v].at = "memories"
  /\ See(v, "memories", IF page[v].as = "reader" THEN ReaderMemories ELSE FeedMemories,
         "transcripts")

SeeTranscripts(v) ==
  /\ page[v].at = "transcripts"
  /\ See(v, "voices", page[v].memories \cap spoken, "sections")

\* fetch_narrative_sections: the rows, then their citations
SeeSections(v) ==
  /\ page[v].at = "sections"
  /\ See(v, "sections", section, IF section = {} THEN "shown" ELSE "sources")

SeeSources(v) ==
  /\ page[v].at = "sources"
  /\ See(v, "cites", [s \in Section |-> IF s \in page[v].sections THEN cites[s] ELSE {}], "shown")

\* The Sources button of a section: fetch_narrative_section, which raises when
\* the section is gone, then fetch_source_memories, deleted memories included.
Originals(s) == cites[s] \cap MemoryRows

Ask(v, s) ==
  /\ page[v].at = "shown"
  /\ Allowed(page[v].as)
  /\ s \in page[v].sections \cap section
  /\ page' = [page EXCEPT ![v].asked = s, ![v].cites[s] = cites[s], ![v].originals = Originals(s)]
  /\ UNCHANGED <<archive, export>>

ViewPage(v) ==
  \/ \E role \in Role : Open(v, role)
  \/ SeeMemories(v) \/ SeeTranscripts(v) \/ SeeSections(v) \/ SeeSources(v)
  \/ \E s \in Section : Ask(v, s)

-----------------------------------------------------------------------------

ReadingInit ==
  /\ memory \in [Memory -> {"absent", "submitted"}]
  /\ spoken = {}
  /\ section = {}
  /\ cites = NoCites
  /\ draft = NoCites
  /\ writer = "idle"
  /\ published = FALSE
  /\ acts = 0
  /\ row = [j \in Job |-> [status |-> "absent", keyed |-> FALSE]]
  /\ file = {}
  /\ exportPc = [j \in Job |-> "request"]
  /\ pdf = [j \in Job |-> Blank]
  /\ bare = {}
  /\ told = {}
  /\ gap = FALSE
  /\ printed = {}
  /\ page = [v \in Visitor |-> NoPage]

ReadingNext ==
  \/ \E m \in Memory, status \in {"draft", "submitted", "deleted"} : Write(m, status)
  \/ \E m \in Memory : Transcribe(m)
  \/ DeleteAll \/ InsertSections \/ InsertSources \/ Publish
  \/ \E s \in Section : DeleteSection(s)
  \/ \E j \in Job : Export(j)
  \/ \E v \in Visitor : ViewPage(v)

ReadingSpec == ReadingInit /\ [][ReadingNext]_readingVars

-----------------------------------------------------------------------------
(* Properties *)

ReadingTypes ==
  /\ memory \in [Memory -> {"absent", "draft", "submitted", "deleted"}]
  /\ spoken \subseteq MemoryRows
  /\ section \subseteq Section
  /\ cites \in [Section -> SUBSET Memory] /\ draft \in [Section -> SUBSET Memory]
  /\ writer \in {"idle", "insert", "sources"}
  /\ {published, gap} \subseteq BOOLEAN
  /\ told \subseteq Section /\ printed \subseteq Memory
  /\ acts \in 0 .. MaxActs
  /\ row \in [Job -> [status : {"absent", "queued", "ready", "failed"}, keyed : BOOLEAN]]
  /\ file \subseteq Job /\ bare \subseteq Job
  /\ exportPc \in [Job -> JobCall \cup JobOver]
  /\ pdf \in [Job -> [words : SUBSET Memory, voices : SUBSET Memory, sections : SUBSET Section,
                      cites : [Section -> SUBSET Memory],
                      named : [Section -> SUBSET (Name \X Label)]]]
  /\ page \in [Visitor -> [at : PageCall, as : Role, memories : SUBSET Memory,
                           voices : SUBSET Memory, sections : SUBSET Section,
                           cites : [Section -> SUBSET Memory],
                           asked : Section \cup {Null}, originals : SUBSET Memory]]

\* export_service.process_export_background and api/export: the owner is never
\* offered a download whose file is not in the bucket, whichever call of the
\* job failed or lost its answer.
ReadyHasFile == \A j \in Job : Offered(j) => j \in file

\* A job that is still queued is one that a process works on, unless its last
\* word was lost or its request was refused: any other failure reaches the row.
\* (A job that a crash killed stays at its call and counts as at work: nothing reaps
\* its row, which stays queued for ever.)
QueuedHasWorker ==
  \A j \in Job : row[j].status = "queued" =>
    exportPc[j] \in (JobCall \ {"request"}) \cup {"refused", "raised"}

\* What the row of an export says of its job is so.
ExportRowIsTrue == ReadingTypes /\ ReadyHasFile /\ QueuedHasWorker

\* export_service.py:141-147 and 203-206: the PDF of a memoir that had a
\* narrative from the job's request to its last read holds no memory or
\* transcript in full, even while the citations are being rewritten.
WordsStayOut ==
  \A j \in file : pdf[j].words \cup pdf[j].voices # {} => j \in bare

\* narrative_repository.fetch_sections_for_export and fetch_source_memories: a
\* contributor whom the PDF names is one whose memory the Sources button shows,
\* if both read the same citations, whatever was withdrawn between the two.
AttributedIsShown ==
  \A j \in Job, v \in Visitor :
    LET s == page[v].asked
        same == s \in pdf[j].sections /\ pdf[j].cites[s] = page[v].cites[s]
    IN  s # Null /\ same /\ exportPc[j] = "render" =>
          {n[1] : n \in pdf[j].named[s]} = Contributors(page[v].originals)

\* fetch_sections_for_export: over all the links of all the memories cited by
\* one display name, a recording is named whenever there is one, and "written
\* memory" only when there is no media at all.
BestKindNamed ==
  \A j \in Job, s \in Section :
    \A n \in pdf[j].named[s] :
      LET theirs == {m \in pdf[j].cites[s] : NameOf[m] = n[1]} IN
      /\ n[2] = "audio" <=> \E m \in theirs : Recorded(m)
      /\ n[2] = "text" <=> \A m \in theirs : LinksOf[m] = << >>

\* The names in a PDF are right: who is shown behind the section, by the best kind.
AttributionIsTrue == AttributedIsShown /\ BestKindNamed

\* share_repository.get_full_memoir_view: although its page is read in several
\* queries, and whoever was at work when the memoir was published, a reader sees the
\* memories that were published, and the sections last stored as the owner left them.
\* Or no section at all: then the publication fell between the delete and the insert
\* of a generation, or that insert had failed (narrative_repository.py:198-202 says no
\* reader can observe that).  The citations are excepted: no trigger covers them, and
\* a writer caught by the publication stores or replaces them afterwards.
PageIsTheBook ==
  \A v \in Visitor : page[v].at = "shown" /\ page[v].as = "reader" =>
    /\ page[v].memories = printed
    /\ page[v].sections = told \/ (page[v].sections = {} /\ gap)
=============================================================================

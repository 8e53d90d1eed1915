--------------------------- MODULE NarrativeProofs ---------------------------
(***************************************************************************)
(* For any number of jobs, chapters and memories, and whatever calls may   *)
(* fail: the rows of the book stay sound, a review mark on an older text   *)
(* has a writer to answer for it, and the sections of two generations meet *)
(* only where a delete of one crossed the insert of the other.             *)
(***************************************************************************)
EXTENDS Narrative, TLAPS

\* A job whose sections are not there yet.
Before == {"check", "startRun", "compose", "delete", "insert"}

\* Each job has an answer of its own to hold.
DraftsApart == draft = [j \in Job |-> draft[j]]

\* A run is closed as ready by the last step of its job.
ReadyIsLast == \A j \in Job : run[j] = "ready" => pc[j] = "ended"

\* What a generation has in hand, and what of it is in the book.
GeneratorFits(g) ==
  /\ pc[g] \in {"delete", "insert", "sources"} =>
       /\ DOMAIN draft[g] \subseteq SectionsOf(g)
       /\ \A s \in DOMAIN draft[g] : draft[g][s] \subseteq Memory /\ draft[g][s] # {}
  /\ pc[g] \in Before => \A s \in Written : s[1] # g
  /\ pc[g] = "sources" =>
       /\ \A s \in Written : s[1] = g => s \in DOMAIN draft[g]
       /\ \A s \in DOMAIN draft[g] : origin[s] = draft[g][s]
GeneratorsFit == \A g \in Generator : GeneratorFits(g)

\* What a regeneration has in hand: citations its section has had already.
RegeneratorFits(r) ==
  /\ pc[r] \in JobCall \ {"check"} =>
       target[r] \in SectionId /\ pc[target[r][1]] \notin Before
  /\ pc[r] \in {"update", "delSources", "insSources"} =>
       draft[r][target[r]] \subseteq origin[target[r]] /\ draft[r][target[r]] # {}
RegeneratorsFit == \A r \in Regenerator : RegeneratorFits(r)

\* A job that answers for a mark on an older text.
Answers(j) == Writing(j) \/ Stopped(j)

\* The book is one generation's, and empty when one is about to insert.
OneBook ==
  ~ crossed =>
    /\ \A s, t \in Written : s[1] = t[1]
    /\ \A g \in Generator : pc[g] = "insert" => Written = {}
    /\ \A g, h \in Generator : pc[g] = "insert" /\ pc[h] = "insert" => g = h

IInv ==
  /\ TypeOK
  /\ DraftsApart /\ ReadyIsLast
  /\ GeneratorsFit
  /\ RegeneratorsFit
  /\ SourcesWithinOrigin
  /\ UncitedHasWriter
  /\ StaleReviewHasWriter
  /\ OneBook

-----------------------------------------------------------------------------
(* What a step leaves alone *)

\* A step by j, a job or somebody who is none, is of no concern to other jobs.
Aside(j) ==
  \A h \in Job \ {j} :
    /\ pc'[h] = pc[h] /\ draft'[h] = draft[h] /\ run'[h] = run[h]
    /\ h \in Regenerator => target'[h] = target[h]

Actor == Job \cup {"owner"}

LEMMA SectionsOfJobs == \A s \in SectionId : s[1] \in Generator /\ s[1] \in Job
  BY DEF SectionId, Job

LEMMA OthersHold ==
  ASSUME NEW j, Aside(j), NEW h \in Job \ {j}
  PROVE  /\ Stopped(h)' <=> Stopped(h)
         /\ Answers(h)' <=> Answers(h)
         /\ \A s : AnswersFor(h, s)' <=> AnswersFor(h, s)
  BY DEF Aside, Stopped, Answers, Writing, AnswersFor

LEMMA FitsStay ==
  ASSUME IInv, NEW j \in Actor, Aside(j), pc'[j] \in Before => pc[j] \in Before,
         \A s \in Written' : s \in Written \/ (s[1] = j /\ pc[j] = "insert"),
         \A s \in SectionId : origin'[s] = origin[s] \/ (s[1] = j /\ pc[j] = "insert"),
         j \in Generator => GeneratorFits(j)',
         j \in Regenerator => RegeneratorFits(j)'
  PROVE  GeneratorsFit' /\ RegeneratorsFit'
<1>1. ASSUME NEW g \in Generator \ {j} PROVE GeneratorFits(g)'
  <2>1. GeneratorFits(g) /\ g \in Job \ {j}
    BY DEF IInv, GeneratorsFit, Job
  <2>2. pc'[g] = pc[g] /\ draft'[g] = draft[g]
    BY <2>1 DEF Aside
  <2>3. \A s \in Written' : s[1] = g => s \in Written
    OBVIOUS
  <2>4. \A s \in SectionId : s[1] = g => origin'[s] = origin[s]
    OBVIOUS
  <2>5. \A s \in SectionsOf(g) : s \in SectionId /\ s[1] = g
    BY DEF SectionsOf, SectionId
  <2> QED
    BY <2>1, <2>2, <2>3, <2>4, <2>5 DEF GeneratorFits
<1>2. ASSUME NEW r \in Regenerator \ {j} PROVE RegeneratorFits(r)'
  <2>1. RegeneratorFits(r) /\ r \in Job \ {j}
    BY DEF IInv, RegeneratorsFit, Job
  <2>2. pc'[r] = pc[r] /\ draft'[r] = draft[r] /\ target'[r] = target[r]
    BY <2>1 DEF Aside
  <2>3. ASSUME NEW s \in SectionId, pc[s[1]] \notin Before
        PROVE  pc'[s[1]] \notin Before /\ origin'[s] = origin[s]
    BY <2>3, SectionsOfJobs DEF Aside, Before
  <2>4. pc[r] \in {"update", "delSources", "insSources"} => pc[r] \in JobCall \ {"check"}
    BY DEF JobCall
  <2> QED
    BY <2>1, <2>2, <2>3, <2>4 DEF RegeneratorFits
<1> QED
  BY <1>1, <1>2 DEF GeneratorsFit, RegeneratorsFit

LEMMA UncitedStays ==
  ASSUME IInv, NEW j \in Actor, Aside(j),
         \A s \in Written' : SourcesOf(s)' = {} =>
           \/ j \in Job /\ uncitedBy'[s] = j /\ AnswersFor(j, s)'
           \/ /\ s \in Written /\ SourcesOf(s) = {} /\ uncitedBy'[s] = uncitedBy[s]
              /\ ~ (j \in Job /\ uncitedBy[s] = j /\ AnswersFor(j, s))
  PROVE  UncitedHasWriter'
<1> SUFFICES ASSUME NEW s \in Written', SourcesOf(s)' = {},
                    ~ (j \in Job /\ uncitedBy'[s] = j /\ AnswersFor(j, s)')
             PROVE  (uncitedBy[s] \in Job /\ AnswersFor(uncitedBy[s], s))'
  BY DEF UncitedHasWriter
<1>1. /\ s \in Written /\ SourcesOf(s) = {} /\ uncitedBy'[s] = uncitedBy[s]
      /\ ~ (j \in Job /\ uncitedBy[s] = j /\ AnswersFor(j, s))
  OBVIOUS
<1>2. uncitedBy[s] \in Job /\ AnswersFor(uncitedBy[s], s)
  BY <1>1 DEF IInv, UncitedHasWriter
<1>3. PICK h \in Job : h = uncitedBy[s]
  BY <1>2
<1>4. h \in Job \ {j} /\ AnswersFor(h, s) /\ uncitedBy'[s] = h
  BY <1>1, <1>2, <1>3
<1>5. AnswersFor(h, s)'
  BY <1>4, OthersHold
<1> QED
  BY <1>4, <1>5 DEF AnswersFor, Stopped

LEMMA StaleStays ==
  ASSUME IInv, NEW j \in Actor, Aside(j),
         reviewed' = "stale" =>
           \/ author' = "owner" /\ (act' = "clear" \/ ownerCut')
           \/ author' = j /\ j \in Job /\ Answers(j)'
           \/ /\ reviewed = "stale" /\ author' = author /\ ~ (j \in Job /\ author = j)
              /\ act = "clear" \/ ownerCut => act' = "clear" \/ ownerCut'
  PROVE  StaleReviewHasWriter'
<1> SUFFICES ASSUME reviewed' = "stale", reviewed = "stale", author' = author,
                    ~ (j \in Job /\ author = j),
                    act = "clear" \/ ownerCut => act' = "clear" \/ ownerCut'
             PROVE  \/ author = "owner" /\ (act' = "clear" \/ ownerCut')
                    \/ author \in Job /\ Answers(author)'
  BY DEF StaleReviewHasWriter, Answers
<1>1. \/ author = "owner" /\ (act = "clear" \/ ownerCut)
      \/ author \in Job /\ Answers(author)
  BY DEF IInv, StaleReviewHasWriter, Answers
<1>2. author \in Job => author \in Job \ {j}
  OBVIOUS
<1> QED
  BY <1>1, <1>2, OthersHold

\* A step that writes none of the rows of the book, and opens no way to insert.
LEMMA QuietStep ==
  ASSUME IInv, NEW j \in Actor, Aside(j), TypeOK', DraftsApart', ReadyIsLast',
         UNCHANGED <<section, source, origin, uncitedBy, crossed>>,
         pc'[j] \in Before => pc[j] \in Before,
         pc'[j] = "insert" => pc[j] = "insert",
         j \in Generator => GeneratorFits(j)',
         j \in Regenerator => RegeneratorFits(j)',
         j \in Job => \A s \in Written : AnswersFor(j, s) => AnswersFor(j, s)',
         reviewed' = "stale" =>
           /\ reviewed = "stale" /\ author' = author
           /\ act = "clear" \/ ownerCut => act' = "clear" \/ ownerCut'
           /\ j \in Job /\ Answers(j) => Answers(j)'
  PROVE  IInv'
<1>1. Written' = Written /\ \A s : SourcesOf(s)' = SourcesOf(s)
  BY DEF Written, SourcesOf
<1>2. GeneratorsFit' /\ RegeneratorsFit'
  BY <1>1, FitsStay
<1>3. SourcesWithinOrigin'
  BY DEF IInv, SourcesWithinOrigin
<1>4. UncitedHasWriter'
  BY <1>1, UncitedStays
<1>5. StaleReviewHasWriter'
  <2>1. reviewed = "stale" /\ j \in Job /\ author = j => j = "owner" \/ Answers(j)
    BY DEF IInv, StaleReviewHasWriter, Answers
  <2>2. j \in Job => j # "owner"
    BY WriterAssumption
  <2> QED
    BY <2>1, <2>2, StaleStays
<1>6. OneBook'
  <2>1. \A g \in Generator : pc'[g] = "insert" => pc[g] = "insert"
    BY DEF Aside, Job
  <2> QED
    BY <1>1, <2>1 DEF IInv, OneBook
<1> QED
  BY <1>2, <1>3, <1>4, <1>5, <1>6 DEF IInv

-----------------------------------------------------------------------------
(* The steps of a job that write nothing of the book *)

LEMMA Moves ==
  ASSUME TypeOK, NEW j \in Job, NEW to \in JobCall \cup JobOver, Goto(j, to)
  PROVE  /\ pc' \in [Job -> JobCall \cup JobOver] /\ pc'[j] = to
         /\ \A h \in Job \ {j} : pc'[h] = pc[h]
  BY DEF TypeOK, Goto

\* A job at a call before its first write answers for nothing.
LEMMA EarlyAnswersNothing ==
  ASSUME NEW j, pc[j] \notin {"insert", "sources", "delSources", "insSources", "reread",
                              "clear", "finishFailed", "ended", "raised"}
  PROVE  ~ Answers(j) /\ \A s : ~ AnswersFor(j, s)
  BY DEF Answers, Writing, Stopped, AnswersFor

LEMMA CheckStep ==
  ASSUME IInv, NEW j \in Job, pc[j] = "check", NEW to \in {"startRun", "refused"}, Goto(j, to),
         UNCHANGED <<book, tracking, draft, page, live, published, review, crossed>>,
         j \in Generator => target' = target,
         j \in Regenerator =>
           \E s \in SectionId :
             target' = [target EXCEPT ![j] = s] /\ (to = "startRun" => s \in Written)
  PROVE  IInv'
<1>1. UNCHANGED <<section, source, origin, uncitedBy, run, latest, stalled, runId, draft, act,
                  acts, live,
                  published, reviewed, viewed, author, ownerCut, crossed>>
  BY DEF book, tracking, page, review
<1>2. to \in JobCall \cup JobOver
  BY DEF JobCall, JobOver
<1>3. pc' \in [Job -> JobCall \cup JobOver] /\ pc'[j] = to /\ \A h \in Job \ {j} : pc'[h] = pc[h]
  BY <1>2, Moves DEF IInv
<1>4. /\ target' \in [Regenerator -> SectionId \cup {None}]
      /\ \A r \in Regenerator \ {j} : target'[r] = target[r]
  BY WriterAssumption DEF IInv, TypeOK, Job
<1>5. TypeOK'
  BY <1>1, <1>3, <1>4 DEF IInv, TypeOK, Written
<1>6. Aside(j)
  BY <1>1, <1>3, <1>4 DEF Aside
<1>7. ReadyIsLast' /\ DraftsApart'
  BY <1>1, <1>3 DEF IInv, ReadyIsLast, DraftsApart
<1>8. ASSUME j \in Generator PROVE GeneratorFits(j)'
  BY <1>1, <1>3, <1>8 DEF IInv, GeneratorsFit, GeneratorFits, Before, Written
<1>9. ASSUME j \in Regenerator PROVE RegeneratorFits(j)'
  <2>1. CASE to = "refused"
    BY <1>3, <2>1 DEF RegeneratorFits, JobCall
  <2>2. CASE to = "startRun"
    <3>1. target'[j] \in Written
      BY <1>9, <2>2, WriterAssumption DEF IInv, TypeOK
    <3>2. target'[j] \in SectionId /\ target'[j][1] \in Generator /\ target'[j][1] # j
      BY <1>9, <3>1, SectionsOfJobs, WriterAssumption DEF Written
    <3>3. pc[target'[j][1]] \notin Before
      BY <3>1, <3>2 DEF IInv, GeneratorsFit, GeneratorFits
    <3>4. pc'[target'[j][1]] \notin Before
      BY <1>3, <3>2, <3>3, SectionsOfJobs
    <3> QED
      BY <1>3, <2>2, <3>2, <3>4 DEF RegeneratorFits
  <2> QED
    BY <2>1, <2>2
<1>10. ~ Answers(j) /\ \A s : ~ AnswersFor(j, s)
  BY EarlyAnswersNothing
<1>11. pc'[j] # "insert" /\ (pc'[j] \in Before => pc[j] \in Before)
  BY <1>3 DEF Before
<1> QED
  BY <1>1, <1>5, <1>6, <1>7, <1>8, <1>9, <1>10, <1>11, QuietStep DEF Actor

LEMMA CheckGenerateStep ==
  ASSUME IInv, NEW g \in Generator, CheckGenerate(g)
  PROVE  IInv'
<1>1. g \in Job /\ g \notin Regenerator
  BY WriterAssumption DEF Job
<1>2. PICK to \in {"startRun", "refused"} : Goto(g, to)
  BY DEF CheckGenerate
<1> QED
  BY <1>1, <1>2, CheckStep DEF CheckGenerate

LEMMA CheckRegenerateStep ==
  ASSUME IInv, NEW r \in Regenerator, CheckRegenerate(r)
  PROVE  IInv'
<1>1. r \in Job /\ r \notin Generator
  BY WriterAssumption DEF Job
<1>2. PICK s \in SectionId, to \in {"startRun", "refused"} :
        Goto(r, to) /\ (to = "startRun" => s \in Written) /\ target' = [target EXCEPT ![r] = s]
  BY DEF CheckRegenerate
<1> QED
  BY <1>1, <1>2, CheckStep DEF CheckRegenerate

LEMMA StartRunStep ==
  ASSUME IInv, NEW j \in Job, StartRun(j)
  PROVE  IInv'
<1>1. /\ pc[j] = "startRun" /\ Goto(j, "compose")
      /\ UNCHANGED <<section, source, origin, uncitedBy, draft, target, act, acts, live, published,
                     reviewed, viewed, author, ownerCut, crossed>>
  BY DEF StartRun, book, page, review
<1>2. /\ run' = [run EXCEPT ![j] = "processing"] \/ run' = run
      /\ latest' = j \/ latest' = latest
      /\ stalled' = FALSE \/ stalled' = stalled
      /\ runId' = runId \cup {j} \/ runId' = runId
  BY DEF StartRun
<1>3. "compose" \in JobCall \cup JobOver
  BY DEF JobCall
<1>4. /\ pc' \in [Job -> JobCall \cup JobOver] /\ pc'[j] = "compose"
      /\ \A h \in Job \ {j} : pc'[h] = pc[h]
  BY <1>1, <1>3, Moves DEF IInv
<1>5. run' \in [Job -> RunStatus] /\ run'[j] # "ready" /\ \A h \in Job \ {j} : run'[h] = run[h]
  BY <1>1, <1>2 DEF IInv, TypeOK, RunStatus, ReadyIsLast
<1>6. TypeOK'
  BY <1>1, <1>2, <1>4, <1>5 DEF IInv, TypeOK, Written
<1>7. Aside(j)
  BY <1>1, <1>4, <1>5 DEF Aside
<1>8. ReadyIsLast' /\ DraftsApart'
  BY <1>1, <1>4, <1>5 DEF IInv, ReadyIsLast, DraftsApart
<1>9. ASSUME j \in Generator PROVE GeneratorFits(j)'
  BY <1>1, <1>4, <1>9 DEF IInv, GeneratorsFit, GeneratorFits, Before, Written
<1>10. ASSUME j \in Regenerator PROVE RegeneratorFits(j)'
  <2>1. target[j] \in SectionId /\ pc[target[j][1]] \notin Before
    BY <1>1, <1>10 DEF IInv, RegeneratorsFit, RegeneratorFits, JobCall
  <2>2. pc'[target[j][1]] \notin Before
    BY <1>4, <1>10, <2>1, SectionsOfJobs, WriterAssumption
  <2> QED
    BY <1>1, <1>4, <2>1, <2>2 DEF RegeneratorFits
<1>11. ~ Answers(j) /\ \A s : ~ AnswersFor(j, s)
  BY <1>1, EarlyAnswersNothing
<1>12. pc'[j] # "insert" /\ (pc'[j] \in Before => pc[j] \in Before)
  BY <1>1, <1>4 DEF Before
<1> QED
  BY <1>1, <1>6, <1>7, <1>8, <1>9, <1>10, <1>11, <1>12, QuietStep DEF Actor

LEMMA ComposeStep ==
  ASSUME IInv, NEW g \in Generator, Compose(g)
  PROVE  IInv'
<1>1. /\ pc[g] = "compose"
      /\ UNCHANGED <<section, source, origin, uncitedBy, run, latest, stalled, runId, target, act,
                     acts,
                     live, published, reviewed, viewed, author, ownerCut, crossed>>
      /\ g \in Job /\ g \notin Regenerator
  BY WriterAssumption DEF Compose, book, tracking, page, review, Job
<1>2. PICK to \in {"finishFailed", "delete"} :
        /\ Goto(g, to)
        /\ to = "finishFailed" => draft' = draft
        /\ to = "delete" =>
             \E d : /\ draft' = [draft EXCEPT ![g] = d] /\ DOMAIN d \subseteq SectionsOf(g)
                    /\ \A s \in DOMAIN d : d[s] \subseteq Memory /\ d[s] # {}
  BY DEF Compose, Failed, Sent, Grounded, SectionsOf
<1>3. to \in JobCall \cup JobOver
  BY DEF JobCall
<1>4. /\ pc' \in [Job -> JobCall \cup JobOver] /\ pc'[g] = to
      /\ \A h \in Job \ {g} : pc'[h] = pc[h]
  BY <1>1, <1>2, <1>3, Moves DEF IInv
<1>5. /\ DraftsApart' /\ \A h \in Job \ {g} : draft'[h] = draft[h]
      /\ to = "delete" =>
           /\ DOMAIN draft'[g] \subseteq SectionsOf(g)
           /\ \A s \in DOMAIN draft'[g] : draft'[g][s] \subseteq Memory /\ draft'[g][s] # {}
      /\ DOMAIN draft'[g] \subseteq SectionId
  <2>1. CASE to = "finishFailed"
    BY <1>1, <1>2, <2>1 DEF IInv, TypeOK, DraftsApart
  <2>2. CASE to = "delete"
    <3>1. PICK d : /\ draft' = [draft EXCEPT ![g] = d] /\ DOMAIN d \subseteq SectionsOf(g)
                   /\ \A s \in DOMAIN d : d[s] \subseteq Memory /\ d[s] # {}
      BY <1>2, <2>2
    <3>2. draft'[g] = d /\ DraftsApart' /\ \A h \in Job \ {g} : draft'[h] = draft[h]
      BY <1>1, <3>1 DEF IInv, DraftsApart
    <3>3. SectionsOf(g) \subseteq SectionId
      BY DEF SectionsOf, SectionId
    <3> QED
      BY <3>1, <3>2, <3>3
  <2> QED
    BY <2>1, <2>2
<1>6. TypeOK'
  BY <1>1, <1>4, <1>5 DEF IInv, TypeOK, Written
<1>7. Aside(g)
  BY <1>1, <1>4, <1>5 DEF Aside
<1>8. ReadyIsLast'
  BY <1>1, <1>4 DEF IInv, ReadyIsLast
<1>9. GeneratorFits(g)'
  BY <1>1, <1>4, <1>5 DEF IInv, GeneratorsFit, GeneratorFits, Before, Written
<1>10. ~ Answers(g) /\ \A s : ~ AnswersFor(g, s)
  BY <1>1, EarlyAnswersNothing
<1>11. pc'[g] # "insert" /\ (pc'[g] \in Before => pc[g] \in Before)
  BY <1>1, <1>4 DEF Before
<1> QED
  BY <1>1, <1>5, <1>6, <1>7, <1>8, <1>9, <1>10, <1>11, QuietStep DEF Actor

\* What a regeneration whose pc is a call has in hand stays so as it goes on.
LEMMA RegenerationGoesOn ==
  ASSUME IInv, NEW r \in Regenerator, pc[r] \in JobCall \ {"check"},
         \A h \in Job \ {r} : pc'[h] = pc[h], target'[r] = target[r]
  PROVE  /\ target[r] \in SectionId /\ pc[target[r][1]] \notin Before
         /\ target'[r] \in SectionId /\ pc'[target'[r][1]] \notin Before
<1>1. target[r] \in SectionId /\ pc[target[r][1]] \notin Before
  BY DEF IInv, RegeneratorsFit, RegeneratorFits
<1> QED
  BY <1>1, SectionsOfJobs, WriterAssumption

LEMMA ComposeOneStep ==
  ASSUME IInv, NEW r \in Regenerator, ComposeOne(r)
  PROVE  IInv'
<1>1. /\ pc[r] = "compose"
      /\ UNCHANGED <<section, source, origin, uncitedBy, run, latest, stalled, runId, target, act,
                     acts,
                     live, published, reviewed, viewed, author, ownerCut, crossed>>
      /\ r \in Job /\ r \notin Generator
  BY WriterAssumption DEF ComposeOne, book, tracking, page, review, Job
<1> DEFINE sec == target[r]
<1>2. PICK to \in {"raised", "finishFailed", "update"} :
        /\ Goto(r, to)
        /\ to # "update" => draft' = draft
        /\ to = "update" =>
             \E cites : /\ draft' = [draft EXCEPT ![r] = [x \in {sec} |-> cites]]
                        /\ cites \subseteq SourcesOf(sec) /\ cites # {}
  BY DEF ComposeOne, Failed, Grounded, MemoriesById
<1>3. to \in JobCall \cup JobOver
  BY DEF JobCall, JobOver
<1>4. /\ pc' \in [Job -> JobCall \cup JobOver] /\ pc'[r] = to
      /\ \A h \in Job \ {r} : pc'[h] = pc[h]
  BY <1>1, <1>2, <1>3, Moves DEF IInv
<1>5. /\ sec \in SectionId /\ pc[sec[1]] \notin Before
      /\ target'[r] = sec /\ pc'[sec[1]] \notin Before
  BY <1>1, <1>4, RegenerationGoesOn DEF JobCall
<1>6. /\ DraftsApart' /\ \A h \in Job \ {r} : draft'[h] = draft[h]
      /\ to = "update" => draft'[r][sec] \subseteq origin[sec] /\ draft'[r][sec] # {}
      /\ DOMAIN draft'[r] \subseteq SectionId
  <2>1. CASE to # "update"
    BY <1>1, <1>2, <2>1 DEF IInv, TypeOK, DraftsApart
  <2>2. CASE to = "update"
    <3>1. PICK cites : /\ draft' = [draft EXCEPT ![r] = [x \in {sec} |-> cites]]
                       /\ cites \subseteq SourcesOf(sec) /\ cites # {}
      BY <1>2, <2>2
    <3> HIDE DEF sec
    <3>2. draft'[r] = [x \in {sec} |-> cites] /\ DraftsApart'
          /\ \A h \in Job \ {r} : draft'[h] = draft[h]
      BY <1>1, <3>1 DEF IInv, DraftsApart
    <3>3. draft'[r][sec] = cites /\ DOMAIN draft'[r] = {sec}
      BY <3>2
    <3>4. SourcesOf(sec) \subseteq origin[sec]
      BY DEF IInv, SourcesWithinOrigin, SourcesOf
    <3> QED
      BY <1>5, <3>1, <3>2, <3>3, <3>4
  <2> QED
    BY <2>1, <2>2
<1>7. TypeOK'
  BY <1>1, <1>4, <1>6 DEF IInv, TypeOK, Written
<1>8. Aside(r)
  BY <1>1, <1>4, <1>6 DEF Aside
<1>9. ReadyIsLast'
  BY <1>1, <1>4 DEF IInv, ReadyIsLast
<1>10. RegeneratorFits(r)'
  BY <1>1, <1>4, <1>5, <1>6 DEF RegeneratorFits
<1>11. ~ Answers(r) /\ \A s : ~ AnswersFor(r, s)
  BY <1>1, EarlyAnswersNothing
<1>12. pc'[r] # "insert" /\ (pc'[r] \in Before => pc[r] \in Before)
  BY <1>1, <1>4 DEF Before
<1> QED
  BY <1>1, <1>6, <1>7, <1>8, <1>9, <1>10, <1>11, <1>12, QuietStep DEF Actor

\* A job that has nothing more to write, and has its sections behind it.
LEMMA LateFits ==
  ASSUME IInv, NEW j \in Job, pc[j] \in JobCall \ {"check"}, pc[j] \notin Before,
         NEW to \in {"finishReady", "finishFailed", "reread", "clear", "ended", "raised"},
         Goto(j, to), UNCHANGED target
  PROVE  /\ j \in Generator => GeneratorFits(j)'
         /\ j \in Regenerator => RegeneratorFits(j)'
         /\ pc'[j] = to /\ pc'[j] \notin Before
         /\ \A h \in Job \ {j} : pc'[h] = pc[h]
         /\ pc' \in [Job -> JobCall \cup JobOver]
<1>1. to \in JobCall \cup JobOver
  BY DEF JobCall, JobOver
<1>2. /\ pc' \in [Job -> JobCall \cup JobOver] /\ pc'[j] = to
      /\ \A h \in Job \ {j} : pc'[h] = pc[h]
  BY <1>1, Moves DEF IInv
<1>3. to \notin Before
  BY DEF Before
<1>4. j \in Generator => GeneratorFits(j)'
  BY <1>2, <1>3 DEF GeneratorFits
<1>5. j \in Regenerator => RegeneratorFits(j)'
  BY <1>2, RegenerationGoesOn DEF RegeneratorFits
<1> QED
  BY <1>2, <1>3, <1>4, <1>5

LEMMA RereadStep ==
  ASSUME IInv, NEW r \in Regenerator, Reread(r)
  PROVE  IInv'
<1>1. /\ pc[r] = "reread" /\ r \in Job
      /\ UNCHANGED <<section, source, origin, uncitedBy, run, latest, stalled, runId, draft,
                     target, act,
                     acts, live, published, reviewed, viewed, author, ownerCut, crossed>>
  BY DEF Reread, book, tracking, page, review, Job
<1>2. PICK to \in {"clear", "raised"} : Goto(r, to)
  BY DEF Reread, AfterReread
<1>3. pc[r] \in JobCall \ {"check"} /\ pc[r] \notin Before
  BY <1>1 DEF JobCall, Before
<1>4. /\ r \in Generator => GeneratorFits(r)'
      /\ r \in Regenerator => RegeneratorFits(r)'
      /\ pc'[r] = to /\ pc'[r] \notin Before
      /\ \A h \in Job \ {r} : pc'[h] = pc[h]
      /\ pc' \in [Job -> JobCall \cup JobOver]
  BY <1>1, <1>2, <1>3, LateFits
<1>5. TypeOK' /\ Aside(r) /\ DraftsApart'
  BY <1>1, <1>4 DEF IInv, TypeOK, Written, Aside, DraftsApart
<1>6. ReadyIsLast'
  BY <1>1, <1>4 DEF IInv, ReadyIsLast
<1>7. run[r] # "ready"
  BY <1>1 DEF IInv, ReadyIsLast
<1>8. Answers(r) => Answers(r)'
  BY <1>1, <1>4, <1>7 DEF Answers, Writing, Stopped
<1>9. \A s : ~ AnswersFor(r, s)
  BY <1>1 DEF AnswersFor, Stopped
<1>10. pc'[r] # "insert"
  BY <1>4
<1> QED
  BY <1>1, <1>4, <1>5, <1>6, <1>8, <1>9, <1>10, QuietStep DEF Actor

LEMMA ClearByJobStep ==
  ASSUME IInv, NEW j \in Job, ClearByJob(j)
  PROVE  IInv'
<1>1. /\ pc[j] = "clear"
      /\ UNCHANGED <<section, source, origin, uncitedBy, run, latest, stalled, runId, draft,
                     target, act,
                     acts, live, published, viewed, author, ownerCut, crossed>>
  BY DEF ClearByJob, book, tracking, page, review, ClearReviewed
<1>2. PICK to \in {"finishReady", "finishFailed"} :
        /\ Goto(j, to)
        /\ reviewed' = "none" \/ (to = "finishFailed" /\ reviewed' = reviewed)
  BY DEF ClearByJob, ClearReviewed, Wrote, Answered, review
<1>3. pc[j] \in JobCall \ {"check"} /\ pc[j] \notin Before
  BY <1>1 DEF JobCall, Before
<1>4. /\ j \in Generator => GeneratorFits(j)'
      /\ j \in Regenerator => RegeneratorFits(j)'
      /\ pc'[j] = to /\ pc'[j] \notin Before
      /\ \A h \in Job \ {j} : pc'[h] = pc[h]
      /\ pc' \in [Job -> JobCall \cup JobOver]
  BY <1>1, <1>2, <1>3, LateFits
<1>5. TypeOK' /\ Aside(j) /\ DraftsApart'
  <2>1. TypeOK'
    BY <1>1, <1>2, <1>4 DEF IInv, TypeOK, Written
  <2>2. Aside(j)
    BY <1>1, <1>2, <1>4 DEF Aside
  <2> QED
    BY <1>1, <2>1, <2>2 DEF IInv, DraftsApart
<1>6. ReadyIsLast' /\ run[j] # "ready"
  BY <1>1, <1>4 DEF IInv, ReadyIsLast
<1>7. reviewed' = "stale" => reviewed = "stale" /\ (Answers(j) => Answers(j)')
  BY <1>1, <1>2, <1>4, <1>6 DEF Answers, Writing, Stopped
<1>8. \A s : ~ AnswersFor(j, s)
  BY <1>1 DEF AnswersFor, Stopped
<1>9. pc'[j] # "insert"
  BY <1>4
<1> QED
  BY <1>1, <1>4, <1>5, <1>6, <1>7, <1>8, <1>9, QuietStep DEF Actor

LEMMA FinishRunStep ==
  ASSUME IInv, NEW j \in Job,
         \/ FinishRun(j, "finishReady", "ready")
         \/ FinishRun(j, "finishFailed", "failed")
  PROVE  IInv'
<1>1. PICK st \in {"ready", "failed"} :
        /\ pc[j] = IF st = "ready" THEN "finishReady" ELSE "finishFailed"
        /\ Goto(j, "ended") /\ draft' = [draft EXCEPT ![j] = << >>]
        /\ run' = [run EXCEPT ![j] = st] \/ run' = run
        /\ UNCHANGED <<section, source, origin, uncitedBy, latest, stalled, runId, target, act,
                       acts, live,
                       published, reviewed, viewed, author, ownerCut, crossed>>
  BY DEF FinishRun, book, page, review
<1>2. pc[j] \in JobCall \ {"check"} /\ pc[j] \notin Before
  BY <1>1 DEF JobCall, Before
<1>3. /\ j \in Generator => GeneratorFits(j)'
      /\ j \in Regenerator => RegeneratorFits(j)'
      /\ pc'[j] = "ended" /\ pc'[j] \notin Before
      /\ \A h \in Job \ {j} : pc'[h] = pc[h]
      /\ pc' \in [Job -> JobCall \cup JobOver]
  BY <1>1, <1>2, LateFits
<1>4. /\ DraftsApart' /\ DOMAIN draft'[j] \subseteq SectionId
      /\ \A h \in Job \ {j} : draft'[h] = draft[h]
  <2>1. draft'[j] = << >> /\ DraftsApart' /\ \A h \in Job \ {j} : draft'[h] = draft[h]
    BY <1>1 DEF IInv, DraftsApart
  <2> QED
    BY <2>1
<1>5. run' \in [Job -> RunStatus] /\ \A h \in Job \ {j} : run'[h] = run[h]
  BY <1>1 DEF IInv, TypeOK, RunStatus
<1>6. TypeOK'
  BY <1>1, <1>3, <1>4, <1>5 DEF IInv, TypeOK, Written
<1>7. Aside(j)
  BY <1>1, <1>3, <1>4, <1>5 DEF Aside
<1>8. ReadyIsLast'
  BY <1>3, <1>5 DEF IInv, ReadyIsLast
<1>9. Stopped(j) => Stopped(j)'
  BY <1>1, <1>3 DEF Stopped, IInv, TypeOK, ReadyIsLast
<1>10. (Answers(j) => Answers(j)') /\ \A s : AnswersFor(j, s) => AnswersFor(j, s)'
  BY <1>1, <1>9 DEF Answers, Writing, AnswersFor
<1>11. pc'[j] # "insert"
  BY <1>3
<1> QED
  BY <1>1, <1>3, <1>4, <1>6, <1>7, <1>8, <1>10, <1>11, QuietStep DEF Actor

-----------------------------------------------------------------------------
(* The steps of a job that write the book *)

\* A write of text by a job: it has a mark to clear, and goes on or fails.
LEMMA TextFits ==
  ASSUME IInv, NEW w \in Actor, NEW keeps \in BOOLEAN, TextChanges(w, keeps)
  PROVE  /\ viewed' \in BOOLEAN /\ reviewed' \in {"none", "read", "stale", "blind"}
         /\ author' = w /\ author' \in Job \cup {"owner"}
<1>1. viewed' \in BOOLEAN
  BY DEF TextChanges
<1> QED
  BY <1>1 DEF TextChanges, IInv, TypeOK, Actor

LEMMA DeleteAllStep ==
  ASSUME IInv, NEW g \in Generator, DeleteAll(g)
  PROVE  IInv'
<1>1. /\ pc[g] = "delete" /\ g \in Job /\ g \notin Regenerator
      /\ crossed' = (crossed \/ \E h \in Generator \ {g} : pc[h] = "insert")
      /\ UNCHANGED <<origin, uncitedBy, run, latest, stalled, runId, draft, target, act, acts, live,
                     published, ownerCut>>
  BY WriterAssumption DEF DeleteAll, tracking, page, review, Job
<1>2. PICK to \in {"insert", "finishFailed"} :
        /\ Goto(g, to)
        /\ \/ /\ UNCHANGED <<section, source, reviewed, viewed, author, ownerCut>>
              /\ to = "insert" => Written = {}
           \/ /\ section' = [s \in SectionId |-> IF s \in Written THEN "absent" ELSE section[s]]
              /\ source' = {x \in source : x[1] \notin Written}
              /\ TextChanges(g, FALSE)
  <2>1. CASE Immutable /\ Written # {}
    BY <2>1 DEF DeleteAll, Replaced, Failed, book, review
  <2>2. CASE ~ (Immutable /\ Written # {})
    <3>1. PICK reply : /\ Goto(g, IF Answered(reply) THEN "insert" ELSE "finishFailed")
                       /\ IF Wrote(reply) /\ Written # {}
                            THEN /\ section' = [s \in SectionId |->
                                      IF s \in Written THEN "absent" ELSE section[s]]
                                 /\ source' = {x \in source : x[1] \notin Written}
                                 /\ TextChanges(g, FALSE)
                            ELSE UNCHANGED <<section, source, review>>
      BY <2>2 DEF DeleteAll, Replaced
    <3>2. CASE Wrote(reply) /\ Written # {}
      BY <3>1, <3>2
    <3>3. CASE ~ (Wrote(reply) /\ Written # {})
      BY <3>1, <3>3 DEF Wrote, Answered, review
    <3> QED
      BY <3>2, <3>3
  <2> QED
    BY <2>1, <2>2
<1>3. to \in JobCall \cup JobOver
  BY DEF JobCall
<1>4. /\ pc' \in [Job -> JobCall \cup JobOver] /\ pc'[g] = to
      /\ \A h \in Job \ {g} : pc'[h] = pc[h]
  BY <1>1, <1>2, <1>3, Moves DEF IInv
<1>5. \/ /\ UNCHANGED <<section, source, reviewed, viewed, author, ownerCut>>
         /\ Written' = Written /\ (to = "insert" => Written = {})
      \/ /\ section' \in [SectionId -> {"absent", "generated", "edited"}]
         /\ Written' = {} /\ source' = {}
         /\ viewed' \in BOOLEAN /\ reviewed' \in {"none", "read", "stale", "blind"}
         /\ author' = g /\ author' \in Job \cup {"owner"}
  <2>1. CASE UNCHANGED <<section, source, reviewed, viewed, author, ownerCut>>
               /\ (to = "insert" => Written = {})
    BY <2>1 DEF Written
  <2>2. CASE /\ section' = [s \in SectionId |->
                              IF s \in Written THEN "absent" ELSE section[s]]
             /\ source' = {x \in source : x[1] \notin Written}
             /\ TextChanges(g, FALSE)
    <3>1. section' \in [SectionId -> {"absent", "generated", "edited"}] /\ Written' = {}
      BY <2>2 DEF IInv, TypeOK, Written
    <3>2. source' = {}
      BY <2>2 DEF IInv, TypeOK
    <3> QED
      BY <1>1, <2>2, <3>1, <3>2, TextFits DEF Actor
  <2> QED
    BY <1>2, <2>1, <2>2
<1>6. TypeOK'
  <2>1. crossed' \in BOOLEAN
    BY <1>1 DEF IInv, TypeOK
  <2>2. source' \subseteq Written' \X Memory
    BY <1>5 DEF IInv, TypeOK
  <2> QED
    BY <1>1, <1>4, <1>5, <2>1, <2>2 DEF IInv, TypeOK
<1>7. Aside(g) /\ DraftsApart' /\ ReadyIsLast'
  <2>1. Aside(g)
    BY <1>1, <1>4, <1>5 DEF Aside
  <2> QED
    BY <1>1, <1>4, <2>1 DEF IInv, DraftsApart, ReadyIsLast
<1>8. Written' \subseteq Written /\ (to = "insert" => Written' = {})
  BY <1>5
<1>9. GeneratorsFit' /\ RegeneratorsFit'
  <2>1. GeneratorFits(g)'
    BY <1>1, <1>4, <1>8 DEF IInv, GeneratorsFit, GeneratorFits, Before
  <2>2. pc[g] \in Before
    BY <1>1 DEF Before
  <2> QED
    BY <1>1, <1>7, <1>8, <2>1, <2>2, FitsStay DEF Actor
<1>10. SourcesWithinOrigin'
  BY <1>1, <1>5 DEF IInv, SourcesWithinOrigin
<1>11. UncitedHasWriter'
  <2>1. \A s : ~ AnswersFor(g, s)
    BY <1>1, EarlyAnswersNothing
  <2>2. \A s \in Written' : s \in Written /\ SourcesOf(s)' = SourcesOf(s)
    BY <1>5 DEF SourcesOf
  <2> QED
    BY <1>1, <1>7, <2>1, <2>2, UncitedStays DEF Actor
<1>12. StaleReviewHasWriter'
  <2>1. ~ Answers(g) /\ run'[g] # "ready"
    BY <1>1, EarlyAnswersNothing DEF IInv, ReadyIsLast
  <2>2. Answers(g)'
    BY <1>4, <2>1 DEF Answers, Writing, Stopped
  <2>3. author' = g \/ UNCHANGED <<reviewed, author>>
    BY <1>5
  <2> QED
    BY <1>1, <1>7, <2>2, <2>3, StaleStays DEF Actor
<1>13. OneBook'
  <2>1. ~ crossed' => ~ crossed /\ \A h \in Generator \ {g} : pc[h] # "insert"
    BY <1>1
  <2>2. \A h \in Generator \ {g} : pc'[h] = pc[h]
    BY <1>4 DEF Job
  <2> QED
    BY <1>4, <1>8, <2>1, <2>2 DEF IInv, OneBook
<1> QED
  BY <1>6, <1>7, <1>9, <1>10, <1>11, <1>12, <1>13 DEF IInv

LEMMA InsertSectionsStep ==
  ASSUME IInv, NEW g \in Generator, InsertSections(g)
  PROVE  IInv'
<1>1. /\ pc[g] = "insert" /\ g \in Job /\ g \notin Regenerator
      /\ UNCHANGED <<source, run, latest, stalled, runId, draft, target, act, acts, live,
                     published, ownerCut, crossed>>
  BY WriterAssumption DEF InsertSections, tracking, page, review, Job
<1>2. PICK to \in {"sources", "finishFailed"} :
        /\ Goto(g, to)
        /\ \/ /\ UNCHANGED <<section, origin, uncitedBy, reviewed, viewed, author, ownerCut>>
              /\ to = "finishFailed"
           \/ /\ section' = [s \in SectionId |->
                   IF s \in DOMAIN draft[g] THEN "generated" ELSE section[s]]
              /\ origin' = [s \in SectionId |->
                   IF s \in DOMAIN draft[g] THEN draft[g][s] ELSE origin[s]]
              /\ uncitedBy' = [s \in SectionId |->
                   IF s \in DOMAIN draft[g] THEN g ELSE uncitedBy[s]]
              /\ TextChanges(g, FALSE)
  BY DEF InsertSections, AfterInsert, AfterBadInsert, Wrote, Answered, review
<1>3. to \in JobCall \cup JobOver
  BY DEF JobCall
<1>4. /\ pc' \in [Job -> JobCall \cup JobOver] /\ pc'[g] = to
      /\ \A h \in Job \ {g} : pc'[h] = pc[h]
  BY <1>1, <1>2, <1>3, Moves DEF IInv
<1> DEFINE new == DOMAIN draft[g]
<1>5. /\ new \subseteq SectionId /\ \A s \in new : s[1] = g
      /\ \A s \in new : draft[g][s] \subseteq Memory /\ draft[g][s] # {}
      /\ \A s \in Written : s[1] # g
  <2>1. GeneratorFits(g)
    BY DEF IInv, GeneratorsFit
  <2>2. \A s \in SectionsOf(g) : s \in SectionId /\ s[1] = g
    BY DEF SectionsOf, SectionId
  <2> QED
    BY <1>1, <2>1, <2>2 DEF GeneratorFits, Before
<1>6. \/ /\ UNCHANGED <<section, origin, uncitedBy, reviewed, viewed, author, ownerCut>>
         /\ Written' = Written /\ to = "finishFailed"
      \/ /\ section' \in [SectionId -> {"absent", "generated", "edited"}]
         /\ Written' = Written \cup new
         /\ origin' \in [SectionId -> SUBSET Memory]
         /\ \A s \in new : origin'[s] = draft[g][s]
         /\ \A s \in SectionId \ new : origin'[s] = origin[s] /\ uncitedBy'[s] = uncitedBy[s]
         /\ \A s \in new : uncitedBy'[s] = g
         /\ uncitedBy' \in [SectionId -> Job \cup {None}]
         /\ viewed' \in BOOLEAN /\ reviewed' \in {"none", "read", "stale", "blind"}
         /\ author' = g /\ author' \in Job \cup {"owner"}
  <2>1. CASE UNCHANGED <<section, origin, uncitedBy, reviewed, viewed, author, ownerCut>>
               /\ to = "finishFailed"
    BY <2>1 DEF Written
  <2>2. CASE /\ section' = [s \in SectionId |-> IF s \in new THEN "generated" ELSE section[s]]
             /\ origin' = [s \in SectionId |-> IF s \in new THEN draft[g][s] ELSE origin[s]]
             /\ uncitedBy' = [s \in SectionId |-> IF s \in new THEN g ELSE uncitedBy[s]]
             /\ TextChanges(g, FALSE)
    <3> HIDE DEF new
    <3>1. section' \in [SectionId -> {"absent", "generated", "edited"}]
      BY <2>2 DEF IInv, TypeOK
    <3>2. Written' = Written \cup new
      BY <1>5, <2>2 DEF Written
    <3>3. origin' \in [SectionId -> SUBSET Memory]
      BY <1>5, <2>2 DEF IInv, TypeOK
    <3>4. /\ \A s \in new : origin'[s] = draft[g][s]
          /\ \A s \in SectionId \ new : origin'[s] = origin[s] /\ uncitedBy'[s] = uncitedBy[s]
          /\ \A s \in new : uncitedBy'[s] = g
      BY <1>5, <2>2
    <3>5. uncitedBy' \in [SectionId -> Job \cup {None}]
      BY <1>1, <2>2 DEF IInv, TypeOK
    <3> QED
      BY <1>1, <2>2, <3>1, <3>2, <3>3, <3>4, <3>5, TextFits DEF Actor
  <2> QED
    BY <1>2, <2>1, <2>2
<1>7. TypeOK'
  <2>1. source' \subseteq Written' \X Memory
    BY <1>1, <1>6 DEF IInv, TypeOK
  <2> QED
    BY <1>1, <1>4, <1>6, <2>1 DEF IInv, TypeOK
<1>8. Aside(g) /\ DraftsApart' /\ ReadyIsLast'
  <2>1. Aside(g)
    BY <1>1, <1>4, <1>6 DEF Aside
  <2> QED
    BY <1>1, <1>4, <2>1 DEF IInv, DraftsApart, ReadyIsLast
<1>9. \A s \in SectionId : origin'[s] = origin[s] \/ (s[1] = g /\ s \in new)
  BY <1>6, <1>5
<1>10. GeneratorsFit' /\ RegeneratorsFit'
  <2>1. GeneratorFits(g)'
    BY <1>1, <1>4, <1>5, <1>6 DEF GeneratorFits, SectionsOf, Before, IInv, GeneratorsFit
  <2>2. pc[g] \in Before /\ \A s \in Written' : s \in Written \/ s[1] = g
    BY <1>1, <1>5, <1>6 DEF Before
  <2> QED
    BY <1>1, <1>8, <1>9, <2>1, <2>2, FitsStay DEF Actor
<1>11. SourcesWithinOrigin'
  <2>1. \A x \in source : x[1] \in Written /\ x[1] \in SectionId
    BY DEF IInv, TypeOK, Written
  <2> QED
    BY <1>1, <1>5, <1>9, <2>1 DEF IInv, SourcesWithinOrigin
<1>12. run'[g] # "ready" /\ ~ Stopped(g)
  BY <1>1 DEF IInv, ReadyIsLast, Stopped
<1>13. UncitedHasWriter'
  <2>1. \A s : ~ AnswersFor(g, s)
    BY <1>1, <1>12 DEF AnswersFor
  <2>2. \A s : SourcesOf(s)' = SourcesOf(s)
    BY <1>1 DEF SourcesOf
  <2>3. \A s \in Written' :
          (s \in Written /\ uncitedBy'[s] = uncitedBy[s]) \/ (s[1] = g /\ uncitedBy'[s] = g)
    <3>1. \A s \in Written : s \in SectionId \ new
      BY <1>5 DEF Written
    <3> QED
      BY <1>5, <1>6, <3>1
  <2>4. pc'[g] = "sources" \/ Stopped(g)'
    BY <1>4, <1>12 DEF Stopped
  <2>5. \A s \in Written' : \/ s \in Written /\ uncitedBy'[s] = uncitedBy[s]
                            \/ uncitedBy'[s] = g /\ AnswersFor(g, s)'
    BY <2>3, <2>4 DEF AnswersFor
  <2> QED
    BY <1>1, <1>8, <2>1, <2>2, <2>5, UncitedStays DEF Actor
<1>14. StaleReviewHasWriter'
  <2>1. Answers(g)'
    BY <1>4, <1>12 DEF Answers, Writing, Stopped
  <2>2. author' = g \/ UNCHANGED <<reviewed, author>>
    BY <1>6
  <2> QED
    BY <1>1, <1>8, <2>1, <2>2, StaleStays DEF Actor
<1>15. OneBook'
  <2>1. ~ crossed => Written = {} /\ \A h \in Generator : pc[h] = "insert" => h = g
    BY <1>1 DEF IInv, OneBook
  <2>2. ~ crossed => \A h \in Generator : pc'[h] # "insert"
    BY <1>4, <2>1 DEF Job
  <2> QED
    BY <1>1, <1>5, <1>6, <2>1, <2>2 DEF OneBook
<1> QED
  BY <1>7, <1>8, <1>10, <1>11, <1>13, <1>14, <1>15 DEF IInv

\* A step that writes citations only.
LEMMA CitationStep ==
  ASSUME IInv, NEW j \in Job, NEW to \in {"clear", "insSources", "reread", "finishFailed"},
         Goto(j, to), pc[j] # "check", pc[j] \in JobCall, pc[j] \notin Before,
         UNCHANGED <<section, origin, tracking, draft, target, page, live, published, review,
                     crossed>>,
         source' \subseteq Written \X Memory, SourcesWithinOrigin',
         uncitedBy' \in [SectionId -> Job \cup {None}],
         j \in Regenerator => RegeneratorFits(j)',
         \A s \in Written : SourcesOf(s)' = {} =>
           \/ uncitedBy'[s] = j /\ AnswersFor(j, s)'
           \/ /\ SourcesOf(s) = {} /\ uncitedBy'[s] = uncitedBy[s]
              /\ ~ (uncitedBy[s] = j /\ AnswersFor(j, s))
  PROVE  IInv'
<1>1. UNCHANGED <<section, origin, run, latest, stalled, runId, draft, target, act, acts, live,
                  published, reviewed, viewed, author, ownerCut, crossed>>
  BY DEF tracking, page, review
<1>2. to \in JobCall \cup JobOver
  BY DEF JobCall
<1>3. /\ pc' \in [Job -> JobCall \cup JobOver] /\ pc'[j] = to
      /\ \A h \in Job \ {j} : pc'[h] = pc[h]
  BY <1>2, Moves DEF IInv
<1>4. Written' = Written
  BY <1>1 DEF Written
<1>5. TypeOK'
  BY <1>1, <1>3, <1>4 DEF IInv, TypeOK
<1>6. Aside(j) /\ DraftsApart' /\ ReadyIsLast' /\ run[j] # "ready"
  <2>1. Aside(j)
    BY <1>1, <1>3 DEF Aside
  <2>2. run[j] # "ready"
    BY DEF IInv, ReadyIsLast, JobCall
  <2> QED
    BY <1>1, <1>3, <2>1, <2>2 DEF IInv, DraftsApart, ReadyIsLast
<1>7. pc'[j] \notin Before
  BY <1>3 DEF Before
<1>8. GeneratorsFit' /\ RegeneratorsFit'
  <2>1. GeneratorFits(j)'
    BY <1>3, <1>7 DEF GeneratorFits
  <2> QED
    BY <1>1, <1>4, <1>6, <1>7, <2>1, FitsStay DEF Actor
<1>9. UncitedHasWriter'
  BY <1>4, <1>6, UncitedStays DEF Actor
<1>10. StaleReviewHasWriter'
  <2>1. Answers(j)'
    BY <1>1, <1>3, <1>6 DEF Answers, Writing, Stopped
  <2>2. author = j => author' = j
    BY <1>1
  <2> QED
    BY <1>1, <1>6, <2>1, <2>2, StaleStays DEF Actor
<1>11. OneBook'
  <2>1. \A g \in Generator : pc'[g] = "insert" => pc[g] = "insert"
    BY <1>3 DEF Job
  <2> QED
    BY <1>1, <1>4, <2>1 DEF IInv, OneBook
<1> QED
  BY <1>5, <1>6, <1>8, <1>9, <1>10, <1>11 DEF IInv

LEMMA InsertSourcesStep ==
  ASSUME IInv, NEW g \in Generator, InsertSources(g)
  PROVE  IInv'
<1>1. /\ pc[g] = "sources" /\ g \in Job /\ g \notin Regenerator /\ uncitedBy' = uncitedBy
      /\ UNCHANGED <<section, origin, tracking, draft, target, page, live, published, review,
                     crossed>>
  BY WriterAssumption DEF InsertSources, Job
<1> DEFINE new == {x \in (DOMAIN draft[g]) \X Memory : x[2] \in draft[g][x[1]]}
<1>2. PICK to \in {"clear", "finishFailed"} :
        /\ Goto(g, to)
        /\ \/ source' = source \cup new /\ DOMAIN draft[g] \subseteq Written
           \/ source' = source /\ to = "finishFailed"
  <2>1. CASE Citable(draft[g])
    <3>1. PICK reply : /\ Goto(g, IF Answered(reply) THEN "clear" ELSE "finishFailed")
                       /\ source' = IF Wrote(reply) THEN source \cup new ELSE source
      BY <2>1 DEF InsertSources
    <3> HIDE DEF new
    <3> QED
      BY <2>1, <3>1 DEF Citable, Wrote, Answered
  <2>2. CASE ~ Citable(draft[g])
    BY <2>2 DEF InsertSources, Failed
  <2> QED
    BY <2>1, <2>2
<1>3. /\ \A s \in Written : s[1] = g => s \in DOMAIN draft[g]
      /\ \A s \in DOMAIN draft[g] :
           origin[s] = draft[g][s] /\ draft[g][s] \subseteq Memory /\ draft[g][s] # {}
  BY <1>1 DEF IInv, GeneratorsFit, GeneratorFits
<1>4. source' \subseteq Written \X Memory
  BY <1>2 DEF IInv, TypeOK
<1>5. SourcesWithinOrigin'
  <2>1. \A x \in new : x[2] \in origin[x[1]]
    BY <1>3
  <2> HIDE DEF new
  <2> QED
    BY <1>1, <1>2, <2>1 DEF IInv, SourcesWithinOrigin
<1>6. ASSUME NEW s \in Written, SourcesOf(s)' = {}
      PROVE  SourcesOf(s) = {} /\ (AnswersFor(g, s)' \/ ~ AnswersFor(g, s))
  <2>1. SourcesOf(s) = {}
    <3>1. source \subseteq source'
      BY <1>2
    <3> QED
      BY <1>6, <3>1 DEF SourcesOf
  <2>2. CASE s[1] # g
    BY <1>1, <2>1, <2>2 DEF AnswersFor
  <2>3. CASE s[1] = g
    <3>1. s \in DOMAIN draft[g] /\ draft[g][s] \subseteq Memory /\ draft[g][s] # {}
      BY <1>3, <2>3
    <3>2. PICK m \in Memory : m \in draft[g][s]
      BY <3>1
    <3>3. <<s, m>> \in new
      BY <3>1, <3>2
    <3>4. source' # source \cup new
      BY <1>6, <3>2, <3>3 DEF SourcesOf
    <3>5. to = "finishFailed"
      BY <1>2, <3>4
    <3>6. pc'[g] = "finishFailed" /\ run'[g] # "ready"
      BY <1>1, <1>2, <1>3, <3>5 DEF Goto, IInv, TypeOK, ReadyIsLast, tracking, review
    <3> QED
      BY <2>1, <2>3, <3>6 DEF AnswersFor, Stopped
  <2> QED
    BY <2>2, <2>3
<1>7. pc[g] # "check" /\ pc[g] \in JobCall /\ pc[g] \notin Before
  BY <1>1 DEF JobCall, Before
<1>8. uncitedBy' \in [SectionId -> Job \cup {None}]
  BY <1>1 DEF IInv, TypeOK
<1> QED
  BY <1>1, <1>2, <1>4, <1>5, <1>6, <1>7, <1>8, CitationStep

LEMMA UpdateSectionStep ==
  ASSUME IInv, NEW r \in Regenerator, UpdateSection(r)
  PROVE  IInv'
<1>1. /\ pc[r] = "update" /\ r \in Job /\ r \notin Generator
      /\ UNCHANGED <<source, origin, uncitedBy, run, latest, stalled, runId, draft, target, act,
                     acts, live, published, ownerCut, crossed>>
  BY WriterAssumption DEF UpdateSection, tracking, page, review, Job
<1>2. PICK to \in {"raised", "finishFailed", "delSources"} :
        /\ Goto(r, to)
        /\ \/ UNCHANGED <<section, reviewed, viewed, author, ownerCut>> /\ to # "delSources"
           \/ /\ section' = [section EXCEPT ![target[r]] = "generated"]
              /\ target[r] \in Written /\ to # "raised" /\ TextChanges(r, FALSE)
  <2>1. CASE target[r] \notin Written
    BY <2>1 DEF UpdateSection, review
  <2>2. CASE target[r] \in Written /\ Immutable
    BY <2>2 DEF UpdateSection, Failed, review
  <2>3. CASE target[r] \in Written /\ ~ Immutable
    BY <2>3 DEF UpdateSection, Wrote, Answered, review
  <2> QED
    BY <2>1, <2>2, <2>3
<1>3. to \in JobCall \cup JobOver
  BY DEF JobCall, JobOver
<1>4. /\ pc' \in [Job -> JobCall \cup JobOver] /\ pc'[r] = to
      /\ \A h \in Job \ {r} : pc'[h] = pc[h]
  BY <1>1, <1>2, <1>3, Moves DEF IInv
<1>5. \/ UNCHANGED <<section, reviewed, viewed, author, ownerCut>> /\ to # "delSources"
      \/ /\ section' \in [SectionId -> {"absent", "generated", "edited"}]
         /\ viewed' \in BOOLEAN /\ reviewed' \in {"none", "read", "stale", "blind"}
         /\ author' = r /\ author' \in Job \cup {"owner"}
         /\ to # "raised"
  BY <1>1, <1>2, TextFits DEF IInv, TypeOK, Actor
<1>6. Written' = Written
  BY <1>2 DEF IInv, TypeOK, Written
<1>7. TypeOK'
  BY <1>1, <1>4, <1>5, <1>6 DEF IInv, TypeOK
<1>8. Aside(r) /\ DraftsApart' /\ ReadyIsLast' /\ run'[r] # "ready"
  <2>1. Aside(r)
    BY <1>1, <1>4, <1>5 DEF Aside
  <2> QED
    BY <1>1, <1>4, <2>1 DEF IInv, DraftsApart, ReadyIsLast
<1>9. GeneratorsFit' /\ RegeneratorsFit'
  <2>1. target'[r] \in SectionId /\ pc'[target'[r][1]] \notin Before
    BY <1>1, <1>4, RegenerationGoesOn DEF JobCall
  <2>2. RegeneratorFits(r)'
    BY <1>1, <1>4, <1>5, <2>1 DEF IInv, RegeneratorsFit, RegeneratorFits
  <2>3. pc'[r] \notin Before
    BY <1>4 DEF Before
  <2> QED
    BY <1>1, <1>6, <1>8, <2>2, <2>3, FitsStay DEF Actor
<1>10. SourcesWithinOrigin'
  BY <1>1 DEF IInv, SourcesWithinOrigin
<1>11. ~ Answers(r) /\ \A s : ~ AnswersFor(r, s)
  BY <1>1, EarlyAnswersNothing
<1>12. UncitedHasWriter'
  <2>1. \A s : SourcesOf(s)' = SourcesOf(s)
    BY <1>1 DEF SourcesOf
  <2> QED
    BY <1>1, <1>6, <1>8, <1>11, <2>1, UncitedStays DEF Actor
<1>13. StaleReviewHasWriter'
  <2>1. Answers(r)'
    BY <1>4, <1>8 DEF Answers, Writing, Stopped
  <2>2. author' = r \/ UNCHANGED <<reviewed, author>>
    BY <1>5
  <2> QED
    BY <1>1, <1>8, <2>1, <2>2, StaleStays DEF Actor
<1>14. OneBook'
  <2>1. \A g \in Generator : pc'[g] = pc[g]
    BY <1>1, <1>4 DEF Job
  <2> QED
    BY <1>1, <1>6, <2>1 DEF IInv, OneBook
<1> QED
  BY <1>7, <1>8, <1>9, <1>10, <1>12, <1>13, <1>14 DEF IInv

LEMMA DeleteSourcesStep ==
  ASSUME IInv, NEW r \in Regenerator, DeleteSources(r)
  PROVE  IInv'
<1>1. /\ pc[r] = "delSources" /\ r \in Job /\ r \notin Generator
      /\ UNCHANGED <<section, origin, tracking, draft, target, page, live, published, review,
                     crossed>>
  BY WriterAssumption DEF DeleteSources, Job
<1>2. PICK to \in {"insSources", "finishFailed"} :
        /\ Goto(r, to)
        /\ \/ /\ source' = {x \in source : x[1] # target[r]}
              /\ uncitedBy' = [uncitedBy EXCEPT ![target[r]] = r]
           \/ UNCHANGED <<source, uncitedBy>>
  BY DEF DeleteSources
<1>3. pc[r] # "check" /\ pc[r] \in JobCall /\ pc[r] \notin Before /\ to \in JobCall \cup JobOver
  BY <1>1 DEF JobCall, Before
<1>4. pc'[r] = to /\ \A h \in Job \ {r} : pc'[h] = pc[h]
  BY <1>1, <1>2, <1>3, Moves DEF IInv
<1>5. source' \subseteq Written \X Memory
  BY <1>2 DEF IInv, TypeOK
<1>6. SourcesWithinOrigin'
  BY <1>1, <1>2 DEF IInv, SourcesWithinOrigin
<1>7. /\ uncitedBy' \in [SectionId -> Job \cup {None}]
      /\ \A s \in SectionId \ {target[r]} : uncitedBy'[s] = uncitedBy[s]
      /\ target[r] \in SectionId =>
           uncitedBy'[target[r]] = r \/ UNCHANGED <<source, uncitedBy>>
  BY <1>1, <1>2 DEF IInv, TypeOK
<1>8. RegeneratorFits(r)'
  <2>1. target'[r] \in SectionId /\ pc'[target'[r][1]] \notin Before
    BY <1>1, <1>3, <1>4, RegenerationGoesOn
  <2> QED
    BY <1>1, <1>4, <2>1 DEF IInv, RegeneratorsFit, RegeneratorFits
<1>9. ASSUME NEW s \in Written, SourcesOf(s)' = {}
      PROVE  \/ uncitedBy'[s] = r /\ AnswersFor(r, s)'
             \/ /\ SourcesOf(s) = {} /\ uncitedBy'[s] = uncitedBy[s]
                /\ ~ AnswersFor(r, s)
  <2>0. s \in SectionId
    BY DEF Written
  <2>1. CASE s = target[r]
    <3>1. run[r] # "ready" /\ run'[r] # "ready" /\ target'[r] = s
      BY <1>1, <2>1 DEF IInv, ReadyIsLast, tracking
    <3>2. AnswersFor(r, s)'
      BY <1>1, <1>4, <3>1 DEF AnswersFor, Stopped
    <3>3. ~ AnswersFor(r, s)
      BY <1>1, <3>1 DEF AnswersFor, Stopped
    <3>4. CASE UNCHANGED <<source, uncitedBy>>
      BY <1>9, <3>3, <3>4 DEF SourcesOf
    <3> QED
      BY <1>7, <2>0, <2>1, <3>2, <3>4
  <2>2. CASE s # target[r]
    <3>1. SourcesOf(s) = {}
      BY <1>2, <1>9, <2>2 DEF SourcesOf
    <3>2. s[1] # r
      BY <1>1, SectionsOfJobs DEF Written
    <3> QED
      BY <1>7, <2>0, <2>2, <3>1, <3>2 DEF AnswersFor
  <2> QED
    BY <2>1, <2>2
<1> QED
  BY <1>1, <1>2, <1>3, <1>5, <1>6, <1>7, <1>8, <1>9, CitationStep

LEMMA ReplaceSourcesStep ==
  ASSUME IInv, NEW r \in Regenerator, ReplaceSources(r)
  PROVE  IInv'
<1>1. /\ pc[r] = "insSources" /\ r \in Job /\ r \notin Generator /\ uncitedBy' = uncitedBy
      /\ UNCHANGED <<section, origin, tracking, draft, target, page, live, published, review,
                     crossed>>
  BY WriterAssumption DEF ReplaceSources, Job
<1> DEFINE new == {target[r]} \X draft[r][target[r]]
<1>2. PICK to \in {"reread", "finishFailed"} :
        /\ Goto(r, to)
        /\ \/ source' = source \cup new /\ target[r] \in Written
           \/ source' = source /\ to = "finishFailed"
  <2>1. CASE target[r] \in Written /\ new \cap source = {}
    <3>1. PICK reply : /\ Goto(r, IF Answered(reply) THEN "reread" ELSE "finishFailed")
                       /\ source' = IF Wrote(reply) THEN source \cup new ELSE source
      BY <2>1 DEF ReplaceSources
    <3> HIDE DEF new
    <3> QED
      BY <2>1, <3>1 DEF Wrote, Answered
  <2>2. CASE ~ (target[r] \in Written /\ new \cap source = {})
    BY <2>2 DEF ReplaceSources, Failed
  <2> QED
    BY <2>1, <2>2
<1>3. /\ target[r] \in SectionId
      /\ draft[r][target[r]] \subseteq origin[target[r]] /\ draft[r][target[r]] # {}
  BY <1>1 DEF IInv, RegeneratorsFit, RegeneratorFits, JobCall
<1>4. pc[r] # "check" /\ pc[r] \in JobCall /\ pc[r] \notin Before /\ to \in JobCall \cup JobOver
  BY <1>1 DEF JobCall, Before
<1>5. pc'[r] = to /\ \A h \in Job \ {r} : pc'[h] = pc[h]
  BY <1>1, <1>2, <1>4, Moves DEF IInv
<1>6. draft[r][target[r]] \subseteq Memory
  BY <1>3 DEF IInv, TypeOK
<1>7. source' \subseteq Written \X Memory
  BY <1>2, <1>6 DEF IInv, TypeOK
<1>8. SourcesWithinOrigin'
  <2>1. \A x \in new : x[2] \in origin[x[1]]
    BY <1>3
  <2> HIDE DEF new
  <2> QED
    BY <1>1, <1>2, <2>1 DEF IInv, SourcesWithinOrigin
<1>9. RegeneratorFits(r)'
  <2>1. target'[r] \in SectionId /\ pc'[target'[r][1]] \notin Before
    BY <1>1, <1>4, <1>5, RegenerationGoesOn
  <2> QED
    BY <1>5, <2>1 DEF RegeneratorFits
<1>10. ASSUME NEW s \in Written, SourcesOf(s)' = {}
       PROVE  SourcesOf(s) = {} /\ (AnswersFor(r, s)' \/ ~ AnswersFor(r, s))
  <2>1. SourcesOf(s) = {}
    <3>1. source \subseteq source'
      BY <1>2
    <3> QED
      BY <1>10, <3>1 DEF SourcesOf
  <2>2. CASE s # target[r]
    <3>1. s[1] # r
      BY <1>1, SectionsOfJobs DEF Written
    <3> QED
      BY <2>1, <2>2, <3>1 DEF AnswersFor
  <2>3. CASE s = target[r]
    <3>1. PICK m \in Memory : m \in draft[r][s]
      BY <1>3, <1>6, <2>3
    <3>2. <<s, m>> \in new
      BY <2>3, <3>1
    <3>3. source' # source \cup new
      BY <1>10, <3>1, <3>2 DEF SourcesOf
    <3>4. pc'[r] = "finishFailed"
      BY <1>2, <1>5, <3>3
    <3>5. run'[r] # "ready" /\ target'[r] = s
      BY <1>1, <1>3, <2>3 DEF IInv, ReadyIsLast, tracking
    <3> QED
      BY <2>1, <3>4, <3>5 DEF AnswersFor, Stopped
  <2> QED
    BY <2>2, <2>3
<1>11. uncitedBy' \in [SectionId -> Job \cup {None}]
  BY <1>1 DEF IInv, TypeOK
<1> QED
  BY <1>1, <1>2, <1>4, <1>7, <1>8, <1>9, <1>10, <1>11, CitationStep

-----------------------------------------------------------------------------
(* The owner, the clock and the contributors *)

\* A step of nobody's job leaves every job where it is.
LEMMA OwnerIsAside ==
  ASSUME IInv, UNCHANGED <<run, pc, draft, target>>
  PROVE  /\ Aside("owner") /\ DraftsApart' /\ ReadyIsLast'
         /\ "owner" \in Actor /\ "owner" \notin Job
         /\ "owner" \notin Generator /\ "owner" \notin Regenerator
<1>1. Aside("owner")
  BY DEF Aside
<1> QED
  BY <1>1, WriterAssumption DEF IInv, DraftsApart, ReadyIsLast, Actor, Job

LEMMA OwnerIsQuiet ==
  ASSUME IInv, TypeOK', UNCHANGED <<section, source, origin, uncitedBy, run, pc, draft, target,
                                    crossed>>,
         reviewed' = "stale" =>
           /\ reviewed = "stale" /\ author' = author
           /\ act = "clear" \/ ownerCut => act' = "clear" \/ ownerCut'
  PROVE  IInv'
<1>1. /\ Aside("owner") /\ DraftsApart' /\ ReadyIsLast'
      /\ "owner" \in Actor /\ "owner" \notin Job
      /\ "owner" \notin Generator /\ "owner" \notin Regenerator
  BY OwnerIsAside
<1> QED
  BY <1>1, QuietStep

LEMMA QuietOwnerStep ==
  ASSUME IInv, View \/ ClearByOwner \/ Mark \/ PublishGate \/ PublishTx
  PROVE  IInv'
<1>1. UNCHANGED <<section, source, origin, uncitedBy, run, latest, stalled, runId, pc, draft,
                  target, live,
                  crossed>>
  BY DEF View, ClearByOwner, Mark, PublishGate, PublishTx, book, tracking
<1>3. /\ author' = author
      /\ reviewed' = "stale" =>
           reviewed = "stale" /\ (act = "clear" \/ ownerCut => act' = "clear" \/ ownerCut')
  <2>1. CASE ClearByOwner
    <3>1. PICK reply :
            /\ IF Wrote(reply) THEN ClearReviewed ELSE UNCHANGED <<reviewed, viewed, author>>
            /\ ownerCut' = ~ Answered(reply)
      BY <2>1 DEF ClearByOwner
    <3>2. CASE Wrote(reply)
      BY <3>1, <3>2 DEF ClearReviewed
    <3>3. CASE ~ Wrote(reply)
      BY <3>1, <3>3 DEF Wrote, Answered
    <3> QED
      BY <3>2, <3>3
  <2>2. CASE ~ ClearByOwner
    BY <2>2 DEF View, Mark, PublishGate, PublishTx, review
  <2> QED
    BY <2>1, <2>2
<1>4. act' \in OwnerCall /\ acts' \in 0 .. MaxActs
  BY WriterAssumption
  DEF View, ClearByOwner, Mark, PublishGate, PublishTx, page, IInv, TypeOK, OwnerCall
<1>5. /\ reviewed' \in {"none", "read", "stale", "blind"}
      /\ viewed' \in BOOLEAN /\ ownerCut' \in BOOLEAN
  BY DEF View, ClearByOwner, ClearReviewed, Mark, PublishGate, PublishTx, review, IInv, TypeOK
<1>6. published' \in BOOLEAN
  BY DEF View, ClearByOwner, Mark, PublishGate, PublishTx, IInv, TypeOK
<1>7. TypeOK'
  BY <1>1, <1>3, <1>4, <1>5, <1>6 DEF IInv, TypeOK, Written
<1> QED
  BY <1>1, <1>3, <1>7, OwnerIsQuiet

LEMMA StallStep ==
  ASSUME IInv, Stall
  PROVE  IInv'
<1>1. UNCHANGED <<section, source, origin, uncitedBy, run, latest, runId, pc, draft, target, act,
                  acts, live,
                  published, reviewed, viewed, author, ownerCut, crossed>> /\ stalled' = TRUE
  BY DEF Stall, book, page, review
<1>2. TypeOK'
  BY <1>1 DEF IInv, TypeOK, Written
<1> QED
  BY <1>1, <1>2, OwnerIsQuiet

LEMMA WithdrawStep ==
  ASSUME IInv, NEW m \in Memory, Withdraw(m)
  PROVE  IInv'
<1>1. UNCHANGED <<section, source, origin, uncitedBy, run, latest, stalled, runId, pc, draft,
                  target, act,
                  acts, published, reviewed, viewed, author, ownerCut, crossed>>
      /\ live' = live \ {m}
  BY DEF Withdraw, book, tracking, page, review
<1>2. TypeOK'
  BY <1>1 DEF IInv, TypeOK, Written
<1> QED
  BY <1>1, <1>2, OwnerIsQuiet

\* An edit or delete that raised before it wrote.
LEMMA NotWrittenStep ==
  ASSUME IInv, act = "page", act' = "page", acts < MaxActs, acts' = acts + 1,
         UNCHANGED <<section, source, review, origin, uncitedBy, tracking, pc, draft, target,
                     live, published, crossed>>
  PROVE  IInv'
<1>1. UNCHANGED <<reviewed, viewed, author, ownerCut, run, latest, stalled, runId>>
  BY DEF review, tracking
<1>2. TypeOK'
  BY <1>1, WriterAssumption DEF IInv, TypeOK, Written
<1> QED
  BY <1>1, <1>2, OwnerIsQuiet

\* And one that wrote, with or without its second call to come.
LEMMA WriteByOwnerStep ==
  ASSUME IInv, NEW s \in Written, NEW body \in {"edited", "absent"},
         WriteByOwner(s, body, "clear")
  PROVE  IInv'
<1> PICK reply \in Reply("edit") :
       /\ act' = IF Answered(reply) THEN "clear" ELSE "page"
       /\ IF Wrote(reply)
            THEN /\ section' = [section EXCEPT ![s] = body]
                 /\ source' = IF body = "absent" THEN {x \in source : x[1] # s} ELSE source
                 /\ TextChanges("owner", TRUE)
                 /\ ownerCut' = ~ Answered(reply)
            ELSE UNCHANGED <<section, source, review>>
  BY DEF WriteByOwner
<1>0. CASE ~ Wrote(reply)
  <2>1. ~ Answered(reply)
    BY <1>0 DEF Wrote, Answered
  <2> QED
    BY <1>0, <2>1, NotWrittenStep DEF WriteByOwner
<1> SUFFICES ASSUME Wrote(reply) PROVE IInv'
  BY <1>0
<1>1. /\ act' \in {"clear", "page"} /\ (act' = "clear" \/ ownerCut')
      /\ acts < MaxActs /\ acts' = acts + 1 /\ s \in SectionId
      /\ section' = [section EXCEPT ![s] = body]
      /\ source' = IF body = "absent" THEN {x \in source : x[1] # s} ELSE source
      /\ TextChanges("owner", TRUE) /\ ownerCut' \in BOOLEAN
      /\ UNCHANGED <<origin, uncitedBy, run, latest, stalled, runId, pc, draft, target, live,
                     published, crossed>>
  BY DEF WriteByOwner, tracking, Written
<1>2. /\ viewed' \in BOOLEAN /\ reviewed' \in {"none", "read", "stale", "blind"}
      /\ author' = "owner" /\ author' \in Job \cup {"owner"}
  BY <1>1, TextFits DEF Actor
<1>3. /\ Aside("owner") /\ DraftsApart' /\ ReadyIsLast'
      /\ "owner" \in Actor /\ "owner" \notin Job
      /\ "owner" \notin Generator /\ "owner" \notin Regenerator
  BY <1>1, <1>2, WriterAssumption, OwnerIsAside
<1>4. Written' = (IF body = "absent" THEN Written \ {s} ELSE Written)
  BY <1>1 DEF IInv, TypeOK, Written
<1>5. TypeOK'
  <2>1. section' \in [SectionId -> {"absent", "generated", "edited"}]
    BY <1>1 DEF IInv, TypeOK
  <2>2. source' \subseteq Written' \X Memory
    BY <1>1, <1>4 DEF IInv, TypeOK
  <2>3. act' \in OwnerCall /\ acts' \in 0 .. MaxActs
    BY <1>1, WriterAssumption DEF IInv, TypeOK, OwnerCall
  <2> QED
    BY <1>1, <1>2, <2>1, <2>2, <2>3 DEF IInv, TypeOK
<1>6. Written' \subseteq Written
  BY <1>4
<1>7. GeneratorsFit' /\ RegeneratorsFit'
  BY <1>1, <1>3, <1>6, FitsStay
<1>8. SourcesWithinOrigin'
  BY <1>1 DEF IInv, SourcesWithinOrigin
<1>9. UncitedHasWriter'
  <2>1. \A u \in Written' : SourcesOf(u)' = SourcesOf(u)
    BY <1>1, <1>4 DEF SourcesOf
  <2> QED
    BY <1>1, <1>3, <1>6, <2>1, UncitedStays
<1>10. StaleReviewHasWriter'
  BY <1>1, <1>2 DEF StaleReviewHasWriter
<1>11. OneBook'
  BY <1>1, <1>6 DEF IInv, OneBook
<1> QED
  BY <1>3, <1>5, <1>7, <1>8, <1>9, <1>10, <1>11 DEF IInv

-----------------------------------------------------------------------------
(* The theorems *)

LEMMA InitIInv == Init => IInv
<1> SUFFICES ASSUME Init PROVE IInv
  OBVIOUS
<1> USE DEF Init
<1>1. Written = {}
  BY DEF Written
<1>2. TypeOK
  <2>1. \A j \in Job : DOMAIN draft[j] \subseteq SectionId
    OBVIOUS
  <2>2. pc \in [Job -> JobCall \cup JobOver] /\ run \in [Job -> RunStatus]
    BY DEF JobCall, RunStatus
  <2>3. act \in OwnerCall /\ acts \in 0 .. MaxActs
    BY WriterAssumption DEF OwnerCall
  <2> QED
    BY <1>1, <2>1, <2>2, <2>3 DEF TypeOK
<1>3. DraftsApart /\ ReadyIsLast /\ RegeneratorsFit /\ SourcesWithinOrigin
  BY DEF DraftsApart, ReadyIsLast, RegeneratorsFit, RegeneratorFits, SourcesWithinOrigin, Job
<1>4. GeneratorsFit
  <2>1. \A g \in Generator : pc[g] = "check"
    BY DEF Job
  <2> HIDE DEF Init
  <2> QED
    BY <1>1, <2>1 DEF GeneratorsFit, GeneratorFits
<1>5. UncitedHasWriter /\ StaleReviewHasWriter /\ OneBook
  BY <1>1 DEF UncitedHasWriter, StaleReviewHasWriter, OneBook, Job
<1> QED
  BY <1>2, <1>3, <1>4, <1>5 DEF IInv

LEMMA StutterStep ==
  ASSUME IInv, UNCHANGED vars
  PROVE  IInv'
<1>1. UNCHANGED <<section, source, origin, uncitedBy, run, latest, stalled, runId, pc, draft,
                  target, act,
                  acts, live, published, reviewed, viewed, author, ownerCut, crossed>>
  BY DEF vars, book, tracking, page, review
<1>2. TypeOK'
  BY <1>1 DEF IInv, TypeOK, Written
<1> QED
  BY <1>1, <1>2, OwnerIsQuiet

LEMMA EndJobStep ==
  ASSUME IInv, NEW j \in Job, EndJob(j)
  PROVE  IInv'
  BY ClearByJobStep, FinishRunStep DEF EndJob

LEMMA GenerateStep ==
  ASSUME IInv, NEW g \in Generator, Generate(g)
  PROVE  IInv'
<1>1. g \in Job
  BY DEF Job
<1> QED
  BY <1>1, CheckGenerateStep, StartRunStep, ComposeStep, DeleteAllStep, InsertSectionsStep,
     InsertSourcesStep, EndJobStep
  DEF Generate

LEMMA RegenerateStep ==
  ASSUME IInv, NEW r \in Regenerator, Regenerate(r)
  PROVE  IInv'
<1>1. r \in Job
  BY DEF Job
<1> QED
  BY <1>1, CheckRegenerateStep, StartRunStep, ComposeOneStep, UpdateSectionStep,
     DeleteSourcesStep, ReplaceSourcesStep, RereadStep, EndJobStep
  DEF Regenerate

LEMMA OwnerStep ==
  ASSUME IInv, Owner
  PROVE  IInv'
<1>1. ASSUME UpdateBody \/ DeleteSection PROVE IInv'
  BY <1>1, WriteByOwnerStep DEF UpdateBody, DeleteSection, AfterEdit
<1> QED
  BY <1>1, QuietOwnerStep DEF Owner

LEMMA NextIInv == IInv /\ [Next]_vars => IInv'
<1> SUFFICES ASSUME IInv, [Next]_vars PROVE IInv'
  OBVIOUS
<1> QED
  BY GenerateStep, RegenerateStep, WithdrawStep, StallStep, OwnerStep, StutterStep DEF Next

LEMMA IInvHolds == Spec => []IInv
  BY InitIInv, NextIInv, PTL DEF Spec

\* Whatever fails, and however generations, regenerations, edits, deletes and
\* withdrawals interleave: a section of the book without a citation is answered for by
\* the job whose call left it so, its own generation or a regeneration of that section,
\* which is about to store its citations or failed there; and a section never cites a
\* memory that its generation did not draw on (replace_all_sections and
\* replace_section_from_regeneration, whose calls are no transaction).
THEOREM BookSafety == Spec => []BookIsSound
<1>1. IInv => BookIsSound
  BY DEF IInv, BookIsSound
<1> QED
  BY <1>1, IInvHolds, PTL

\* A review mark made on an older text than the book's has somebody to answer for it,
\* whoever wrote the text last: a job on its way to clear_narrative_reviewed or that
\* failed or died on that way, or the owner, whose edit or delete is about to clear
\* the mark or raised before it had.
THEOREM StaleSafety == Spec => []StaleReviewHasWriter
<1>1. IInv => StaleReviewHasWriter
  BY DEF IInv
<1> QED
  BY <1>1, IInvHolds, PTL

\* Sections of two generations are in the book together only after a generation
\* deleted the old sections while another was about to insert its own, which
\* the check for a processing run before the task is scheduled lets happen.
THEOREM MixedSafety == Spec => []MixedHasCrossed
<1>1. IInv => MixedHasCrossed
  BY DEF IInv, OneBook, MixedHasCrossed
<1> QED
  BY <1>1, IInvHolds, PTL
=============================================================================

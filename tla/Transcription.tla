---------------------------- MODULE Transcription ----------------------------
(***************************************************************************)
(* The transcription of one recording: background jobs that read the       *)
(* status of the asset and the transcript row, transcribe for minutes, and *)
(* write both; requests that schedule them, retries, the owner's           *)
(* correction and a publish meanwhile.                                     *)
(*                                                                         *)
(* A call of the database is one step with a Reply as in Proposal.  No     *)
(* step is fair: a job whose process dies takes no further step.           *)
(***************************************************************************)
EXTENDS Naturals

CONSTANTS
  Job,          \* requests to transcribe or retry, each with the job it starts
  MaxAttempts,  \* MAX_TRANSCRIPTION_ATTEMPTS
  Faulty        \* the calls that may fail

VARIABLES
  status,       \* media_asset.transcription_status
  row,          \* the transcript row of the asset
  old,          \* its updated_at is STALL_THRESHOLD_SECONDS ago
  published,
  pc,           \* the next call of each request or job, or how it ended
  snap,         \* the row as the job has read it
  teller,       \* ghost: the job that wrote the status last
  calls,        \* ghost: how often the recording was sent to a provider
  overlapped,   \* ghost: a job began while another was at work
  late          \* ghost: a correction was made while a job was at work

ghosts == <<calls, overlapped, late>>
vars == <<status, row, old, published, pc, snap, teller, ghosts>>

-----------------------------------------------------------------------------

\* What a provider may answer; a recording of silence has no words in it.
Answer == {"silence", "words"}
Text == Answer \cup {"none"}

\* raw and shown: what raw_text and display_text hold.  The column raw_text is the
\* empty string both before an answer and for silence, which are apart here.
\* edited: whether there is an edited_text.
Row == [exists : BOOLEAN, raw : Text, edited : BOOLEAN,
        shown : Text \cup {"correction"}, attempts : 0 .. MaxAttempts]
NoRow == [exists |-> FALSE, raw |-> "none", edited |-> FALSE,
          shown |-> "none", attempts |-> 0]

Start == {"request", "asset", "row"}
Call == {"open", "setProcessing", "transcribe", "saveText", "setReady",
         "saveError", "setFailed"}
Over == {"refused", "ended", "raised"}

ASSUME TranscriptionAssumption ==
  /\ MaxAttempts \in Nat \ {0}
  /\ Faulty \subseteq Call

Reply(call) == IF call \in Faulty THEN {"ok", "error", "lost"} ELSE {"ok"}
Wrote(reply) == reply # "error"
Answered(reply) == reply = "ok"

-----------------------------------------------------------------------------
(* Variants with a plausible bug, which the properties must notice *)

OneMore(r) == r.attempts <= MaxAttempts      \* off by one
NotEvenReady == FALSE                        \* no no-op for a ready asset
ReadyFirst == "setReady"                     \* the status before the text
OverEdits(s, answer) == answer               \* a fresh pass hides a correction
GiveUpSilently == "ended"                    \* an error leaves processing
NotCounted(s) == s.attempts                  \* an attempt is not counted

-----------------------------------------------------------------------------

AtWork(j) == pc[j] \in {"row"} \cup Call

\* compute_effective_transcription_status
EffectiveStatus == IF status = "processing" /\ old THEN "stalled" ELSE status

AlreadyReady == status = "ready"
UnderCap(r) == r.attempts < MaxAttempts

Goto(j, to) == pc' = [pc EXCEPT ![j] = to]

\* request_transcription and enqueue_transcription, also called for the audio
\* attached to a memory: participants only, before publication.
Enqueue(j) ==
  /\ pc[j] = "request"
  /\ Goto(j, IF published \/ status = "ready" THEN "refused" ELSE "asset")
  /\ UNCHANGED <<status, row, old, published, snap, teller, ghosts>>

\* retry_transcription
Retry(j) ==
  /\ pc[j] = "request"
  /\ Goto(j, IF ~ published /\ EffectiveStatus \in {"failed", "stalled"} /\ UnderCap(row)
               THEN "asset" ELSE "refused")
  /\ UNCHANGED <<status, row, old, published, snap, teller, ghosts>>

-----------------------------------------------------------------------------
(* transcribe_and_store_audio *)

\* A second job of an asset that is ready does nothing.
ReadAsset(j) ==
  /\ pc[j] = "asset"
  /\ Goto(j, IF AlreadyReady THEN "ended" ELSE "row")
  /\ overlapped' = (overlapped \/ (~ AlreadyReady /\ \E k \in Job \ {j} : AtWork(k)))
  /\ UNCHANGED <<status, row, old, published, snap, teller, calls, late>>

\* The row it reads here is the one every later write of it starts from.
ReadRow(j) ==
  /\ pc[j] = "row"
  /\ Goto(j, IF UnderCap(row) THEN "open" ELSE "ended")
  /\ snap' = [snap EXCEPT ![j] = row]
  /\ UNCHANGED <<status, row, old, published, teller, ghosts>>

\* _save_transcript: raw_text from the snapshot unless it is given, edited_text
\* never.
KeptEdit(s, cur) == cur.edited

SaveTranscript(j, raw, shown, attempts) ==
  /\ row' = [exists |-> TRUE, raw |-> raw, edited |-> KeptEdit(snap[j], row),
             shown |-> shown, attempts |-> attempts]
  /\ old' = FALSE

Save(j, call, raw, shown, attempts, next, otherwise) ==
  /\ pc[j] = call
  /\ \E reply \in Reply(call) :
       /\ IF Wrote(reply) THEN SaveTranscript(j, raw, shown, attempts)
                          ELSE UNCHANGED <<row, old>>
       /\ Goto(j, IF Answered(reply) THEN next ELSE otherwise)
  /\ UNCHANGED <<status, published, snap, teller, ghosts>>

\* update_media_asset_transcription_status.  On a published memoir the trigger
\* lets through only an update that changes the status.
Admitted(cur, st) == ~ published \/ st # cur

SetStatus(j, call, st, next, otherwise) ==
  /\ pc[j] = call
  /\ IF Admitted(status, st)
       THEN \E reply \in Reply(call) :
              /\ IF Wrote(reply) THEN status' = st /\ teller' = j
                                 ELSE UNCHANGED <<status, teller>>
              /\ Goto(j, IF Answered(reply) THEN next ELSE otherwise)
       ELSE Goto(j, otherwise) /\ UNCHANGED <<status, teller>>
  /\ UNCHANGED <<row, old, published, snap, ghosts>>

Attempt(s) == s.attempts + 1

\* The first two writes are not inside the try: what they raise ends the task.
Open(j) ==
  \/ Save(j, "open", snap[j].raw, row.shown, Attempt(snap[j]), "setProcessing", "raised")
  \/ SetStatus(j, "setProcessing", "processing", "transcribe", "raised")

\* Download and provider chain, both with retries of their own.
AfterText == "saveText"
AfterError == "saveError"

Transcribe(j) ==
  /\ pc[j] = "transcribe"
  /\ calls' = calls + 1
  /\ \E next \in {AfterText, AfterError} : Goto(j, next)
  /\ UNCHANGED <<status, row, old, published, snap, teller, overlapped, late>>

DisplayText(s, answer) == IF s.edited THEN "correction" ELSE answer

\* Whatever the provider answered is stored, an empty text too.
SaveText(j, answer) ==
  Save(j, "saveText", answer, DisplayText(snap[j], answer), row.attempts,
       "setReady", "saveError")

Finish(j) ==
  \/ \E answer \in Answer : SaveText(j, answer)
  \/ SetStatus(j, "setReady", "ready", "ended", "saveError")

\* _mark_failed, whose own exceptions leave the task.
MarkFailed(j) ==
  \/ Save(j, "saveError", snap[j].raw, row.shown, row.attempts, "setFailed", "raised")
  \/ SetStatus(j, "setFailed", "failed", "ended", "raised")

-----------------------------------------------------------------------------

\* The owner's correction, written by another client of the database.
Correct ==
  /\ row.exists
  /\ ~ row.edited
  /\ ~ published
  /\ row' = [row EXCEPT !.edited = TRUE, !.shown = "correction"]
  /\ late' = (late \/ \E j \in Job : AtWork(j))
  /\ UNCHANGED <<status, old, published, pc, snap, teller, calls, overlapped>>

Publish ==
  /\ ~ published
  /\ published' = TRUE
  /\ UNCHANGED <<status, row, old, pc, snap, teller, ghosts>>

Age ==
  /\ EffectiveStatus = "processing"
  /\ old' = TRUE
  /\ UNCHANGED <<status, row, published, pc, snap, teller, ghosts>>

Init ==
  /\ status = "pending"
  /\ row = NoRow
  /\ old = FALSE
  /\ published = FALSE
  /\ pc = [j \in Job |-> "request"]
  /\ snap = [j \in Job |-> NoRow]
  /\ teller = "nobody"
  /\ calls = 0
  /\ overlapped = FALSE
  /\ late = FALSE

Request(j) == Enqueue(j) \/ Retry(j)
Run(j) == ReadAsset(j) \/ ReadRow(j) \/ Open(j) \/ Transcribe(j) \/ Finish(j) \/ MarkFailed(j)

Next ==
  \/ \E j \in Job : Request(j) \/ Run(j)
  \/ Correct \/ Publish \/ Age

Spec == Init /\ [][Next]_vars

-----------------------------------------------------------------------------
(* Properties *)

TypeOK ==
  /\ status \in {"pending", "processing", "ready", "failed"}
  /\ row \in Row
  /\ pc \in [Job -> Start \cup Call \cup Over]
  /\ snap \in [Job -> Row]
  /\ status # "pending" => teller \in Job
  /\ calls \in Nat
  /\ {old, published, overlapped, late} \subseteq BOOLEAN

\* The job that set a recording to processing is on its way to ready or failed,
\* or died or raised there: it does not end well and leave it so.  (A process that
\* dies stops its job at any call; nothing in the model makes a job go on.)
ProcessingHasJob == status = "processing" => pc[teller] \in Call \cup {"raised"}

\* Jobs that do not overlap send the recording to a provider at most
\* MaxAttempts times, however requests, retries and failures follow each other.
CapWithoutOverlap == ~ overlapped => calls <= MaxAttempts

\* The row has a provider's answer, words or silence, and shows that or the
\* owner's correction.
HasAnswer(r) == r.raw # "none" /\ (r.edited \/ r.shown = r.raw)

\* A recording that is ready has the answer to show, unless jobs have overlapped,
\* or the job that made it ready took the lost answer of that call for a failure
\* and stopped half way.  The answer may be empty: silence is ready without text.
ReadyHasAnswer ==
  status = "ready" /\ ~ overlapped =>
    HasAnswer(row) \/ pc[teller] \in {"setFailed", "raised"}

\* The status tells the truth: the job that said processing works on it, and what
\* is ready was transcribed.
StatusIsTrue == TypeOK /\ ProcessingHasJob /\ ReadyHasAnswer

\* Once ready, a recording is never transcribed again, unless jobs overlap: only
\* the job that made it ready, if that answer is lost, takes it back.
ReadyIsFinal ==
  [][status = "ready" /\ ~ overlapped' =>
       \/ status' = "ready"
       \/ status' = "failed" /\ \E j \in Job : pc[j] = "setFailed"]_vars

\* The owner's correction is what is shown, unless it was made while a job was
\* at work with the row as it had been.
CorrectionIsShown == row.edited /\ ~ late => row.shown = "correction"
=============================================================================

------------------------------ MODULE Memories ------------------------------
(***************************************************************************)
(* How memories and their media come into a memoir: uploads to storage and *)
(* the requests that catalogue them, the requests that create, change and  *)
(* delete a memory and attach media to it, and a publish meanwhile.        *)
(*                                                                         *)
(* A call of the database is one step with a Reply as in Proposal; what a  *)
(* request checks before its first write is one step.  No step is fair: a  *)
(* request whose process dies takes no further step.                       *)
(***************************************************************************)
EXTENDS Naturals, FiniteSets

CONSTANTS
  Key,          \* objects in storage, by the key a presigned URL names
  Sum,          \* checksums
  Saver,        \* requests to catalogue an upload, each with the row it makes
  Audio,        \* those whose file is audio
  Creator,      \* requests to create a memory, each with the row it makes
  Updater,      \* requests to change a memory
  Deleter,      \* requests to delete one
  None,
  Faulty        \* the calls that may fail

VARIABLES
  object,       \* what storage has under a key
  asset,        \* rows of media_asset
  memory,       \* rows of memory
  link,         \* rows of memory_media
  queued,       \* the assets whose transcription was scheduled
  published,
  pc,           \* the next call of each request, or how it ended
  arg,          \* what each request asks for
  met,          \* ghost: saves that looked up while another inserted their checksum
  unseen,       \* ghost: saves whose lookup was not shown the row of their checksum
  raced         \* ghost: memories whose status was written between a delete's calls

stored == <<object, asset, memory, link, queued>>
ghosts == <<met, unseen, raced>>
vars == <<stored, published, pc, arg, ghosts>>

-----------------------------------------------------------------------------

Request == Saver \cup Creator \cup Updater \cup Deleter
Call == {"request", "inspect", "remove", "lookup", "insert", "insertMemory",
         "update", "verify", "already", "link", "enqueue", "softDelete"}
Over == {"refused", "failed", "returned", "done"}

AssetRow == [key : Key, sum : Sum \cup {None}]
MemoryRow == [status : {"draft", "submitted"}, deleted : BOOLEAN]

SaveArg == [key : Key, sum : Sum \cup {None}, accepted : BOOLEAN]
MemoryArg == [memory : Creator, status : {"draft", "submitted", None}, media : SUBSET Saver]

ASSUME MemoriesAssumption ==
  /\ Faulty \subseteq Call
  /\ Audio \subseteq Saver
  /\ None \notin Sum

\* A request is of one kind, and None is no row and no argument.
ASSUME RequestAssumption ==
  /\ Saver \cap (Creator \cup Updater \cup Deleter) = {}
  /\ Creator \cap (Updater \cup Deleter) = {}
  /\ Updater \cap Deleter = {}
  /\ None \notin AssetRow \cup MemoryRow \cup SaveArg \cup MemoryArg

Reply(call) == IF call \in Faulty THEN {"ok", "error", "lost"} ELSE {"ok"}
Wrote(reply) == reply # "error"
Answered(reply) == reply = "ok"

Catalogued == {s \in Saver : asset[s] # None}
Created == {m \in Creator : memory[m] # None}
MediaOf(m) == {s \in Saver : <<m, s>> \in link}

-----------------------------------------------------------------------------
(* Variants with a plausible bug, which the properties must notice *)

TrustClient(o) == TRUE                    \* the browser says it has uploaded
NoIdempotency(c) == FALSE                 \* a retry is not recognised
EvenDeleted(m) == memory[m] # None        \* the update has no deleted_at filter
ReplaceMedia(u, old, new) == {x \in old : x[1] # arg[u].memory} \cup new
QueueFirst == "enqueue"                   \* queued before the link commits
IgnoreLinkError == "done"

-----------------------------------------------------------------------------
(* The filters and guards of the code *)

Uploaded(o) == o \in {"ok", "bad"}
KnownSum(c) == c # None /\ \E s \in Catalogued : asset[s].sum = c
NotDeleted(m) == memory[m] # None /\ ~ memory[m].deleted
Immutable == published
Attach(u, old, new) == old \cup new
AllOwned(ids) == ids \subseteq Catalogued

Goto(p, to) == pc' = [pc EXCEPT ![p] = to]
Then(p, reply, next) == Goto(p, IF Answered(reply) THEN next ELSE "failed")

\* A request begins with participant and assert_memoir_editable.
Begin(p, a, next) ==
  /\ pc[p] = "request"
  /\ arg' = [arg EXCEPT ![p] = a]
  /\ Goto(p, IF published THEN "refused" ELSE next)
  /\ UNCHANGED <<stored, published, ghosts>>

-----------------------------------------------------------------------------
(* Uploads: generate_presigned_url and what the browser then does *)

Presign(k) ==
  /\ ~ published
  /\ object[k] = "absent"
  /\ object' = [object EXCEPT ![k] = "issued"]
  /\ UNCHANGED <<asset, memory, link, queued, published, pc, arg, ghosts>>

\* The URL says where, not what: bad is too large or of a type not allowed.
Upload(k) ==
  /\ object[k] = "issued"
  /\ \E o \in {"ok", "bad"} : object' = [object EXCEPT ![k] = o]
  /\ UNCHANGED <<asset, memory, link, queued, published, pc, arg, ghosts>>

-----------------------------------------------------------------------------
(* save_metadata *)

BeginSave(s) == \E a \in SaveArg : Begin(s, a, "inspect")

\* get_uploaded_object_info, and the checks of size and type on its answer; an
\* audio without a duration is refused too.
Inspect(s) ==
  /\ pc[s] = "inspect"
  /\ LET o == object[arg[s].key] IN
     \/ Goto(s, IF ~ Uploaded(o) THEN "refused"
                ELSE IF o = "bad" \/ ~ arg[s].accepted THEN "remove" ELSE "lookup")
     \/ Goto(s, "refused")
  /\ UNCHANGED <<stored, published, arg, ghosts>>

\* remove_object swallows its errors.
Remove(s) ==
  /\ pc[s] = "remove"
  /\ Goto(s, "refused")
  /\ \E reply \in Reply("remove") :
       object' = IF Wrote(reply) THEN [object EXCEPT ![arg[s].key] = "removed"] ELSE object
  /\ UNCHANGED <<asset, memory, link, queued, published, arg, ghosts>>

\* check_existing_media_by_checksum reads with the anonymous client, whose session
\* is that of whoever signed in last: its answer may leave out a row that is there.
Lookup(s) ==
  /\ pc[s] = "lookup"
  /\ IF KnownSum(arg[s].sum)
       THEN \/ Goto(s, "returned") /\ UNCHANGED unseen
            \/ Goto(s, "insert") /\ unseen' = unseen \cup {s}
       ELSE Goto(s, "insert") /\ UNCHANGED unseen
  /\ met' = IF \E t \in Saver \ {s} : pc[t] = "insert" /\ arg[t].sum = arg[s].sum
               THEN met \cup {s} ELSE met
  /\ UNCHANGED <<stored, published, arg, raced>>

\* insert_media_metadata
Insert(s) ==
  /\ pc[s] = "insert"
  /\ IF Immutable
       THEN Goto(s, "failed") /\ UNCHANGED asset
       ELSE \E reply \in Reply("insert") :
              /\ Then(s, reply, "done")
              /\ asset' = IF Wrote(reply)
                            THEN [asset EXCEPT ![s] = [key |-> arg[s].key, sum |-> arg[s].sum]]
                            ELSE asset
  /\ UNCHANGED <<object, memory, link, queued, published, arg, ghosts>>

Save(s) == BeginSave(s) \/ Inspect(s) \/ Remove(s) \/ Lookup(s) \/ Insert(s)

-----------------------------------------------------------------------------
(* create_memory *)

BeginCreate(c) ==
  \E st \in {"draft", "submitted"}, ids \in SUBSET Saver :
    Begin(c, [memory |-> c, status |-> st, media |-> ids], "insertMemory")

\* The story is stored before anything is said about its media.
AfterStory(p) == IF arg[p].media = {} THEN "done" ELSE "verify"

InsertMemory(c) ==
  /\ pc[c] = "insertMemory"
  /\ IF Immutable
       THEN Goto(c, "failed") /\ UNCHANGED memory
       ELSE \E reply \in Reply("insertMemory") :
              /\ Then(c, reply, AfterStory(c))
              /\ memory' = IF Wrote(reply)
                   THEN [memory EXCEPT ![c] = [status |-> arg[c].status, deleted |-> FALSE]]
                   ELSE memory
  /\ UNCHANGED <<object, asset, link, queued, published, arg, ghosts>>

\* verify_media_assets_belong_to_memoir; the 403 leaves the story stored.
AfterVerify == "already"

Verify(p) ==
  /\ pc[p] = "verify"
  /\ Goto(p, IF AllOwned(arg[p].media) THEN AfterVerify ELSE "refused")
  /\ UNCHANGED <<stored, published, arg, ghosts>>

\* fetch_memory_media_ids: only what is not attached yet (a new memory has
\* nothing attached).
Already(p) ==
  /\ pc[p] = "already"
  /\ LET new == arg[p].media \ MediaOf(arg[p].memory) IN
       /\ Goto(p, IF new = {} THEN "done" ELSE "link")
       /\ arg' = [arg EXCEPT ![p].media = new]
  /\ UNCHANGED <<stored, published, ghosts>>

\* insert_memory_media: one call, refused as a whole for a duplicate or for a
\* memory or a media row that is not there.
AfterBadLink == "failed"

Link(p) ==
  /\ pc[p] = "link"
  /\ LET m == arg[p].memory
         new == {m} \X arg[p].media IN
     IF Immutable \/ new \cap link # {} \/ ~ new \subseteq Created \X Catalogued
       THEN Goto(p, AfterBadLink) /\ UNCHANGED link
       ELSE \E reply \in Reply("link") :
              /\ Goto(p, IF Answered(reply) THEN "enqueue" ELSE AfterBadLink)
              /\ link' = IF Wrote(reply) THEN Attach(p, link, new) ELSE link
  /\ UNCHANGED <<object, asset, memory, queued, published, arg, ghosts>>

\* fetch_media_asset_record and enqueue_transcription for the audio among them (see
\* Transcription): what is scheduled runs after the response, so that a call that
\* raises takes all of it along.
Enqueue(p) ==
  /\ pc[p] = "enqueue"
  /\ \E reply \in Reply("enqueue") :
       /\ Then(p, reply, "done")
       /\ queued' = IF Answered(reply)
                      THEN queued \cup (arg[p].media \cap Catalogued \cap Audio) ELSE queued
  /\ UNCHANGED <<object, asset, memory, link, published, arg, ghosts>>

AttachMedia(p) == Verify(p) \/ Already(p) \/ Link(p) \/ Enqueue(p)
Create(c) == BeginCreate(c) \/ InsertMemory(c) \/ AttachMedia(c)

-----------------------------------------------------------------------------
(* update_memory and delete_memory, for an owner or admin: the row they read *)
(* has neither of the columns that would tell them its author              *)

BeginUpdate(u) ==
  \E m \in Created, st \in {"draft", "submitted", None}, ids \in SUBSET Saver :
    Begin(u, [memory |-> m, status |-> st, media |-> ids], "update")

\* update_memory_record: no row is no error.
Update(u) ==
  /\ pc[u] = "update"
  /\ LET m == arg[u].memory
         st == arg[u].status IN
     IF st = None
       THEN Goto(u, AfterStory(u)) /\ UNCHANGED <<memory, raced>>
       ELSE IF Immutable
       THEN Goto(u, "failed") /\ UNCHANGED <<memory, raced>>
       ELSE \E reply \in Reply("update") :
              /\ Then(u, reply, AfterStory(u))
              /\ memory' = IF Wrote(reply) /\ NotDeleted(m)
                             THEN [memory EXCEPT ![m].status = st] ELSE memory
              /\ raced' = IF \E d \in Deleter : pc[d] = "softDelete" /\ arg[d].memory = m
                             THEN raced \cup {m} ELSE raced
  /\ UNCHANGED <<object, asset, link, queued, published, arg, met, unseen>>

Change(u) == BeginUpdate(u) \/ Update(u) \/ AttachMedia(u)

\* delete_memory: drafts only, as read by fetch_memory_by_id ...
Deletable(m) == memory[m].status # "submitted"

BeginDelete(d) ==
  \E m \in Created :
    Begin(d, [memory |-> m, status |-> None, media |-> {}],
          IF Deletable(m) THEN "softDelete" ELSE "refused")

\* ... and soft_delete_memory_record, which does not look at the status.
SoftDelete(d) ==
  /\ pc[d] = "softDelete"
  /\ IF Immutable
       THEN Goto(d, "failed") /\ UNCHANGED memory
       ELSE \E reply \in Reply("softDelete") :
              /\ Then(d, reply, "done")
              /\ memory' = IF Wrote(reply)
                             THEN [memory EXCEPT ![arg[d].memory].deleted = TRUE] ELSE memory
  /\ UNCHANGED <<object, asset, link, queued, published, arg, ghosts>>

Delete(d) == BeginDelete(d) \/ SoftDelete(d)

\* publish_memoir_tx needs a submitted memory.
Publish ==
  /\ ~ published
  /\ \E m \in Created : NotDeleted(m) /\ memory[m].status = "submitted"
  /\ published' = TRUE
  /\ UNCHANGED <<stored, pc, arg, ghosts>>

-----------------------------------------------------------------------------

Init ==
  /\ object = [k \in Key |-> "absent"]
  /\ asset = [s \in Saver |-> None]
  /\ memory = [m \in Creator |-> None]
  /\ link = {}
  /\ queued = {}
  /\ published = FALSE
  /\ pc = [p \in Request |-> "request"]
  /\ arg = [p \in Request |-> None]
  /\ met = {}
  /\ unseen = {}
  /\ raced = {}

Next ==
  \/ \E k \in Key : Presign(k) \/ Upload(k)
  \/ \E s \in Saver : Save(s)
  \/ \E c \in Creator : Create(c)
  \/ \E u \in Updater : Change(u)
  \/ \E d \in Deleter : Delete(d)
  \/ Publish

Spec == Init /\ [][Next]_vars

-----------------------------------------------------------------------------
(* Properties *)

TypeOK ==
  /\ object \in [Key -> {"absent", "issued", "ok", "bad", "removed"}]
  /\ asset \in [Saver -> AssetRow \cup {None}]
  /\ memory \in [Creator -> MemoryRow \cup {None}]
  /\ link \subseteq Created \X Catalogued
  /\ queued \subseteq Catalogued
  /\ pc \in [Request -> Call \cup Over]
  /\ arg \in [Request -> SaveArg \cup MemoryArg \cup {None}]
  /\ published \in BOOLEAN
  /\ met \subseteq Saver /\ unseen \subseteq Saver /\ raced \subseteq Creator

\* No row points at nothing: what it names was in storage and acceptable, and is
\* there, unless a request that named the same key with a type that is not
\* allowed has removed it.
AssetHasObject ==
  \A s \in Catalogued :
    \/ object[asset[s].key] = "ok"
    \/ \E t \in Saver : arg[t] # None /\ ~ arg[t].accepted /\ arg[t].key = asset[s].key

\* A save retried with its checksum makes no second row, unless one of the two saves
\* looked up while the other inserted, or was not shown the row that is there.  The
\* checksum is optional: a save without one is never recognised, its retry makes a
\* second row, and nothing is said of such rows.
OneRowPerSum ==
  \A s, t \in Catalogued :
    s # t /\ asset[s].sum = asset[t].sum /\ asset[s].sum # None =>
      {s, t} \cap (met \cup unseen) # {}

\* Rows of media are sound: of their types, with an object each, and one per checksum
\* as far as the lookup can tell.
CatalogueIsSound == TypeOK /\ AssetHasObject /\ OneRowPerSum

\* Only what is attached to a memory is sent to transcription.
QueuedIsAttached == \A s \in queued : \E m \in Created : s \in MediaOf(m)

\* A request that reports success has attached all it was asked to, and scheduled
\* the audio among what it attached.
DoneIsAttached ==
  \A p \in Creator \cup Updater :
    pc[p] = "done" => /\ arg[p].media \subseteq MediaOf(arg[p].memory)
                      /\ arg[p].media \cap Audio \subseteq queued

\* Of media that were reported as attached, or sent to transcription, none hangs
\* in the air, whatever failed on the way or ran beside it.
AttachedAsTold == QueuedIsAttached /\ DoneIsAttached

\* A submitted memory is never deleted, unless its own status was written between
\* the check of a delete of it and that delete's write.
SubmittedIsKept ==
  \A m \in Created : memory[m].deleted /\ memory[m].status = "submitted" => m \in raced
=============================================================================

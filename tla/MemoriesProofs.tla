--------------------------- MODULE MemoriesProofs ---------------------------
(***************************************************************************)
(* For any number of uploads, requests and memories, and whatever calls    *)
(* may fail: what is catalogued was uploaded, what is reported as attached *)
(* is attached, and what is submitted is not deleted.                      *)
(***************************************************************************)
EXTENDS Memories, TLAPS

(* Of the requests that save an upload *)

SaveArgs ==
  \A s \in Saver : IF pc[s] = "request" THEN arg[s] = None ELSE arg[s] \in SaveArg

\* A row is inserted once, by the save it is named after.
RowIsNew ==
  \A s \in Saver : pc[s] \in {"request", "inspect", "lookup", "insert"} => asset[s] = None

\* There is an object under the key, or a save that is refused has removed it.
Good(k) ==
  \/ object[k] = "ok"
  \/ \E t \in Saver : arg[t] # None /\ ~ arg[t].accepted /\ arg[t].key = k

LookedUpIsGood == \A s \in Saver : pc[s] \in {"lookup", "insert"} => Good(arg[s].key)

\* What is removed was bad, and stays so, or its save is refused.
RemovedWasBad ==
  \A s \in Saver :
    pc[s] = "remove" => ~ arg[s].accepted \/ object[arg[s].key] \in {"bad", "removed"}

\* A save that is about to insert is the first to bring its checksum, or its lookup
\* or that of the other missed a row.
Twin(s, t) == s # t /\ arg[s].sum # None
Missed(s, t) == {s, t} \cap (met \cup unseen) # {}
NoTwin ==
  \A s, t \in Saver :
    pc[s] = "insert" /\ Twin(s, t) =>
      /\ pc[t] = "insert" /\ arg[t].sum = arg[s].sum => Missed(s, t)
      /\ asset[t] # None /\ asset[t].sum = arg[s].sum => Missed(s, t)

SaveInv ==
  /\ SaveArgs /\ RowIsNew
  /\ LookedUpIsGood /\ RemovedWasBad /\ AssetHasObject
  /\ NoTwin /\ OneRowPerSum

(* Of the requests about memories *)

Author == Creator \cup Updater \cup Deleter

MemoryArgs ==
  /\ \A p \in Author : pc[p] # "request" => arg[p] \in MemoryArg
  /\ \A c \in Creator :
       pc[c] # "request" => arg[c].memory = c /\ arg[c].status \in {"draft", "submitted"}
  /\ \A p \in Updater \cup Deleter : pc[p] # "request" => arg[p].memory \in Created

StoryIsNew == \A c \in Creator : pc[c] \in {"request", "insertMemory"} => memory[c] = None

\* What a request goes on with is in the catalogue, and what it schedules is linked.
VerifiedIsThere ==
  \A p \in Creator \cup Updater :
    pc[p] \in {"already", "link", "enqueue"} => arg[p].media \subseteq Catalogued

LinkedIsAttached ==
  \A p \in Creator \cup Updater :
    pc[p] = "enqueue" =>
      arg[p].memory \in Created /\ arg[p].media \subseteq MediaOf(arg[p].memory)

\* What is about to be deleted has been a draft since the check.
CheckedIsDraft ==
  \A d \in Deleter :
    pc[d] = "softDelete" =>
      memory[arg[d].memory].status = "draft" \/ arg[d].memory \in raced

MemoryInv ==
  /\ MemoryArgs /\ StoryIsNew
  /\ VerifiedIsThere /\ LinkedIsAttached
  /\ QueuedIsAttached /\ DoneIsAttached
  /\ CheckedIsDraft /\ SubmittedIsKept

IInv == TypeOK /\ SaveInv /\ MemoryInv

-----------------------------------------------------------------------------

LEMMA InitIInv == Init => IInv
<1> SUFFICES ASSUME Init PROVE IInv
  OBVIOUS
<1> USE RequestAssumption DEF Init
<1>1. TypeOK
  BY DEF TypeOK, Call, Created, Catalogued
<1>2. SaveInv
  BY DEF SaveInv, SaveArgs, RowIsNew, LookedUpIsGood, RemovedWasBad, AssetHasObject,
         NoTwin, OneRowPerSum, Catalogued, Request
<1>3. MemoryInv
  BY DEF MemoryInv, MemoryArgs, StoryIsNew, VerifiedIsThere, LinkedIsAttached,
         QueuedIsAttached, DoneIsAttached, CheckedIsDraft, SubmittedIsKept, Created,
         Request, Author
<1> QED
  BY <1>1, <1>2, <1>3 DEF IInv

-----------------------------------------------------------------------------
(* What a step does not touch *)

LEMMA SaveFrame ==
  ASSUME SaveInv, UNCHANGED <<object, asset, met, unseen>>,
         \A s \in Saver : pc'[s] = pc[s] /\ arg'[s] = arg[s]
  PROVE  SaveInv'
BY DEF SaveInv, SaveArgs, RowIsNew, LookedUpIsGood, RemovedWasBad, AssetHasObject,
       NoTwin, OneRowPerSum, Good, Twin, Missed, Catalogued

LEMMA MemoryFrame ==
  ASSUME MemoryInv, UNCHANGED <<memory, link, queued, raced>>,
         \A p \in Author : pc'[p] = pc[p] /\ arg'[p] = arg[p],
         Catalogued \subseteq Catalogued'
  PROVE  MemoryInv'
<1> USE DEF MemoryInv, Author
<1>1. (MemoryArgs /\ StoryIsNew)'
  BY DEF MemoryArgs, StoryIsNew, Created
<1>2. VerifiedIsThere'
  BY DEF VerifiedIsThere
<1>3. (LinkedIsAttached /\ QueuedIsAttached /\ DoneIsAttached)'
  BY DEF LinkedIsAttached, QueuedIsAttached, DoneIsAttached, Created, MediaOf
<1>4. (CheckedIsDraft /\ SubmittedIsKept)'
  BY DEF CheckedIsDraft, SubmittedIsKept, Created
<1> QED
  BY <1>1, <1>2, <1>3, <1>4

-----------------------------------------------------------------------------
(* Uploads *)

LEMMA UploadStep ==
  ASSUME IInv, NEW k \in Key, Presign(k) \/ Upload(k)
  PROVE  IInv'
<1> USE DEF IInv, ghosts
<1>1. /\ object[k] \in {"absent", "issued"}
      /\ \E o \in {"issued", "ok", "bad"} : object' = [object EXCEPT ![k] = o]
      /\ UNCHANGED <<asset, memory, link, queued, published, pc, arg, ghosts>>
  BY DEF Presign, Upload
<1>2. TypeOK'
  BY <1>1 DEF TypeOK, Created, Catalogued
<1>3. \A l \in Key : object[l] \in {"ok", "bad", "removed"} => object'[l] = object[l]
  BY <1>1 DEF TypeOK
<1>4. \A s \in Saver : pc[s] # "request" => arg[s].key \in Key
  BY DEF SaveInv, SaveArgs, SaveArg
<1>5. \A s \in Catalogued : asset[s].key \in Key
  BY DEF TypeOK, Catalogued, AssetRow
<1>6. (LookedUpIsGood /\ RemovedWasBad)'
  BY <1>1, <1>3, <1>4 DEF SaveInv, LookedUpIsGood, RemovedWasBad, Good
<1>7. AssetHasObject'
  BY <1>1, <1>3, <1>5 DEF SaveInv, AssetHasObject, Catalogued
<1>8. SaveInv'
  BY <1>1, <1>6, <1>7
  DEF SaveInv, SaveArgs, RowIsNew, NoTwin, OneRowPerSum, Twin, Missed, Catalogued
<1>9. MemoryInv'
  BY <1>1, MemoryFrame DEF Catalogued
<1> QED
  BY <1>2, <1>8, <1>9

-----------------------------------------------------------------------------
(* Saves *)

\* A save is of no concern to the requests about memories.
LEMMA SaveIsApart ==
  ASSUME IInv, NEW s \in Saver, UNCHANGED <<memory, link, queued, raced>>,
         \A p \in Request \ {s} : pc'[p] = pc[p] /\ arg'[p] = arg[p],
         Catalogued \subseteq Catalogued'
  PROVE  MemoryInv'
<1>1. \A p \in Author : pc'[p] = pc[p] /\ arg'[p] = arg[p]
  BY RequestAssumption DEF Author, Request
<1> QED
  BY <1>1, MemoryFrame DEF IInv

LEMMA BeginSaveStep ==
  ASSUME IInv, NEW s \in Saver, BeginSave(s)
  PROVE  IInv'
<1> USE DEF IInv, ghosts
<1>1. PICK a \in SaveArg :
        /\ pc[s] = "request" /\ arg' = [arg EXCEPT ![s] = a]
        /\ pc' = [pc EXCEPT ![s] = IF published THEN "refused" ELSE "inspect"]
        /\ UNCHANGED <<stored, published, ghosts>>
  BY DEF BeginSave, Begin, Goto
<1>2. UNCHANGED <<object, asset, memory, link, queued>>
  BY <1>1 DEF stored
<1>3. /\ \A p \in Request \ {s} : pc'[p] = pc[p] /\ arg'[p] = arg[p]
      /\ arg'[s] = a /\ arg[s] = None /\ pc'[s] \in {"refused", "inspect"}
  BY <1>1 DEF TypeOK, Request, SaveInv, SaveArgs
<1>4. TypeOK'
  BY <1>1, <1>2 DEF TypeOK, Call, Over, Created, Catalogued, Request
<1>5. a # None
  BY RequestAssumption
<1>6. SaveArgs' /\ RowIsNew'
  BY <1>1, <1>2, <1>3 DEF SaveInv, SaveArgs, RowIsNew, Request
<1>7. \A k : Good(k) => Good(k)'
  BY <1>2, <1>3 DEF Good, Request
<1>8. LookedUpIsGood' /\ RemovedWasBad'
  BY <1>2, <1>3, <1>7 DEF SaveInv, LookedUpIsGood, RemovedWasBad, Request
<1>9. AssetHasObject'
  BY <1>2, <1>3 DEF SaveInv, AssetHasObject, Catalogued, Request
<1>10. NoTwin' /\ OneRowPerSum'
  BY <1>1, <1>2, <1>3 DEF SaveInv, NoTwin, OneRowPerSum, Twin, Missed, Catalogued, Request
<1>11. MemoryInv'
  BY <1>2, <1>1, <1>3, SaveIsApart DEF Catalogued
<1> QED
  BY <1>4, <1>6, <1>8, <1>9, <1>10, <1>11 DEF SaveInv

LEMMA InspectStep ==
  ASSUME IInv, NEW s \in Saver, Inspect(s)
  PROVE  IInv'
<1> USE DEF IInv, ghosts
<1>1. /\ pc[s] = "inspect" /\ UNCHANGED <<object, asset, memory, link, queued, published,
                                            arg, ghosts>>
      /\ \E to \in {"refused", "remove", "lookup"} :
           /\ pc' = [pc EXCEPT ![s] = to]
           /\ to = "remove" => ~ arg[s].accepted \/ object[arg[s].key] = "bad"
           /\ to = "lookup" => object[arg[s].key] = "ok"
  BY DEF Inspect, Goto, Uploaded, stored
<1>2. /\ \A p \in Request \ {s} : pc'[p] = pc[p]
      /\ pc'[s] \in {"refused", "remove", "lookup"}
      /\ pc'[s] = "remove" => ~ arg[s].accepted \/ object[arg[s].key] = "bad"
      /\ pc'[s] = "lookup" => object[arg[s].key] = "ok"
  BY <1>1 DEF TypeOK, Request
<1>3. TypeOK'
  BY <1>1 DEF TypeOK, Call, Over, Created, Catalogued, Request
<1>4. SaveArgs' /\ RowIsNew'
  BY <1>1, <1>2 DEF SaveInv, SaveArgs, RowIsNew, Request
<1>5. LookedUpIsGood' /\ RemovedWasBad' /\ AssetHasObject'
  BY <1>1, <1>2 DEF SaveInv, LookedUpIsGood, RemovedWasBad, AssetHasObject, Good,
                    Catalogued, Request
<1>6. NoTwin' /\ OneRowPerSum'
  BY <1>1, <1>2 DEF SaveInv, NoTwin, OneRowPerSum, Twin, Missed, Catalogued, Request
<1>7. MemoryInv'
  BY <1>1, <1>2, SaveIsApart DEF Catalogued
<1> QED
  BY <1>3, <1>4, <1>5, <1>6, <1>7 DEF SaveInv

LEMMA RemoveStep ==
  ASSUME IInv, NEW s \in Saver, Remove(s)
  PROVE  IInv'
<1> USE DEF IInv, ghosts
<1>1. /\ pc[s] = "remove" /\ pc' = [pc EXCEPT ![s] = "refused"]
      /\ object' = [object EXCEPT ![arg[s].key] = "removed"] \/ object' = object
      /\ UNCHANGED <<asset, memory, link, queued, published, arg, ghosts>>
  BY DEF Remove, Goto
<1>2. \A p \in Request \ {s} : pc'[p] = pc[p]
  BY <1>1 DEF TypeOK, Request
<1>3. pc'[s] = "refused"
  BY <1>1 DEF TypeOK, Request
<1>4. TypeOK'
  BY <1>1 DEF TypeOK, Call, Over, Created, Catalogued, Request
<1>5. SaveArgs' /\ RowIsNew'
  BY <1>1, <1>2, <1>3 DEF SaveInv, SaveArgs, RowIsNew, Request
<1>6. arg[s] # None /\ arg[s].key \in Key
  BY <1>1, RequestAssumption DEF SaveInv, SaveArgs, SaveArg
<1>7. \A k \in Key : Good(k) => Good(k)'
  BY <1>1, <1>6 DEF Good, TypeOK, SaveInv, RemovedWasBad
<1>8. \A t \in Saver : pc[t] # "request" => arg[t].key \in Key
  BY DEF SaveInv, SaveArgs, SaveArg
<1>9. LookedUpIsGood' /\ RemovedWasBad'
  BY <1>1, <1>2, <1>3, <1>7, <1>8 DEF SaveInv, LookedUpIsGood, RemovedWasBad, TypeOK, Request
<1>10. AssetHasObject'
  <2>1. \A t \in Catalogued : Good(asset[t].key) /\ asset[t].key \in Key
    BY DEF SaveInv, AssetHasObject, Good, TypeOK, Catalogued, AssetRow
  <2> QED
    BY <1>1, <1>7, <2>1 DEF AssetHasObject, Good, Catalogued
<1>11. NoTwin' /\ OneRowPerSum'
  BY <1>1, <1>2, <1>3 DEF SaveInv, NoTwin, OneRowPerSum, Twin, Missed, Catalogued, Request
<1>12. MemoryInv'
  BY <1>1, <1>2, SaveIsApart DEF Catalogued
<1> QED
  BY <1>4, <1>5, <1>9, <1>10, <1>11, <1>12 DEF SaveInv

LEMMA LookupStep ==
  ASSUME IInv, NEW s \in Saver, Lookup(s)
  PROVE  IInv'
<1> USE DEF IInv, ghosts
<1>1. /\ pc[s] = "lookup"
      /\ UNCHANGED <<object, asset, memory, link, queued, published, arg, raced>>
      /\ \E to \in {"returned", "insert"} :
           /\ pc' = [pc EXCEPT ![s] = to]
           /\ to = "insert" => ~ KnownSum(arg[s].sum) \/ s \in unseen'
      /\ unseen' \in {unseen, unseen \cup {s}} /\ met' \in {met, met \cup {s}}
  BY DEF Lookup, Goto, stored
<1>2. /\ \A p \in Request \ {s} : pc'[p] = pc[p]
      /\ pc'[s] \in {"returned", "insert"}
      /\ pc'[s] = "insert" => ~ KnownSum(arg[s].sum) \/ s \in unseen'
  BY <1>1 DEF TypeOK, Request
<1> DEFINE Inserts(t) == pc[t] = "insert" /\ arg[t].sum = arg[s].sum
<1>9. \A t \in Saver \ {s} : Inserts(t) => s \in met'
  BY DEF Lookup
<1>10. \A t, u \in Saver : Missed(t, u) => Missed(t, u)'
  BY <1>1 DEF Missed
<1>3. TypeOK'
  <2>1. met' \subseteq Saver /\ unseen' \subseteq Saver
    BY <1>1 DEF TypeOK
  <2> QED
    BY <1>1, <2>1 DEF TypeOK, Call, Over, Created, Catalogued, Request
<1>4. SaveArgs' /\ RowIsNew'
  BY <1>1, <1>2 DEF SaveInv, SaveArgs, RowIsNew, Request
<1>5. LookedUpIsGood' /\ RemovedWasBad' /\ AssetHasObject'
  BY <1>1, <1>2 DEF SaveInv, LookedUpIsGood, RemovedWasBad, AssetHasObject, Good,
                    Catalogued, Request
<1>6. NoTwin'
  <2> SUFFICES ASSUME NEW t \in Saver, NEW u \in Saver, pc'[t] = "insert", Twin(t, u)
               PROVE  /\ pc'[u] = "insert" /\ arg[u].sum = arg[t].sum => Missed(t, u)'
                      /\ asset[u] # None /\ asset[u].sum = arg[t].sum => Missed(t, u)'
    BY <1>1 DEF NoTwin, Twin
  <2>1. CASE t = s
    BY <1>1, <1>2, <1>9, <2>1 DEF Twin, KnownSum, Catalogued, Request, Missed
  <2>2. CASE t # s /\ u = s
    <3>1. pc[t] = "insert"
      BY <1>2, <2>2 DEF Request
    <3>2. arg[u].sum = arg[t].sum => Missed(t, u)'
      BY <1>9, <2>2, <3>1 DEF Missed
    <3> QED
      BY <1>10, <2>2, <3>1, <3>2 DEF SaveInv, NoTwin
  <2>3. CASE t # s /\ u # s
    BY <1>2, <1>10, <2>3 DEF SaveInv, NoTwin, Request
  <2> QED
    BY <2>1, <2>2, <2>3
<1>7. OneRowPerSum'
  BY <1>1 DEF SaveInv, OneRowPerSum, Catalogued
<1>8. MemoryInv'
  BY <1>1, <1>2, SaveIsApart DEF Catalogued
<1> QED
  BY <1>3, <1>4, <1>5, <1>6, <1>7, <1>8 DEF SaveInv

LEMMA InsertStep ==
  ASSUME IInv, NEW s \in Saver, Insert(s)
  PROVE  IInv'
<1> USE DEF IInv, ghosts
<1> DEFINE new == [key |-> arg[s].key, sum |-> arg[s].sum]
<1>1. /\ pc[s] = "insert" /\ UNCHANGED <<object, memory, link, queued, published, arg, ghosts>>
      /\ \E to \in {"failed", "done"} : pc' = [pc EXCEPT ![s] = to]
      /\ asset' = [asset EXCEPT ![s] = new] \/ asset' = asset
  BY DEF Insert, Goto, Then
<1>2. /\ \A p \in Request \ {s} : pc'[p] = pc[p]
      /\ pc'[s] \in {"failed", "done"}
  BY <1>1 DEF TypeOK, Request
<1>3. arg[s] \in SaveArg /\ new \in AssetRow /\ new # None
  BY <1>1, RequestAssumption DEF SaveInv, SaveArgs, SaveArg, AssetRow
<1>4. /\ asset' \in [Saver -> AssetRow \cup {None}]
      /\ Catalogued' = Catalogued \cup {s} \/ Catalogued' = Catalogued
      /\ \A t \in Saver : asset'[t] = asset[t] \/ (t = s /\ asset'[t] = new)
  BY <1>1, <1>3 DEF TypeOK, Catalogued
<1> HIDE DEF new
<1>5. TypeOK'
  BY <1>1, <1>4 DEF TypeOK, Call, Over, Created, Request
<1>6. SaveArgs' /\ RowIsNew'
  BY <1>1, <1>2, <1>4 DEF SaveInv, SaveArgs, RowIsNew, Request
<1>7. LookedUpIsGood' /\ RemovedWasBad'
  BY <1>1, <1>2 DEF SaveInv, LookedUpIsGood, RemovedWasBad, Good, Request
<1>8. Good(new.key)
  BY <1>1 DEF SaveInv, LookedUpIsGood, new
<1>9. AssetHasObject'
  BY <1>1, <1>4, <1>8 DEF SaveInv, AssetHasObject, Good, Catalogued
<1>10. NoTwin'
  <2> SUFFICES ASSUME NEW t \in Saver, NEW u \in Saver, pc[t] = "insert", t # s, Twin(t, u)
               PROVE  /\ pc'[u] = "insert" /\ arg[u].sum = arg[t].sum => Missed(t, u)
                      /\ asset'[u] # None /\ asset'[u].sum = arg[t].sum => Missed(t, u)
    BY <1>1, <1>2 DEF NoTwin, Twin, Missed, Request
  <2>1. CASE u = s
    BY <1>1, <1>2, <1>4, <2>1 DEF SaveInv, NoTwin, Twin, new
  <2>2. CASE u # s
    BY <1>2, <1>4, <2>2 DEF SaveInv, NoTwin, Request
  <2> QED
    BY <2>1, <2>2
<1>11. OneRowPerSum'
  <2>1. \A t \in Catalogued \ {s} :
           arg[s].sum # None /\ asset[t].sum = arg[s].sum => Missed(s, t) /\ Missed(t, s)
    BY <1>1 DEF SaveInv, NoTwin, Twin, Catalogued, Missed
  <2>2. ASSUME NEW t \in Catalogued', NEW u \in Catalogued', t # u,
               asset'[t].sum = asset'[u].sum, asset'[t].sum # None
        PROVE  Missed(t, u)
    <3>1. CASE t # s /\ u # s
      BY <1>4, <2>2, <3>1 DEF SaveInv, OneRowPerSum, Catalogued, Missed
    <3>2. CASE t = s
      BY <1>1, <1>4, <2>1, <2>2, <3>2 DEF SaveInv, OneRowPerSum, Catalogued, Missed, new
    <3>3. CASE u = s
      BY <1>1, <1>4, <2>1, <2>2, <3>3 DEF SaveInv, OneRowPerSum, Catalogued, Missed, new
    <3> QED
      BY <3>1, <3>2, <3>3
  <2> QED
    BY <1>1, <2>2 DEF OneRowPerSum, Missed
<1>12. MemoryInv'
  BY <1>1, <1>2, <1>4, SaveIsApart
<1> QED
  BY <1>5, <1>6, <1>7, <1>9, <1>10, <1>11, <1>12 DEF SaveInv

-----------------------------------------------------------------------------
(* Requests about memories *)

\* They are of no concern to the saves.
LEMMA AuthorIsApart ==
  ASSUME IInv, NEW p \in Author, UNCHANGED <<object, asset, met, unseen>>,
         \A q \in Request \ {p} : pc'[q] = pc[q] /\ arg'[q] = arg[q]
  PROVE  SaveInv'
<1>1. \A s \in Saver : pc'[s] = pc[s] /\ arg'[s] = arg[s]
  BY RequestAssumption DEF Author, Request
<1> QED
  BY <1>1, SaveFrame DEF IInv

\* Whoever begins asks for something that is there, and a delete for a draft.
LEMMA BeginStep ==
  ASSUME IInv, NEW p \in Author, NEW a \in MemoryArg, NEW next \in Call \cup Over,
         Begin(p, a, next),
         p \in Creator => /\ next = "insertMemory" /\ a.memory = p
                          /\ a.status \in {"draft", "submitted"},
         p \in Updater => next = "update" /\ a.memory \in Created,
         p \in Deleter => /\ next \in {"softDelete", "refused"} /\ a.memory \in Created
                          /\ next = "softDelete" => Deletable(a.memory)
  PROVE  IInv'
<1> USE DEF IInv, ghosts
<1>1. /\ pc[p] = "request" /\ arg' = [arg EXCEPT ![p] = a]
      /\ pc' = [pc EXCEPT ![p] = IF published THEN "refused" ELSE next]
      /\ UNCHANGED <<object, asset, memory, link, queued, published, ghosts>>
  BY DEF Begin, Goto, stored, ghosts
<1>2. p \in Request
  BY DEF Author, Request
<1>3. /\ \A q \in Request \ {p} : pc'[q] = pc[q] /\ arg'[q] = arg[q]
      /\ arg'[p] = a /\ pc'[p] \in {"refused", next}
  BY <1>1, <1>2 DEF TypeOK
<1>4. TypeOK'
  BY <1>1 DEF TypeOK, Over, Created, Catalogued
<1>5. SaveInv'
  BY <1>1, <1>3, AuthorIsApart
<1>6. (MemoryArgs /\ StoryIsNew)'
  BY <1>1, <1>3, RequestAssumption DEF MemoryInv, MemoryArgs, StoryIsNew, Created, Author, Request
<1>7. (VerifiedIsThere /\ LinkedIsAttached /\ QueuedIsAttached /\ DoneIsAttached)'
  BY <1>1, <1>3, RequestAssumption
  DEF MemoryInv, VerifiedIsThere, LinkedIsAttached, QueuedIsAttached, DoneIsAttached, Created,
      Catalogued, MediaOf, Author, Request
<1>8. \A m \in Created : Deletable(m) => memory[m].status = "draft"
  BY DEF Deletable, TypeOK, Created, MemoryRow
<1>9. (CheckedIsDraft /\ SubmittedIsKept)'
  BY <1>1, <1>3, <1>8, RequestAssumption
  DEF MemoryInv, CheckedIsDraft, SubmittedIsKept, Created, Author, Request
<1> QED
  BY <1>4, <1>5, <1>6, <1>7, <1>9 DEF MemoryInv

LEMMA BeginsStep ==
  ASSUME IInv, NEW p \in Author,
         \/ p \in Creator /\ BeginCreate(p)
         \/ p \in Updater /\ BeginUpdate(p)
         \/ p \in Deleter /\ BeginDelete(p)
  PROVE  IInv'
<1>1. CASE p \in Creator /\ BeginCreate(p)
  <2>1. PICK a \in MemoryArg : /\ Begin(p, a, "insertMemory") /\ a.memory = p
                               /\ a.status \in {"draft", "submitted"}
    BY <1>1 DEF BeginCreate, MemoryArg
  <2> QED
    BY <1>1, <2>1, BeginStep, RequestAssumption DEF Call
<1>2. CASE p \in Updater /\ BeginUpdate(p)
  <2>1. PICK a \in MemoryArg : Begin(p, a, "update") /\ a.memory \in Created
    BY <1>2 DEF BeginUpdate, MemoryArg, Created
  <2> QED
    BY <1>2, <2>1, BeginStep, RequestAssumption DEF Call
<1>3. CASE p \in Deleter /\ BeginDelete(p)
  <2>1. PICK a \in MemoryArg :
          /\ Begin(p, a, IF Deletable(a.memory) THEN "softDelete" ELSE "refused")
          /\ a.memory \in Created
    BY <1>3 DEF BeginDelete, MemoryArg, Created
  <2>2. CASE Deletable(a.memory)
    BY <1>3, <2>1, <2>2, BeginStep, RequestAssumption DEF Call
  <2>3. CASE ~ Deletable(a.memory)
    BY <1>3, <2>1, <2>3, BeginStep, RequestAssumption DEF Over
  <2> QED
    BY <2>2, <2>3
<1> QED
  BY <1>1, <1>2, <1>3

LEMMA InsertMemoryStep ==
  ASSUME IInv, NEW c \in Creator, InsertMemory(c)
  PROVE  IInv'
<1> USE DEF IInv, ghosts
<1> DEFINE new == [status |-> arg[c].status, deleted |-> FALSE]
<1>1. /\ pc[c] = "insertMemory" /\ UNCHANGED <<object, asset, link, queued, published, arg, ghosts>>
      /\ \E to \in {"failed", "done", "verify"} :
           pc' = [pc EXCEPT ![c] = to] /\ (to = "done" => arg[c].media = {})
      /\ memory' = [memory EXCEPT ![c] = new] \/ memory' = memory
  BY DEF InsertMemory, Goto, Then, AfterStory
<1>2. /\ c \in Author /\ \A q \in Request \ {c} : pc'[q] = pc[q]
      /\ pc'[c] \in {"failed", "done", "verify"}
      /\ pc'[c] = "done" => arg[c].media = {}
  BY <1>1 DEF TypeOK, Request, Author
<1>3. /\ arg[c] \in MemoryArg /\ arg[c].memory = c /\ memory[c] = None
      /\ arg[c].status \in {"draft", "submitted"}
  BY <1>1 DEF MemoryInv, MemoryArgs, StoryIsNew, Author
<1>4. new \in MemoryRow /\ ~ new.deleted
  BY <1>3 DEF MemoryRow
<1> HIDE DEF new
<1>5. /\ memory' \in [Creator -> MemoryRow \cup {None}]
      /\ \A m \in Created : memory'[m] = memory[m]
      /\ Created \subseteq Created'
      /\ \A m \in Created' : m \in Created \/ (m = c /\ memory'[m] = new)
  BY <1>1, <1>3, <1>4, RequestAssumption DEF TypeOK, Created
<1>6. TypeOK'
  BY <1>1, <1>5 DEF TypeOK, Call, Over, Catalogued, Request
<1>7. SaveInv'
  BY <1>1, <1>2, AuthorIsApart
<1>8. (MemoryArgs /\ StoryIsNew)'
  BY <1>1, <1>2, <1>5, RequestAssumption
  DEF MemoryInv, MemoryArgs, StoryIsNew, Created, Author, Request
<1>9. (VerifiedIsThere /\ LinkedIsAttached /\ QueuedIsAttached /\ DoneIsAttached)'
  BY <1>1, <1>2, <1>5, RequestAssumption
  DEF MemoryInv, VerifiedIsThere, LinkedIsAttached, QueuedIsAttached, DoneIsAttached,
      Catalogued, MediaOf, Author, Request
<1>10. (CheckedIsDraft /\ SubmittedIsKept)'
  <2>1. \A d \in Deleter : pc'[d] = "softDelete" => pc[d] = "softDelete" /\ arg[d].memory \in Created
    BY <1>1, <1>2, RequestAssumption DEF MemoryInv, MemoryArgs, Request
  <2>2. CheckedIsDraft'
    BY <1>1, <1>5, <2>1 DEF MemoryInv, CheckedIsDraft
  <2>3. SubmittedIsKept'
    BY <1>1, <1>4, <1>5 DEF MemoryInv, SubmittedIsKept
  <2> QED
    BY <2>2, <2>3
<1> QED
  BY <1>6, <1>7, <1>8, <1>9, <1>10 DEF MemoryInv

\* Verify, and the look at what is attached already.
LEMMA VerifyStep ==
  ASSUME IInv, NEW p \in Creator \cup Updater, Verify(p)
  PROVE  IInv'
<1> USE DEF IInv, ghosts
<1>1. /\ pc[p] = "verify"
      /\ UNCHANGED <<object, asset, memory, link, queued, published, arg, ghosts>>
      /\ pc' = [pc EXCEPT ![p] = IF arg[p].media \subseteq Catalogued THEN "already" ELSE "refused"]
  BY DEF Verify, Goto, AllOwned, AfterVerify, stored
<1>2. /\ p \in Author /\ \A q \in Request \ {p} : pc'[q] = pc[q]
      /\ pc'[p] \in {"already", "refused"}
      /\ pc'[p] = "already" => arg[p].media \subseteq Catalogued
  BY <1>1 DEF TypeOK, Request, Author
<1>3. TypeOK'
  BY <1>1 DEF TypeOK, Call, Over, Created, Catalogued, Request
<1>4. SaveInv'
  BY <1>1, <1>2, AuthorIsApart
<1>5. (MemoryArgs /\ StoryIsNew)'
  BY <1>1, <1>2 DEF MemoryInv, MemoryArgs, StoryIsNew, Created, Author, Request
<1>6. (VerifiedIsThere /\ LinkedIsAttached /\ QueuedIsAttached /\ DoneIsAttached)'
  BY <1>1, <1>2
  DEF MemoryInv, VerifiedIsThere, LinkedIsAttached, QueuedIsAttached, DoneIsAttached, Created,
      Catalogued, MediaOf, Author, Request
<1>7. (CheckedIsDraft /\ SubmittedIsKept)'
  BY <1>1, <1>2 DEF MemoryInv, CheckedIsDraft, SubmittedIsKept, Created, Request
<1> QED
  BY <1>3, <1>4, <1>5, <1>6, <1>7 DEF MemoryInv

LEMMA AlreadyStep ==
  ASSUME IInv, NEW p \in Creator \cup Updater, Already(p)
  PROVE  IInv'
<1> USE DEF IInv, ghosts
<1> DEFINE new == arg[p].media \ MediaOf(arg[p].memory)
           less == [arg[p] EXCEPT !.media = new]
<1>1. /\ pc[p] = "already"
      /\ UNCHANGED <<object, asset, memory, link, queued, published, ghosts>>
      /\ pc' = [pc EXCEPT ![p] = IF new = {} THEN "done" ELSE "link"]
      /\ arg' = [arg EXCEPT ![p].media = new]
  BY DEF Already, Goto, stored
<1>2. /\ p \in Author /\ p \in Request /\ arg[p] \in MemoryArg
      /\ arg[p].media \subseteq Catalogued
  BY <1>1 DEF MemoryInv, MemoryArgs, VerifiedIsThere, Author, Request
<1>3. arg' = [arg EXCEPT ![p] = less]
  BY <1>1, <1>2 DEF TypeOK
<1>4. /\ less \in MemoryArg /\ less.memory = arg[p].memory /\ less.status = arg[p].status
      /\ less.media = new
  BY <1>2 DEF MemoryArg
<1>5. new \subseteq Catalogued
  BY <1>2
<1> HIDE DEF new, less
<1>6. /\ \A q \in Request \ {p} : pc'[q] = pc[q] /\ arg'[q] = arg[q]
      /\ arg'[p] = less /\ pc'[p] \in {"done", "link"} /\ (pc'[p] = "done" => new = {})
  BY <1>1, <1>2, <1>3 DEF TypeOK
<1>7. TypeOK'
  BY <1>1, <1>2, <1>3, <1>4 DEF TypeOK, Call, Over, Created, Catalogued
<1>8. SaveInv'
  BY <1>1, <1>2, <1>6, AuthorIsApart
<1>9. (MemoryArgs /\ StoryIsNew)'
  BY <1>1, <1>4, <1>6 DEF MemoryInv, MemoryArgs, StoryIsNew, Created, Author, Request
<1>10. (VerifiedIsThere /\ LinkedIsAttached /\ QueuedIsAttached /\ DoneIsAttached)'
  BY <1>1, <1>4, <1>5, <1>6
  DEF MemoryInv, VerifiedIsThere, LinkedIsAttached, QueuedIsAttached, DoneIsAttached, Created,
      Catalogued, MediaOf, Author, Request
<1>11. (CheckedIsDraft /\ SubmittedIsKept)'
  BY <1>1, <1>2, <1>4, <1>6 DEF MemoryInv, CheckedIsDraft, SubmittedIsKept, Created, Request
<1> QED
  BY <1>7, <1>8, <1>9, <1>10, <1>11 DEF MemoryInv

LEMMA LinkStep ==
  ASSUME IInv, NEW p \in Creator \cup Updater, Link(p)
  PROVE  IInv'
<1> USE DEF IInv, ghosts
<1> DEFINE m == arg[p].memory
           new == {m} \X arg[p].media
<1>1. /\ pc[p] = "link" /\ UNCHANGED <<object, asset, memory, queued, published, arg, ghosts>>
      /\ \/ pc' = [pc EXCEPT ![p] = "failed"] /\ link' = link
         \/ /\ m \in Created
            /\ link' = link \cup new \/ link' = link
            /\ \/ pc' = [pc EXCEPT ![p] = "failed"]
               \/ pc' = [pc EXCEPT ![p] = "enqueue"] /\ link' = link \cup new
  BY DEF Link, Goto, AfterBadLink, Attach, Answered, Wrote
<1>2. /\ p \in Author /\ p \in Request /\ arg[p] \in MemoryArg
      /\ arg[p].media \subseteq Catalogued
  BY <1>1 DEF MemoryInv, MemoryArgs, VerifiedIsThere, Author, Request
<1>3. /\ \A q \in Request \ {p} : pc'[q] = pc[q]
      /\ pc'[p] \in {"failed", "enqueue"}
      /\ pc'[p] = "enqueue" => m \in Created /\ link' = link \cup new
  BY <1>1, <1>2 DEF TypeOK
<1>4. link \subseteq link' /\ link' \subseteq Created \X Catalogued
  BY <1>1, <1>2 DEF TypeOK
<1>5. TypeOK'
  BY <1>1, <1>2, <1>4 DEF TypeOK, Call, Over, Created, Catalogued
<1>6. SaveInv'
  BY <1>1, <1>2, <1>3, AuthorIsApart
<1>7. (MemoryArgs /\ StoryIsNew)'
  BY <1>1, <1>3 DEF MemoryInv, MemoryArgs, StoryIsNew, Created, Author, Request
<1>8. VerifiedIsThere'
  BY <1>1, <1>2, <1>3 DEF MemoryInv, VerifiedIsThere, Catalogued, Request
<1>9. pc'[p] = "enqueue" => arg[p].media \subseteq MediaOf(m)'
  BY <1>1, <1>2, <1>3 DEF MediaOf, Catalogued
<1>10. \A n : MediaOf(n) \subseteq MediaOf(n)'
  BY <1>4 DEF MediaOf
<1>11. UNCHANGED Created
  BY <1>1 DEF Created
<1> HIDE DEF new, m
<1>12. LinkedIsAttached'
  <2> SUFFICES ASSUME NEW q \in Creator \cup Updater, pc'[q] = "enqueue"
               PROVE  arg[q].memory \in Created /\ arg[q].media \subseteq MediaOf(arg[q].memory)'
    BY <1>1, <1>11 DEF LinkedIsAttached
  <2>1. CASE q = p
    BY <1>1, <1>3, <1>9, <2>1 DEF m
  <2>2. CASE q # p
    BY <1>1, <1>3, <1>10, <2>2 DEF MemoryInv, LinkedIsAttached, Request
  <2> QED
    BY <2>1, <2>2
<1>13. QueuedIsAttached'
  BY <1>1, <1>10, <1>11 DEF MemoryInv, QueuedIsAttached
<1>14. DoneIsAttached'
  BY <1>1, <1>3, <1>10 DEF MemoryInv, DoneIsAttached, Request
<1>15. (CheckedIsDraft /\ SubmittedIsKept)'
  BY <1>1, <1>3 DEF MemoryInv, CheckedIsDraft, SubmittedIsKept, Created, Request
<1> QED
  BY <1>5, <1>6, <1>7, <1>8, <1>12, <1>13, <1>14, <1>15 DEF MemoryInv

LEMMA EnqueueStep ==
  ASSUME IInv, NEW p \in Creator \cup Updater, Enqueue(p)
  PROVE  IInv'
<1> USE DEF IInv, ghosts
<1> DEFINE audio == arg[p].media \cap Catalogued \cap Audio
<1>1. /\ pc[p] = "enqueue"
      /\ \/ pc' = [pc EXCEPT ![p] = "done"] /\ queued' = queued \cup audio
         \/ pc' = [pc EXCEPT ![p] = "failed"] /\ queued' = queued
      /\ UNCHANGED <<object, asset, memory, link, published, arg, ghosts>>
  BY DEF Enqueue, Goto, Then
<1>2. /\ p \in Author /\ \A q \in Request \ {p} : pc'[q] = pc[q]
      /\ pc'[p] \in {"done", "failed"}
      /\ pc'[p] = "done" => arg[p].media \cap Audio \subseteq queued'
      /\ queued \subseteq queued' /\ queued' \subseteq queued \cup (arg[p].media \cap Catalogued)
      /\ arg[p].memory \in Created /\ arg[p].media \subseteq MediaOf(arg[p].memory)
  BY <1>1 DEF TypeOK, Request, Author, MemoryInv, LinkedIsAttached, VerifiedIsThere
<1> HIDE DEF audio
<1>3. TypeOK'
  BY <1>1, <1>2 DEF TypeOK, Call, Over, Created, Catalogued, Request
<1>4. SaveInv'
  BY <1>1, <1>2, AuthorIsApart
<1>5. (MemoryArgs /\ StoryIsNew)'
  BY <1>1, <1>2 DEF MemoryInv, MemoryArgs, StoryIsNew, Created, Author, Request
<1>6. (VerifiedIsThere /\ LinkedIsAttached /\ DoneIsAttached)'
  BY <1>1, <1>2
  DEF MemoryInv, VerifiedIsThere, LinkedIsAttached, DoneIsAttached, Created, Catalogued, MediaOf, Request
<1>7. QueuedIsAttached'
  BY <1>1, <1>2 DEF MemoryInv, QueuedIsAttached, Created, MediaOf
<1>8. (CheckedIsDraft /\ SubmittedIsKept)'
  BY <1>1, <1>2 DEF MemoryInv, CheckedIsDraft, SubmittedIsKept, Created, Request
<1> QED
  BY <1>3, <1>4, <1>5, <1>6, <1>7, <1>8 DEF MemoryInv

\* The change of a status, unless the memory is deleted, tells the deletes at work.
LEMMA UpdateStep ==
  ASSUME IInv, NEW u \in Updater, Update(u)
  PROVE  IInv'
<1> USE DEF IInv, ghosts
<1> DEFINE m == arg[u].memory
           st == arg[u].status
           Checked == \E d \in Deleter : pc[d] = "softDelete" /\ arg[d].memory = m
<1>1. /\ pc[u] = "update" /\ UNCHANGED <<object, asset, link, queued, published, arg, met, unseen>>
      /\ \E to \in {"failed", "done", "verify"} :
           pc' = [pc EXCEPT ![u] = to] /\ (to = "done" => arg[u].media = {})
      /\ \/ UNCHANGED <<memory, raced>>
         \/ /\ st # None
            /\ memory' = memory \/ (NotDeleted(m) /\ memory' = [memory EXCEPT ![m].status = st])
            /\ raced' = IF Checked THEN raced \cup {m} ELSE raced
  BY DEF Update, Goto, Then, AfterStory
<1>2. /\ u \in Author /\ \A q \in Request \ {u} : pc'[q] = pc[q]
      /\ pc'[u] \in {"failed", "done", "verify"}
      /\ pc'[u] = "done" => arg[u].media = {}
  BY <1>1 DEF TypeOK, Request, Author
<1>3. arg[u] \in MemoryArg /\ m \in Created
  BY <1>1 DEF MemoryInv, MemoryArgs, Author
<1>4. st # None => st \in {"draft", "submitted"}
  BY <1>3 DEF MemoryArg
<1> HIDE DEF m, st, Checked
<1>5. memory[m] \in MemoryRow /\ m \in Creator
  BY <1>3 DEF TypeOK, Created
<1>6. /\ memory' \in [Creator -> MemoryRow \cup {None}] /\ UNCHANGED Created
      /\ \A n \in Created : memory'[n] = memory[n] \/ (n = m /\ ~ memory'[n].deleted)
      /\ raced \subseteq raced' /\ raced' \subseteq Creator
      /\ memory' = memory \/ m \in raced' \/ ~ Checked
  <2>1. CASE UNCHANGED <<memory, raced>>
    BY <2>1 DEF TypeOK, Created
  <2>2. CASE /\ st # None
             /\ memory' = memory \/ (NotDeleted(m) /\ memory' = [memory EXCEPT ![m].status = st])
             /\ raced' = IF Checked THEN raced \cup {m} ELSE raced
    <3>1. raced \subseteq raced' /\ raced' \subseteq Creator /\ (m \in raced' \/ ~ Checked)
      BY <1>5, <2>2 DEF TypeOK
    <3>2. CASE memory' = memory
      BY <2>2, <3>1, <3>2 DEF TypeOK, Created
    <3>3. CASE NotDeleted(m) /\ memory' = [memory EXCEPT ![m].status = st]
      <4> DEFINE new == [memory[m] EXCEPT !.status = st]
      <4>1. new \in MemoryRow /\ ~ new.deleted /\ new # None
        BY <1>4, <1>5, <2>2, <3>3, RequestAssumption DEF MemoryRow, NotDeleted
      <4>2. memory' = [memory EXCEPT ![m] = new]
        BY <1>5, <3>3 DEF TypeOK
      <4> HIDE DEF new
      <4>3. /\ memory' \in [Creator -> MemoryRow \cup {None}]
            /\ \A n \in Creator \ {m} : memory'[n] = memory[n]
            /\ memory'[m] = new
        BY <1>5, <4>1, <4>2 DEF TypeOK
      <4>4. UNCHANGED Created
        BY <1>3, <4>1, <4>3 DEF Created
      <4> QED
        BY <2>2, <3>1, <4>1, <4>3, <4>4 DEF Created
    <3> QED
      BY <2>2, <3>2, <3>3
  <2> QED
    BY <1>1, <2>1, <2>2
<1>7. TypeOK'
  BY <1>1, <1>6 DEF TypeOK, Call, Over, Catalogued, Request
<1>8. SaveInv'
  BY <1>1, <1>2, AuthorIsApart
<1>9. MemoryArgs'
  BY <1>1, <1>2, <1>6 DEF MemoryInv, MemoryArgs, Author, Request
<1>10. StoryIsNew'
  <2>1. \A c \in Creator : pc'[c] = pc[c]
    BY <1>2, RequestAssumption DEF Request
  <2>2. \A c \in Creator : memory[c] = None => memory'[c] = None
    BY <1>6 DEF Created
  <2> QED
    BY <2>1, <2>2 DEF MemoryInv, StoryIsNew
<1>11. (VerifiedIsThere /\ LinkedIsAttached /\ QueuedIsAttached /\ DoneIsAttached)'
  BY <1>1, <1>2, <1>6
  DEF MemoryInv, VerifiedIsThere, LinkedIsAttached, QueuedIsAttached, DoneIsAttached,
      Catalogued, MediaOf, Request
<1>12. CheckedIsDraft'
  <2>1. \A d \in Deleter : pc'[d] = pc[d]
    BY <1>2, RequestAssumption DEF Request
  <2> SUFFICES ASSUME NEW d \in Deleter, pc[d] = "softDelete"
               PROVE  memory'[arg[d].memory].status = "draft" \/ arg[d].memory \in raced'
    BY <1>1, <2>1 DEF CheckedIsDraft
  <2>2. arg[d].memory \in Created
    BY DEF MemoryInv, MemoryArgs
  <2>3. CASE arg[d].memory = m
    BY <1>6, <2>3 DEF MemoryInv, CheckedIsDraft, Checked
  <2>4. CASE arg[d].memory # m
    BY <1>6, <2>2, <2>4 DEF MemoryInv, CheckedIsDraft
  <2> QED
    BY <2>3, <2>4
<1>13. SubmittedIsKept'
  BY <1>6 DEF MemoryInv, SubmittedIsKept
<1> QED
  BY <1>7, <1>8, <1>9, <1>10, <1>11, <1>12, <1>13 DEF MemoryInv

LEMMA SoftDeleteStep ==
  ASSUME IInv, NEW d \in Deleter, SoftDelete(d)
  PROVE  IInv'
<1> USE DEF IInv, ghosts
<1> DEFINE m == arg[d].memory
           new == [memory[m] EXCEPT !.deleted = TRUE]
<1>1. /\ pc[d] = "softDelete"
      /\ UNCHANGED <<object, asset, link, queued, published, arg, ghosts>>
      /\ \E to \in {"failed", "done"} : pc' = [pc EXCEPT ![d] = to]
      /\ memory' = memory \/ memory' = [memory EXCEPT ![m].deleted = TRUE]
  BY DEF SoftDelete, Goto, Then
<1>2. /\ d \in Author /\ \A q \in Request \ {d} : pc'[q] = pc[q]
      /\ pc'[d] \in {"failed", "done"}
  BY <1>1 DEF TypeOK, Request, Author
<1>3. m \in Created /\ m \in Creator /\ memory[m] \in MemoryRow
  BY <1>1 DEF MemoryInv, MemoryArgs, TypeOK, Created
<1>4. memory' = memory \/ memory' = [memory EXCEPT ![m] = new]
  BY <1>1, <1>3 DEF TypeOK
<1>5. new \in MemoryRow /\ new.status = memory[m].status /\ new # None
  BY <1>3, RequestAssumption DEF MemoryRow
<1>6. m \in raced \/ new.status = "draft"
  BY <1>1, <1>5 DEF MemoryInv, CheckedIsDraft
<1> HIDE DEF m, new
<1>7. /\ memory' \in [Creator -> MemoryRow \cup {None}] /\ UNCHANGED Created
      /\ \A n \in Creator : memory'[n] = memory[n] \/ (n = m /\ memory'[n] = new)
  BY <1>3, <1>4, <1>5 DEF TypeOK, Created
<1>8. TypeOK'
  BY <1>1, <1>7 DEF TypeOK, Call, Over, Catalogued, Request
<1>9. SaveInv'
  BY <1>1, <1>2, AuthorIsApart
<1>10. MemoryArgs'
  BY <1>1, <1>2, <1>7 DEF MemoryInv, MemoryArgs, Author, Request
<1>11. StoryIsNew'
  <2>1. \A c \in Creator : pc'[c] = pc[c]
    BY <1>2, RequestAssumption DEF Request
  <2>2. \A c \in Creator : memory[c] = None => memory'[c] = None
    BY <1>7 DEF Created
  <2> QED
    BY <2>1, <2>2 DEF MemoryInv, StoryIsNew
<1>12. (VerifiedIsThere /\ LinkedIsAttached /\ QueuedIsAttached /\ DoneIsAttached)'
  <2>1. \A p \in Creator \cup Updater : pc'[p] = pc[p] /\ arg'[p] = arg[p]
    BY <1>1, <1>2, RequestAssumption DEF Request
  <2> QED
    BY <1>1, <1>7, <2>1
    DEF MemoryInv, VerifiedIsThere, LinkedIsAttached, QueuedIsAttached, DoneIsAttached,
        Catalogued, MediaOf
<1>13. CheckedIsDraft'
  <2>1. \A e \in Deleter : pc'[e] = "softDelete" => pc[e] = "softDelete" /\ arg[e].memory \in Created
    BY <1>1, <1>2 DEF MemoryInv, MemoryArgs, Request
  <2>2. \A n \in Created : memory'[n].status = memory[n].status
    BY <1>5, <1>7 DEF Created
  <2> QED
    BY <1>1, <2>1, <2>2 DEF MemoryInv, CheckedIsDraft
<1>14. SubmittedIsKept'
  BY <1>1, <1>6, <1>7 DEF MemoryInv, SubmittedIsKept, Created
<1> QED
  BY <1>8, <1>9, <1>10, <1>11, <1>12, <1>13, <1>14 DEF MemoryInv

\* Of the published flag the invariant says only that it is one.
LEMMA RestStep == IInv /\ (Publish \/ UNCHANGED vars) => IInv'
<1> SUFFICES ASSUME IInv, Publish \/ UNCHANGED vars PROVE IInv'
  OBVIOUS
<1> USE DEF IInv, ghosts
<1>1. /\ UNCHANGED <<object, asset, memory, link, queued, pc, arg, ghosts>>
      /\ published' \in {published, TRUE}
  BY DEF Publish, vars, stored
<1>2. TypeOK'
  BY <1>1 DEF TypeOK, Created, Catalogued
<1>3. SaveInv'
  BY <1>1, SaveFrame
<1>4. MemoryInv'
  BY <1>1, MemoryFrame DEF Catalogued
<1> QED
  BY <1>2, <1>3, <1>4

-----------------------------------------------------------------------------

LEMMA StepIInv == IInv /\ [Next]_vars => IInv'
<1> SUFFICES ASSUME IInv, [Next]_vars PROVE IInv'
  OBVIOUS
<1>1. ASSUME NEW k \in Key, Presign(k) \/ Upload(k) PROVE IInv'
  BY <1>1, UploadStep
<1>2. ASSUME NEW s \in Saver, Save(s) PROVE IInv'
  BY <1>2, BeginSaveStep, InspectStep, RemoveStep, LookupStep, InsertStep DEF Save
<1>3. ASSUME NEW p \in Creator \cup Updater, AttachMedia(p) PROVE IInv'
  BY <1>3, VerifyStep, AlreadyStep, LinkStep, EnqueueStep DEF AttachMedia
<1>4. ASSUME NEW c \in Creator, Create(c) PROVE IInv'
  <2>1. c \in Author
    BY DEF Author
  <2> QED
    BY <1>3, <1>4, <2>1, BeginsStep, InsertMemoryStep DEF Create
<1>5. ASSUME NEW u \in Updater, Change(u) PROVE IInv'
  <2>1. u \in Author
    BY DEF Author
  <2> QED
    BY <1>3, <1>5, <2>1, BeginsStep, UpdateStep DEF Change
<1>6. ASSUME NEW d \in Deleter, Delete(d) PROVE IInv'
  <2>1. d \in Author
    BY DEF Author
  <2> QED
    BY <1>6, <2>1, BeginsStep, SoftDeleteStep DEF Delete
<1>7. CASE Publish \/ UNCHANGED vars
  BY <1>7, RestStep
<1> QED
  BY <1>1, <1>2, <1>4, <1>5, <1>6, <1>7 DEF Next

LEMMA Invariance == Spec => []IInv
BY InitIInv, StepIInv, PTL DEF Spec

\* A row of media has its object, unless a save of the same key that was refused
\* removed it, and a file saved again with its checksum is found again, unless the
\* other save was just inserting or its row was not shown: save_metadata, whichever
\* of its calls fail.
THEOREM CatalogueSafety == Spec => []CatalogueIsSound
<1>1. IInv => CatalogueIsSound
  BY DEF IInv, SaveInv, CatalogueIsSound
<1> QED
  BY <1>1, Invariance, PTL

\* What create_memory and update_memory report as attached is attached and its audio
\* scheduled, and only what is attached goes to transcription.
THEOREM AttachedSafety == Spec => []AttachedAsTold
<1>1. IInv => AttachedAsTold
  BY DEF IInv, MemoryInv, AttachedAsTold
<1> QED
  BY <1>1, Invariance, PTL

\* delete_memory deletes no memory that is submitted, unless that memory's status was
\* written between the check and the write.
THEOREM KeptSafety == Spec => []SubmittedIsKept
<1>1. IInv => SubmittedIsKept
  BY DEF IInv, MemoryInv
<1> QED
  BY <1>1, Invariance, PTL

=============================================================================

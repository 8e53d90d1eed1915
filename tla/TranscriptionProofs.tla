------------------------ MODULE TranscriptionProofs ------------------------
(***************************************************************************)
(* For any number of requests and retries, any cap and whatever calls may  *)
(* fail: the status of a recording tells the truth, the owner's correction *)
(* is shown, and jobs that do not overlap keep to the cap and leave alone  *)
(* what is ready.                                                          *)
(***************************************************************************)
EXTENDS Transcription, TLAPS

\* An attempt is only begun under the cap, as the row was when the job read it.
OpenUnderCap == \A j \in Job : pc[j] = "open" => snap[j].attempts < MaxAttempts

\* What overlapping means.
AtWorkAlone == ~ overlapped => \A j, k \in Job : AtWork(j) /\ AtWork(k) => j = k

\* Each call of a provider has its attempt on the row, counted before it.
AttemptsFirst ==
  ~ overlapped =>
    /\ calls <= row.attempts
    /\ \A j \in Job :
         /\ pc[j] = "open" => snap[j].attempts = row.attempts
         /\ pc[j] \in {"setProcessing", "transcribe"} => calls < row.attempts

\* A job knows of every correction that was not made while one was at work.
JobsKnow == row.edited /\ ~ late => \A j \in Job : pc[j] \in Call => snap[j].edited

\* Beside a recording that is ready only the job that made it so may be at work,
\* when it took the lost answer for a failure.
ReadyRests ==
  status = "ready" /\ ~ overlapped =>
    \A j \in Job : AtWork(j) => j = teller /\ pc[j] \in {"saveError", "setFailed"}

\* A job knows of no correction that is not on the row.
EditsStay == \A j \in Job : snap[j].edited => row.edited

\* The answer is stored before the status.
TextFirst == ~ overlapped => \A j \in Job : pc[j] = "setReady" => HasAnswer(row)

IInv ==
  /\ TypeOK
  /\ OpenUnderCap
  /\ AtWorkAlone
  /\ AttemptsFirst
  /\ JobsKnow /\ CorrectionIsShown /\ EditsStay
  /\ ReadyRests /\ TextFirst
  /\ ProcessingHasJob /\ ReadyHasAnswer

-----------------------------------------------------------------------------

LEMMA InitIInv == Init => IInv
<1> SUFFICES ASSUME Init PROVE IInv
  OBVIOUS
<1> USE TranscriptionAssumption DEF Init
<1>1. TypeOK
  <2>1. 0 \in 0 .. MaxAttempts /\ calls \in Nat
    OBVIOUS
  <2>2. NoRow \in Row
    BY <2>1 DEF NoRow, Row, Text
  <2>3. pc \in [Job -> Start \cup Call \cup Over]
    BY DEF Start
  <2> QED
    BY <2>1, <2>2, <2>3 DEF TypeOK
<1>2. OpenUnderCap /\ AtWorkAlone /\ AttemptsFirst /\ TextFirst
  BY DEF OpenUnderCap, AtWorkAlone, AttemptsFirst, TextFirst, AtWork, Call, NoRow
<1>3. JobsKnow /\ CorrectionIsShown /\ EditsStay
  BY DEF JobsKnow, CorrectionIsShown, EditsStay, NoRow
<1>4. ReadyRests /\ ProcessingHasJob /\ ReadyHasAnswer
  BY DEF ReadyRests, ProcessingHasJob, ReadyHasAnswer
<1> QED
  BY <1>1, <1>2, <1>3, <1>4 DEF IInv

-----------------------------------------------------------------------------
(* Reads and requests change nothing but where a job is *)

LEMMA RequestStep ==
  ASSUME IInv, NEW j \in Job, Enqueue(j) \/ Retry(j)
  PROVE  IInv'
<1> USE DEF Enqueue, Retry, Goto, IInv, TypeOK, Start, Over, ghosts
<1>1. pc' \in [Job -> Start \cup Call \cup Over] /\ \A k \in Job : pc'[k] # pc[k] =>
        /\ pc[k] = "request"
        /\ pc'[k] \in {"refused", "asset"}
  OBVIOUS
<1>2. TypeOK'
  BY <1>1
<1>3. \A k \in Job : AtWork(k)' <=> AtWork(k)
  BY <1>1 DEF AtWork, Call
<1>4. (OpenUnderCap /\ AtWorkAlone /\ AttemptsFirst /\ TextFirst)'
  BY <1>1, <1>3 DEF OpenUnderCap, AtWorkAlone, AttemptsFirst, TextFirst
<1>5. (JobsKnow /\ CorrectionIsShown /\ EditsStay)'
  BY <1>1 DEF JobsKnow, CorrectionIsShown, EditsStay, Call
<1>6. (ReadyRests /\ ProcessingHasJob /\ ReadyHasAnswer)'
  BY <1>1, <1>3 DEF ReadyRests, ProcessingHasJob, ReadyHasAnswer, Call
<1> QED
  BY <1>2, <1>4, <1>5, <1>6

LEMMA ReadStep ==
  ASSUME IInv, NEW j \in Job, ReadAsset(j) \/ ReadRow(j)
  PROVE  IInv'
<1> USE DEF ReadAsset, ReadRow, Goto, IInv, TypeOK, Start, Over, ghosts
<1>1. /\ pc' \in [Job -> Start \cup Call \cup Over]
      /\ \A k \in Job \ {j} : pc'[k] = pc[k] /\ snap'[k] = snap[k]
      /\ pc[j] \in {"asset", "row"} /\ pc'[j] \in {"ended", "row", "open"}
      /\ pc'[j] = "open" =>
           snap'[j] = row /\ row.attempts < MaxAttempts /\ pc[j] = "row"
      /\ UNCHANGED <<status, row, teller, late, calls>>
  BY DEF Call, UnderCap
<1>2. TypeOK'
  <2>1. CASE ReadAsset(j)
    <3>1. overlapped' \in BOOLEAN
      BY <2>1
    <3> QED
      BY <1>1, <2>1, <3>1
  <2>2. CASE ReadRow(j)
    BY <1>1, <2>2
  <2> QED
    BY <2>1, <2>2
<1>3. overlapped => overlapped'
  OBVIOUS
<1>4. OpenUnderCap'
  BY <1>1 DEF OpenUnderCap
<1>5. AtWorkAlone'
  <2>1. CASE ReadAsset(j)
    <3>1. ASSUME ~ overlapped', NEW k \in Job, NEW l \in Job, AtWork(k)', AtWork(l)'
          PROVE  k = l
      <4>1. ~ overlapped /\ (AlreadyReady \/ \A m \in Job \ {j} : ~ AtWork(m))
        BY <2>1, <3>1
      <4>2. \A m \in Job \ {j} : AtWork(m)' <=> AtWork(m)
        BY <1>1 DEF AtWork
      <4>3. AlreadyReady => ~ AtWork(j)'
        BY <1>1, <2>1 DEF AtWork, Call
      <4> QED
        BY <3>1, <4>1, <4>2, <4>3 DEF AtWorkAlone
    <3> QED
      BY <3>1 DEF AtWorkAlone
  <2>2. CASE ReadRow(j)
    <3>1. \A k \in Job : AtWork(k)' => AtWork(k)
      BY <1>1, <2>2 DEF AtWork
    <3>2. UNCHANGED overlapped
      BY <2>2
    <3>3. ASSUME ~ overlapped', NEW k \in Job, NEW l \in Job, AtWork(k)', AtWork(l)'
          PROVE  k = l
      BY <3>1, <3>2, <3>3 DEF AtWorkAlone
    <3> QED
      BY <3>3 DEF AtWorkAlone
  <2> QED
    BY <2>1, <2>2
<1>6. (AttemptsFirst /\ TextFirst)'
  BY <1>1, <1>3 DEF AttemptsFirst, TextFirst
<1>7. (JobsKnow /\ CorrectionIsShown /\ EditsStay)'
  <2>1. \A k \in Job : pc'[k] \in Call =>
         snap'[k] = row \/ (pc[k] \in Call /\ snap'[k] = snap[k])
    BY <1>1 DEF Call
  <2> QED
    BY <1>1, <2>1 DEF JobsKnow, CorrectionIsShown, EditsStay
<1>8. ReadyRests'
  <2>1. CASE ReadAsset(j)
    BY <1>1, <1>3, <2>1 DEF ReadyRests, AtWork, AlreadyReady, Call
  <2>2. CASE ReadRow(j)
    BY <1>1, <1>3, <2>2 DEF ReadyRests, AtWork, Call
  <2> QED
    BY <2>1, <2>2
<1>9. (ProcessingHasJob /\ ReadyHasAnswer)'
  BY <1>1, <1>3 DEF ProcessingHasJob, ReadyHasAnswer, Call
<1> QED
  BY <1>2, <1>4, <1>5, <1>6, <1>7, <1>8, <1>9

-----------------------------------------------------------------------------
(* The calls of a job *)

\* What any save of the transcript does: it moves its job on, and writes a row
\* that keeps the owner's text, or leaves the row as it is.
Saved(j, call, raw, shown, attempts, next, otherwise) ==
  /\ pc[j] = call /\ pc'[j] \in {next, otherwise}
  /\ pc' \in [Job -> Start \cup Call \cup Over]
  /\ \A k \in Job \ {j} : pc'[k] = pc[k]
  /\ row' \in Row /\ old' \in BOOLEAN
  /\ \/ /\ row'.raw = raw /\ row'.shown = shown /\ row'.attempts = attempts
        /\ row'.edited = row.edited
     \/ row' = row /\ pc'[j] = otherwise
  /\ UNCHANGED <<status, published, snap, teller, ghosts>>

LEMMA SaveEffect ==
  ASSUME TypeOK, NEW j \in Job, NEW call \in Call,
         NEW raw \in Text, NEW shown \in Text \cup {"correction"},
         NEW attempts \in 0 .. MaxAttempts,
         NEW next \in Call, NEW otherwise \in Call \cup {"raised"},
         Save(j, call, raw, shown, attempts, next, otherwise)
  PROVE  Saved(j, call, raw, shown, attempts, next, otherwise)
<1> USE DEF TypeOK, Saved
<1>1. PICK reply \in Reply(call) :
        /\ IF Wrote(reply) THEN SaveTranscript(j, raw, shown, attempts)
                           ELSE UNCHANGED <<row, old>>
        /\ Goto(j, IF Answered(reply) THEN next ELSE otherwise)
  BY DEF Save
<1>2. pc' = [pc EXCEPT ![j] = next] \/ pc' = [pc EXCEPT ![j] = otherwise]
  BY <1>1 DEF Goto
<1>3. pc[j] = call /\ UNCHANGED <<status, published, snap, teller, ghosts>>
  BY DEF Save
<1>4. CASE Wrote(reply)
  <2>1. /\ row' = [exists |-> TRUE, raw |-> raw, edited |-> row.edited,
                   shown |-> shown, attempts |-> attempts]
        /\ old' = FALSE
    BY <1>1, <1>4 DEF SaveTranscript, KeptEdit
  <2>2. row.edited \in BOOLEAN
    BY DEF Row
  <2>3. row' \in Row
    BY <2>1, <2>2 DEF Row
  <2> QED
    BY <1>2, <1>3, <2>1, <2>3 DEF Over
<1>5. CASE ~ Wrote(reply)
  <2>1. UNCHANGED <<row, old>> /\ pc' = [pc EXCEPT ![j] = otherwise]
    BY <1>1, <1>5 DEF Wrote, Answered, Goto
  <2> QED
    BY <1>3, <2>1 DEF Over
<1> QED
  BY <1>4, <1>5

\* Without overlap a job that calls the database is the only one at work.
LEMMA CallIsAlone ==
  ASSUME IInv, NEW j \in Job, pc[j] \in Call,
         \A k \in Job \ {j} : pc'[k] = pc[k], UNCHANGED overlapped
  PROVE  AtWorkAlone' /\ (~ overlapped => \A k \in Job \ {j} : pc[k] \notin {"row"} \cup Call)
<1> USE DEF IInv
<1>1. \A k \in Job : AtWork(k)' => AtWork(k)
  BY DEF AtWork
<1>2. ASSUME ~ overlapped', NEW k \in Job, NEW l \in Job, AtWork(k)', AtWork(l)'
      PROVE  k = l
  BY <1>1, <1>2 DEF AtWorkAlone
<1>3. AtWorkAlone'
  BY <1>2 DEF AtWorkAlone
<1> QED
  BY <1>3 DEF AtWorkAlone, AtWork

\* The first write counts the attempt.
LEMMA OpenStep ==
  ASSUME IInv, NEW j \in Job,
         Save(j, "open", snap[j].raw, row.shown, Attempt(snap[j]), "setProcessing", "raised")
  PROVE  IInv'
<1> USE TranscriptionAssumption DEF IInv
<1>1. pc[j] = "open" /\ pc[j] \in Call
  BY DEF Save, Call
<1>2. /\ snap[j] \in Row /\ row \in Row
      /\ snap[j].raw \in Text /\ row.shown \in Text \cup {"correction"}
      /\ snap[j].attempts \in Nat /\ row.attempts \in Nat
  BY DEF TypeOK, Row
<1>3. snap[j].attempts < MaxAttempts
  BY <1>1 DEF OpenUnderCap
<1>4. Attempt(snap[j]) \in 0 .. MaxAttempts
  BY <1>2, <1>3 DEF Attempt
<1>5. /\ pc'[j] \in {"setProcessing", "raised"}
      /\ pc' \in [Job -> Start \cup Call \cup Over]
      /\ \A k \in Job \ {j} : pc'[k] = pc[k]
      /\ row' \in Row /\ old' \in BOOLEAN
      /\ \/ /\ row'.raw = snap[j].raw /\ row'.shown = row.shown
            /\ row'.attempts = Attempt(snap[j]) /\ row'.edited = row.edited
         \/ row' = row /\ pc'[j] = "raised"
      /\ UNCHANGED <<status, published, snap, teller, ghosts>>
  <2>1. /\ TypeOK
        /\ "open" \in Call /\ "setProcessing" \in Call /\ "raised" \in Call \cup {"raised"}
    BY DEF Call
  <2>2. Saved(j, "open", snap[j].raw, row.shown, Attempt(snap[j]), "setProcessing", "raised")
    BY <2>1, <1>2, <1>4, SaveEffect
  <2> QED
    BY <2>2 DEF Saved
<1>6. UNCHANGED <<calls, overlapped, late>>
  BY <1>5 DEF ghosts
<1>7. AtWorkAlone' /\ (~ overlapped => \A k \in Job \ {j} : pc[k] \notin {"row"} \cup Call)
  BY <1>1, <1>5, <1>6, CallIsAlone
<1>8. TypeOK'
  BY <1>5, <1>6 DEF TypeOK
<1>9. OpenUnderCap'
  BY <1>1, <1>5 DEF OpenUnderCap
<1>10. AttemptsFirst'
  BY <1>1, <1>2, <1>5, <1>6, <1>7 DEF AttemptsFirst, Attempt, Call, TypeOK
<1>11. JobsKnow' /\ CorrectionIsShown' /\ EditsStay'
  BY <1>1, <1>5, <1>6 DEF JobsKnow, CorrectionIsShown, EditsStay, Call
<1>12. ReadyRests' /\ TextFirst'
  BY <1>1, <1>5, <1>6, <1>7 DEF ReadyRests, TextFirst, AtWork, Call
<1>13. ProcessingHasJob'
  BY <1>1, <1>5 DEF ProcessingHasJob, TypeOK, Call
<1>14. ReadyHasAnswer'
  BY <1>1, <1>5, <1>6 DEF ReadyHasAnswer, ReadyRests, AtWork, Call
<1> QED
  BY <1>7, <1>8, <1>9, <1>10, <1>11, <1>12, <1>13, <1>14

\* The text is saved, under the attempts that the row has.
LEMMA SaveTextStep ==
  ASSUME IInv, NEW j \in Job, NEW answer \in Answer, SaveText(j, answer)
  PROVE  IInv'
<1> USE TranscriptionAssumption DEF IInv
<1>1. pc[j] = "saveText" /\ pc[j] \in Call
  BY DEF SaveText, Save, Call
<1>2. /\ row \in Row /\ row.attempts \in 0 .. MaxAttempts
      /\ answer \in Text /\ DisplayText(snap[j], answer) \in Text \cup {"correction"}
  BY DEF TypeOK, Row, DisplayText, Text
<1>3. /\ pc'[j] \in {"setReady", "saveError"}
      /\ pc' \in [Job -> Start \cup Call \cup Over]
      /\ \A k \in Job \ {j} : pc'[k] = pc[k]
      /\ row' \in Row /\ old' \in BOOLEAN
      /\ \/ /\ row'.raw = answer /\ row'.shown = DisplayText(snap[j], answer)
            /\ row'.attempts = row.attempts /\ row'.edited = row.edited
         \/ row' = row /\ pc'[j] = "saveError"
      /\ UNCHANGED <<status, published, snap, teller, ghosts>>
  <2>1. /\ TypeOK
        /\ "saveText" \in Call /\ "setReady" \in Call /\ "saveError" \in Call \cup {"raised"}
    BY DEF Call
  <2>2. Saved(j, "saveText", answer, DisplayText(snap[j], answer), row.attempts,
              "setReady", "saveError")
    BY <2>1, <1>2, SaveEffect DEF SaveText
  <2> QED
    BY <2>2 DEF Saved
<1>4. UNCHANGED <<calls, overlapped, late>>
  BY <1>3 DEF ghosts
<1>5. AtWorkAlone' /\ (~ overlapped => \A k \in Job \ {j} : pc[k] \notin {"row"} \cup Call)
  BY <1>1, <1>3, <1>4, CallIsAlone
<1>6. TypeOK'
  BY <1>3, <1>4 DEF TypeOK
<1>7. OpenUnderCap'
  BY <1>1, <1>3 DEF OpenUnderCap
<1>8. AttemptsFirst'
  BY <1>1, <1>3, <1>4 DEF AttemptsFirst
<1>9. JobsKnow' /\ CorrectionIsShown' /\ EditsStay'
  BY <1>1, <1>3, <1>4 DEF JobsKnow, CorrectionIsShown, EditsStay, Call, DisplayText
<1>10. ReadyRests' /\ TextFirst'
  BY <1>1, <1>3, <1>4, <1>5
  DEF ReadyRests, TextFirst, HasAnswer, EditsStay, DisplayText, Answer, AtWork, Call
<1>11. ProcessingHasJob'
  BY <1>1, <1>3 DEF ProcessingHasJob, TypeOK, Call
<1>12. ReadyHasAnswer'
  BY <1>1, <1>3, <1>4 DEF ReadyHasAnswer, ReadyRests, AtWork
<1> QED
  BY <1>5, <1>6, <1>7, <1>8, <1>9, <1>10, <1>11, <1>12

\* An error is saved, with the raw text as the job had read it.
LEMMA SaveErrorStep ==
  ASSUME IInv, NEW j \in Job,
         Save(j, "saveError", snap[j].raw, row.shown, row.attempts, "setFailed", "raised")
  PROVE  IInv'
<1> USE TranscriptionAssumption DEF IInv
<1>1. pc[j] = "saveError" /\ pc[j] \in Call
  BY DEF Save, Call
<1>2. /\ row \in Row /\ row.attempts \in 0 .. MaxAttempts
      /\ snap[j].raw \in Text /\ row.shown \in Text \cup {"correction"}
  BY DEF TypeOK, Row
<1>3. /\ pc'[j] \in {"setFailed", "raised"}
      /\ pc' \in [Job -> Start \cup Call \cup Over]
      /\ \A k \in Job \ {j} : pc'[k] = pc[k]
      /\ row' \in Row /\ old' \in BOOLEAN
      /\ \/ /\ row'.raw = snap[j].raw /\ row'.shown = row.shown
            /\ row'.attempts = row.attempts /\ row'.edited = row.edited
         \/ row' = row /\ pc'[j] = "raised"
      /\ UNCHANGED <<status, published, snap, teller, ghosts>>
  <2>1. /\ TypeOK
        /\ "saveError" \in Call /\ "setFailed" \in Call /\ "raised" \in Call \cup {"raised"}
    BY DEF Call
  <2>2. Saved(j, "saveError", snap[j].raw, row.shown, row.attempts, "setFailed", "raised")
    BY <2>1, <1>2, SaveEffect
  <2> QED
    BY <2>2 DEF Saved
<1>4. UNCHANGED <<calls, overlapped, late>>
  BY <1>3 DEF ghosts
<1>5. AtWorkAlone' /\ (~ overlapped => \A k \in Job \ {j} : pc[k] \notin {"row"} \cup Call)
  BY <1>1, <1>3, <1>4, CallIsAlone
<1>6. TypeOK'
  BY <1>3, <1>4 DEF TypeOK
<1>7. OpenUnderCap'
  BY <1>1, <1>3 DEF OpenUnderCap
<1>8. AttemptsFirst'
  BY <1>1, <1>3, <1>4 DEF AttemptsFirst
<1>9. JobsKnow' /\ CorrectionIsShown' /\ EditsStay'
  BY <1>1, <1>3, <1>4 DEF JobsKnow, CorrectionIsShown, EditsStay, Call
<1>10. ReadyRests' /\ TextFirst'
  BY <1>1, <1>3, <1>4, <1>5 DEF ReadyRests, TextFirst, AtWork, Call
<1>11. ProcessingHasJob' /\ ReadyHasAnswer'
  <2>1. ProcessingHasJob'
    BY <1>1, <1>3 DEF ProcessingHasJob, TypeOK, Call
  <2>2. ReadyHasAnswer'
    BY <1>1, <1>3, <1>4 DEF ReadyHasAnswer, ReadyRests, AtWork
  <2> QED
    BY <2>1, <2>2
<1> QED
  BY <1>5, <1>6, <1>7, <1>8, <1>9, <1>10, <1>11

\* What any change of the status does: the job that could not make it knows.
Told(j, call, st, next, otherwise) ==
  /\ pc[j] = call /\ pc'[j] \in {next, otherwise}
  /\ pc' \in [Job -> Start \cup Call \cup Over]
  /\ \A k \in Job \ {j} : pc'[k] = pc[k]
  /\ status' \in {"pending", "processing", "ready", "failed"}
  /\ \/ status' = st /\ teller' = j
     \/ status' = status /\ teller' = teller /\ pc'[j] = otherwise
  /\ UNCHANGED <<row, old, published, snap, ghosts>>

LEMMA StatusEffect ==
  ASSUME TypeOK, NEW j \in Job, NEW call \in Call,
         NEW st \in {"processing", "ready", "failed"},
         NEW next \in Call \cup Over, NEW otherwise \in Call \cup Over,
         SetStatus(j, call, st, next, otherwise)
  PROVE  Told(j, call, st, next, otherwise)
<1> USE DEF TypeOK, Told
<1>1. pc[j] = call /\ UNCHANGED <<row, old, published, snap, ghosts>>
  BY DEF SetStatus
<1>2. CASE Admitted(status, st)
  <2>1. PICK reply \in Reply(call) :
          /\ IF Wrote(reply) THEN status' = st /\ teller' = j
                             ELSE UNCHANGED <<status, teller>>
          /\ Goto(j, IF Answered(reply) THEN next ELSE otherwise)
    BY <1>2 DEF SetStatus
  <2>2. pc' = [pc EXCEPT ![j] = next] \/ pc' = [pc EXCEPT ![j] = otherwise]
    BY <2>1 DEF Goto
  <2>3. Wrote(reply) \/ pc' = [pc EXCEPT ![j] = otherwise]
    BY <2>1 DEF Goto, Wrote, Answered
  <2> QED
    BY <1>1, <2>1, <2>2, <2>3
<1>3. CASE ~ Admitted(status, st)
  BY <1>1, <1>3 DEF SetStatus, Goto
<1> QED
  BY <1>2, <1>3


\* The second write, after which the job transcribes.
LEMMA SetProcessingStep ==
  ASSUME IInv, NEW j \in Job,
         SetStatus(j, "setProcessing", "processing", "transcribe", "raised")
  PROVE  IInv'
<1> USE DEF IInv
<1>1. Told(j, "setProcessing", "processing", "transcribe", "raised")
  <2>1. /\ TypeOK
        /\ "setProcessing" \in Call /\ "processing" \in {"processing", "ready", "failed"}
        /\ "transcribe" \in Call \cup Over /\ "raised" \in Call \cup Over
    BY DEF Call, Over
  <2> QED
    BY <2>1, StatusEffect
<1> USE DEF Told
<1>2. pc[j] = "setProcessing" /\ pc[j] \in Call
  BY <1>1 DEF Call
<1>3. UNCHANGED <<calls, overlapped, late>>
  BY <1>1 DEF ghosts
<1>4. AtWorkAlone' /\ (~ overlapped => \A k \in Job \ {j} : pc[k] \notin {"row"} \cup Call)
  BY <1>1, <1>2, <1>3, CallIsAlone
<1>5. TypeOK'
  BY <1>1, <1>3 DEF TypeOK
<1>6. OpenUnderCap'
  BY <1>1 DEF OpenUnderCap
<1>7. AttemptsFirst'
  BY <1>1, <1>2, <1>3 DEF AttemptsFirst
<1>8. JobsKnow' /\ CorrectionIsShown' /\ EditsStay'
  BY <1>1, <1>2, <1>3 DEF JobsKnow, CorrectionIsShown, EditsStay, Call
<1>9. ReadyRests' /\ TextFirst'
  BY <1>1, <1>2, <1>3, <1>4 DEF ReadyRests, TextFirst, AtWork, Call
<1>10. ProcessingHasJob'
  BY <1>1, <1>2 DEF ProcessingHasJob, TypeOK, Call
<1>11. ReadyHasAnswer'
  BY <1>1, <1>2, <1>3 DEF ReadyHasAnswer, ReadyRests, TextFirst, AtWork, Call
<1> QED
  BY <1>4, <1>5, <1>6, <1>7, <1>8, <1>9, <1>10, <1>11


\* The text is there, and the job tells.
LEMMA SetReadyStep ==
  ASSUME IInv, NEW j \in Job,
         SetStatus(j, "setReady", "ready", "ended", "saveError")
  PROVE  IInv'
<1> USE DEF IInv
<1>1. Told(j, "setReady", "ready", "ended", "saveError")
  <2>1. /\ TypeOK
        /\ "setReady" \in Call /\ "ready" \in {"processing", "ready", "failed"}
        /\ "ended" \in Call \cup Over /\ "saveError" \in Call \cup Over
    BY DEF Call, Over
  <2> QED
    BY <2>1, StatusEffect
<1> USE DEF Told
<1>2. pc[j] = "setReady" /\ pc[j] \in Call
  BY <1>1 DEF Call
<1>3. UNCHANGED <<calls, overlapped, late>>
  BY <1>1 DEF ghosts
<1>4. AtWorkAlone' /\ (~ overlapped => \A k \in Job \ {j} : pc[k] \notin {"row"} \cup Call)
  BY <1>1, <1>2, <1>3, CallIsAlone
<1>5. TypeOK'
  BY <1>1, <1>3 DEF TypeOK
<1>6. OpenUnderCap'
  BY <1>1 DEF OpenUnderCap
<1>7. AttemptsFirst'
  BY <1>1, <1>2, <1>3 DEF AttemptsFirst
<1>8. JobsKnow' /\ CorrectionIsShown' /\ EditsStay'
  BY <1>1, <1>2, <1>3 DEF JobsKnow, CorrectionIsShown, EditsStay, Call
<1>9. ReadyRests' /\ TextFirst'
  BY <1>1, <1>2, <1>3, <1>4 DEF ReadyRests, TextFirst, AtWork, Call
<1>10. ProcessingHasJob'
  BY <1>1, <1>2 DEF ProcessingHasJob, TypeOK, Call
<1>11. ReadyHasAnswer'
  BY <1>1, <1>2, <1>3 DEF ReadyHasAnswer, ReadyRests, TextFirst, AtWork, Call
<1> QED
  BY <1>4, <1>5, <1>6, <1>7, <1>8, <1>9, <1>10, <1>11


\* The job has failed, and tells.
LEMMA SetFailedStep ==
  ASSUME IInv, NEW j \in Job,
         SetStatus(j, "setFailed", "failed", "ended", "raised")
  PROVE  IInv'
<1> USE DEF IInv
<1>1. Told(j, "setFailed", "failed", "ended", "raised")
  <2>1. /\ TypeOK
        /\ "setFailed" \in Call /\ "failed" \in {"processing", "ready", "failed"}
        /\ "ended" \in Call \cup Over /\ "raised" \in Call \cup Over
    BY DEF Call, Over
  <2> QED
    BY <2>1, StatusEffect
<1> USE DEF Told
<1>2. pc[j] = "setFailed" /\ pc[j] \in Call
  BY <1>1 DEF Call
<1>3. UNCHANGED <<calls, overlapped, late>>
  BY <1>1 DEF ghosts
<1>4. AtWorkAlone' /\ (~ overlapped => \A k \in Job \ {j} : pc[k] \notin {"row"} \cup Call)
  BY <1>1, <1>2, <1>3, CallIsAlone
<1>5. TypeOK'
  BY <1>1, <1>3 DEF TypeOK
<1>6. OpenUnderCap'
  BY <1>1 DEF OpenUnderCap
<1>7. AttemptsFirst'
  BY <1>1, <1>2, <1>3 DEF AttemptsFirst
<1>8. JobsKnow' /\ CorrectionIsShown' /\ EditsStay'
  BY <1>1, <1>2, <1>3 DEF JobsKnow, CorrectionIsShown, EditsStay, Call
<1>9. ReadyRests' /\ TextFirst'
  BY <1>1, <1>2, <1>3, <1>4 DEF ReadyRests, TextFirst, AtWork, Call
<1>10. ProcessingHasJob'
  BY <1>1, <1>2 DEF ProcessingHasJob, TypeOK, Call
<1>11. ReadyHasAnswer'
  BY <1>1, <1>2, <1>3 DEF ReadyHasAnswer, ReadyRests, TextFirst, AtWork, Call
<1> QED
  BY <1>4, <1>5, <1>6, <1>7, <1>8, <1>9, <1>10, <1>11

\* The provider is called, once for the attempt that was counted.
LEMMA TranscribeStep ==
  ASSUME IInv, NEW j \in Job, Transcribe(j)
  PROVE  IInv'
<1> USE DEF IInv, Transcribe, AfterText, AfterError
<1>1. /\ pc[j] = "transcribe" /\ pc[j] \in Call /\ pc'[j] \in {"saveText", "saveError"}
      /\ pc' \in [Job -> Start \cup Call \cup Over]
      /\ \A k \in Job \ {j} : pc'[k] = pc[k]
      /\ calls' = calls + 1
      /\ UNCHANGED <<status, row, old, published, snap, teller, overlapped, late>>
  BY DEF Goto, TypeOK, Call
<1>2. AtWorkAlone' /\ (~ overlapped => \A k \in Job \ {j} : pc[k] \notin {"row"} \cup Call)
  BY <1>1, CallIsAlone
<1>3. TypeOK'
  BY <1>1 DEF TypeOK
<1>4. OpenUnderCap'
  BY <1>1 DEF OpenUnderCap
<1>5. AttemptsFirst'
  <2>1. calls \in Nat /\ row.attempts \in Nat
    BY DEF TypeOK, Row
  <2> QED
    BY <1>1, <1>2, <2>1 DEF AttemptsFirst, Call
<1>6. JobsKnow' /\ CorrectionIsShown' /\ EditsStay'
  BY <1>1 DEF JobsKnow, CorrectionIsShown, EditsStay, Call
<1>7. ReadyRests' /\ TextFirst'
  BY <1>1, <1>2 DEF ReadyRests, TextFirst, AtWork, Call
<1>8. ProcessingHasJob' /\ ReadyHasAnswer'
  BY <1>1, <1>2 DEF ProcessingHasJob, ReadyHasAnswer, ReadyRests, AtWork, TypeOK, Call
<1> QED
  BY <1>2, <1>3, <1>4, <1>5, <1>6, <1>7, <1>8

-----------------------------------------------------------------------------
(* The owner and the clock *)

LEMMA CorrectStep == IInv /\ Correct => IInv'
<1> SUFFICES ASSUME IInv, Correct PROVE IInv'
  OBVIOUS
<1> USE DEF IInv, Correct
<1>1. /\ row \in Row /\ row' = [row EXCEPT !.edited = TRUE, !.shown = "correction"]
      /\ UNCHANGED <<status, old, published, pc, snap, teller, calls, overlapped>>
      /\ ~ late' => \A j \in Job : ~ AtWork(j)
  BY DEF TypeOK
<1>2. /\ row' \in Row /\ row'.attempts = row.attempts /\ row'.raw = row.raw /\ row'.edited
      /\ row'.shown = "correction"
  BY <1>1 DEF Row
<1>3. TypeOK'
  <2>1. late' \in BOOLEAN
    BY DEF TypeOK
  <2> QED
    BY <1>1, <1>2, <2>1 DEF TypeOK
<1>4. \A j \in Job : AtWork(j)' <=> AtWork(j)
  BY <1>1 DEF AtWork
<1>5. (OpenUnderCap /\ AtWorkAlone /\ AttemptsFirst /\ TextFirst)'
  BY <1>1, <1>2, <1>4
  DEF OpenUnderCap, AtWorkAlone, AttemptsFirst, TextFirst, HasAnswer
<1>6. (JobsKnow /\ CorrectionIsShown /\ EditsStay)'
  BY <1>1, <1>2 DEF JobsKnow, CorrectionIsShown, EditsStay, AtWork
<1>7. (ReadyRests /\ ProcessingHasJob /\ ReadyHasAnswer)'
  BY <1>1, <1>2, <1>4 DEF ReadyRests, ProcessingHasJob, ReadyHasAnswer, HasAnswer
<1> QED
  BY <1>3, <1>5, <1>6, <1>7

\* Nothing of the invariant is about publication or the age of the row.
LEMMA RestStep == IInv /\ (Publish \/ Age \/ UNCHANGED vars) => IInv'
<1> SUFFICES ASSUME IInv, Publish \/ Age \/ UNCHANGED vars PROVE IInv'
  OBVIOUS
<1> USE DEF IInv
<1>1. /\ UNCHANGED <<status, row, pc, snap, teller, calls, overlapped, late>>
      /\ old' = old \/ old' = TRUE
      /\ published' = published \/ published' = TRUE
  BY DEF Publish, Age, vars, ghosts
<1>2. TypeOK'
  BY <1>1 DEF TypeOK
<1>3. (OpenUnderCap /\ AtWorkAlone /\ AttemptsFirst /\ TextFirst)'
  BY <1>1 DEF OpenUnderCap, AtWorkAlone, AttemptsFirst, TextFirst, AtWork
<1>4. (JobsKnow /\ CorrectionIsShown /\ EditsStay)'
  BY <1>1 DEF JobsKnow, CorrectionIsShown, EditsStay
<1>5. (ReadyRests /\ ProcessingHasJob /\ ReadyHasAnswer)'
  BY <1>1 DEF ReadyRests, ProcessingHasJob, ReadyHasAnswer, AtWork
<1> QED
  BY <1>2, <1>3, <1>4, <1>5

-----------------------------------------------------------------------------

LEMMA StepIInv == IInv /\ [Next]_vars => IInv'
<1> SUFFICES ASSUME IInv, [Next]_vars PROVE IInv'
  OBVIOUS
<1>1. ASSUME NEW j \in Job, Request(j) PROVE IInv'
  BY <1>1, RequestStep DEF Request
<1>2. ASSUME NEW j \in Job, Run(j) PROVE IInv'
  <2>1. CASE ReadAsset(j) \/ ReadRow(j)
    BY <2>1, ReadStep
  <2>2. CASE Open(j)
    BY <2>2, OpenStep, SetProcessingStep DEF Open
  <2>3. CASE Transcribe(j)
    BY <2>3, TranscribeStep
  <2>4. CASE Finish(j)
    BY <2>4, SaveTextStep, SetReadyStep DEF Finish
  <2>5. CASE MarkFailed(j)
    BY <2>5, SaveErrorStep, SetFailedStep DEF MarkFailed
  <2> QED
    BY <1>2, <2>1, <2>2, <2>3, <2>4, <2>5 DEF Run
<1>3. CASE Correct \/ Publish \/ Age \/ UNCHANGED vars
  BY <1>3, CorrectStep, RestStep
<1> QED
  BY <1>1, <1>2, <1>3 DEF Next

LEMMA Invariance == Spec => []IInv
BY InitIInv, StepIInv, PTL DEF Spec

\* What is shown as processing has a job on its way to ready or failed, or one
\* that died there, and what is ready has its text: transcribe_and_store_audio
\* and _mark_failed, whichever of their calls fail.
THEOREM StatusSafety == Spec => []StatusIsTrue
<1>1. IInv => StatusIsTrue
  BY DEF IInv, StatusIsTrue
<1> QED
  BY <1>1, Invariance, PTL

\* Jobs that do not overlap send a recording to a provider at most MaxAttempts
\* times: the attempt is on the row before the call.
THEOREM CapSafety == Spec => []CapWithoutOverlap
<1>1. IInv => CapWithoutOverlap
  <2> SUFFICES ASSUME IInv, ~ overlapped PROVE calls <= MaxAttempts
    BY DEF CapWithoutOverlap
  <2>1. /\ calls \in Nat /\ row.attempts \in Nat /\ MaxAttempts \in Nat
        /\ row.attempts <= MaxAttempts
    BY TranscriptionAssumption DEF IInv, TypeOK, Row
  <2>2. calls <= row.attempts
    BY DEF IInv, AttemptsFirst
  <2> QED
    BY <2>1, <2>2
<1> QED
  BY <1>1, Invariance, PTL

\* The owner's correction is what is shown, unless it was made while a job was
\* at work: _save_transcript never writes edited_text.
THEOREM CorrectionSafety == Spec => []CorrectionIsShown
<1>1. IInv => CorrectionIsShown
  BY DEF IInv
<1> QED
  BY <1>1, Invariance, PTL

\* Once ready, a recording is not transcribed again by jobs that do not overlap:
\* the no-op of transcribe_and_store_audio for an asset that is ready.
THEOREM ReadySafety == Spec => ReadyIsFinal
<1> DEFINE Final == status = "ready" /\ ~ overlapped' =>
                      \/ status' = "ready"
                      \/ status' = "failed" /\ \E j \in Job : pc[j] = "setFailed"
<1>1. IInv /\ [Next]_vars => [Final]_vars
  <2> SUFFICES ASSUME IInv, Next, status = "ready", ~ overlapped', status' # "ready"
               PROVE  status' = "failed" /\ \E j \in Job : pc[j] = "setFailed"
    BY DEF vars
  <2>1. PICK j \in Job : Run(j)
    BY DEF Next, Request, Enqueue, Retry, Correct, Publish, Age
  <2>2. ~ (ReadAsset(j) \/ ReadRow(j) \/ Transcribe(j))
    BY DEF ReadAsset, ReadRow, Transcribe
  <2>3. PICK call \in {"setProcessing", "setReady", "setFailed"} :
          /\ pc[j] = call /\ UNCHANGED ghosts
          /\ call = "setReady" => status' \in {status, "ready"}
          /\ call = "setFailed" => status' \in {status, "failed"}
    BY <2>1, <2>2 DEF Run, Open, Finish, MarkFailed, SaveText, Save, SetStatus
  <2>4. ~ overlapped /\ AtWork(j)
    BY <2>3 DEF ghosts, AtWork, Call
  <2>5. pc[j] \in {"saveError", "setFailed"}
    BY <2>4 DEF IInv, ReadyRests
  <2> QED
    BY <2>3, <2>5
<1>2. Spec => [][Final]_vars
  BY <1>1, Invariance, PTL DEF Spec
<1> QED
  BY <1>2 DEF ReadyIsFinal

=============================================================================

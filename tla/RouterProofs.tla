---------------------------- MODULE RouterProofs ----------------------------
(***************************************************************************)
(* For any chains, thresholds and numbers of calls, each in a thread: what *)
(* is retried, whom an open circuit keeps out, what opens it, what closes  *)
(* it early, and what breaks a call.                                       *)
(***************************************************************************)
EXTENDS Router, TLAPS

\* A circuit that is open has admitted nobody since, and one that has counted
\* failures counts calls given up on with no success between them.
Sound == {b \in Breaker :
            /\ b.opened # None => b.since = {}
            /\ b.failures <= b.streak \/ b.streak = Threshold}

\* A call that waits for another attempt has one left.
AttemptsLeft == \A c \in Call : pc[c] = "sleeping" => attempt[c] < Attempts

\* A call begins at the head of its chain.
FirstFirst == \A c \in Call : pc[c] = "new" => at[c] = 1

\* The time a call holds is past.
ClockPast == \A c \in Call : clock[c] # None => clock[c] <= now

\* What a call in the middle of a method knows of the breaker is still so, unless
\* another thread has closed it.
KnowsStill ==
  \A c \in Call \ crossed :
    /\ pc[c] = "elapsed" => breaker[ProviderOf(c)].opened # None
    /\ pc[c] \in Opening => breaker[ProviderOf(c)].streak >= Threshold

IInv ==
  /\ TypeOK
  /\ breaker \in [Provider -> Sound]
  /\ AttemptsLeft /\ FirstFirst /\ ClockPast /\ KnowsStill
  /\ OnlyOutagesRetried /\ BrokenByAnother

\* What may become of a breaker where nobody succeeds and no thread opens it from
\* the middle of record_failure.
Lawful(b, d) ==
  /\ b.opened = None /\ d.opened # None => d.streak >= Threshold
  /\ b.opened # None /\ d.opened = None => Cooled(b, now)

\* A breaker in which what others know is still so.
Keeps(b, d) ==
  /\ b.opened # None => d.opened # None
  /\ b.streak >= Threshold => d.streak >= Threshold

\* The two action properties.
OpensLaw ==
  \A p \in Provider :
    breaker[p].opened = None /\ breaker'[p].opened # None =>
      \/ breaker'[p].streak >= Threshold
      \/ \E c \in crossed : pc[c] \in Opening /\ ProviderOf(c) = p /\ pc'[c] # pc[c]

ClosesLaw ==
  \A p \in Provider :
    breaker[p].opened # None /\ breaker'[p].opened = None
      /\ now - breaker[p].opened < Cooldown =>
    \E c \in Call : /\ pc[c] = "calling" /\ pc'[c] = "done"
      /\ ProviderOf(c) = p /\ c \notin breaker[p].since

-----------------------------------------------------------------------------
(* What the methods of a breaker do *)

LEMMA ConstantsFit ==
  /\ Threshold \in Nat /\ Threshold > 0 /\ Attempts \in Nat /\ Attempts > 0
  /\ Cooldown \in Nat /\ MaxTime \in Nat /\ MaxCount \in Nat /\ MaxCount >= Threshold
  /\ None \notin Time
  BY RouterAssumption DEF MaxCount

LEMMA ChainFits ==
  ASSUME IInv, NEW c \in Call
  PROVE  /\ Chain(c) \in Seq(Provider)
         /\ Len(Chain(c)) \in Nat /\ DOMAIN Chain(c) = 1 .. Len(Chain(c))
         /\ \A i \in DOMAIN Chain(c) : Chain(c)[i] \in Provider
<1>1. Chain(c) \in Seq(Provider)
  BY DEF IInv, TypeOK, Chain
<1> HIDE DEF Chain
<1> QED
  BY <1>1

LEMMA CountedFits ==
  ASSUME NEW b \in Sound
  PROVE  /\ Counted(b) \in Sound /\ Counted(b).opened = b.opened
         /\ Counted(b).failures >= Threshold => Counted(b).streak >= Threshold
         /\ Keeps(b, Counted(b))
<1> DEFINE f == UpTo(b.failures, MaxCount)
           s == UpTo(b.streak, Threshold)
<1>1. /\ b.failures \in 0 .. MaxCount /\ b.streak \in 0 .. Threshold
      /\ b.opened \in Time \cup {None} /\ b.since \in SUBSET Call
      /\ b.opened # None => b.since = {}
      /\ b.failures <= b.streak \/ b.streak = Threshold
  BY DEF Sound, Breaker
<1>2. /\ f \in 0 .. MaxCount /\ s \in 0 .. Threshold /\ (f <= s \/ s = Threshold)
      /\ b.streak >= Threshold => s >= Threshold
  BY <1>1, ConstantsFit DEF UpTo
<1>3. b \in Breaker
  BY DEF Sound
<1>4. /\ Counted(b).failures = f /\ Counted(b).streak = s
      /\ Counted(b).opened = b.opened /\ Counted(b).since = b.since
  BY <1>3 DEF Counted, Breaker
<1>5. Counted(b) \in Breaker
  BY <1>2, <1>3 DEF Counted, Breaker
<1> HIDE DEF f, s
<1>6. f >= Threshold => s >= Threshold
  BY <1>2, ConstantsFit
<1> QED
  BY <1>1, <1>2, <1>4, <1>5, <1>6 DEF Sound, Keeps

\* After the cooldown: a probe may come.
LEMMA HalfOpenedFits ==
  ASSUME NEW b \in Sound
  PROVE  HalfOpened(b) \in Sound /\ HalfOpened(b).opened = None
         /\ HalfOpened(b).streak = b.streak
<1>1. b \in Breaker /\ 0 \in 0 .. MaxCount
  BY ConstantsFit DEF Sound
<1>2. HalfOpened(b) \in Breaker
  BY <1>1 DEF HalfOpened, Breaker
<1>3. /\ HalfOpened(b).opened = None /\ HalfOpened(b).failures = 0
      /\ HalfOpened(b).streak \in 0 .. Threshold /\ HalfOpened(b).streak = b.streak
  BY <1>1 DEF HalfOpened, Breaker
<1>4. 0 <= HalfOpened(b).streak
  BY <1>3, ConstantsFit
<1> QED
  BY <1>2, <1>3, <1>4 DEF Sound

\* A call that comes to a breaker that is not open.
LEMMA AdmittedFits ==
  ASSUME NEW b \in Sound, NEW c \in Call, b.opened = None
  PROVE  LET d == [b EXCEPT !.since = @ \cup {c}] IN
         d \in Sound /\ d.opened = None /\ d.streak = b.streak
<1> DEFINE d == [b EXCEPT !.since = @ \cup {c}]
<1>1. d = [failures |-> b.failures, opened |-> None, streak |-> b.streak,
           since |-> b.since \cup {c}]
  BY DEF Sound, Breaker
<1>2. d \in Breaker
  BY <1>1 DEF Sound, Breaker
<1>3. d.opened = None /\ d.failures = b.failures /\ d.streak = b.streak
  BY <1>1
<1> QED
  BY <1>2, <1>3 DEF Sound

LEMMA SucceededFits ==
  ASSUME NEW b \in Sound
  PROVE  Succeeded(b) \in Sound /\ Succeeded(b).opened = None
<1>1. b \in Breaker
  BY DEF Sound
<1>2. Succeeded(b).opened = None /\ Succeeded(b).failures = 0 /\ Succeeded(b).streak = 0
  BY <1>1 DEF Succeeded, Breaker
<1>3. 0 \in 0 .. MaxCount /\ 0 \in 0 .. Threshold
  BY ConstantsFit
<1>4. Succeeded(b) \in Breaker
  BY <1>1, <1>3 DEF Succeeded, Breaker
<1> QED
  BY <1>2, <1>4 DEF Sound

LEMMA OpenedFits ==
  ASSUME NEW b \in Sound, NEW t \in Time
  PROVE  Opened(b, t) \in Sound /\ Opened(b, t).opened # None
         /\ Opened(b, t).streak = b.streak
<1>1. b \in Breaker
  BY DEF Sound
<1>2. /\ Opened(b, t).opened = t /\ Opened(b, t).failures = b.failures
      /\ Opened(b, t).streak = b.streak /\ Opened(b, t).since = {}
  BY <1>1 DEF Opened, Breaker
<1>3. Opened(b, t) \in Breaker
  BY <1>1 DEF Opened, Breaker
<1> QED
  BY <1>2, <1>3, ConstantsFit DEF Sound

-----------------------------------------------------------------------------
(* What a step of a call does *)

LEMMA LawsFollow ==
  ASSUME IInv, \A p \in Provider : Lawful(breaker[p], breaker'[p])
  PROVE  OpensLaw /\ ClosesLaw
<1>1. OpensLaw
  BY DEF Lawful, OpensLaw
<1>2. ASSUME NEW p \in Provider, breaker[p].opened # None, breaker'[p].opened = None,
             now - breaker[p].opened < Cooldown
      PROVE  FALSE
  <2>1. now - breaker[p].opened >= Cooldown
    BY <1>2 DEF Lawful, Cooled
  <2>2. breaker[p].opened \in Nat /\ now \in Nat
    BY <1>2 DEF IInv, TypeOK, Breaker, Time
  <2> QED
    BY <1>2, <2>1, <2>2, ConstantsFit
<1> QED
  BY <1>1, <1>2 DEF ClosesLaw

\* A step that leaves every breaker as it is.
LEMMA UnmovedLaws ==
  ASSUME UNCHANGED breaker
  PROVE  OpensLaw /\ ClosesLaw
  BY DEF OpensLaw, ClosesLaw

\* Where a step takes a call: it does not begin anew.
Onto == (Stage \ {"new"}) \cup Over

\* The breakers after a step of call c: sound, and others in the middle of a
\* method know what they knew, or it is recorded that they do not.
Tells(c) ==
  /\ breaker' \in [Provider -> Sound]
  /\ crossed' \subseteq Call /\ crossed \ {c} \subseteq crossed'
  /\ \A p \in Provider :
       Keeps(breaker[p], breaker'[p]) \/ InMethodOf(p) \ {c} \subseteq crossed'

\* What a call knows where a step takes it.
Knows(c, to, p) ==
  /\ to = "elapsed" => breaker'[p].opened # None \/ c \in crossed'
  /\ to \in Opening => breaker'[p].streak >= Threshold \/ c \in crossed'
  /\ to = "broken" => c \in crossed'

\* The answers a step records are outages.
Records(c) == after' = after \/ after' = [after EXCEPT ![c] = @ \cup {"outage"}]

\* A call goes to a state that its place, its attempt and its time fit.
LEMMA CallStep ==
  ASSUME IInv, NEW c \in Call, UNCHANGED <<now, given>>, Tells(c), Records(c),
         NEW to \in Onto, Goto(c, to),
         NEW i \in Nat \ {0}, at' = [at EXCEPT ![c] = i],
         to \in Stage => i \in DOMAIN Chain(c),
         NEW n \in 1 .. Attempts, attempt' = [attempt EXCEPT ![c] = n],
         to = "sleeping" => n < Attempts,
         NEW t \in Time \cup {None}, clock' = [clock EXCEPT ![c] = t],
         t # None => t <= now, to \in Midway => t # None,
         Knows(c, to, Chain(c)[i])
  PROVE  IInv'
<1>1. /\ pc' \in [Call -> Stage \cup Over] /\ pc'[c] = to
      /\ \A d \in Call \ {c} : pc'[d] = pc[d]
  BY DEF IInv, TypeOK, Goto, Onto
<1>2. /\ at' \in [Call -> Nat \ {0}] /\ at'[c] = i
      /\ \A d \in Call \ {c} : at'[d] = at[d]
  BY DEF IInv, TypeOK
<1>3. /\ attempt' \in [Call -> 1 .. Attempts] /\ attempt'[c] = n
      /\ \A d \in Call \ {c} : attempt'[d] = attempt[d]
  BY DEF IInv, TypeOK
<1>4. after' \in [Call -> SUBSET Outcome] /\ OnlyOutagesRetried'
  <2>1. "outage" \in Outcome
    BY DEF Outcome
  <2>2. after' \in [Call -> SUBSET Outcome]
    <3>1. after \in [Call -> SUBSET Outcome]
      BY DEF IInv, TypeOK
    <3>2. after[c] \cup {"outage"} \in SUBSET Outcome
      BY <2>1, <3>1
    <3> QED
      BY <3>1, <3>2 DEF Records
  <2>3. \A d \in Call : after'[d] \subseteq after[d] \cup {"outage"}
    BY DEF IInv, TypeOK, Records
  <2> QED
    BY <2>2, <2>3 DEF IInv, OnlyOutagesRetried
<1>5. /\ clock' \in [Call -> Time \cup {None}] /\ clock'[c] = t
      /\ \A d \in Call \ {c} : clock'[d] = clock[d]
  BY DEF IInv, TypeOK
<1>6. /\ now' = now /\ kind' = kind /\ chain' = chain
      /\ \A d \in Call : Chain(d)' = Chain(d)
  BY DEF Chain, given
<1>7. \A d \in Call : pc'[d] \in Stage \ {"new"} => at'[d] \in DOMAIN Chain(d)'
  BY <1>1, <1>2, <1>6 DEF IInv, TypeOK
<1>8. \A d \in Call : pc'[d] \in Midway => clock'[d] # None
  BY <1>1, <1>5 DEF IInv, TypeOK
<1>9. breaker' \in [Provider -> Breaker] /\ crossed' \subseteq Call
  BY DEF Sound, Tells
<1>10. TypeOK'
  BY <1>1, <1>2, <1>3, <1>4, <1>5, <1>6, <1>7, <1>8, <1>9 DEF IInv, TypeOK
<1>11. AttemptsLeft' /\ FirstFirst' /\ ClockPast'
  BY <1>1, <1>2, <1>3, <1>5, <1>6
  DEF IInv, AttemptsLeft, FirstFirst, ClockPast, Onto, Over
<1>12. BrokenByAnother'
  BY <1>1 DEF IInv, BrokenByAnother, Tells, Knows
<1>13. KnowsStill'
  <2> SUFFICES ASSUME NEW d \in Call, d \notin crossed'
               PROVE  /\ pc'[d] = "elapsed" => breaker'[ProviderOf(d)'].opened # None
                      /\ pc'[d] \in Opening => breaker'[ProviderOf(d)'].streak >= Threshold
    BY <1>9 DEF KnowsStill
  <2>1. CASE d = c
    BY <1>1, <1>2, <1>6, <2>1 DEF Knows, ProviderOf
  <2>2. CASE d # c /\ pc[d] \in Midway
    <3> DEFINE p == ProviderOf(d)
    <3>1. p \in Provider /\ ProviderOf(d)' = p
      <4>1. at[d] \in DOMAIN Chain(d)
        BY <2>2 DEF IInv, TypeOK, Stage, Midway, Opening
      <4> QED
        BY <1>2, <1>6, <2>2, <4>1, ChainFits DEF ProviderOf
    <3>2. d \in InMethodOf(p) \ {c} /\ d \notin crossed
      BY <2>2 DEF InMethodOf, Tells
    <3> HIDE DEF p
    <3>3. Keeps(breaker[p], breaker'[p])
      BY <3>1, <3>2 DEF Tells
    <3>4. /\ pc[d] = "elapsed" => breaker[p].opened # None
          /\ pc[d] \in Opening => breaker[p].streak >= Threshold
      BY <3>2 DEF IInv, KnowsStill, p
    <3> QED
      BY <1>1, <2>2, <3>1, <3>3, <3>4 DEF Keeps
  <2>3. CASE d # c /\ pc[d] \notin Midway
    BY <1>1, <2>3 DEF Midway
  <2> QED
    BY <2>1, <2>2, <2>3
<1> QED
  BY <1>4, <1>10, <1>11, <1>12, <1>13 DEF IInv, Tells

LEMMA PlaceFits ==
  ASSUME IInv, NEW c \in Call
  PROVE  /\ at = [at EXCEPT ![c] = at[c]] /\ at[c] \in Nat \ {0}
         /\ attempt = [attempt EXCEPT ![c] = attempt[c]] /\ attempt[c] \in 1 .. Attempts
         /\ pc[c] \in Stage \ {"new"} =>
              /\ at[c] \in DOMAIN Chain(c) /\ ProviderOf(c) \in Provider
              /\ breaker[ProviderOf(c)] \in Sound
<1>1. pc[c] \in Stage \ {"new"} => at[c] \in DOMAIN Chain(c)
  BY DEF IInv, TypeOK
<1> QED
  BY <1>1, ChainFits DEF IInv, TypeOK, ProviderOf

LEMMA ClockFits ==
  ASSUME IInv, NEW c \in Call
  PROVE  /\ clock = [clock EXCEPT ![c] = clock[c]] /\ clock[c] \in Time \cup {None}
         /\ clock[c] # None => clock[c] <= now
         /\ pc[c] \in Midway => clock[c] \in Time /\ clock[c] <= now
         /\ now \in Time /\ now # None /\ now <= now
  BY ConstantsFit DEF IInv, TypeOK, ClockPast, Time

\* The breaker of one provider changes, and who knew better is recorded.
LEMMA OneChanges ==
  ASSUME IInv, NEW c \in Call, NEW q \in Provider, NEW d \in Sound,
         breaker' = [breaker EXCEPT ![q] = d],
         crossed' \subseteq Call, crossed \ {c} \subseteq crossed',
         Keeps(breaker[q], d) \/ InMethodOf(q) \ {c} \subseteq crossed'
  PROVE  /\ Tells(c) /\ breaker'[q] = d
         /\ \A p \in Provider \ {q} : breaker'[p] = breaker[p]
<1>1. /\ breaker' \in [Provider -> Sound] /\ breaker'[q] = d
      /\ \A p \in Provider \ {q} : breaker'[p] = breaker[p]
  BY DEF IInv
<1>2. \A p \in Provider :
        Keeps(breaker[p], breaker'[p]) \/ InMethodOf(p) \ {c} \subseteq crossed'
  BY <1>1 DEF Keeps
<1> QED
  BY <1>1, <1>2 DEF Tells

LEMMA NoneChanges ==
  ASSUME IInv, NEW c \in Call, UNCHANGED breaker,
         crossed' = crossed \/ crossed' = crossed \ {c}
  PROVE  Tells(c)
  BY DEF IInv, TypeOK, Tells, Keeps

\* A call that ends, or goes on at the place where it is.
LEMMA StayStep ==
  ASSUME IInv, NEW c \in Call, UNCHANGED <<now, given>>, Tells(c), Records(c),
         NEW to \in Onto, GiveUp(c, to),
         to \in Stage => pc[c] \in Stage \ {"new"},
         to = "sleeping" => attempt[c] < Attempts,
         NEW t \in Time \cup {None}, clock' = [clock EXCEPT ![c] = t],
         t # None => t <= now, to \in Midway => t # None,
         Knows(c, to, ProviderOf(c))
  PROVE  IInv'
<1>1. /\ at' = [at EXCEPT ![c] = at[c]] /\ at[c] \in Nat \ {0}
      /\ attempt' = [attempt EXCEPT ![c] = attempt[c]] /\ attempt[c] \in 1 .. Attempts
      /\ to \in Stage => at[c] \in DOMAIN Chain(c)
      /\ Goto(c, to) /\ Knows(c, to, Chain(c)[at[c]])
  BY PlaceFits DEF GiveUp, ProviderOf
<1> QED
  BY <1>1, CallStep

\* On to the next provider, or the end of the chain.
LEMMA OnwardStep ==
  ASSUME IInv, NEW c \in Call, pc[c] \in Stage \ {"new"}, Onward(c),
         UNCHANGED <<now, given>>, Tells(c), Records(c),
         NEW t \in Time \cup {None}, clock' = [clock EXCEPT ![c] = t], t # None => t <= now
  PROVE  IInv' /\ pc'[c] \in {"look", "exhausted"}
<1>1. /\ at[c] \in DOMAIN Chain(c) /\ at[c] \in Nat \ {0}
      /\ attempt = [attempt EXCEPT ![c] = attempt[c]] /\ attempt[c] \in 1 .. Attempts
      /\ pc \in [Call -> Stage \cup Over]
  BY PlaceFits DEF IInv, TypeOK
<1>2. CASE at[c] < Len(Chain(c))
  <2>1. "look" \in Onto /\ "look" # "sleeping" /\ "look" \notin Midway /\ "look" # "broken"
    BY DEF Stage, Onto, Midway, Opening
  <2>2. at[c] + 1 \in Nat \ {0} /\ at[c] + 1 \in DOMAIN Chain(c)
    BY <1>1, <1>2, ChainFits
  <2>3. Goto(c, "look") /\ at' = [at EXCEPT ![c] = at[c] + 1] /\ UNCHANGED attempt
    BY <1>2 DEF Onward
  <2>4. Knows(c, "look", Chain(c)[at[c] + 1])
    BY <2>1 DEF Knows, Midway
  <2> QED
    BY <1>1, <2>1, <2>2, <2>3, <2>4, CallStep DEF Goto
<1>3. CASE ~ (at[c] < Len(Chain(c)))
  <2>1. /\ "exhausted" \in Onto /\ "exhausted" \notin Stage /\ "exhausted" \notin Midway
        /\ "exhausted" # "sleeping" /\ "exhausted" # "broken"
    BY DEF Stage, Over, Onto, Midway, Opening
  <2>2. GiveUp(c, "exhausted")
    BY <1>3 DEF Onward
  <2>3. Knows(c, "exhausted", ProviderOf(c))
    BY <2>1 DEF Knows, Midway
  <2> QED
    BY <1>1, <2>1, <2>2, <2>3, StayStep DEF Goto, GiveUp
<1> QED
  BY <1>2, <1>3

\* A call comes to a provider whose circuit, as it finds it, is not open.
LEMMA EnterStep ==
  ASSUME IInv, NEW c \in Call, pc[c] \in {"look", "elapsed"}, NEW b \in Sound,
         b.opened = None, Enter(c, b), UNCHANGED <<now, given, after>>,
         b.streak = breaker[ProviderOf(c)].streak,
         breaker[ProviderOf(c)].opened # None => Cooled(breaker[ProviderOf(c)], now),
         crossed' \subseteq Call, crossed \ {c} \subseteq crossed',
         breaker[ProviderOf(c)].opened = None
           \/ InMethodOf(ProviderOf(c)) \ {c} \subseteq crossed',
         NEW t \in Time \cup {None}, clock' = [clock EXCEPT ![c] = t], t # None => t <= now
  PROVE  IInv' /\ OpensLaw /\ ClosesLaw
<1> DEFINE q == ProviderOf(c)
           d == [b EXCEPT !.since = @ \cup {c}]
<1>1. /\ pc[c] \in Stage \ {"new"} /\ q \in Provider
      /\ at[c] \in DOMAIN Chain(c) /\ q = Chain(c)[at[c]]
      /\ at' = [at EXCEPT ![c] = at[c]] /\ at[c] \in Nat \ {0}
  <2>1. pc[c] \in Stage \ {"new"}
    BY DEF Stage, Midway
  <2> QED
    BY <2>1, PlaceFits DEF Enter, ProviderOf
<1>2. d \in Sound /\ d.opened = None /\ d.streak = breaker[q].streak
  BY AdmittedFits
<1>3. breaker' = [breaker EXCEPT ![q] = d] /\ Goto(c, "calling")
      /\ attempt' = [attempt EXCEPT ![c] = 1]
  BY DEF Enter, Set
<1>4. Keeps(breaker[q], d) \/ InMethodOf(q) \ {c} \subseteq crossed'
  BY <1>2 DEF Keeps
<1>5. breaker[q].opened # None => Cooled(breaker[q], now)
  OBVIOUS
<1> HIDE DEF d, q
<1>6. /\ Tells(c) /\ breaker'[q] = d
      /\ \A p \in Provider \ {q} : breaker'[p] = breaker[p]
  <2>1. q \in Provider /\ d \in Sound
    BY <1>1, <1>2
  <2>2. breaker' = [breaker EXCEPT ![q] = d]
    BY <1>3
  <2>3. crossed' \subseteq Call /\ crossed \ {c} \subseteq crossed'
    OBVIOUS
  <2> QED
    BY <1>4, <2>1, <2>2, <2>3, OneChanges
<1>7. /\ "calling" \in Onto /\ 1 \in 1 .. Attempts /\ "calling" \notin Midway
      /\ "calling" # "sleeping" /\ "calling" # "broken"
  BY ConstantsFit DEF Stage, Onto, Midway, Opening
<1>8. Knows(c, "calling", Chain(c)[at[c]])
  BY <1>7 DEF Knows, Midway
<1>9. IInv'
  BY <1>1, <1>3, <1>6, <1>7, <1>8, CallStep DEF Records
<1>10. \A p \in Provider : Lawful(breaker[p], breaker'[p])
  BY <1>2, <1>5, <1>6 DEF Lawful
<1> QED
  BY <1>9, <1>10, LawsFollow

-----------------------------------------------------------------------------
(* is_open *)

LEMMA BeginStep ==
  ASSUME IInv, NEW c \in Call, Begin(c)
  PROVE  IInv' /\ OpensLaw /\ ClosesLaw
<1> DEFINE to == IF Chain(c) = << >> THEN "exhausted" ELSE "look"
<1>1. /\ GiveUp(c, to) /\ UNCHANGED <<now, breaker, given, clock, after, crossed>>
      /\ at[c] = 1
  BY DEF Begin, IInv, FirstFirst
<1>2. /\ to \in Onto /\ to \notin Midway /\ to # "sleeping" /\ to # "broken"
      /\ to \in Stage => Chain(c) # << >>
  BY DEF Stage, Over, Onto, Midway, Opening
<1>3. to \in Stage => at[c] \in DOMAIN Chain(c)
  <2>1. ASSUME Chain(c) # << >> PROVE 1 \in 1 .. Len(Chain(c))
    <3>1. Chain(c) \in Seq(Provider)
      BY ChainFits
    <3> HIDE DEF Chain
    <3> QED
      BY <2>1, <3>1
  <2> QED
    BY <1>1, <1>2, <2>1, ChainFits
<1> HIDE DEF to
<1>4. Tells(c) /\ Records(c) /\ Knows(c, to, Chain(c)[at[c]])
  BY <1>1, <1>2, NoneChanges DEF Records, Knows, Midway
<1>5. /\ at' = [at EXCEPT ![c] = at[c]] /\ at[c] \in Nat \ {0}
      /\ attempt' = [attempt EXCEPT ![c] = attempt[c]] /\ attempt[c] \in 1 .. Attempts
      /\ clock' = [clock EXCEPT ![c] = clock[c]] /\ clock[c] \in Time \cup {None}
      /\ clock[c] # None => clock[c] <= now
      /\ Goto(c, to)
  BY <1>1, PlaceFits, ClockFits DEF GiveUp
<1>6. IInv'
  BY <1>1, <1>2, <1>3, <1>4, <1>5, CallStep
<1> QED
  BY <1>1, <1>6, UnmovedLaws

LEMMA LookStep ==
  ASSUME IInv, NEW c \in Call, Look(c)
  PROVE  IInv' /\ OpensLaw /\ ClosesLaw
<1> DEFINE b == breaker[ProviderOf(c)]
<1>1. /\ pc[c] = "look" /\ UNCHANGED <<now, given, after, crossed>>
      /\ pc[c] \in Stage \ {"new"} /\ b \in Sound /\ crossed \subseteq Call
  <2>1. pc[c] = "look" /\ pc[c] \in Stage \ {"new"}
    BY DEF Look, Stage
  <2> QED
    BY <2>1, PlaceFits DEF Look, IInv, TypeOK
<1>2. CASE b.opened = None
  <2>1. Enter(c, b) /\ clock' = [clock EXCEPT ![c] = clock[c]]
    BY <1>2, ClockFits DEF Look
  <2> QED
    BY <1>1, <1>2, <2>1, ClockFits, EnterStep
<1>3. CASE b.opened # None
  <2>1. /\ GiveUp(c, "elapsed") /\ UNCHANGED breaker
        /\ clock' = [clock EXCEPT ![c] = now]
    BY <1>3 DEF Look, HaltAt
  <2>2. "elapsed" \in Onto /\ "elapsed" # "sleeping" /\ now \in Time \cup {None}
    BY ClockFits DEF Stage, Onto, Midway
  <2>3. Tells(c) /\ Records(c) /\ Knows(c, "elapsed", ProviderOf(c))
    BY <1>1, <1>3, <2>1, NoneChanges DEF Records, Knows, Opening
  <2>4. IInv'
    BY <1>1, <2>1, <2>2, <2>3, ClockFits, StayStep
  <2> QED
    BY <2>1, <2>4, UnmovedLaws
<1> QED
  BY <1>2, <1>3

\* A call breaks on a circuit that was open when it asked: another closed it.
LEMMA BreakStep ==
  ASSUME IInv, NEW c \in Call, pc[c] = "elapsed", Break(c), Release(c),
         UNCHANGED <<now, given, after>>
  PROVE  IInv' /\ OpensLaw /\ ClosesLaw
<1>1. /\ GiveUp(c, "broken") /\ UNCHANGED <<breaker, crossed>>
      /\ clock' = [clock EXCEPT ![c] = None]
  BY DEF Break, Release
<1>2. c \in crossed
  BY DEF Break, IInv, KnowsStill
<1>3. /\ "broken" \in Onto /\ "broken" \notin Stage /\ "broken" \notin Midway
      /\ "broken" # "sleeping"
  BY DEF Stage, Over, Onto, Midway, Opening
<1>4. Tells(c) /\ Records(c) /\ Knows(c, "broken", ProviderOf(c))
  BY <1>1, <1>2, <1>3, NoneChanges DEF Records, Knows, Midway
<1>5. IInv'
  BY <1>1, <1>3, <1>4, StayStep
<1> QED
  BY <1>1, <1>5, UnmovedLaws

LEMMA ProbeStep ==
  ASSUME IInv, NEW c \in Call, pc[c] = "elapsed", Probe(c), Release(c),
         UNCHANGED <<now, given, after>>
  PROVE  IInv' /\ OpensLaw /\ ClosesLaw
<1> DEFINE q == ProviderOf(c)
           b == HalfOpened(breaker[q])
<1>1. pc[c] \in Midway /\ pc[c] \in Stage \ {"new"} /\ breaker[q] \in Sound
  <2>1. pc[c] \in Midway /\ pc[c] \in Stage \ {"new"}
    BY DEF Stage, Midway
  <2> QED
    BY <2>1, PlaceFits
<1>2. b \in Sound /\ b.opened = None /\ b.streak = breaker[q].streak
  BY <1>1, HalfOpenedFits
<1>3. /\ breaker[q].opened # None /\ Cooled(breaker[q], clock[c]) /\ Enter(c, b)
      /\ crossed' = (crossed \cup InMethodOf(q)) \ {c}
      /\ clock' = [clock EXCEPT ![c] = None]
  BY DEF Probe, Release
<1>4. Cooled(breaker[q], now)
  <2>1. breaker[q].opened \in Time /\ clock[c] \in Time /\ clock[c] <= now /\ now \in Time
    BY <1>1, <1>3, ClockFits DEF Sound, Breaker
  <2> QED
    BY <1>3, <2>1, ConstantsFit DEF Cooled, Time
<1>5. crossed' \subseteq Call /\ crossed \ {c} \subseteq crossed'
      /\ InMethodOf(q) \ {c} \subseteq crossed'
  BY <1>3 DEF IInv, TypeOK, InMethodOf
<1> HIDE DEF b
<1> QED
  BY <1>2, <1>3, <1>4, <1>5, EnterStep

LEMMA SkipStep ==
  ASSUME IInv, NEW c \in Call, pc[c] = "elapsed", Skip(c), Release(c),
         UNCHANGED <<now, given, after>>
  PROVE  IInv' /\ OpensLaw /\ ClosesLaw
<1>1. /\ Onward(c) /\ UNCHANGED breaker /\ crossed' = crossed \ {c}
      /\ clock' = [clock EXCEPT ![c] = None]
  BY DEF Skip, Release
<1>2. pc[c] \in Stage \ {"new"} /\ Records(c)
  BY DEF Stage, Midway, Records
<1>3. Tells(c)
  BY <1>1, NoneChanges
<1>4. IInv'
  BY <1>1, <1>2, <1>3, OnwardStep
<1> QED
  BY <1>1, <1>4, UnmovedLaws

LEMMA ElapseStep ==
  ASSUME IInv, NEW c \in Call, Elapse(c)
  PROVE  IInv' /\ OpensLaw /\ ClosesLaw
  BY BreakStep, ProbeStep, SkipStep DEF Elapse

-----------------------------------------------------------------------------
(* record_failure *)

LEMMA LeaveStep ==
  ASSUME IInv, NEW c \in Call, pc[c] \in Stage \ {"new"}, NEW stage \in Opening,
         Leave(c, stage), UNCHANGED <<now, given>>, Tells(c), Records(c),
         NEW t \in Time \cup {None}, clock' = [clock EXCEPT ![c] = t], t # None => t <= now
  PROVE  IInv' /\ pc'[c] \notin Opening
<1>1. CASE stage = "refusing"
  <2>1. /\ "refused" \in Onto /\ "refused" \notin Stage /\ "refused" \notin Midway
        /\ "refused" # "sleeping" /\ "refused" # "broken" /\ "refused" \notin Opening
    BY DEF Stage, Over, Onto, Midway, Opening
  <2>2. GiveUp(c, "refused") /\ Knows(c, "refused", ProviderOf(c))
    BY <1>1, <2>1 DEF Leave, Knows, Midway
  <2>3. IInv'
    BY <2>1, <2>2, StayStep
  <2>4. pc'[c] = "refused"
    BY <2>2 DEF GiveUp, Goto, IInv, TypeOK
  <2> QED
    BY <2>1, <2>3, <2>4
<1>2. CASE stage # "refusing"
  <2>1. Onward(c)
    BY <1>2 DEF Leave
  <2>2. IInv' /\ pc'[c] \in {"look", "exhausted"}
    BY <2>1, OnwardStep
  <2> QED
    BY <2>2 DEF Opening
<1> QED
  BY <1>1, <1>2

\* The count is atomic; a call that is to open the circuit knows the streak.
LEMMA RecordStep ==
  ASSUME IInv, NEW c \in Call, pc[c] = "calling", NEW stage \in Opening,
         RecordFailure(c, stage), UNCHANGED <<now, given, crossed>>, Records(c)
  PROVE  IInv' /\ OpensLaw /\ ClosesLaw
<1> DEFINE q == ProviderOf(c)
           b == Counted(breaker[q])
<1>1. pc[c] \in Stage \ {"new"} /\ q \in Provider /\ breaker[q] \in Sound
  <2>1. pc[c] \in Stage \ {"new"}
    BY DEF Stage
  <2> QED
    BY <2>1, PlaceFits
<1>2. /\ b \in Sound /\ b.opened = breaker[q].opened /\ Keeps(breaker[q], b)
      /\ b.failures >= Threshold => b.streak >= Threshold
  BY <1>1, CountedFits
<1>3. /\ breaker' = [breaker EXCEPT ![q] = b]
      /\ \/ Due(b) /\ HaltAt(c, stage)
         \/ Leave(c, stage) /\ UNCHANGED clock
  BY DEF RecordFailure, Set
<1> HIDE DEF b, q
<1>4. /\ Tells(c) /\ breaker'[q] = b
      /\ \A p \in Provider \ {q} : breaker'[p] = breaker[p]
  <2>1. crossed' \subseteq Call /\ crossed \ {c} \subseteq crossed'
    BY DEF IInv, TypeOK
  <2>2. q \in Provider /\ b \in Sound /\ Keeps(breaker[q], b)
    BY <1>1, <1>2
  <2> QED
    BY <1>3, <2>1, <2>2, OneChanges
<1>5. \A p \in Provider : Lawful(breaker[p], breaker'[p])
  BY <1>2, <1>4 DEF Lawful
<1>6. CASE Due(b) /\ HaltAt(c, stage)
  <2>1. GiveUp(c, stage) /\ clock' = [clock EXCEPT ![c] = now]
    BY <1>6 DEF HaltAt
  <2>2. stage \in Onto /\ stage # "sleeping" /\ stage # "elapsed" /\ stage # "broken"
    BY DEF Onto, Stage, Midway, Opening
  <2>3. b.streak >= Threshold
    BY <1>2, <1>6 DEF Due
  <2>4. Knows(c, stage, ProviderOf(c))
    BY <1>4, <2>2, <2>3 DEF Knows, q
  <2>5. now \in Time \cup {None} /\ now # None /\ now <= now
    BY ClockFits
  <2>6. IInv'
    BY <1>1, <1>4, <2>1, <2>2, <2>4, <2>5, StayStep
  <2> QED
    BY <1>5, <2>6, LawsFollow
<1>7. CASE Leave(c, stage) /\ UNCHANGED clock
  <2>1. /\ clock' = [clock EXCEPT ![c] = clock[c]] /\ clock[c] \in Time \cup {None}
        /\ clock[c] # None => clock[c] <= now
    BY <1>7, ClockFits
  <2>2. IInv'
    BY <1>1, <1>4, <1>7, <2>1, LeaveStep
  <2> QED
    BY <1>5, <2>2, LawsFollow
<1> QED
  BY <1>3, <1>6, <1>7

\* The call that was due to open the circuit does, whoever succeeded since.
LEMMA OpenStep ==
  ASSUME IInv, NEW c \in Call, Open(c)
  PROVE  IInv' /\ OpensLaw /\ ClosesLaw
<1> DEFINE q == ProviderOf(c)
           d == Opened(breaker[q], clock[c])
<1>1. /\ pc[c] \in Opening /\ Leave(c, pc[c]) /\ UNCHANGED <<now, given, after>>
      /\ breaker' = [breaker EXCEPT ![q] = d]
      /\ clock' = [clock EXCEPT ![c] = None] /\ crossed' = crossed \ {c}
  BY DEF Open, Set, Release
<1>2. pc[c] \in Midway /\ pc[c] \in Stage \ {"new"}
  BY <1>1 DEF Midway, Stage, Opening
<1>3. q \in Provider /\ breaker[q] \in Sound /\ clock[c] \in Time
  BY <1>2, PlaceFits, ClockFits
<1>4. d \in Sound /\ d.opened # None /\ d.streak = breaker[q].streak
  BY <1>3, OpenedFits
<1>5. Keeps(breaker[q], d)
  BY <1>4 DEF Keeps
<1> HIDE DEF d, q
<1>6. /\ Tells(c) /\ breaker'[q] = d
      /\ \A p \in Provider \ {q} : breaker'[p] = breaker[p]
  <2>1. crossed' \subseteq Call /\ crossed \ {c} \subseteq crossed'
    BY <1>1 DEF IInv, TypeOK
  <2>2. q \in Provider /\ d \in Sound
    BY <1>3, <1>4
  <2> QED
    BY <1>1, <1>5, <2>1, <2>2, OneChanges
<1>7. IInv' /\ pc'[c] \notin Opening
  <2>1. Records(c) /\ None \in Time \cup {None}
    BY <1>1 DEF Records
  <2> QED
    BY <1>1, <1>2, <1>6, <2>1, LeaveStep
<1>8. OpensLaw
  <2> SUFFICES ASSUME NEW p \in Provider, breaker[p].opened = None, breaker'[p].opened # None,
                      ~ (breaker'[p].streak >= Threshold)
               PROVE  c \in crossed /\ ProviderOf(c) = p
    BY <1>1, <1>7 DEF OpensLaw, IInv, TypeOK
  <2>1. p = q
    BY <1>6
  <2>2. ~ (breaker[q].streak >= Threshold)
    BY <1>4, <1>6, <2>1
  <2> QED
    BY <1>1, <2>1, <2>2 DEF IInv, KnowsStill, q
<1>9. ClosesLaw
  <2>1. \A p \in Provider : breaker[p].opened # None => breaker'[p].opened # None
    BY <1>4, <1>6
  <2> QED
    BY <2>1 DEF ClosesLaw
<1> QED
  BY <1>7, <1>8, <1>9

-----------------------------------------------------------------------------
(* The answers *)

\* A call that is answered well: no circuit opens, and it is an old call, for
\* an open circuit has admitted nobody.
LEMMA AcceptStep ==
  ASSUME IInv, NEW c \in Call, Accept(c)
  PROVE  IInv' /\ OpensLaw /\ ClosesLaw
<1> DEFINE q == ProviderOf(c)
           d == Succeeded(breaker[q])
<1>1. /\ pc[c] = "calling" /\ GiveUp(c, "done") /\ UNCHANGED <<now, given, clock, after>>
      /\ breaker' = [breaker EXCEPT ![q] = d] /\ crossed' = crossed \cup InMethodOf(q)
  BY DEF Accept, Set
<1>2. pc[c] \in Stage \ {"new"} /\ q \in Provider /\ breaker[q] \in Sound
  <2>1. pc[c] \in Stage \ {"new"}
    BY <1>1 DEF Stage
  <2> QED
    BY <2>1, PlaceFits
<1>3. d \in Sound /\ d.opened = None
  BY <1>2, SucceededFits
<1> HIDE DEF d, q
<1>4. /\ Tells(c) /\ breaker'[q] = d
      /\ \A p \in Provider \ {q} : breaker'[p] = breaker[p]
  <2>1. crossed' \subseteq Call /\ crossed \ {c} \subseteq crossed'
        /\ InMethodOf(q) \ {c} \subseteq crossed'
    BY <1>1 DEF IInv, TypeOK, InMethodOf
  <2>2. q \in Provider /\ d \in Sound
    BY <1>2, <1>3
  <2> QED
    BY <1>1, <2>1, <2>2, OneChanges
<1>5. /\ "done" \in Onto /\ "done" \notin Stage /\ "done" \notin Midway
      /\ "done" # "sleeping" /\ "done" # "broken"
  BY DEF Stage, Over, Onto, Midway, Opening
<1>6. pc'[c] = "done"
  BY <1>1 DEF GiveUp, Goto, IInv, TypeOK
<1>7. IInv'
  <2>1. Records(c) /\ Knows(c, "done", ProviderOf(c))
    BY <1>1, <1>5 DEF Records, Knows, Midway
  <2>2. /\ clock' = [clock EXCEPT ![c] = clock[c]] /\ clock[c] \in Time \cup {None}
        /\ clock[c] # None => clock[c] <= now
    BY <1>1, ClockFits
  <2> QED
    BY <1>1, <1>4, <1>5, <2>1, <2>2, StayStep
<1>8. OpensLaw
  BY <1>3, <1>4 DEF OpensLaw
<1>9. ClosesLaw
  <2> SUFFICES ASSUME NEW p \in Provider, breaker[p].opened # None, breaker'[p].opened = None
               PROVE  ProviderOf(c) = p /\ c \notin breaker[p].since
    BY <1>1, <1>6 DEF ClosesLaw
  <2>1. p = q
    BY <1>4
  <2> QED
    BY <1>2, <2>1 DEF q, Sound
<1> QED
  BY <1>7, <1>8, <1>9

LEMMA RejectStep ==
  ASSUME IInv, NEW c \in Call, Reject(c)
  PROVE  IInv' /\ OpensLaw /\ ClosesLaw
<1>1. GiveUp(c, "rejected") /\ UNCHANGED <<now, breaker, given, clock, after, crossed>>
  BY DEF Reject
<1>2. /\ "rejected" \in Onto /\ "rejected" \notin Stage /\ "rejected" \notin Midway
      /\ "rejected" # "sleeping" /\ "rejected" # "broken"
  BY DEF Stage, Over, Onto, Midway, Opening
<1>3. Tells(c) /\ Records(c) /\ Knows(c, "rejected", ProviderOf(c))
  BY <1>1, <1>2, NoneChanges DEF Records, Knows, Midway
<1>4. /\ clock' = [clock EXCEPT ![c] = clock[c]] /\ clock[c] \in Time \cup {None}
      /\ clock[c] # None => clock[c] <= now
  BY <1>1, ClockFits
<1>5. IInv'
  BY <1>1, <1>2, <1>3, <1>4, StayStep
<1> QED
  BY <1>1, <1>5, UnmovedLaws

LEMMA RefuseStep ==
  ASSUME IInv, NEW c \in Call, Refuse(c)
  PROVE  IInv' /\ OpensLaw /\ ClosesLaw
<1>1. /\ pc[c] = "calling" /\ RecordFailure(c, "refusing")
      /\ UNCHANGED <<now, given, crossed>> /\ Records(c) /\ "refusing" \in Opening
  BY DEF Refuse, Records, Opening
<1> QED
  BY <1>1, RecordStep

LEMMA OutlastStep ==
  ASSUME IInv, NEW c \in Call, Outlast(c)
  PROVE  IInv' /\ OpensLaw /\ ClosesLaw
<1>1. PICK o \in Outcome :
        /\ pc[c] = "calling" /\ Retried(c, o)
        /\ after' = [after EXCEPT ![c] = IF kind[c] = "audio" THEN @ ELSE @ \cup {o}]
        /\ \/ MoreToTry(c) /\ GiveUp(c, "sleeping") /\ UNCHANGED <<breaker, clock>>
           \/ RecordFailure(c, "open")
        /\ UNCHANGED <<now, given, crossed>>
  BY DEF Outlast
<1>2. Records(c)
  <2>1. CASE kind[c] = "audio"
    <3>1. after' = [after EXCEPT ![c] = after[c]] /\ after \in [Call -> SUBSET Outcome]
      BY <1>1, <2>1 DEF IInv, TypeOK
    <3> QED
      BY <3>1 DEF Records
  <2>2. CASE kind[c] # "audio"
    BY <1>1, <2>2 DEF Retried, Outage, Records
  <2> QED
    BY <2>1, <2>2
<1>3. CASE MoreToTry(c) /\ GiveUp(c, "sleeping") /\ UNCHANGED <<breaker, clock>>
  <2>1. /\ "sleeping" \in Onto /\ "sleeping" \notin Midway /\ "sleeping" # "broken"
        /\ pc[c] \in Stage \ {"new"} /\ attempt[c] < Attempts
    BY <1>1, <1>3 DEF Stage, Onto, Midway, Opening, MoreToTry
  <2>2. Tells(c) /\ Knows(c, "sleeping", ProviderOf(c))
    BY <1>1, <1>3, <2>1, NoneChanges DEF Knows, Midway
  <2>3. /\ clock' = [clock EXCEPT ![c] = clock[c]] /\ clock[c] \in Time \cup {None}
        /\ clock[c] # None => clock[c] <= now
    BY <1>3, ClockFits
  <2>4. IInv'
    BY <1>1, <1>2, <1>3, <2>1, <2>2, <2>3, StayStep
  <2> QED
    BY <1>3, <2>4, UnmovedLaws
<1>4. CASE RecordFailure(c, "open")
  <2>1. "open" \in Opening
    BY DEF Opening
  <2> QED
    BY <1>1, <1>2, <1>4, <2>1, RecordStep
<1> QED
  BY <1>1, <1>3, <1>4

LEMMA AgainStep ==
  ASSUME IInv, NEW c \in Call, Again(c)
  PROVE  IInv' /\ OpensLaw /\ ClosesLaw
<1>1. /\ pc[c] = "sleeping" /\ Goto(c, "calling")
      /\ attempt' = [attempt EXCEPT ![c] = attempt[c] + 1]
      /\ UNCHANGED <<now, breaker, given, at, clock, after, crossed>>
  BY DEF Again, NextAttempt
<1>2. /\ "calling" \in Onto /\ "calling" # "sleeping" /\ pc[c] \in Stage \ {"new"}
      /\ "calling" \notin Midway /\ "calling" # "broken"
  BY <1>1 DEF Stage, Onto, Midway, Opening
<1>3. attempt[c] + 1 \in 1 .. Attempts
  BY <1>1, ConstantsFit DEF IInv, TypeOK, AttemptsLeft
<1>4. Tells(c) /\ Records(c) /\ Knows(c, "calling", Chain(c)[at[c]])
  BY <1>1, <1>2, NoneChanges DEF Records, Knows, Midway
<1>5. /\ at' = [at EXCEPT ![c] = at[c]] /\ at[c] \in Nat \ {0} /\ at[c] \in DOMAIN Chain(c)
      /\ clock' = [clock EXCEPT ![c] = clock[c]] /\ clock[c] \in Time \cup {None}
      /\ clock[c] # None => clock[c] <= now
  BY <1>1, <1>2, PlaceFits, ClockFits
<1>6. IInv'
  BY <1>1, <1>2, <1>3, <1>4, <1>5, CallStep
<1> QED
  BY <1>1, <1>6, UnmovedLaws

-----------------------------------------------------------------------------
(* The theorems *)

LEMMA TickStep ==
  ASSUME IInv, Tick
  PROVE  IInv' /\ OpensLaw /\ ClosesLaw
<1>1. /\ now < MaxTime /\ now' = now + 1
      /\ UNCHANGED <<breaker, given, pc, at, attempt, clock, after, crossed>>
  BY DEF Tick
<1>2. now' \in Time /\ kind' = kind /\ chain' = chain
  BY <1>1, ConstantsFit DEF IInv, TypeOK, Time, given
<1>3. TypeOK'
  BY <1>1, <1>2 DEF IInv, TypeOK, Chain
<1>4. ClockPast'
  <2>1. \A d \in Call : clock[d] # None => clock[d] \in Nat /\ now \in Nat
    BY ConstantsFit DEF IInv, TypeOK, Time
  <2> QED
    BY <1>1, <2>1 DEF IInv, ClockPast
<1>5. KnowsStill' /\ BrokenByAnother'
  BY <1>1, <1>2 DEF IInv, KnowsStill, BrokenByAnother, ProviderOf, Chain
<1>6. IInv'
  BY <1>1, <1>3, <1>4, <1>5 DEF IInv, AttemptsLeft, FirstFirst, OnlyOutagesRetried
<1> QED
  BY <1>1, <1>6, UnmovedLaws

LEMMA InitIInv == Init => IInv
<1> SUFFICES ASSUME Init PROVE IInv
  OBVIOUS
<1> DEFINE new == [failures |-> 0, opened |-> None, streak |-> 0, since |-> {}]
<1>1. new \in Breaker
  BY ConstantsFit DEF Breaker
<1>2. new \in Sound
  BY <1>1 DEF Sound
<1>3. breaker \in [Provider -> Sound] /\ breaker \in [Provider -> Breaker]
  BY <1>1, <1>2 DEF Init
<1>4. now \in Time /\ kind \in [Call -> Kind] /\ chain \in [Kind -> Seq(Provider)]
  BY ConstantsFit, RouterAssumption DEF Init, Time
<1>5. pc \in [Call -> Stage \cup Over] /\ at \in [Call -> Nat \ {0}]
  BY DEF Init, Stage
<1>6. /\ attempt \in [Call -> 1 .. Attempts] /\ after \in [Call -> SUBSET Outcome]
      /\ clock \in [Call -> Time \cup {None}] /\ crossed \subseteq Call
  BY ConstantsFit DEF Init
<1>7. \A c \in Call : /\ pc[c] = "new" /\ at[c] = 1 /\ after[c] = {} /\ clock[c] = None
                      /\ pc[c] \notin Midway
  BY DEF Init, Midway, Opening
<1>8. TypeOK
  BY <1>3, <1>4, <1>5, <1>6, <1>7 DEF TypeOK
<1> QED
  BY <1>3, <1>7, <1>8
  DEF IInv, AttemptsLeft, FirstFirst, OnlyOutagesRetried, ClockPast, KnowsStill,
      BrokenByAnother, Midway

LEMMA NextLaws ==
  ASSUME IInv, [Next]_vars
  PROVE  IInv' /\ OpensLaw /\ ClosesLaw
<1>1. CASE UNCHANGED vars
  <2>1. TypeOK'
    BY <1>1 DEF vars, given, IInv, TypeOK, Chain
  <2>2. IInv' /\ UNCHANGED breaker
    BY <1>1, <2>1
    DEF vars, given, IInv, AttemptsLeft, FirstFirst, OnlyOutagesRetried, ClockPast,
        KnowsStill, BrokenByAnother, ProviderOf, Chain
  <2> QED
    BY <2>2, UnmovedLaws
<1>2. ASSUME NEW c \in Call, Step(c) PROVE IInv' /\ OpensLaw /\ ClosesLaw
  BY <1>2, LookStep, ElapseStep, OpenStep, AcceptStep, RejectStep, RefuseStep,
     OutlastStep, AgainStep DEF Step
<1> QED
  BY <1>1, <1>2, BeginStep, TickStep DEF Next

LEMMA IInvHolds == Spec => []IInv
<1>1. IInv /\ [Next]_vars => IInv'
  BY NextLaws
<1> QED
  BY <1>1, InitIInv, PTL DEF Spec

\* Nothing but an outage is followed by another request of the same prompt
\* (_is_infrastructure_failure); while a circuit is open no call has come to that
\* provider since it opened (CircuitBreaker.is_open): those that are there came
\* before; and a call breaks on is_open only where another thread closed the
\* circuit between the two reads of _opened_at.
THEOREM RoutingSafety == Spec => []RoutingIsSound
<1>1. IInv => RoutingIsSound
  <2> SUFFICES ASSUME IInv PROVE OpenKeepsOut
    BY DEF IInv, RoutingIsSound
  <2> QED
    BY DEF IInv, Sound, OpenKeepsOut
<1> QED
  BY <1>1, IInvHolds, PTL

\* A circuit is opened by as many failures in a row as the threshold asks, or by
\* a call whose count another thread's success fell after (record_failure, with
\* time.monotonic between its two writes).
THEOREM OpensSafety == Spec => OpensOnStreak
<1>1. IInv /\ [Next]_vars => [OpensLaw]_vars
  BY NextLaws
<1>2. Spec => [][OpensLaw]_vars
  BY <1>1, IInvHolds, PTL DEF Spec
<1> QED
  BY <1>2, PTL DEF OpensOnStreak, OpensLaw

\* A circuit closes before its cooldown only by the success of a call that was
\* at that provider already when it opened (CircuitBreaker.record_success).
THEOREM ClosesSafety == Spec => ClosesByOldCall
<1>1. IInv /\ [Next]_vars => [ClosesLaw]_vars
  BY NextLaws
<1>2. Spec => [][ClosesLaw]_vars
  BY <1>1, IInvHolds, PTL DEF Spec
<1> QED
  BY <1>2, PTL DEF ClosesByOldCall, ClosesLaw
=============================================================================

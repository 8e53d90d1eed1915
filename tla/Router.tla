------------------------------- MODULE Router -------------------------------
(***************************************************************************)
(* The calls to language models and to transcription services: each walks  *)
(* its chain of providers, tries each a few times, and shares with all     *)
(* other calls one circuit breaker per provider.                           *)
(*                                                                         *)
(* Calls run in threads: the jobs that organize, narrate and transcribe    *)
(* are background tasks of the threadpool, and those that prompt run an    *)
(* event loop of their own there.  The interpreter the image ships         *)
(* switches threads at calls of functions, after a built-in one returned,  *)
(* so a method of a breaker is one step up to its call of time.monotonic,  *)
(* which keeps the time it was given, and another from there.              *)
(***************************************************************************)
EXTENDS Integers, Sequences

CONSTANTS
  Call,
  Provider,
  Load,         \* which calls are prompts and which recordings, and the chains of
                \* get_provider_chain and transcribe_audio: the providers with a key
  Threshold,    \* ai_circuit_failure_threshold
  Cooldown,     \* ai_circuit_cooldown_seconds
  Attempts,     \* ai_max_attempts_per_provider, and _STT_MAX_ATTEMPTS
  MaxTime,      \* bound: the clock stops there
  None

VARIABLES
  now,          \* time.monotonic
  breaker,      \* the circuit breaker of each provider
  kind,         \* what a call is, by Load
  chain,        \* the providers of each kind of call, in order
  pc,           \* where it is, or how it ended
  at,           \* the place in its chain it has come to
  attempt,      \* which attempt at that provider
  clock,        \* the time it holds in the middle of a method, or None
  after,        \* ghost: the answers after which a prompt sent another request
  crossed       \* ghost: those in the middle of a method of a breaker that
                \* another thread has closed meanwhile, or were when they broke

given == <<kind, chain>>
vars == <<now, breaker, given, pc, at, attempt, clock, after, crossed>>

-----------------------------------------------------------------------------

Kind == {"prompt", "audio"}
Time == 0 .. MaxTime
MaxCount == 2 * Threshold    \* bound: a breaker counts no further

\* Ghosts: streak, the calls given up on it since it last answered one; since,
\* the calls admitted since it last opened.
Breaker == [failures : 0 .. MaxCount, opened : Time \cup {None},
            streak : 0 .. Threshold, since : SUBSET Call]

\* outage: timeout, connection error, 408, 429, 5xx.  fatal: any other status,
\* no choices, empty content.  rejected: what the schema does not accept, or a
\* recording the service does not.
Outcome == {"ok", "outage", "fatal", "rejected"}
Over == {"done", "rejected", "refused", "exhausted", "broken"}
Opening == {"open", "refusing"}
Midway == {"elapsed"} \cup Opening
Stage == {"new", "look", "calling", "sleeping"} \cup Midway

ASSUME RouterAssumption ==
  /\ {Threshold, Attempts} \subseteq Nat \ {0}
  /\ {Cooldown, MaxTime} \subseteq Nat
  /\ None \notin Time
  /\ \A l \in Load : l.kind \in [Call -> Kind] /\ l.chain \in [Kind -> Seq(Provider)]

Chain(c) == chain[kind[c]]
ProviderOf(c) == Chain(c)[at[c]]

-----------------------------------------------------------------------------
(* Variants with a plausible bug, which the properties must notice *)

AnyError(o) == o # "ok"                                  \* all is retried
StillOpened(b) == [b EXCEPT !.failures = 0]             \* a probe of an open one
TooSoon(b, t) == t + 1 - b.opened >= Cooldown            \* off by one
KeepCount(b) == [b EXCEPT !.opened = None, !.streak = 0] \* not consecutive ones
SameAttempt(c) == attempt[c]                             \* not counted

-----------------------------------------------------------------------------
(* The circuit breaker *)

Cooled(b, t) == t - b.opened >= Cooldown
HalfOpened(b) == [b EXCEPT !.failures = 0, !.opened = None]
Succeeded(b) == [b EXCEPT !.failures = 0, !.opened = None, !.streak = 0]

UpTo(n, bound) == IF n < bound THEN n + 1 ELSE n
Counted(b) == [b EXCEPT !.failures = UpTo(@, MaxCount), !.streak = UpTo(@, Threshold)]
Due(b) == b.failures >= Threshold /\ b.opened = None
Opened(b, t) == [b EXCEPT !.opened = t, !.since = {}]

Set(p, b) == breaker' = [breaker EXCEPT ![p] = b]
Goto(c, to) == pc' = [pc EXCEPT ![c] = to]
GiveUp(c, how) == Goto(c, how) /\ UNCHANGED <<at, attempt>>

\* A call in the middle of a method holds the time it was given before.
HaltAt(c, to) ==
  /\ GiveUp(c, to)
  /\ clock' = [clock EXCEPT ![c] = now]

Release(c) == clock' = [clock EXCEPT ![c] = None]
InMethodOf(p) == {d \in Call : pc[d] \in Midway /\ ProviderOf(d) = p}

\* Failover and retry are for infrastructure: _is_infrastructure_failure goes by
\* type and status, and what _attempt raises itself is neither.  The retries of a
\* recording do not tell one exception from another.
Outage(o) == o = "outage"
Retried(c, o) == IF kind[c] = "audio" THEN o # "ok" ELSE Outage(o)
NextAttempt(c) == attempt[c] + 1
MoreToTry(c) == attempt[c] < Attempts

-----------------------------------------------------------------------------
(* complete_json, complete_text and transcribe_audio *)

\* The chain is of the providers that have a key, and may be empty.
Begin(c) ==
  /\ pc[c] = "new"
  /\ GiveUp(c, IF Chain(c) = << >> THEN "exhausted" ELSE "look")
  /\ UNCHANGED <<now, breaker, given, clock, after, crossed>>

\* The circuit is not open: the first attempt there.
Enter(c, b) ==
  /\ Goto(c, "calling")
  /\ Set(ProviderOf(c), [b EXCEPT !.since = @ \cup {c}])
  /\ attempt' = [attempt EXCEPT ![c] = 1]
  /\ UNCHANGED at

\* On to the next provider, or the end of the chain.
Onward(c) ==
  IF at[c] < Len(Chain(c))
    THEN /\ Goto(c, "look")
         /\ at' = [at EXCEPT ![c] = @ + 1]
         /\ UNCHANGED attempt
    ELSE GiveUp(c, "exhausted")

\* is_open up to time.monotonic ...
Look(c) ==
  LET b == breaker[ProviderOf(c)] IN
  /\ pc[c] = "look"
  /\ IF b.opened = None
       THEN Enter(c, b) /\ UNCHANGED clock
       ELSE HaltAt(c, "elapsed") /\ UNCHANGED breaker
  /\ UNCHANGED <<now, given, after, crossed>>

\* ... and from there.  If another thread has closed it meanwhile, the subtraction
\* raises, outside every handler of the routers.
Break(c) ==
  /\ breaker[ProviderOf(c)].opened = None
  /\ GiveUp(c, "broken")
  /\ UNCHANGED <<breaker, crossed>>

Probe(c) ==
  LET b == breaker[ProviderOf(c)] IN
  /\ b.opened # None /\ Cooled(b, clock[c])
  /\ Enter(c, HalfOpened(b))
  /\ crossed' = (crossed \cup InMethodOf(ProviderOf(c))) \ {c}

Skip(c) ==
  LET b == breaker[ProviderOf(c)] IN
  /\ b.opened # None /\ ~ Cooled(b, clock[c])
  /\ Onward(c)
  /\ crossed' = crossed \ {c}
  /\ UNCHANGED breaker

Elapse(c) ==
  /\ pc[c] = "elapsed"
  /\ Break(c) \/ Probe(c) \/ Skip(c)
  /\ Release(c)
  /\ UNCHANGED <<now, given, after>>

\* record_failure up to time.monotonic, which it calls where it opens the circuit;
\* then the call goes on, or raises what the provider refused.
Leave(c, stage) == IF stage = "refusing" THEN GiveUp(c, "refused") ELSE Onward(c)

RecordFailure(c, stage) ==
  LET b == Counted(breaker[ProviderOf(c)]) IN
  /\ Set(ProviderOf(c), b)
  /\ IF Due(b) THEN HaltAt(c, stage) ELSE Leave(c, stage) /\ UNCHANGED clock

\* ... and from there, whoever has succeeded meanwhile.
Open(c) ==
  /\ pc[c] \in Opening
  /\ Set(ProviderOf(c), Opened(breaker[ProviderOf(c)], clock[c]))
  /\ Leave(c, pc[c])
  /\ Release(c)
  /\ crossed' = crossed \ {c}
  /\ UNCHANGED <<now, given, after>>

Accept(c) ==
  /\ pc[c] = "calling"
  /\ GiveUp(c, "done")
  /\ Set(ProviderOf(c), Succeeded(breaker[ProviderOf(c)]))
  /\ crossed' = crossed \cup InMethodOf(ProviderOf(c))
  /\ UNCHANGED <<now, given, clock, after>>

\* ProviderRejectedOutput, of complete_json alone, tells the breaker nothing.
Reject(c) ==
  /\ pc[c] = "calling" /\ ~ Retried(c, "rejected")
  /\ GiveUp(c, "rejected")
  /\ UNCHANGED <<now, breaker, given, clock, after, crossed>>

Refuse(c) ==
  /\ pc[c] = "calling" /\ ~ Retried(c, "fatal")
  /\ RecordFailure(c, "refusing")
  /\ UNCHANGED <<now, given, after, crossed>>

\* Once more after a while, whatever has become of the breaker, or the next.
Outlast(c) ==
  \E o \in Outcome :
    /\ pc[c] = "calling" /\ Retried(c, o)
    /\ after' = [after EXCEPT ![c] = IF kind[c] = "audio" THEN @ ELSE @ \cup {o}]
    /\ IF MoreToTry(c)
         THEN GiveUp(c, "sleeping") /\ UNCHANGED <<breaker, clock>>
         ELSE RecordFailure(c, "open")
    /\ UNCHANGED <<now, given, crossed>>

Again(c) ==
  /\ pc[c] = "sleeping"
  /\ Goto(c, "calling")
  /\ attempt' = [attempt EXCEPT ![c] = NextAttempt(c)]
  /\ UNCHANGED <<now, breaker, given, at, clock, after, crossed>>

-----------------------------------------------------------------------------

Tick ==
  /\ now < MaxTime
  /\ now' = now + 1
  /\ UNCHANGED <<breaker, given, pc, at, attempt, clock, after, crossed>>

Init ==
  /\ now = 0
  /\ breaker = [p \in Provider |-> [failures |-> 0, opened |-> None,
                                    streak |-> 0, since |-> {}]]
  /\ \E l \in Load : kind = l.kind /\ chain = l.chain
  /\ pc = [c \in Call |-> "new"]
  /\ at = [c \in Call |-> 1]
  /\ attempt = [c \in Call |-> 1]
  /\ clock = [c \in Call |-> None]
  /\ after = [c \in Call |-> {}]
  /\ crossed = {}

Step(c) ==
  \/ Look(c) \/ Elapse(c) \/ Open(c)
  \/ Accept(c) \/ Reject(c) \/ Refuse(c) \/ Outlast(c) \/ Again(c)

Next == Tick \/ \E c \in Call : Begin(c) \/ Step(c)

\* Threads are scheduled; a request to a model ends, by its timeout at the latest,
\* and a sleep does.  The client of the first transcription service waits without
\* a limit.
Fairness == \A c \in Call : WF_vars(kind[c] # "audio" /\ Step(c))

Spec == Init /\ [][Next]_vars /\ Fairness

-----------------------------------------------------------------------------
(* Properties *)

TypeOK ==
  /\ now \in Time
  /\ breaker \in [Provider -> Breaker]
  /\ kind \in [Call -> Kind]
  /\ chain \in [Kind -> Seq(Provider)]
  /\ pc \in [Call -> Stage \cup Over]
  /\ at \in [Call -> Nat \ {0}]
  /\ \A c \in Call : pc[c] \in Stage \ {"new"} => at[c] \in DOMAIN Chain(c)
  /\ attempt \in [Call -> 1 .. Attempts]
  /\ clock \in [Call -> Time \cup {None}]
  /\ \A c \in Call : pc[c] \in Midway => clock[c] # None
  /\ after \in [Call -> SUBSET Outcome]
  /\ crossed \subseteq Call

\* What is no outage is not hidden behind another request: neither an answer to a
\* prompt that failed validation nor a prompt that is itself wrong.
OnlyOutagesRetried == \A c \in Call : after[c] \subseteq {"outage"}

\* While a circuit is open no call comes to that provider; those that are there
\* came before it opened.
OpenKeepsOut == \A p \in Provider : breaker[p].opened # None => breaker[p].since = {}

\* A call breaks on a breaker only if another thread closed that circuit while the
\* call was in the middle of asking whether it is open.
BrokenByAnother == \A c \in Call : pc[c] = "broken" => c \in crossed

\* The state of the routers is sound: of its types, no prompt sent again after what
\* is no outage, no call at a provider whose circuit keeps it out, and none broken
\* but by another thread.
RoutingIsSound == TypeOK /\ OnlyOutagesRetried /\ OpenKeepsOut /\ BrokenByAnother

\* Only as many failures as the threshold, with no success between them, open a
\* circuit, unless another thread closed it between the count and the opening of
\* the very call that opens it.
OpensOnStreak ==
  [][\A p \in Provider :
       breaker[p].opened = None /\ breaker'[p].opened # None =>
         \/ breaker'[p].streak >= Threshold
         \/ \E c \in crossed : pc[c] \in Opening /\ ProviderOf(c) = p /\ pc'[c] # pc[c]]_vars

\* A circuit closes before its cooldown only through the success of a call that
\* was at that provider before it opened.
ClosesByOldCall ==
  [][\A p \in Provider :
       breaker[p].opened # None /\ breaker'[p].opened = None
         /\ now - breaker[p].opened < Cooldown =>
       \E c \in Call : /\ pc[c] = "calling" /\ pc'[c] = "done"
         /\ ProviderOf(c) = p /\ c \notin breaker[p].since]_vars

\* Every prompt that was begun ends, however the providers fail.
PromptEnds ==
  \A c \in Call : kind[c] # "audio" /\ pc[c] # "new" ~> pc[c] \in Over
=============================================================================

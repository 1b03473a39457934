---------------------------- MODULE ResearchWorkflow ----------------------------
(***************************************************************************)
(* The research stage: one task per domain behind a semaphore, each with   *)
(* retries and a timeout per attempt (ResearchOrchestrator); an attempt is *)
(* a call of the domain's service, which reads its cache, asks its         *)
(* providers one after the other and stores what it found.                 *)
(*                                                                         *)
(* Time is discrete, as in AgentWorkflow: due timers fire and ready        *)
(* callbacks run before time passes, and a provider that is asked may      *)
(* answer at once, later or never.                                         *)
(***************************************************************************)
EXTENDS Naturals, Sequences, FiniteSets

CONSTANTS
  Order,             \* the domains, in the order of `tasks`
  Providers,         \* per domain, how many registered providers support the property
  ParallelismLimit,  \* parallelism_limit
  MaxRetries,        \* max_retries
  Timeout,           \* timeout_seconds, in ticks
  CacheEnabled,      \* cache.enabled
  Ttl                \* cache.ttl_seconds, in ticks

Domains == {Order[i] : i \in DOMAIN Order}

\* ResearchConfig validates nothing; with a limit of 0 or a negative number of retries
\* no domain is ever asked.
ASSUME ConfigIsUsable ==
  /\ ParallelismLimit \in Nat \ {0}
  /\ MaxRetries \in Nat
  /\ Timeout \in Nat \ {0}
  /\ CacheEnabled \in BOOLEAN
  /\ Ttl \in Nat

ASSUME DomainsAreKnown ==
  /\ Order \in Seq(Domains)
  /\ \A i, j \in DOMAIN Order : Order[i] = Order[j] => i = j
  /\ Providers \in [Domains -> Nat]

VARIABLES
  domains,    \* per domain, its task: point reached, attempt, provider asked, timer, outcome
  cache,      \* per domain, the entry its service has for this property
  bypass,     \* the request's bypass_cache
  package,    \* what research() returns
  clock

vars == <<domains, cache, bypass, package, clock>>

-----------------------------------------------------------------------------

Attempts == MaxRetries + 1

\* A result is known by the provider that gave it and by those noted to have failed before.
Results(d) == [from : 0 .. Providers[d], hit : BOOLEAN, notes : SUBSET (1 .. Providers[d])]

NoResult == [from |-> 0, hit |-> FALSE, notes |-> {}]

Entries(d) == [result : Results(d), expires : Nat]

NoEntry == [result |-> NoResult, expires |-> 0]

FinalCodes == {"not_found", "validation_error", "unexpected_error"}

\* Equal warnings are one (_dedupe_warnings); only that of a timeout names its attempt.
Warnings == [code : FinalCodes \cup {"unavailable"}, attempt : {0}] \cup [code : {"timeout"}, attempt : 1 .. Attempts]

Task(d) == [pc : {"queued", "starting", "asking", "returned"}, attempt : 0 .. Attempts,
            provider : 0 .. Providers[d] + 1, due : Nat, notes : SUBSET (1 .. Providers[d]),
            tried : SUBSET (1 .. Providers[d]), result : Results(d), at : Nat, warnings : SUBSET Warnings]

TypeOK ==
  /\ \A d \in Domains : domains[d] \in Task(d) /\ cache[d] \in Entries(d)
  /\ bypass \in BOOLEAN
  /\ package \in [assembled : BOOLEAN, failed : SUBSET Domains, warnings : [Domains -> SUBSET Warnings]]
  /\ clock \in Nat

-----------------------------------------------------------------------------
(* run_domain and _execute_with_retry.                                     *)

Before(e, d) == \E i, j \in DOMAIN Order : i < j /\ Order[i] = e /\ Order[j] = d

\* A domain holds its permit for all its attempts.
HoldsPermit(t) == t.pc \in {"starting", "asking"}

InTurn(d) == domains[d].pc = "queued" /\ \A e \in Domains : domains[e].pc = "queued" => ~Before(e, d)

MayAcquire(d) ==
  InTurn(d) /\ Cardinality({e \in Domains : HoldsPermit(domains[e])}) < ParallelismLimit

Attempt(t, n) ==
  [t EXCEPT !.pc = "starting", !.attempt = n, !.provider = 0, !.notes = {}, !.due = clock + Timeout]

Acquire(d) ==
  /\ MayAcquire(d)
  /\ domains' = [domains EXCEPT ![d] = Attempt(@, 1)]
  /\ UNCHANGED <<cache, bypass, package, clock>>

Warned(t, code) ==
  [t EXCEPT !.warnings = @ \cup {[code |-> code, attempt |-> IF code = "timeout" THEN t.attempt ELSE 0]}]

\* range(attempts + 1) where the code has range(1, attempts + 1).
AfterErrorOffByOne(t, code) ==
  IF code \notin FinalCodes /\ t.attempt <= Attempts THEN Attempt(Warned(t, code), t.attempt + 1)
  ELSE [Warned(t, code) EXCEPT !.pc = "returned"]

\* The loop without its two break statements.
AfterErrorNoBreak(t, code) ==
  IF t.attempt < Attempts THEN Attempt(Warned(t, code), t.attempt + 1)
  ELSE [Warned(t, code) EXCEPT !.pc = "returned"]

\* Every exception becomes a warning; the loop goes on if the error is retryable and an
\* attempt is left.
AfterError(t, code) ==
  IF code \notin FinalCodes /\ t.attempt < Attempts THEN Attempt(Warned(t, code), t.attempt + 1)
  ELSE [Warned(t, code) EXCEPT !.pc = "returned"]

Awaits(d) == domains[d].pc = "asking" /\ domains[d].provider <= Providers[d]

\* A call that is awaited without wait_for.
NeverDue(d) == FALSE

Due(d) == Awaits(d) /\ clock >= domains[d].due

\* The timer of wait_for cancels the call of the service, whichever provider it awaits.
TimeOut(d) ==
  /\ Due(d)
  /\ domains' = [domains EXCEPT ![d] = AfterError(@, "timeout")]
  /\ UNCHANGED <<cache, bypass, package, clock>>

-----------------------------------------------------------------------------
(* research() of the four domain services.                                 *)

UsesCache == CacheEnabled /\ ~bypass

\* An entry served at the instant of its expiry.
FreshAtExpiry(entry) == entry.result.from # 0 /\ entry.expires >= clock

\* InMemoryResearchCache.get: expired at the instant of its expiry.
Fresh(entry) == entry.result.from # 0 /\ entry.expires > clock

\* The cache comes first in every attempt. An expired entry is dropped.
Hit(d) ==
  /\ domains[d].pc = "starting"
  /\ UsesCache
  /\ Fresh(cache[d])
  /\ domains' = [domains EXCEPT ![d] =
       [@ EXCEPT !.pc = "returned", !.at = clock, !.result = [cache[d].result EXCEPT !.hit = TRUE]]]
  /\ UNCHANGED <<cache, bypass, package, clock>>

Miss(d) ==
  /\ domains[d].pc = "starting"
  /\ ~(UsesCache /\ Fresh(cache[d]))
  /\ domains' = [domains EXCEPT ![d].pc = "asking", ![d].provider = 1]
  /\ cache' = IF UsesCache THEN [cache EXCEPT ![d] = NoEntry] ELSE cache
  /\ UNCHANGED <<bypass, package, clock>>

\* A failing provider ends the call.
FallBackNoMore(d) ==
  /\ Awaits(d)
  /\ domains' = [domains EXCEPT ![d] = [@ EXCEPT !.provider = Providers[d] + 1]]
  /\ UNCHANGED <<cache, bypass, package, clock>>

\* The provider raises; it is noted and the next one is asked.
FallBack(d) ==
  /\ Awaits(d)
  /\ LET p == domains[d].provider
     IN  domains' = [domains EXCEPT ![d].provider = p + 1, ![d].notes = @ \cup {p}, ![d].tried = @ \cup {p}]
  /\ UNCHANGED <<cache, bypass, package, clock>>

\* None is left, or there was none. The attempt ends with a retryable error.
Unavailable(d) ==
  /\ domains[d].pc = "asking"
  /\ ~Awaits(d)
  /\ domains' = [domains EXCEPT ![d] = AfterError(@, "unavailable")]
  /\ UNCHANGED <<cache, bypass, package, clock>>

\* Errors that no fallback follows: the public records of the property do not exist;
\* the result is not valid, or ranking it fails.
FinalErrors(d) ==
  {"validation_error", "unexpected_error"} \cup (IF d = "public_records" THEN {"not_found"} ELSE {})

Refuse(d) ==
  /\ Awaits(d)
  /\ \E code \in FinalErrors(d) : domains' = [domains EXCEPT ![d] = AfterError(@, code)]
  /\ UNCHANGED <<cache, bypass, package, clock>>

Stored(d, result) ==
  IF UsesCache THEN [cache EXCEPT ![d] = [result |-> result, expires |-> clock + Ttl]] ELSE cache

\* A valid result, with the notes of the providers before; there is no await between
\* this and the store.
Found(d) ==
  /\ Awaits(d)
  /\ LET t      == domains[d]
         result == [from |-> t.provider, hit |-> FALSE, notes |-> t.notes]
     IN  /\ domains' = [domains EXCEPT ![d] = [t EXCEPT !.pc = "returned", !.at = clock, !.result = result]]
         /\ cache' = Stored(d, result)
  /\ UNCHANGED <<bypass, package, clock>>

-----------------------------------------------------------------------------

\* gather() of tasks that never raise; then the package is put together.
Assemble ==
  /\ ~package.assembled
  /\ \A d \in Domains : domains[d].pc = "returned"
  /\ package' = [assembled |-> TRUE,
                 failed |-> {d \in Domains : domains[d].result.from = 0},
                 warnings |-> [d \in Domains |-> domains[d].warnings]]
  /\ UNCHANGED <<domains, cache, bypass, clock>>

\* A domain that need not wait for a provider.
Ready == \E d \in Domains : MayAcquire(d) \/ Due(d) \/ (HoldsPermit(domains[d]) /\ ~Awaits(d))

\* Time passes while a timer runs and nothing is ready.
Tick ==
  /\ ~Ready
  /\ \E d \in Domains : Awaits(d) /\ clock < domains[d].due
  /\ clock' = clock + 1
  /\ UNCHANGED <<domains, cache, bypass, package>>

\* The service may have served an earlier request for the property: its entry is of
\* some provider, with those before it noted, and has part of its time left or none.
EntriesBefore(d) ==
  {NoEntry} \cup
  {[result |-> [from |-> from, hit |-> FALSE, notes |-> 1 .. from - 1], expires |-> left] :
     from \in 1 .. Providers[d], left \in IF CacheEnabled THEN 0 .. Ttl ELSE {}}

CacheBefore == {c \in [Domains -> UNION {EntriesBefore(d) : d \in Domains}] : \A d \in Domains : c[d] \in EntriesBefore(d)}

Init ==
  /\ domains = [d \in Domains |->
       [pc |-> "queued", attempt |-> 0, provider |-> 0, due |-> 0, notes |-> {}, tried |-> {},
        result |-> NoResult, at |-> 0, warnings |-> {}]]
  /\ cache \in CacheBefore
  /\ bypass \in BOOLEAN
  /\ package = [assembled |-> FALSE, failed |-> {}, warnings |-> [d \in Domains |-> {}]]
  /\ clock = 0

\* What the event loop does by itself; the answers of the providers are not among it.
Proceeds(d) == Acquire(d) \/ Hit(d) \/ Miss(d) \/ Unavailable(d) \/ TimeOut(d)

Answers(d) == FallBack(d) \/ Refuse(d) \/ Found(d)

Next == (\E d \in Domains : Proceeds(d) \/ Answers(d)) \/ Assemble \/ Tick

Spec == Init /\ [][Next]_vars

\* Timers fire, ready callbacks run and time passes. No provider need answer.
Fairness ==
  /\ \A d \in Domains : WF_vars(Proceeds(d))
  /\ WF_vars(Assemble)
  /\ WF_vars(Tick)

FairSpec == Spec /\ Fairness

===============================================================================

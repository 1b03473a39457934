----------------------------- MODULE ResearchProofs -----------------------------
(***************************************************************************)
(* Proofs about the research of a property, for any domains, providers,    *)
(* limits and cache: the warnings of a domain are the account of its       *)
(* attempts, its result and what its service has cached belong together,   *)
(* and the package tells both as they were.                                *)
(***************************************************************************)
EXTENDS ResearchProperties, TLAPS, FiniteSetTheorems

Timeouts(n) == {[code |-> "timeout", attempt |-> i] : i \in 1 .. n}

NoneLeft == [code |-> "unavailable", attempt |-> 0]

EndedFinally(warnings) == \E w \in warnings : w.code \in FinalCodes

\* The attempts before the n-th left a warning each, unless providers ran out, which is told once.
Accounted(warnings, n) == NoneLeft \in warnings \/ warnings = Timeouts(n - 1)

\* A task of a domain with `last` providers.
TaskIsSound(t, last) ==
  /\ t.pc = "queued" => t.attempt = 0 /\ t.warnings = {}
  /\ t.pc \in {"starting", "asking"} => t.attempt # 0 /\ Accounted(t.warnings, t.attempt)
  /\ t.pc = "starting" => t.notes = {}
  /\ t.pc = "asking" => t.provider # 0 /\ t.notes = 1 .. t.provider - 1 /\ t.notes \subseteq t.tried
  /\ t.pc # "returned" => t.result.from = 0 /\ ~EndedFinally(t.warnings)
  /\ NoneLeft \in t.warnings => t.tried = 1 .. last
  /\ t.attempt > 1 => t.warnings # {}
  /\ t.result.from # 0 => t.result.notes = 1 .. t.result.from - 1 /\ ~EndedFinally(t.warnings)
  /\ t.pc = "returned" /\ t.result.from = 0 /\ ~EndedFinally(t.warnings) =>
       t.attempt = Attempts /\ Accounted(t.warnings, Attempts + 1)

EntryIsSound(entry) == entry.result.from # 0 => entry.result.notes = 1 .. entry.result.from - 1

\* What was returned is what the service had, or what it now has.
Honest(t, entry, uses) ==
  t.pc = "returned" /\ t.result.from # 0 =>
    IF t.result.hit THEN uses /\ entry.expires > t.at /\ entry.result.from = t.result.from
    ELSE uses => entry = [result |-> t.result, expires |-> t.at + Ttl]

ResearchInv ==
  /\ TypeOK
  /\ DOMAIN domains = Domains /\ DOMAIN cache = Domains
  /\ \A d \in Domains :
       /\ TaskIsSound(domains[d], Providers[d])
       /\ EntryIsSound(cache[d])
       /\ Honest(domains[d], cache[d], UsesCache)
  /\ package.assembled => \A d \in Domains :
       /\ domains[d].pc = "returned"
       /\ package.warnings[d] = domains[d].warnings
       /\ d \in package.failed <=> domains[d].result.from = 0

-----------------------------------------------------------------------------
(* Warnings. *)

LEMMA ConfigFacts == Attempts \in Nat /\ Attempts > 0 /\ \A d \in Domains : Providers[d] \in Nat
BY ConfigIsUsable, DomainsAreKnown DEF Attempts

LEMMA TimeoutsCount ==
  ASSUME NEW n \in Nat
  PROVE  Cardinality(Timeouts(n)) = n
<1> DEFINE f == [i \in 1 .. n |-> [code |-> "timeout", attempt |-> i]]
<1>1. f \in Bijection(1 .. n, Timeouts(n))
  <2>1. \A i \in 1 .. n : f[i] \in Timeouts(n)
    BY DEF Timeouts
  <2>2. f \in [1 .. n -> Timeouts(n)]
    BY <2>1
  <2>3. \A i, j \in 1 .. n : f[i] = f[j] => i = j
    OBVIOUS
  <2>4. \A w \in Timeouts(n) : \E i \in 1 .. n : f[i] = w
    BY DEF Timeouts
  <2> HIDE DEF f
  <2> QED
    BY <2>2, <2>3, <2>4 DEF Bijection, Injection, Surjection, IsInjective
<1> QED
  BY <1>1, FS_CountingElements DEF ExistsBijection

\* One attempt more that timed out.
LEMMA TimeoutsGrow ==
  ASSUME NEW n \in Nat \ {0}
  PROVE  Timeouts(n - 1) \cup {[code |-> "timeout", attempt |-> n]} = Timeouts(n)
<1>1. 1 .. n = (1 .. n - 1) \cup {n}
  OBVIOUS
<1> HIDE DEF Timeouts
<1>2. ASSUME NEW w PROVE w \in Timeouts(n) <=> w \in Timeouts(n - 1) \/ w = [code |-> "timeout", attempt |-> n]
  BY <1>1 DEF Timeouts
<1> QED
  BY <1>2

-----------------------------------------------------------------------------
(* Tasks. *)

\* The next attempt starts anew and keeps the account.
LEMMA AttemptIsSound ==
  ASSUME TypeOK, NEW d \in Domains, NEW t \in Task(d), NEW n \in 1 .. Attempts,
         t.result.from = 0, ~EndedFinally(t.warnings), Accounted(t.warnings, n),
         NoneLeft \in t.warnings => t.tried = 1 .. Providers[d],
         n > 1 => t.warnings # {}
  PROVE  /\ Attempt(t, n) \in Task(d) /\ TaskIsSound(Attempt(t, n), Providers[d])
         /\ Attempt(t, n).pc # "returned"
<1> DEFINE next == Attempt(t, n)
<1>1. clock + Timeout \in Nat
  BY ConfigIsUsable DEF TypeOK
<1>2. n \in 0 .. Attempts /\ 0 \in 0 .. Providers[d] + 1 /\ n # 0
  BY ConfigFacts
<1>3. next = [t EXCEPT !.pc = "starting", !.attempt = n, !.provider = 0, !.notes = {}, !.due = clock + Timeout]
  BY DEF Attempt
<1>4. next \in Task(d)
  BY <1>1, <1>2, <1>3 DEF Task
<1>5. /\ next.pc = "starting" /\ next.attempt = n /\ next.result = t.result /\ next.notes = {}
      /\ next.warnings = t.warnings /\ next.tried = t.tried
  BY <1>3 DEF Task
<1> HIDE DEF next
<1>6. TaskIsSound(next, Providers[d])
  BY <1>2, <1>5 DEF TaskIsSound
<1> QED
  BY <1>4, <1>5, <1>6 DEF next

\* After an error the account holds one warning more.
LEMMA ErrorIsSound ==
  ASSUME TypeOK, NEW d \in Domains, NEW t \in Task(d), t.pc = "asking", TaskIsSound(t, Providers[d]),
         NEW code \in FinalCodes \cup {"timeout", "unavailable"},
         code = "unavailable" => t.tried = 1 .. Providers[d]
  PROVE  LET next == AfterError(t, code)
         IN  /\ next \in Task(d) /\ TaskIsSound(next, Providers[d])
             /\ next.result.from = 0
<1> DEFINE warning == [code |-> code, attempt |-> IF code = "timeout" THEN t.attempt ELSE 0]
           warned == Warned(t, code)
<1>1. t.attempt \in 1 .. Attempts /\ t.attempt \in Nat \ {0} /\ t.result.from = 0 /\ ~EndedFinally(t.warnings)
      /\ Accounted(t.warnings, t.attempt)
  BY ConfigFacts DEF TaskIsSound, Task
<1>2. warned = [t EXCEPT !.warnings = @ \cup {warning}]
  BY DEF Warned
<1>3. warning \in Warnings
  BY <1>1 DEF Warnings
<1>4. /\ warned \in Task(d) /\ warned.warnings = t.warnings \cup {warning} /\ warned.tried = t.tried
      /\ warned.attempt = t.attempt /\ warned.result = t.result
  BY <1>2, <1>3 DEF Task
<1>5. Accounted(t.warnings \cup {warning}, t.attempt + 1) \/ code \in FinalCodes
  <2>1. t.attempt + 1 - 1 = t.attempt
    BY <1>1
  <2>2. CASE code = "timeout"
    <3>1. warning = [code |-> "timeout", attempt |-> t.attempt]
      BY <2>2
    <3>2. Timeouts(t.attempt - 1) \cup {warning} = Timeouts(t.attempt)
      BY <1>1, <3>1, TimeoutsGrow
    <3> QED
      BY <1>1, <2>1, <3>2 DEF Accounted
  <2>3. CASE code = "unavailable"
    BY <2>3 DEF Accounted, NoneLeft
  <2> QED
    BY <2>2, <2>3
<1>6. EndedFinally(t.warnings \cup {warning}) <=> code \in FinalCodes
  <2>1. warning.code = code
    OBVIOUS
  <2> HIDE DEF warning
  <2> QED
    BY <1>1, <2>1 DEF EndedFinally
<1>7. NoneLeft \in t.warnings \cup {warning} => t.tried = 1 .. Providers[d]
  <2>1. NoneLeft = warning => code = "unavailable"
    BY DEF NoneLeft
  <2> QED
    BY <2>1 DEF TaskIsSound
<1> HIDE DEF warned, warning
<1>8. CASE code \notin FinalCodes /\ t.attempt < Attempts
  <2>1. AfterError(t, code) = Attempt(warned, t.attempt + 1)
    BY <1>8 DEF AfterError, warned
  <2>2. t.attempt + 1 \in 1 .. Attempts
    BY <1>1, <1>8, ConfigFacts
  <2>3. /\ warned.result.from = 0 /\ ~EndedFinally(warned.warnings)
        /\ Accounted(warned.warnings, t.attempt + 1)
        /\ NoneLeft \in warned.warnings => warned.tried = 1 .. Providers[d]
        /\ warned.warnings # {}
    BY <1>1, <1>4, <1>5, <1>6, <1>7, <1>8
  <2>4. Attempt(warned, t.attempt + 1).result = warned.result
    BY <1>4 DEF Attempt, Task
  <2> DEFINE n == t.attempt + 1
  <2>5. n \in 1 .. Attempts /\ warned \in Task(d)
    BY <1>4, <2>2
  <2>6. /\ warned.result.from = 0 /\ ~EndedFinally(warned.warnings) /\ Accounted(warned.warnings, n)
        /\ NoneLeft \in warned.warnings => warned.tried = 1 .. Providers[d]
        /\ n > 1 => warned.warnings # {}
    BY <2>3
  <2> HIDE DEF n
  <2>7. Attempt(warned, n) \in Task(d) /\ TaskIsSound(Attempt(warned, n), Providers[d])
    BY <2>5, <2>6, AttemptIsSound
  <2> QED
    BY <2>1, <2>3, <2>4, <2>7 DEF n
<1>9. CASE ~(code \notin FinalCodes /\ t.attempt < Attempts)
  <2> DEFINE ended == [warned EXCEPT !.pc = "returned"]
  <2>1. AfterError(t, code) = ended
    BY <1>9 DEF AfterError, warned
  <2>2. /\ ended \in Task(d) /\ ended.pc = "returned" /\ ended.warnings = t.warnings \cup {warning}
        /\ ended.tried = t.tried /\ ended.attempt = t.attempt /\ ended.result = t.result
    BY <1>4 DEF Task
  <2>3. code \notin FinalCodes => t.attempt = Attempts
    BY <1>1, <1>9, ConfigFacts
  <2> HIDE DEF ended
  <2>4. TaskIsSound(ended, Providers[d])
    BY <1>1, <1>5, <1>6, <1>7, <2>2, <2>3 DEF TaskIsSound
  <2> QED
    BY <1>1, <2>1, <2>2, <2>4
<1> QED
  BY <1>8, <1>9

-----------------------------------------------------------------------------
(* Steps. *)

\* A domain that has not returned moves to t, and its service's entry to c.
LEMMA OneDomainMoves ==
  ASSUME ResearchInv, NEW d \in Domains, NEW t \in Task(d), NEW c \in Entries(d),
         domains[d].pc # "returned",
         DOMAIN domains' = Domains, domains'[d] = t, \A e \in Domains \ {d} : domains'[e] = domains[e],
         DOMAIN cache' = Domains, cache'[d] = c, \A e \in Domains \ {d} : cache'[e] = cache[e],
         UNCHANGED <<bypass, package, clock>>,
         TaskIsSound(t, Providers[d]), EntryIsSound(c), Honest(t, c, UsesCache)
  PROVE  ResearchInv'
<1>1. TypeOK'
  BY DEF ResearchInv, TypeOK
<1>2. UsesCache' = UsesCache
  BY DEF UsesCache
<1>3. ~package.assembled
  BY DEF ResearchInv
<1>4. ASSUME NEW e \in Domains
      PROVE  /\ TaskIsSound(domains'[e], Providers[e]) /\ EntryIsSound(cache'[e])
             /\ Honest(domains'[e], cache'[e], UsesCache')
  <2>1. CASE e = d
    BY <1>2, <2>1
  <2>2. CASE e # d
    <3>1. domains'[e] = domains[e] /\ cache'[e] = cache[e]
      BY <2>2
    <3>2. TaskIsSound(domains[e], Providers[e]) /\ EntryIsSound(cache[e]) /\ Honest(domains[e], cache[e], UsesCache)
      BY DEF ResearchInv
    <3> QED
      BY <1>2, <3>1, <3>2
  <2> QED
    BY <2>1, <2>2
<1> QED
  BY <1>1, <1>3, <1>4 DEF ResearchInv

\* What the steps start from.
LEMMA TaskFacts ==
  ASSUME ResearchInv, NEW d \in Domains
  PROVE  /\ TypeOK /\ domains[d] \in Task(d) /\ cache[d] \in Entries(d)
         /\ TaskIsSound(domains[d], Providers[d]) /\ EntryIsSound(cache[d])
         /\ Providers[d] \in Nat /\ clock \in Nat /\ DOMAIN domains = Domains /\ DOMAIN cache = Domains
BY ConfigFacts DEF ResearchInv, TypeOK

\* The domain goes on without a result, and its entry stays.
LEMMA DomainGoesOn ==
  ASSUME ResearchInv, NEW d \in Domains, NEW t \in Task(d), domains[d].pc # "returned",
         domains' = [domains EXCEPT ![d] = t], UNCHANGED <<cache, bypass, package, clock>>,
         TaskIsSound(t, Providers[d]), t.result.from = 0
  PROVE  ResearchInv'
<1>1. Honest(t, cache[d], UsesCache)
  BY DEF Honest
<1>2. /\ DOMAIN domains' = Domains /\ domains'[d] = t /\ \A e \in Domains \ {d} : domains'[e] = domains[e]
      /\ DOMAIN cache' = Domains /\ cache'[d] = cache[d] /\ \A e \in Domains \ {d} : cache'[e] = cache[e]
  BY TaskFacts
<1> QED
  BY <1>1, <1>2, TaskFacts, OneDomainMoves

LEMMA AcquireKeeps ==
  ASSUME ResearchInv, NEW d \in Domains, Acquire(d)
  PROVE  ResearchInv'
<1> DEFINE t == domains[d]
           next == Attempt(t, 1)
<1>1. t \in Task(d) /\ t.pc = "queued" /\ t.result.from = 0 /\ t.warnings = {} /\ TypeOK
  BY TaskFacts DEF Acquire, MayAcquire, InTurn, TaskIsSound
<1>2. Accounted(t.warnings, 1) /\ ~EndedFinally(t.warnings) /\ NoneLeft \notin t.warnings
  <2>1. Timeouts(1 - 1) = {}
    BY DEF Timeouts
  <2> QED
    BY <1>1, <2>1 DEF Accounted, EndedFinally
<1>3. 1 \in 1 .. Attempts
  BY ConfigFacts
<1>4. next \in Task(d) /\ TaskIsSound(next, Providers[d])
  <2> HIDE DEF t
  <2>1. ~(1 > 1)
    OBVIOUS
  <2> QED
    BY <1>1, <1>2, <1>3, <2>1, AttemptIsSound
<1>5. next.result = t.result
  BY <1>1 DEF Attempt, Task
<1>6. domains' = [domains EXCEPT ![d] = next] /\ UNCHANGED <<cache, bypass, package, clock>>
  BY DEF Acquire
<1> HIDE DEF next
<1> QED
  BY <1>1, <1>4, <1>5, <1>6, DomainGoesOn

\* An error of any kind.
LEMMA ErrorKeeps ==
  ASSUME ResearchInv, NEW d \in Domains, NEW code \in FinalCodes \cup {"timeout", "unavailable"},
         domains[d].pc = "asking", code = "unavailable" => domains[d].tried = 1 .. Providers[d],
         domains' = [domains EXCEPT ![d] = AfterError(domains[d], code)],
         UNCHANGED <<cache, bypass, package, clock>>
  PROVE  ResearchInv'
<1> DEFINE next == AfterError(domains[d], code)
<1>1. next \in Task(d) /\ TaskIsSound(next, Providers[d]) /\ next.result.from = 0
  BY TaskFacts, ErrorIsSound
<1>2. domains' = [domains EXCEPT ![d] = next] /\ domains[d].pc # "returned"
  OBVIOUS
<1> HIDE DEF next
<1> QED
  BY <1>1, <1>2, DomainGoesOn

LEMMA TimeOutKeeps ==
  ASSUME ResearchInv, NEW d \in Domains, TimeOut(d)
  PROVE  ResearchInv'
<1>1. domains[d].pc = "asking"
  BY DEF TimeOut, Due, Awaits
<1> QED
  BY <1>1, ErrorKeeps DEF TimeOut

LEMMA RefuseKeeps ==
  ASSUME ResearchInv, NEW d \in Domains, Refuse(d)
  PROVE  ResearchInv'
<1>1. PICK code \in FinalErrors(d) : domains' = [domains EXCEPT ![d] = AfterError(@, code)]
  BY DEF Refuse
<1>2. code \in FinalCodes /\ code # "unavailable"
  BY DEF FinalErrors, FinalCodes
<1>3. domains[d].pc = "asking" /\ UNCHANGED <<cache, bypass, package, clock>>
  BY DEF Refuse, Awaits
<1> QED
  BY <1>1, <1>2, <1>3, ErrorKeeps

\* Whoever gets to the end of the list has asked every provider.
LEMMA UnavailableKeeps ==
  ASSUME ResearchInv, NEW d \in Domains, Unavailable(d)
  PROVE  ResearchInv'
<1> DEFINE t == domains[d]
<1>1. t.pc = "asking" /\ ~(t.provider <= Providers[d])
  BY DEF Unavailable, Awaits
<1>2. t \in Task(d) /\ Providers[d] \in Nat /\ t.notes = 1 .. t.provider - 1 /\ t.notes \subseteq t.tried
  BY <1>1, TaskFacts DEF TaskIsSound
<1>3. t.provider = Providers[d] + 1 /\ t.tried \subseteq 1 .. Providers[d]
  BY <1>1, <1>2 DEF Task
<1>4. t.provider - 1 = Providers[d]
  BY <1>2, <1>3
<1>5. t.tried = 1 .. Providers[d]
  BY <1>2, <1>3, <1>4
<1>6. domains' = [domains EXCEPT ![d] = AfterError(domains[d], "unavailable")] /\ UNCHANGED <<cache, bypass, package, clock>>
  BY DEF Unavailable
<1> QED
  BY <1>1, <1>5, <1>6, ErrorKeeps

LEMMA FallBackKeeps ==
  ASSUME ResearchInv, NEW d \in Domains, FallBack(d)
  PROVE  ResearchInv'
<1> DEFINE t    == domains[d]
           p    == t.provider
           next == [t EXCEPT !.provider = p + 1, !.notes = @ \cup {p}, !.tried = @ \cup {p}]
<1>1. t.pc = "asking" /\ p <= Providers[d]
  BY DEF FallBack, Awaits
<1>2. /\ t \in Task(d) /\ Providers[d] \in Nat /\ t.notes = 1 .. p - 1 /\ p # 0 /\ t.notes \subseteq t.tried
      /\ t.attempt # 0 /\ Accounted(t.warnings, t.attempt) /\ t.result.from = 0 /\ ~EndedFinally(t.warnings)
      /\ NoneLeft \in t.warnings => t.tried = 1 .. Providers[d]
      /\ t.attempt > 1 => t.warnings # {}
  BY <1>1, TaskFacts DEF TaskIsSound
<1>3. p \in 1 .. Providers[d] /\ p + 1 \in 0 .. Providers[d] + 1 /\ p + 1 # 0
  BY <1>1, <1>2 DEF Task
<1>4. next \in Task(d)
  BY <1>2, <1>3 DEF Task
<1>5. /\ next.pc = "asking" /\ next.provider = p + 1 /\ next.notes = t.notes \cup {p}
      /\ next.tried = t.tried \cup {p} /\ next.attempt = t.attempt /\ next.result = t.result
      /\ next.warnings = t.warnings
  BY <1>1, <1>2 DEF Task
<1>6. t.notes \cup {p} = 1 .. (p + 1) - 1
  BY <1>2, <1>3
<1>7. domains' = [domains EXCEPT ![d] = next] /\ UNCHANGED <<cache, bypass, package, clock>>
  BY TaskFacts DEF FallBack
<1>8. NoneLeft \in t.warnings => t.tried \cup {p} = 1 .. Providers[d]
  BY <1>2, <1>3
<1> HIDE DEF next
<1>9. TaskIsSound(next, Providers[d])
  <2> HIDE DEF p, t
  <2> QED
    BY <1>2, <1>3, <1>5, <1>6, <1>8 DEF TaskIsSound
<1> QED
  BY <1>1, <1>2, <1>4, <1>5, <1>7, <1>9, DomainGoesOn

LEMMA HitKeeps ==
  ASSUME ResearchInv, NEW d \in Domains, Hit(d)
  PROVE  ResearchInv'
<1> DEFINE t      == domains[d]
           result == [cache[d].result EXCEPT !.hit = TRUE]
           next   == [t EXCEPT !.pc = "returned", !.at = clock, !.result = result]
<1>1. /\ t.pc = "starting" /\ UsesCache /\ cache[d].result.from # 0 /\ cache[d].expires > clock
      /\ domains' = [domains EXCEPT ![d] = next] /\ UNCHANGED <<cache, bypass, package, clock>>
  BY DEF Hit, Fresh
<1>2. t \in Task(d) /\ cache[d] \in Entries(d) /\ TaskIsSound(t, Providers[d]) /\ EntryIsSound(cache[d]) /\ clock \in Nat
  BY TaskFacts
<1>3. /\ result \in Results(d) /\ result.hit /\ result.from = cache[d].result.from
      /\ result.notes = cache[d].result.notes
  BY <1>2 DEF Entries, Results
<1> HIDE DEF result
<1>4. next \in Task(d)
  BY <1>2, <1>3 DEF Task
<1>5. /\ next.pc = "returned" /\ next.at = clock /\ next.result = result /\ next.attempt = t.attempt
      /\ next.warnings = t.warnings /\ next.tried = t.tried
  BY <1>2 DEF Task
<1> HIDE DEF next
<1>6. TaskIsSound(next, Providers[d])
  BY <1>1, <1>2, <1>3, <1>5 DEF TaskIsSound, EntryIsSound
<1>7. Honest(next, cache[d], UsesCache)
  BY <1>1, <1>3, <1>5 DEF Honest
<1>8. /\ DOMAIN domains' = Domains /\ domains'[d] = next /\ \A e \in Domains \ {d} : domains'[e] = domains[e]
      /\ DOMAIN cache' = Domains /\ cache'[d] = cache[d] /\ \A e \in Domains \ {d} : cache'[e] = cache[e]
  BY <1>1, TaskFacts
<1> QED
  BY <1>1, <1>2, <1>4, <1>6, <1>7, <1>8, OneDomainMoves

LEMMA MissKeeps ==
  ASSUME ResearchInv, NEW d \in Domains, Miss(d)
  PROVE  ResearchInv'
<1> DEFINE t     == domains[d]
           next  == [t EXCEPT !.pc = "asking", !.provider = 1]
           entry == IF UsesCache THEN NoEntry ELSE cache[d]
<1>1. /\ t.pc = "starting" /\ UNCHANGED <<bypass, package, clock>>
      /\ domains' = [domains EXCEPT ![d] = next]
      /\ cache' = IF UsesCache THEN [cache EXCEPT ![d] = NoEntry] ELSE cache
  BY TaskFacts DEF Miss
<1>2. t \in Task(d) /\ cache[d] \in Entries(d) /\ TaskIsSound(t, Providers[d]) /\ EntryIsSound(cache[d]) /\ Providers[d] \in Nat
  BY TaskFacts
<1>3. NoEntry \in Entries(d) /\ EntryIsSound(NoEntry)
  BY <1>2 DEF NoEntry, NoResult, Entries, Results, EntryIsSound
<1>4. next \in Task(d)
  <2>1. 1 \in 0 .. Providers[d] + 1
    BY <1>2
  <2> QED
    BY <1>2, <2>1 DEF Task
<1>5. /\ next.pc = "asking" /\ next.provider = 1 /\ next.notes = t.notes /\ next.result = t.result
      /\ next.attempt = t.attempt /\ next.warnings = t.warnings /\ next.tried = t.tried
  BY <1>2 DEF Task
<1>6. t.notes = {} /\ 1 .. 1 - 1 = {}
  BY <1>1, <1>2 DEF TaskIsSound
<1> HIDE DEF next
<1>7. TaskIsSound(next, Providers[d]) /\ next.result.from = 0
  BY <1>1, <1>2, <1>5, <1>6 DEF TaskIsSound
<1>8. Honest(next, entry, UsesCache)
  BY <1>7 DEF Honest
<1>9. /\ DOMAIN domains' = Domains /\ domains'[d] = next /\ \A e \in Domains \ {d} : domains'[e] = domains[e]
      /\ DOMAIN cache' = Domains /\ cache'[d] = entry /\ \A e \in Domains \ {d} : cache'[e] = cache[e]
  BY <1>1, TaskFacts
<1>10. entry \in Entries(d) /\ EntryIsSound(entry)
  BY <1>2, <1>3
<1> HIDE DEF entry
<1> QED
  BY <1>1, <1>4, <1>7, <1>8, <1>9, <1>10, OneDomainMoves

LEMMA FoundKeeps ==
  ASSUME ResearchInv, NEW d \in Domains, Found(d)
  PROVE  ResearchInv'
<1> DEFINE t      == domains[d]
           result == [from |-> t.provider, hit |-> FALSE, notes |-> t.notes]
           next   == [t EXCEPT !.pc = "returned", !.at = clock, !.result = result]
           stored == [result |-> result, expires |-> clock + Ttl]
           entry  == IF UsesCache THEN stored ELSE cache[d]
<1>1. /\ t.pc = "asking" /\ t.provider <= Providers[d] /\ UNCHANGED <<bypass, package, clock>>
      /\ domains' = [domains EXCEPT ![d] = next]
      /\ cache' = IF UsesCache THEN [cache EXCEPT ![d] = stored] ELSE cache
  BY DEF Found, Awaits, Stored
<1>2. /\ t \in Task(d) /\ cache[d] \in Entries(d) /\ TaskIsSound(t, Providers[d]) /\ EntryIsSound(cache[d])
      /\ Providers[d] \in Nat /\ clock \in Nat /\ clock + Ttl \in Nat
  BY TaskFacts, ConfigIsUsable
<1>3. t.notes = 1 .. t.provider - 1 /\ t.provider # 0
  BY <1>1, <1>2 DEF TaskIsSound
<1>4. t.provider \in 0 .. Providers[d] /\ t.notes \subseteq 1 .. Providers[d]
  BY <1>1, <1>2 DEF Task
<1>5. /\ result \in Results(d) /\ result.from = t.provider /\ result.notes = t.notes /\ ~result.hit
  BY <1>4 DEF Results
<1> HIDE DEF result
<1>6. next \in Task(d)
  BY <1>2, <1>5 DEF Task
<1>7. /\ next.pc = "returned" /\ next.at = clock /\ next.result = result /\ next.attempt = t.attempt
      /\ next.warnings = t.warnings /\ next.tried = t.tried
  BY <1>2 DEF Task
<1> HIDE DEF next
<1>8. TaskIsSound(next, Providers[d])
  BY <1>1, <1>2, <1>3, <1>5, <1>7 DEF TaskIsSound
<1>9. stored \in Entries(d) /\ EntryIsSound(stored)
  BY <1>2, <1>3, <1>5 DEF Entries, EntryIsSound
<1>10. entry \in Entries(d) /\ EntryIsSound(entry)
  BY <1>2, <1>9
<1>11. Honest(next, entry, UsesCache)
  BY <1>5, <1>7 DEF Honest
<1>12. /\ DOMAIN domains' = Domains /\ domains'[d] = next /\ \A e \in Domains \ {d} : domains'[e] = domains[e]
       /\ DOMAIN cache' = Domains /\ cache'[d] = entry /\ \A e \in Domains \ {d} : cache'[e] = cache[e]
  BY <1>1, TaskFacts
<1> HIDE DEF entry, stored
<1> QED
  BY <1>1, <1>6, <1>8, <1>10, <1>11, <1>12, OneDomainMoves

LEMMA AssembleKeeps ==
  ASSUME ResearchInv, Assemble
  PROVE  ResearchInv'
<1> DEFINE failed   == {d \in Domains : domains[d].result.from = 0}
           warnings == [d \in Domains |-> domains[d].warnings]
<1>1. /\ package' = [assembled |-> TRUE, failed |-> failed, warnings |-> warnings]
      /\ \A d \in Domains : domains[d].pc = "returned"
      /\ UNCHANGED <<domains, cache, bypass, clock>>
  BY DEF Assemble
<1>2. TypeOK' /\ UsesCache' = UsesCache
  <2>1. warnings \in [Domains -> SUBSET Warnings]
    BY DEF ResearchInv, TypeOK, Task
  <2>2. package' \in [assembled : BOOLEAN, failed : SUBSET Domains, warnings : [Domains -> SUBSET Warnings]]
    BY <1>1, <2>1
  <2> QED
    BY <1>1, <2>2 DEF ResearchInv, TypeOK, UsesCache
<1>3. ASSUME NEW d \in Domains
      PROVE  /\ package'.warnings[d] = domains'[d].warnings
             /\ d \in package'.failed <=> domains'[d].result.from = 0
  BY <1>1
<1> QED
  BY <1>1, <1>2, <1>3 DEF ResearchInv

\* An entry may expire after it was served: nothing compares it with the clock again.
LEMMA TickKeeps ==
  ASSUME ResearchInv, Tick
  PROVE  ResearchInv'
<1>1. UNCHANGED <<domains, cache, bypass, package>> /\ clock' = clock + 1
  BY DEF Tick
<1>2. TypeOK' /\ UsesCache' = UsesCache
  BY <1>1 DEF ResearchInv, TypeOK, UsesCache
<1> QED
  BY <1>1, <1>2 DEF ResearchInv

LEMMA ResearchInvInit ==
  ASSUME Init
  PROVE  ResearchInv
<1>1. /\ bypass \in BOOLEAN /\ clock = 0 /\ ~package.assembled
      /\ package = [assembled |-> FALSE, failed |-> {}, warnings |-> [d \in Domains |-> {}]]
      /\ DOMAIN domains = Domains
  BY DEF Init
<1>2. /\ DOMAIN cache = Domains
      /\ \A d \in Domains : cache[d] \in EntriesBefore(d)
  <2>1. cache \in CacheBefore
    BY DEF Init
  <2> QED
    BY <2>1 DEF CacheBefore
<1>3. ASSUME NEW d \in Domains
      PROVE  cache[d] \in Entries(d) /\ EntryIsSound(cache[d])
  <2>1. Providers[d] \in Nat
    BY ConfigFacts
  <2>2. CASE cache[d] = NoEntry
    BY <2>1, <2>2 DEF NoEntry, NoResult, Entries, Results, EntryIsSound
  <2>3. CASE cache[d] # NoEntry
    <3>1. PICK from \in 1 .. Providers[d], left \in IF CacheEnabled THEN 0 .. Ttl ELSE {} :
            cache[d] = [result |-> [from |-> from, hit |-> FALSE, notes |-> 1 .. from - 1], expires |-> left]
      BY <1>2, <2>3 DEF EntriesBefore
    <3>2. left \in Nat
      BY ConfigIsUsable
    <3>3. 1 .. from - 1 \subseteq 1 .. Providers[d] /\ from \in 0 .. Providers[d]
      BY <2>1
    <3> QED
      BY <3>1, <3>2, <3>3 DEF Entries, Results, EntryIsSound
  <2> QED
    BY <2>2, <2>3
<1>4. ASSUME NEW d \in Domains
      PROVE  /\ domains[d] \in Task(d) /\ TaskIsSound(domains[d], Providers[d])
             /\ Honest(domains[d], cache[d], UsesCache)
  <2>1. domains[d] = [pc |-> "queued", attempt |-> 0, provider |-> 0, due |-> 0, notes |-> {}, tried |-> {},
                      result |-> NoResult, at |-> 0, warnings |-> {}]
    BY DEF Init
  <2>2. Providers[d] \in Nat /\ Attempts \in Nat
    BY ConfigFacts
  <2>3. domains[d] \in Task(d)
    BY <2>1, <2>2 DEF Task, Results, NoResult
  <2>4. TaskIsSound(domains[d], Providers[d])
    BY <2>1 DEF TaskIsSound, NoResult, EndedFinally
  <2>5. Honest(domains[d], cache[d], UsesCache)
    BY <2>1 DEF Honest
  <2> QED
    BY <2>3, <2>4, <2>5
<1>5. TypeOK
  <2>1. package \in [assembled : BOOLEAN, failed : SUBSET Domains, warnings : [Domains -> SUBSET Warnings]]
    BY <1>1
  <2> QED
    BY <1>1, <1>3, <1>4, <2>1 DEF TypeOK
<1> QED
  BY <1>1, <1>2, <1>3, <1>4, <1>5 DEF ResearchInv

LEMMA ResearchInvSteps ==
  ASSUME ResearchInv, [Next]_vars
  PROVE  ResearchInv'
<1>1. CASE \E d \in Domains : Proceeds(d)
  <2>1. PICK d \in Domains : Acquire(d) \/ Hit(d) \/ Miss(d) \/ Unavailable(d) \/ TimeOut(d)
    BY <1>1 DEF Proceeds
  <2> QED
    BY <2>1, AcquireKeeps, HitKeeps, MissKeeps, UnavailableKeeps, TimeOutKeeps
<1>2. CASE \E d \in Domains : Answers(d)
  <2>1. PICK d \in Domains : FallBack(d) \/ Refuse(d) \/ Found(d)
    BY <1>2 DEF Answers
  <2> QED
    BY <2>1, FallBackKeeps, RefuseKeeps, FoundKeeps
<1>3. CASE Assemble
  BY <1>3, AssembleKeeps
<1>4. CASE Tick
  BY <1>4, TickKeeps
<1>5. CASE UNCHANGED vars
  BY <1>5 DEF vars, ResearchInv, TypeOK, UsesCache
<1> QED
  BY <1>1, <1>2, <1>3, <1>4, <1>5 DEF Next

-----------------------------------------------------------------------------
(* Theorems. *)

\* The inductive invariant, for any domains, providers, limits and earlier cache content.
THEOREM ResearchIsSound == Spec => []ResearchInv
<1>1. Init => ResearchInv
  BY ResearchInvInit
<1>2. ResearchInv /\ [Next]_vars => ResearchInv'
  BY ResearchInvSteps
<1> QED
  BY <1>1, <1>2, PTL DEF Spec

\* Tasks, entries and the package are of their types: no attempt beyond the configured
\* ones, no provider beyond those registered.
THEOREM ResearchIsTyped == Spec => []TypeOK
<1>1. ResearchInv => TypeOK
  BY DEF ResearchInv
<1> QED
  BY <1>1, ResearchIsSound, PTL

\* A missing domain is explained by a final error, by `unavailable`, or by as many
\* timeouts as attempts were allowed (_execute_with_retry).
THEOREM MissingDomainsAreWarned == Spec => []FailuresAreWarned
<1>1. ResearchInv => FailuresAreWarned
  <2> SUFFICES ASSUME ResearchInv, package.assembled, NEW d \in Domains
               PROVE  /\ d \in package.failed <=> domains[d].result.from = 0
                      /\ d \in package.failed /\ Codes(d) \cap FinalCodes = {} =>
                           /\ domains[d].attempt = Attempts
                           /\ "unavailable" \in Codes(d) \/ Cardinality(package.warnings[d]) = Attempts
                      /\ Codes(d) \cap FinalCodes # {} => d \in package.failed
                      /\ domains[d].attempt > 1 => package.warnings[d] # {}
    BY DEF FailuresAreWarned
  <2> DEFINE t == domains[d]
  <2>1. /\ t.pc = "returned" /\ package.warnings[d] = t.warnings
        /\ d \in package.failed <=> t.result.from = 0
    BY DEF ResearchInv
  <2>2. TaskIsSound(t, Providers[d])
    BY TaskFacts
  <2>3. Codes(d) \cap FinalCodes # {} <=> EndedFinally(t.warnings)
    BY <2>1 DEF Codes, EndedFinally
  <2>4. ASSUME t.result.from = 0, ~EndedFinally(t.warnings)
        PROVE  t.attempt = Attempts /\ ("unavailable" \in Codes(d) \/ Cardinality(t.warnings) = Attempts)
    <3>1. t.attempt = Attempts /\ Accounted(t.warnings, Attempts + 1)
      BY <2>1, <2>2, <2>4 DEF TaskIsSound
    <3>2. Attempts \in Nat /\ Attempts + 1 - 1 = Attempts
      BY ConfigFacts
    <3>3. CASE NoneLeft \in t.warnings
      BY <2>1, <3>1, <3>3 DEF Codes, NoneLeft
    <3>4. CASE t.warnings = Timeouts(Attempts)
      BY <3>1, <3>2, <3>4, TimeoutsCount
    <3> QED
      BY <3>1, <3>2, <3>3, <3>4 DEF Accounted
  <2>5. EndedFinally(t.warnings) => t.result.from = 0
    BY <2>2 DEF TaskIsSound
  <2>6. t.attempt > 1 => t.warnings # {}
    BY <2>2 DEF TaskIsSound
  <2> HIDE DEF t
  <2>7. /\ t.pc = "returned" /\ package.warnings[d] = t.warnings
    BY <2>1
  <2> QED
    BY <2>1, <2>3, <2>4, <2>5, <2>6 DEF t
<1> QED
  BY <1>1, ResearchIsSound, PTL

\* Fallback asks every provider before it gives up, and notes those that failed.
THEOREM FallbackAsksEveryone == Spec => []FallbackIsComplete
<1>1. ResearchInv => FallbackIsComplete
  BY TaskFacts DEF FallbackIsComplete, TaskIsSound, NoneLeft
<1> QED
  BY <1>1, ResearchIsSound, PTL

\* What the cache serves had time left, and what was found is what it now has.
THEOREM CacheStaysHonest == Spec => []CacheIsHonest
<1>1. ResearchInv => CacheIsHonest
  BY DEF ResearchInv, CacheIsHonest, Honest, Returned
<1> QED
  BY <1>1, ResearchIsSound, PTL

===============================================================================

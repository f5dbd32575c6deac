------------------------- MODULE CompilationProofs -------------------------
(***************************************************************************)
(* Proofs about Compilation, for any set of runbooks of any length, any    *)
(* number of request threads and any bounds.                               *)
(*                                                                         *)
(* Fits says what a thread knows where it is: the stages it has passed,    *)
(* that the query it asks was built for the schema of its step, and that   *)
(* an answer that was returned was accepted. With what the tables hold it  *)
(* is inductive and implies TypeOK, QueriesAreGrounded and PlansAreSound.  *)
(***************************************************************************)
EXTENDS Compilation, PlannerProofs

Grounded(s) == \A a \in {s.raw, s.compiled} \ {None} : s.fields => a.flaw = None

\* A step as it is recorded.
Recorded(s) ==
  /\ Grounded(s)
  /\ s.status = "SUCCESS" => None \notin {s.raw, s.compiled} /\ s.error = None
  /\ s.status = "FAILED" => s.error # None

\* The step a thread works on.
InProgress(w) ==
  /\ Grounded(w.step)
  /\ w.step.status = "FAILED" /\ w.step.error = None
  /\ w.stage # "generate" => w.step.raw # None
  /\ w.stage = "explain" => w.step.compiled # None

\* Task w and call q of one thread.
Fits(w, q) ==
  /\ w \in Task /\ q \in Query /\ q.link <= Len(Chain)
  /\ w.pc # "idle" => w.book \in Runbooks
  /\ w.pc \in {"schema", "query", "validate"} => Len(w.done) < Len(w.book)
  /\ w.pc = "plan" => Len(w.done) = Len(w.book)
  /\ w.pc = "query" <=> q.pc # "idle"
  /\ w.pc = "query" => q.key.fields = w.step.fields
  /\ q.pc \in {"judge", "returned"} => q.answer # None
  /\ q.pc = "returned" /\ q.key.fields => q.answer.flaw = None
  /\ w.pc = "schema" => w.step = NewStep /\ w.stage = "generate"
  /\ w.pc \in {"query", "validate"} => InProgress(w)
  /\ w.pc = "validate" => /\ w.step.raw # None /\ w.stage \in {"generate", "optimize"}
                          /\ w.stage = "optimize" => w.step.compiled # None
  /\ \A i \in DOMAIN w.done : Recorded(w.done[i])

ThreadsFit ==
  /\ task \in [Threads -> Task] /\ query \in [Threads -> Query]
  /\ \A t \in Threads : Fits(task[t], query[t])

CachesOK ==
  /\ cached \in [Providers -> SUBSET [key: Key, entry: Entry]]
  /\ \A p \in Providers : \A c, d \in cached[p] : c.key = d.key => c = d
  /\ lastCall \in [Providers -> -Interval..MaxTime]
  /\ now \in Time

ResponsesOK ==
  \A r \in responses : IsResponse(r) /\ \A i \in DOMAIN r.steps : Recorded(r.steps[i])

TablesOK ==
  /\ schema \in [Sources -> BOOLEAN \cup {None}]
  /\ budget \in 0..MaxSteps
  /\ ResponsesOK

Inv == ThreadsFit /\ CachesOK /\ TablesOK

-----------------------------------------------------------------------------
(* Types.                                                                  *)

LEMMA Members ==
  /\ NewStep \in CompiledStep
  /\ NoKey \in Key
  /\ NoQuery \in Query
  /\ NoTask \in Task
  /\ Len(Chain) \in 1..2
  /\ \A i \in 1..Len(Chain) : Chain[i] \in Providers
  /\ \A s \in Source : Resolve(s) \in Source
<1>1. NewStep \in CompiledStep
  BY DEF NewStep, CompiledStep
<1>2. NoKey \in Key
  BY DEF NoKey, Key, Source
<1>3. NoQuery \in Query
  BY <1>2 DEF NoQuery, Query
<1>4. NoTask \in Task
  BY <1>1 DEF NoTask, Task, Stages, Source
<1>5. Len(Chain) \in 1..2 /\ \A i \in 1..Len(Chain) : Chain[i] \in Providers
  BY ProviderAssumptions DEF Chain, Providers
<1>6. \A s \in Source : Resolve(s) \in Source
  BY ProviderAssumptions DEF Resolve, Source
<1>. QED BY <1>1, <1>2, <1>3, <1>4, <1>5, <1>6

LEMMA NoQueryIdle == NoQuery \in Query /\ NoQuery.pc = "idle" /\ NoQuery.link <= Len(Chain)
<1>1. NoQuery \in Query
  BY Members
<1>2. PICK n \in 1..2 : n = Len(Chain)
  BY Members, Zenon
<1>3. PICK q : q = NoQuery
  OBVIOUS
<1>4. q.pc = "idle" /\ q.link = 1
  BY <1>3 DEF NoQuery
<1>5. q.link <= n
  BY <1>4
<1>. QED BY <1>1, <1>2, <1>3, <1>4, <1>5, Zenon

\* The steps of a runbook.
LEMMA StepOfBook ==
  ASSUME NEW book \in Runbooks, NEW i \in 1..Len(book)
  PROVE  book[i] \in Step /\ book[i].text \in Nat /\ book[i].source \in Source
<1>1. book \in Seq(Step)
  BY CompilationAssumptions DEF Runbook
<1>2. book[i] \in Step
  BY <1>1
<1>. QED BY <1>2 DEF Step, Source

\* One thread goes on with task w and call q.
LEMMA ThreadMoves ==
  ASSUME ThreadsFit, NEW t \in Threads, NEW w, NEW q, Fits(w, q),
         task' = [task EXCEPT ![t] = w], query' = [query EXCEPT ![t] = q]
  PROVE  ThreadsFit'
<1>1. w \in Task /\ q \in Query
  BY DEF Fits
<1>2. task' \in [Threads -> Task] /\ query' \in [Threads -> Query]
  BY <1>1 DEF ThreadsFit
<1>3. ASSUME NEW u \in Threads PROVE Fits(task'[u], query'[u])
  <2>1. CASE u = t
    BY <2>1 DEF ThreadsFit
  <2>2. CASE u # t
    <3>1. task'[u] = task[u] /\ query'[u] = query[u]
      BY <2>2 DEF ThreadsFit
    <3>. QED BY <3>1 DEF ThreadsFit
  <2>. QED BY <2>1, <2>2
<1>4. (\A u \in Threads : Fits(task[u], query[u]))'
  BY <1>3 DEF Fits
<1>. QED BY <1>2, <1>4 DEF ThreadsFit

\* The task after a step is recorded.
RecordedTask(w, step) ==
  LET done == Append(w.done, step)
      more == Len(done) < Len(w.book)
  IN  [w EXCEPT !.pc = IF more THEN "schema" ELSE "plan", !.done = done, !.step = NewStep,
                !.stage = "generate",
                !.source = IF more THEN w.book[Len(done) + 1].source ELSE None]

LEMMA RecordFits ==
  ASSUME NEW w \in Task, w.book \in Runbooks, Len(w.done) < Len(w.book),
         \A i \in DOMAIN w.done : Recorded(w.done[i]),
         NEW step \in CompiledStep, Recorded(step),
         NEW q \in Query, q.pc = "idle", q.link <= Len(Chain)
  PROVE  Fits(RecordedTask(w, step), q)
<1>1. PICK done : done = Append(w.done, step)
  OBVIOUS
<1>2. w.done \in Seq(CompiledStep) /\ Len(w.book) \in Nat
  BY CompilationAssumptions DEF Task, Runbook
<1>3. /\ done \in Seq(CompiledStep) /\ Len(done) = Len(w.done) + 1 /\ Len(done) <= Len(w.book)
      /\ DOMAIN done = 1..Len(w.done) + 1
      /\ \A i \in 1..Len(w.done) : done[i] = w.done[i]
      /\ done[Len(w.done) + 1] = step
  BY <1>1, <1>2
<1>4. \A i \in DOMAIN done : Recorded(done[i])
  BY <1>2, <1>3
<1>5. PICK source : source = IF Len(done) < Len(w.book) THEN w.book[Len(done) + 1].source ELSE None
  OBVIOUS
<1>6. source \in Source
  <2>1. CASE Len(done) < Len(w.book)
    BY <1>2, <1>3, <1>5, <2>1, StepOfBook
  <2>2. CASE ~(Len(done) < Len(w.book))
    BY <1>5, <2>2 DEF Source
  <2>. QED BY <2>1, <2>2
<1>7. PICK v : v = RecordedTask(w, step)
  OBVIOUS
<1>8. PICK pc : pc = IF Len(done) < Len(w.book) THEN "schema" ELSE "plan"
  OBVIOUS
<1>9. v = [w EXCEPT !.pc = pc, !.done = done, !.step = NewStep, !.stage = "generate", !.source = source]
  BY <1>1, <1>5, <1>7, <1>8 DEF RecordedTask
<1>10. /\ v \in Task /\ v.pc = pc /\ v.done = done /\ v.book = w.book
       /\ v.step = NewStep /\ v.stage = "generate"
  <2>1. pc \in {"idle", "schema", "query", "validate", "plan"} /\ NewStep \in CompiledStep
    BY <1>8, Members
  <2> HIDE DEF NewStep, CompiledStep
  <2>. QED BY <1>3, <1>6, <1>9, <2>1 DEF Task, Stages
<1>11. \/ v.pc = "schema" /\ Len(v.done) < Len(v.book)
       \/ v.pc = "plan" /\ Len(v.done) = Len(v.book)
  BY <1>2, <1>3, <1>8, <1>10
<1>12. Fits(v, q)
  BY <1>4, <1>10, <1>11 DEF Fits
<1>. QED BY <1>7, <1>12

-----------------------------------------------------------------------------
(* The calls of generate_spl.                                              *)

\* What a thread's call may become while its task waits for it.
LEMMA CallGoesOn ==
  ASSUME ThreadsFit, NEW t \in Threads, NEW q \in Query, query[t].pc # "idle",
         task' = task, query' = [query EXCEPT ![t] = q],
         q.pc # "idle", q.link <= Len(Chain), q.key.fields = query[t].key.fields,
         q.pc \in {"judge", "returned"} => q.answer # None,
         q.pc = "returned" /\ q.key.fields => q.answer.flaw = None
  PROVE  ThreadsFit'
<1>1. Fits(task[t], query[t])
  BY DEF ThreadsFit
<1>2. Fits(task[t], q)
  BY <1>1 DEF Fits
<1>3. task' = [task EXCEPT ![t] = task[t]]
  BY DEF ThreadsFit
<1>. QED BY <1>2, <1>3, ThreadMoves

\* A call that goes to another place with the same key and answer.
LEMMA CallMoves ==
  ASSUME ThreadsFit, NEW t \in Threads, query[t].pc # "idle", task' = task,
         NEW l \in {"lookup", "read", "expire", "wait", "ask"}, Goto(t, l)
  PROVE  ThreadsFit'
<1>1. query[t] \in Query /\ query[t].link <= Len(Chain)
  BY DEF ThreadsFit, Fits
<1>2. PICK q : q = [query[t] EXCEPT !.pc = l]
  OBVIOUS
<1>3. q \in Query /\ q.pc = l /\ q.link = query[t].link /\ q.key = query[t].key
  BY <1>1, <1>2 DEF Query
<1>4. query' = [query EXCEPT ![t] = q]
  BY <1>2 DEF Goto, Ask
<1>. QED BY <1>1, <1>3, <1>4, CallGoesOn

LEMMA AttemptFailsFits ==
  ASSUME ThreadsFit, NEW t \in Threads, query[t].pc # "idle", task' = task, AttemptFails(t)
  PROVE  ThreadsFit'
<1>1. query[t] \in Query /\ query[t].link \in 1..2 /\ query[t].link <= Len(Chain)
      /\ query[t].key \in Key
  BY DEF ThreadsFit, Fits, Query
<1>2. PICK n \in 1..2 : n = Len(Chain)
  <2>1. Len(Chain) \in 1..2
    BY Members
  <2>. QED BY <2>1
<1>3. CASE query[t].link < Len(Chain)
  <2>1. PICK k : k = [query[t].key EXCEPT !.feedback = FALSE]
    OBVIOUS
  <2>2. k \in Key /\ k.fields = query[t].key.fields
    BY <1>1, <2>1 DEF Key
  <2>3. PICK i \in 1..2 : i = query[t].link + 1 /\ i <= n
    BY <1>1, <1>2, <1>3
  <2>4. PICK q : q = [query[t] EXCEPT !.pc = "lookup", !.link = i, !.key = k, !.answer = None]
    OBVIOUS
  <2>5. q \in Query /\ q.pc = "lookup" /\ q.link = i /\ q.key = k
    BY <1>1, <2>2, <2>4 DEF Query
  <2>6. query' = [query EXCEPT ![t] = [query[t] EXCEPT !.pc = "lookup", !.link = @ + 1,
                                                       !.key.feedback = FALSE, !.answer = None]]
    BY <1>3 DEF AttemptFails, Ask
  <2>7. query' = [query EXCEPT ![t] = q]
    BY <2>1, <2>3, <2>4, <2>6
  <2>. QED BY <1>2, <2>2, <2>3, <2>5, <2>7, CallGoesOn
<1>4. CASE ~(query[t].link < Len(Chain))
  <2>1. PICK q : q = [query[t] EXCEPT !.pc = "failed", !.answer = None]
    OBVIOUS
  <2>2. q \in Query /\ q.pc = "failed" /\ q.link = query[t].link /\ q.key = query[t].key
    BY <1>1, <2>1 DEF Query
  <2>3. query' = [query EXCEPT ![t] = q]
    BY <1>4, <2>1 DEF AttemptFails, Ask
  <2>. QED BY <1>1, <2>2, <2>3, CallGoesOn
<1>. QED BY <1>3, <1>4

\* A call that gets answer a.
LEMMA CallAnswered ==
  ASSUME ThreadsFit, NEW t \in Threads, query[t].pc # "idle", task' = task,
         NEW a \in Answer, Ask(t, [query[t] EXCEPT !.pc = "judge", !.answer = a])
  PROVE  ThreadsFit'
<1>1. query[t] \in Query /\ query[t].link <= Len(Chain)
  BY DEF ThreadsFit, Fits
<1>2. PICK q : q = [query[t] EXCEPT !.pc = "judge", !.answer = a]
  OBVIOUS
<1>3. q \in Query /\ q.pc = "judge" /\ q.link = query[t].link /\ q.key = query[t].key /\ q.answer = a
  BY <1>1, <1>2 DEF Query
<1>4. query' = [query EXCEPT ![t] = q] /\ a # None
  BY <1>2, ProviderAssumptions DEF Ask
<1>. QED BY <1>1, <1>3, <1>4, CallGoesOn

\* _cache_set keeps one entry per key.
LEMMA StoreKeeps ==
  ASSUME CachesOK, NEW p \in Providers, NEW k \in Key, NEW a \in Answer, Store(p, k, a),
         UNCHANGED <<lastCall, now>>
  PROVE  CachesOK'
<1>1. PICK c : c = [key |-> k, entry |-> [answer |-> a, at |-> now]]
  OBVIOUS
<1>2. c \in [key: Key, entry: Entry] /\ c.key = k
  BY <1>1 DEF CachesOK, Entry
<1>3. PICK kept : kept = {d \in cached[p] : d.key # k}
  OBVIOUS
<1>4. cached' = [cached EXCEPT ![p] = kept \cup {c}]
  BY <1>1, <1>3 DEF Store
<1>5. kept \subseteq cached[p] /\ \A d \in kept : d.key # k
  BY <1>3
<1>6. cached' \in [Providers -> SUBSET [key: Key, entry: Entry]]
  BY <1>2, <1>4, <1>5 DEF CachesOK
<1>7. ASSUME NEW r \in Providers, NEW d \in cached'[r], NEW f \in cached'[r], d.key = f.key
      PROVE  d = f
  <2>1. CASE r = p
    <3>1. d \in kept \cup {c} /\ f \in kept \cup {c}
      BY <1>4, <2>1 DEF CachesOK
    <3>. QED BY <1>2, <1>5, <1>7, <3>1 DEF CachesOK
  <2>2. CASE r # p
    BY <1>4, <1>7, <2>2 DEF CachesOK
  <2>. QED BY <2>1, <2>2
<1>. QED BY <1>6, <1>7 DEF CachesOK

\* What is accepted has no flaw when the fields are known.
LEMMA AcceptableFlawless ==
  ASSUME NEW q \in Query, q.answer # None, Acceptable(q), q.key.fields
  PROVE  q.answer.flaw = None
<1>1. q.answer \in Answer
  BY DEF Query
<1>2. q.answer.flaw \in Flaws \cup {None}
  BY <1>1 DEF Answer
<1>. QED BY <1>2 DEF Acceptable, Hallucinates, BreaksPreferences, Flaws

LEMMA QuerySteps ==
  ASSUME ThreadsFit, CachesOK, NEW t \in Threads, QueryStep(t), task' = task
  PROVE  ThreadsFit' /\ CachesOK'
<1> DEFINE q == query[t]
           p == Provider(t)
<1>a. q \in Query /\ q.key \in Key /\ q.link \in 1..2 /\ q.link <= Len(Chain)
  BY DEF ThreadsFit, Fits, Query
<1>b. p \in Providers
  <2>1. Len(Chain) \in 1..2 /\ \A i \in 1..Len(Chain) : Chain[i] \in Providers
    BY Members
  <2>2. q.link \in 1..Len(Chain)
    BY <1>a, <2>1
  <2>. QED BY <2>1, <2>2 DEF Provider
<1>c. UNCHANGED <<cached, lastCall, now>> => CachesOK'
  BY DEF CachesOK
<1> HIDE DEF p
<1>1. CASE Lookup(t)
  <2>1. q.pc # "idle" /\ \E l \in {"wait", "read"} : Goto(t, l)
    BY <1>1 DEF Lookup, In
  <2>. QED BY <1>1, <1>c, <2>1, CallMoves DEF Lookup
<1>2. CASE Read(t)
  <2>1. q.pc # "idle" /\ UNCHANGED <<cached, lastCall, now>>
    BY <1>2 DEF Read, In
  <2>2. \/ AttemptFails(t)
        \/ Goto(t, "expire")
        \/ \E c \in cached[p] : Ask(t, [q EXCEPT !.pc = "judge", !.answer = c.entry.answer])
    BY <1>2 DEF Read, EntriesFor, p
  <2>3. \A c \in cached[p] : c.entry.answer \in Answer
    BY <1>b DEF CachesOK, Entry
  <2>. QED BY <1>c, <2>1, <2>2, <2>3, AttemptFailsFits, CallMoves, CallAnswered
<1>3. CASE Expire(t)
  <2>1. q.pc # "idle" /\ (AttemptFails(t) \/ Goto(t, "wait"))
    BY <1>3 DEF Expire, In
  <2>2. /\ cached' = [cached EXCEPT ![p] = @ \ EntriesFor(p, q.key)]
        /\ UNCHANGED <<lastCall, now>>
    BY <1>3 DEF Expire, p
  <2>3. CachesOK'
    BY <1>b, <2>2 DEF CachesOK
  <2>. QED BY <2>1, <2>3, AttemptFailsFits, CallMoves
<1>4. CASE RateWait(t)
  <2>1. q.pc # "idle" /\ Goto(t, "ask") /\ lastCall' = [lastCall EXCEPT ![p] = now]
        /\ UNCHANGED <<cached, now>>
    BY <1>4 DEF RateWait, In, p
  <2>2. now \in -Interval..MaxTime
    BY ProviderAssumptions DEF CachesOK, Time
  <2>3. CachesOK'
    BY <1>b, <2>1, <2>2 DEF CachesOK
  <2>. QED BY <2>1, <2>3, CallMoves
<1>5. CASE Answered(t)
  <2>1. PICK a \in Answers(p, q.key) :
          Store(p, q.key, a) /\ Ask(t, [q EXCEPT !.pc = "judge", !.answer = a])
    BY <1>5 DEF Answered, p
  <2>2. a \in Answer
    <3>1. q.key.source \in Source
      BY <1>a DEF Key
    <3>2. \A f \in Flaws \cup {None}, e \in {"model", "local"}, r \in Providers :
            [provider |-> r, source |-> q.key.source, flaw |-> f, explained |-> e] \in Answer
      BY <3>1 DEF Answer
    <3>3. /\ ClaudeAnswers(q.key) \subseteq Answer
          /\ OpenRouterAnswers(q.key) \subseteq Answer
          /\ GeminiAnswers(q.key) \subseteq Answer
      <4>1. ASSUME NEW x \in ClaudeAnswers(q.key) PROVE x \in Answer
        <5>1. PICK f \in Flaws \cup {None}, e \in {"model", "local"} :
                x = [provider |-> "claude", source |-> q.key.source, flaw |-> f, explained |-> e]
          BY DEF ClaudeAnswers
        <5>. QED BY <3>2, <5>1 DEF Providers
      <4>2. ASSUME NEW x \in OpenRouterAnswers(q.key) \cup GeminiAnswers(q.key) PROVE x \in Answer
        <5>1. PICK f \in Flaws \cup {None}, r \in Providers :
                x = [provider |-> r, source |-> q.key.source, flaw |-> f, explained |-> "local"]
          BY DEF OpenRouterAnswers, GeminiAnswers, Providers
        <5>. QED BY <3>2, <5>1
      <4>. QED BY <4>1, <4>2
    <3>. QED BY <2>1, <3>3 DEF Answers
  <2>3. q.pc # "idle" /\ UNCHANGED <<lastCall, now>>
    BY <1>5 DEF Answered, In
  <2>. QED BY <1>a, <1>b, <2>1, <2>2, <2>3, StoreKeeps, CallAnswered
<1>6. CASE CallFails(t)
  BY <1>6, <1>c, AttemptFailsFits DEF CallFails, In
<1>7. CASE Judge(t)
  <2>1. q.pc = "judge" /\ q.answer # None /\ UNCHANGED <<cached, lastCall, now>>
    BY <1>7 DEF Judge, In, ThreadsFit, Fits
  <2>2. CASE Acceptable(q)
    <3>1. PICK r : r = [q EXCEPT !.pc = "returned"]
      OBVIOUS
    <3>2. /\ r \in Query /\ r.pc = "returned" /\ r.link = q.link /\ r.key = q.key
          /\ r.answer = q.answer
      BY <1>a, <3>1 DEF Query
    <3>3. query' = [query EXCEPT ![t] = r]
      BY <1>7, <2>2, <3>1 DEF Judge, Goto, Ask
    <3>4. q.key.fields => q.answer.flaw = None
      BY <1>a, <2>1, <2>2, AcceptableFlawless
    <3>. QED BY <1>a, <1>c, <2>1, <3>2, <3>3, <3>4, CallGoesOn
  <2>3. CASE ~Acceptable(q) /\ q.key.feedback
    <3>1. AttemptFails(t)
      BY <1>7, <2>3 DEF Judge
    <3>. QED BY <1>c, <2>1, <3>1, AttemptFailsFits
  <2>4. CASE ~Acceptable(q) /\ ~q.key.feedback
    <3>1. PICK k : k = [q.key EXCEPT !.feedback = TRUE]
      OBVIOUS
    <3>2. k \in Key /\ k.fields = q.key.fields
      BY <1>a, <3>1 DEF Key
    <3>3. PICK r : r = [q EXCEPT !.pc = "lookup", !.key = k, !.answer = None]
      OBVIOUS
    <3>4. r \in Query /\ r.pc = "lookup" /\ r.link = q.link /\ r.key = k
      BY <1>a, <3>2, <3>3 DEF Query
    <3>5. query' = [query EXCEPT ![t] = [q EXCEPT !.pc = "lookup", !.key.feedback = TRUE, !.answer = None]]
      BY <1>7, <2>4 DEF Judge, Ask
    <3>6. query' = [query EXCEPT ![t] = r]
      BY <3>1, <3>3, <3>5
    <3>. QED BY <1>a, <1>c, <2>1, <3>2, <3>4, <3>6, CallGoesOn
  <2>. QED BY <2>2, <2>3, <2>4
<1>. QED BY <1>1, <1>2, <1>3, <1>4, <1>5, <1>6, <1>7 DEF QueryStep

-----------------------------------------------------------------------------
(* The stages of a step.                                                   *)

\* A thread begins a query for its step: the first one, or that of the next stage.
LEMMA BeginsQuery ==
  ASSUME ThreadsFit, NEW t \in Threads, task[t].pc \in {"schema", "validate"},
         NEW stage \in Stages, NEW step \in CompiledStep,
         Work(t, [task[t] EXCEPT !.pc = "query", !.stage = stage, !.step = step, !.source = Resolve(@)]),
         BeginQuery(t, Current(t).text, task[t].source, step.fields),
         Grounded(step), step.status = "FAILED", step.error = None,
         stage # "generate" => step.raw # None, stage = "explain" => step.compiled # None
  PROVE  ThreadsFit'
<1>1. PICK w : w = task[t]
  OBVIOUS
<1>2. /\ w \in Task /\ w.book \in Runbooks /\ Len(w.done) < Len(w.book)
      /\ \A i \in DOMAIN w.done : Recorded(w.done[i])
  BY <1>1 DEF ThreadsFit, Fits
<1>3. Current(t).text \in Nat
  <2>1. Len(w.done) + 1 \in 1..Len(w.book)
    BY <1>2, CompilationAssumptions DEF Task, Runbook
  <2>. QED BY <1>1, <1>2, <2>1, StepOfBook DEF Current
<1>4. Resolve(w.source) \in Source
  BY <1>2, Members DEF Task
<1>5. step.fields \in BOOLEAN
  BY DEF CompiledStep
<1>6. PICK k : k = [text |-> Current(t).text, source |-> Resolve(w.source), fields |-> step.fields,
                    feedback |-> FALSE]
  OBVIOUS
<1>7. k \in Key /\ k.fields = step.fields
  BY <1>3, <1>4, <1>5, <1>6 DEF Key
<1>8. PICK q : q = [NoQuery EXCEPT !.pc = "lookup", !.key = k]
  OBVIOUS
<1>9. q \in Query /\ q.pc = "lookup" /\ q.key = k /\ q.link = 1
  <2>1. NoQuery \in Query
    BY Members
  <2>2. NoQuery.link = 1
    BY DEF NoQuery
  <2>. QED BY <1>7, <1>8, <2>1, <2>2 DEF Query
<1>10. q.link <= Len(Chain)
  <2>1. PICK n \in 1..2 : n = Len(Chain)
    BY Members, Zenon
  <2>2. q.link <= n
    BY <1>9
  <2>. QED BY <2>1, <2>2, Zenon
<1>11. PICK v : v = [w EXCEPT !.pc = "query", !.stage = stage, !.step = step, !.source = Resolve(w.source)]
  OBVIOUS
<1>12. /\ v \in Task /\ v.pc = "query" /\ v.book = w.book /\ v.done = w.done /\ v.step = step
       /\ v.stage = stage
  <2> HIDE DEF CompiledStep, Stages
  <2>. QED BY <1>2, <1>4, <1>11 DEF Task
<1>13. InProgress(v)
  BY <1>12 DEF InProgress
<1>14. Fits(v, q)
  BY <1>2, <1>7, <1>9, <1>10, <1>12, <1>13 DEF Fits
<1>15. task' = [task EXCEPT ![t] = v] /\ query' = [query EXCEPT ![t] = q]
  BY <1>1, <1>6, <1>8, <1>11 DEF Work, BeginQuery, Ask
<1>. QED BY <1>14, <1>15, ThreadMoves

\* What thread t compiles, and what it may record.
LEMMA Records ==
  ASSUME ThreadsFit, NEW t \in Threads, task[t].pc \in {"query", "validate"},
         NEW step \in CompiledStep, Recorded(step), Record(t, step),
         NEW q \in Query, q.pc = "idle", q.link <= Len(Chain), query' = [query EXCEPT ![t] = q]
  PROVE  ThreadsFit'
<1>1. /\ task[t] \in Task /\ task[t].book \in Runbooks /\ Len(task[t].done) < Len(task[t].book)
      /\ \A i \in DOMAIN task[t].done : Recorded(task[t].done[i])
  BY DEF ThreadsFit, Fits
<1>2. Fits(RecordedTask(task[t], step), q)
  BY <1>1, RecordFits
<1>3. task' = [task EXCEPT ![t] = RecordedTask(task[t], step)]
  BY DEF Record, RecordedTask, Work
<1>. QED BY <1>2, <1>3, ThreadMoves

LEMMA Fails ==
  ASSUME ThreadsFit, NEW t \in Threads, task[t].pc \in {"query", "validate"},
         NEW error \in Errors, Fail(t, error),
         NEW q \in Query, q.pc = "idle", q.link <= Len(Chain), query' = [query EXCEPT ![t] = q]
  PROVE  ThreadsFit'
<1>1. task[t].step \in CompiledStep /\ InProgress(task[t])
  BY DEF ThreadsFit, Fits, Task
<1>2. PICK step : step = [task[t].step EXCEPT !.error = error]
  OBVIOUS
<1>3. /\ step \in CompiledStep /\ step.error = error /\ step.status = task[t].step.status
      /\ step.raw = task[t].step.raw /\ step.compiled = task[t].step.compiled
      /\ step.fields = task[t].step.fields
  BY <1>1, <1>2 DEF CompiledStep
<1>4. error # None
  BY CompilationAssumptions
<1>5. Recorded(step)
  BY <1>1, <1>3, <1>4 DEF Recorded, InProgress, Grounded
<1>. QED BY <1>2, <1>3, <1>5, Records DEF Fail

\* A task that got a query, of a stage before the last.
LEMMA GetsQuery ==
  ASSUME ThreadsFit, NEW t \in Threads, query[t].pc = "returned",
         NEW step \in CompiledStep, NEW stage \in {"generate", "optimize"}, task[t].stage = stage,
         \/ stage = "generate" /\ step = [task[t].step EXCEPT !.raw = query[t].answer]
         \/ stage = "optimize" /\ step = [task[t].step EXCEPT !.compiled = query[t].answer],
         Work(t, [task[t] EXCEPT !.pc = "validate", !.step = step]), Ask(t, NoQuery)
  PROVE  ThreadsFit'
<1>1. PICK w : w = task[t]
  OBVIOUS
<1>2. PICK a : a = query[t].answer
  OBVIOUS
<1>3. /\ w \in Task /\ w.pc = "query" /\ w.book \in Runbooks /\ Len(w.done) < Len(w.book)
      /\ InProgress(w) /\ \A i \in DOMAIN w.done : Recorded(w.done[i])
      /\ w.step \in CompiledStep
      /\ a # None /\ (w.step.fields => a.flaw = None)
  BY <1>1, <1>2 DEF ThreadsFit, Fits, Task
<1>4. /\ step.fields = w.step.fields /\ step.status = w.step.status /\ step.error = w.step.error
      /\ stage = "generate" => step.raw = a /\ step.compiled = w.step.compiled
      /\ stage = "optimize" => step.raw = w.step.raw /\ step.compiled = a
  BY <1>1, <1>2, <1>3 DEF CompiledStep
<1>5. PICK v : v = [w EXCEPT !.pc = "validate", !.step = step]
  OBVIOUS
<1>6. /\ v \in Task /\ v.pc = "validate" /\ v.book = w.book /\ v.done = w.done /\ v.step = step
      /\ v.stage = stage
  <2> HIDE DEF CompiledStep
  <2>. QED BY <1>1, <1>3, <1>5 DEF Task
<1>7. InProgress(v) /\ v.step.raw # None /\ (v.stage = "optimize" => v.step.compiled # None)
  BY <1>1, <1>3, <1>4, <1>6 DEF InProgress, Grounded
<1>8. PICK q : q = NoQuery
  OBVIOUS
<1>9. q \in Query /\ q.pc = "idle" /\ q.link <= Len(Chain)
  BY <1>8, NoQueryIdle
<1>10. Fits(v, q)
  BY <1>3, <1>6, <1>7, <1>9 DEF Fits
<1>11. task' = [task EXCEPT ![t] = v] /\ query' = [query EXCEPT ![t] = q]
  BY <1>1, <1>5, <1>8 DEF Work, Ask
<1>. QED BY <1>10, <1>11, ThreadMoves

\* The response to a runbook whose steps are recorded.
LEMMA Responds ==
  ASSUME NEW book \in Runbooks, NEW steps \in Seq(CompiledStep), Len(steps) = Len(book),
         NEW r, r = [book |-> book, steps |-> steps, status |-> FinalStatus(book, steps),
                     graph |-> Edges(book), mode |-> GovernanceMode(book)]
  PROVE  IsResponse(r) /\ r.steps = steps
<1>1. FinalStatus(book, steps) \in {"SUCCESS", "PARTIAL", "FAILED"}
  BY DEF FinalStatus, CompileStatus
<1>2. GovernanceMode(book) \in {"MANUAL", "HUMAN_IN_LOOP", "AUTO"}
  BY DEF GovernanceMode
<1>3. Edges(book) \subseteq NodeIds(book) \X NodeIds(book)
  BY CompilationAssumptions, EdgesJoinNodes
<1>4. /\ r.book = book /\ r.steps = steps /\ r.status = FinalStatus(book, steps)
      /\ r.graph = Edges(book) /\ r.mode = GovernanceMode(book)
  OBVIOUS
<1>. QED BY <1>1, <1>2, <1>3, <1>4 DEF IsResponse

\* A thread that compiles nothing, or has just begun to.
LEMMA Rests ==
  ASSUME ThreadsFit, NEW t \in Threads, query[t].pc = "idle", query' = query,
         NEW w \in Task, task' = [task EXCEPT ![t] = w], w.done = <<>>,
         \/ w.pc = "idle"
         \/ /\ w.pc = "schema" /\ w.book \in Runbooks /\ 0 < Len(w.book)
            /\ w.step = NewStep /\ w.stage = "generate"
  PROVE  ThreadsFit'
<1>1. Fits(task[t], query[t]) /\ query' = [query EXCEPT ![t] = query[t]]
  BY DEF ThreadsFit
<1>2. Fits(w, query[t])
  BY <1>1 DEF Fits
<1>. QED BY <1>1, <1>2, ThreadMoves

LEMMA CompileSteps ==
  ASSUME Inv, NEW t \in Threads, CompileStep(t)
  PROVE  Inv'
<1> DEFINE w == task[t]
           q == query[t]
<1>a. /\ ThreadsFit /\ CachesOK /\ TablesOK /\ Fits(w, q)
      /\ w \in Task /\ q \in Query /\ w.step \in CompiledStep
  BY DEF Inv, ThreadsFit, Fits, Task
<1>b. UNCHANGED <<cached, lastCall, now>> => CachesOK'
  BY <1>a DEF CachesOK
<1>c. UNCHANGED <<schema, responses, budget>> => TablesOK'
  BY <1>a DEF TablesOK, ResponsesOK
<1>1. CASE StartCompile(t)
  <2>1. PICK book \in Runbooks :
          /\ budget >= Len(book) /\ budget' = budget - Len(book)
          /\ Work(t, [NoTask EXCEPT !.pc = "schema", !.book = book, !.source = book[1].source])
    BY <1>1 DEF StartCompile
  <2>2. w.pc = "idle" /\ UNCHANGED <<providerVars, schema, responses>>
    BY <1>1 DEF StartCompile
  <2>3. Len(book) \in Nat /\ 0 < Len(book)
    BY CompilationAssumptions DEF Runbook
  <2>4. book[1].source \in Source
    BY <2>3, StepOfBook
  <2>5. PICK none : none = NoTask
    OBVIOUS
  <2>6. none \in Task
    BY <2>5, Members
  <2>7. none.done = <<>> /\ none.step = NewStep /\ none.stage = "generate"
    BY <2>5 DEF NoTask
  <2>8. PICK v : v = [none EXCEPT !.pc = "schema", !.book = book, !.source = book[1].source]
    OBVIOUS
  <2>9. /\ v \in Task /\ v.done = <<>> /\ v.pc = "schema" /\ v.book = book
        /\ v.step = none.step /\ v.stage = none.stage
    <3> HIDE DEF CompiledStep
    <3>. QED BY <2>4, <2>6, <2>7, <2>8 DEF Task
  <2>10. ThreadsFit'
    <3>1. task' = [task EXCEPT ![t] = v] /\ query' = query /\ q.pc = "idle"
      BY <1>a, <2>1, <2>2, <2>5, <2>8 DEF Work, providerVars, Fits
    <3>. QED BY <1>a, <2>3, <2>7, <2>9, <3>1, Rests
  <2>11. budget' \in 0..MaxSteps
    BY <1>a, <2>1, <2>3, CompilationAssumptions DEF TablesOK
  <2>12. TablesOK'
    BY <1>a, <2>2, <2>11 DEF TablesOK, ResponsesOK
  <2>. QED BY <1>b, <2>2, <2>10, <2>12 DEF Inv, providerVars
<1>2. CASE GetSchema(t)
  <2>1. w.pc = "schema" /\ w.step = NewStep /\ w.stage = "generate"
    BY <1>2, <1>a DEF GetSchema, Fits
  <2>2. PICK fields \in BOOLEAN :
          /\ BeginStep(t, fields)
          /\ \/ UNCHANGED schema
             \/ w.source # None /\ schema' = [schema EXCEPT ![w.source] = fields]
    BY <1>2 DEF GetSchema, DiscoverFields
  <2>3. PICK step : step = [w.step EXCEPT !.fields = fields]
    OBVIOUS
  <2>4. /\ step \in CompiledStep /\ step.fields = fields /\ step.raw = w.step.raw
        /\ step.compiled = w.step.compiled /\ step.status = w.step.status /\ step.error = w.step.error
    BY <1>a, <2>3 DEF CompiledStep
  <2>5. w.step.raw = None /\ w.step.compiled = None /\ w.step.status = "FAILED" /\ w.step.error = None
    BY <2>1 DEF NewStep
  <2>6. Grounded(step)
    BY <2>4, <2>5 DEF Grounded
  <2>7. [w EXCEPT !.pc = "query", !.step.fields = fields, !.source = Resolve(@)]
          = [w EXCEPT !.pc = "query", !.stage = "generate", !.step = step, !.source = Resolve(@)]
    <3> HIDE DEF CompiledStep
    <3>. QED BY <1>a, <2>1, <2>3 DEF Task
  <2>8. /\ Work(t, [w EXCEPT !.pc = "query", !.stage = "generate", !.step = step, !.source = Resolve(@)])
        /\ BeginQuery(t, Current(t).text, w.source, step.fields)
    BY <2>2, <2>4, <2>7 DEF BeginStep
  <2>9. ThreadsFit'
    BY <1>a, <2>1, <2>4, <2>5, <2>6, <2>8, BeginsQuery DEF Stages
  <2>10. schema' \in [Sources -> BOOLEAN \cup {None}]
    BY <1>a, <2>2 DEF TablesOK
  <2>11. TablesOK'
    BY <1>2, <1>a, <2>10 DEF GetSchema, TablesOK, ResponsesOK
  <2>. QED BY <1>2, <1>b, <2>9, <2>11 DEF Inv, GetSchema
<1>3. CASE QueryStep(t) /\ UNCHANGED <<task, schema, responses, budget>>
  BY <1>3, <1>a, <1>c, QuerySteps DEF Inv
<1>4. CASE Generated(t) \/ Optimized(t)
  <2>1. q.pc = "returned" /\ UNCHANGED <<cached, lastCall, now, schema, responses, budget>>
        /\ Ask(t, NoQuery)
    BY <1>4 DEF Generated, Optimized, In
  <2>2. q.answer \in Answer
    BY <1>a, <2>1 DEF Fits, Query
  <2>3. CASE Generated(t)
    <3>1. PICK step : step = [w.step EXCEPT !.raw = q.answer]
      OBVIOUS
    <3>2. step \in CompiledStep
      BY <1>a, <2>2, <3>1 DEF CompiledStep
    <3>3. [w EXCEPT !.pc = "validate", !.step.raw = q.answer] = [w EXCEPT !.pc = "validate", !.step = step]
      <4> HIDE DEF CompiledStep
      <4>. QED BY <1>a, <3>1 DEF Task
    <3>4. w.stage = "generate" /\ Work(t, [w EXCEPT !.pc = "validate", !.step = step])
      BY <2>3, <3>3 DEF Generated, AtStage
    <3>5. ThreadsFit'
      BY <1>a, <2>1, <3>1, <3>2, <3>4, GetsQuery
    <3>. QED BY <1>b, <1>c, <2>1, <3>5 DEF Inv
  <2>4. CASE Optimized(t)
    <3>1. PICK step : step = [w.step EXCEPT !.compiled = q.answer]
      OBVIOUS
    <3>2. step \in CompiledStep
      BY <1>a, <2>2, <3>1 DEF CompiledStep
    <3>3. [w EXCEPT !.pc = "validate", !.step.compiled = q.answer] = [w EXCEPT !.pc = "validate", !.step = step]
      <4> HIDE DEF CompiledStep
      <4>. QED BY <1>a, <3>1 DEF Task
    <3>4. w.stage = "optimize" /\ Work(t, [w EXCEPT !.pc = "validate", !.step = step])
      BY <2>4, <3>3 DEF Optimized, AtStage
    <3>5. ThreadsFit'
      BY <1>a, <2>1, <3>1, <3>2, <3>4, GetsQuery
    <3>. QED BY <1>b, <1>c, <2>1, <3>5 DEF Inv
  <2>. QED BY <1>4, <2>3, <2>4
<1>5. CASE Explained(t)
  <2>1. /\ q.pc # "idle" /\ w.stage = "explain" /\ query' = [query EXCEPT ![t] = NoQuery]
        /\ UNCHANGED <<cached, lastCall, now, schema, responses, budget>>
    BY <1>5 DEF Explained, AtStage, Ask
  <2>2. w.pc = "query" /\ InProgress(w)
    BY <1>a, <2>1 DEF Fits
  <2>3. PICK known : known = In(t, "returned")
    OBVIOUS
  <2>4. known \in BOOLEAN
    BY <2>3 DEF In
  <2>5. PICK step : step = [w.step EXCEPT !.status = "SUCCESS", !.explained = known]
    OBVIOUS
  <2>6. /\ step \in CompiledStep /\ step.status = "SUCCESS" /\ step.raw = w.step.raw
        /\ step.compiled = w.step.compiled /\ step.error = w.step.error /\ step.fields = w.step.fields
    BY <1>a, <2>4, <2>5 DEF CompiledStep
  <2>7. Recorded(step)
    BY <2>1, <2>2, <2>6 DEF Recorded, InProgress, Grounded
  <2>8. Record(t, step)
    BY <1>5, <2>3, <2>5 DEF Explained
  <2>9. ThreadsFit'
    BY <1>a, <2>1, <2>2, <2>6, <2>7, <2>8, Records, NoQueryIdle
  <2>. QED BY <1>b, <1>c, <2>1, <2>9 DEF Inv
<1>6. CASE StageFails(t)
  <2>1. /\ q.pc # "idle" /\ query' = [query EXCEPT ![t] = NoQuery]
        /\ UNCHANGED <<cached, lastCall, now, schema, responses, budget>>
        /\ \E error \in Errors : Fail(t, error)
    BY <1>6 DEF StageFails, In, Ask, Errors
  <2>2. w.pc = "query"
    BY <1>a, <2>1 DEF Fits
  <2>3. ThreadsFit'
    BY <1>a, <2>1, <2>2, Fails, NoQueryIdle
  <2>. QED BY <1>b, <1>c, <2>1, <2>3 DEF Inv
<1>7. CASE Rejected(t)
  <2>1. /\ w.pc = "validate" /\ UNCHANGED <<query, cached, lastCall, now, schema, responses, budget>>
        /\ \E error \in Errors : Fail(t, error)
    BY <1>7 DEF Rejected, providerVars, Errors
  <2>2. q.pc = "idle" /\ q.link <= Len(Chain) /\ query' = [query EXCEPT ![t] = q]
    BY <1>a, <2>1 DEF Fits, ThreadsFit
  <2>3. ThreadsFit'
    BY <1>a, <2>1, <2>2, Fails
  <2>. QED BY <1>b, <1>c, <2>1, <2>3 DEF Inv
<1>8. CASE Validated(t)
  <2>1. PICK stage \in Stages :
          /\ stage = IF w.stage = "generate" THEN "optimize" ELSE "explain"
          /\ NextStage(t, stage, w.step)
    BY <1>8 DEF Validated, AtStage, Stages
  <2>2. w.pc = "validate" /\ UNCHANGED <<cached, lastCall, now, schema, responses, budget>>
    BY <1>8 DEF Validated
  <2>3. /\ InProgress(w) /\ w.step.raw # None /\ (stage = "explain" => w.step.compiled # None)
    BY <1>a, <2>1, <2>2 DEF Fits
  <2>4. /\ Work(t, [w EXCEPT !.pc = "query", !.stage = stage, !.step = w.step, !.source = Resolve(@)])
        /\ BeginQuery(t, Current(t).text, w.source, w.step.fields)
    BY <2>1 DEF NextStage
  <2>5. ThreadsFit'
    BY <1>a, <2>2, <2>3, <2>4, BeginsQuery DEF InProgress
  <2>. QED BY <1>b, <1>c, <2>2, <2>5 DEF Inv
<1>9. CASE Respond(t)
  <2>1. PICK r : r = [book |-> w.book, steps |-> w.done, status |-> FinalStatus(w.book, w.done),
                      graph |-> Edges(w.book), mode |-> GovernanceMode(w.book)]
    OBVIOUS
  <2>2. /\ w.pc = "plan" /\ task' = [task EXCEPT ![t] = NoTask] /\ responses' \in {responses, responses \cup {r}}
        /\ UNCHANGED <<query, cached, lastCall, now, schema, budget>>
    BY <1>9, <2>1 DEF Respond, Work, providerVars
  <2>3. /\ w.book \in Runbooks /\ w.done \in Seq(CompiledStep) /\ Len(w.done) = Len(w.book)
        /\ q.pc = "idle" /\ \A i \in DOMAIN w.done : Recorded(w.done[i])
    BY <1>a, <2>2 DEF Fits, Task
  <2>4. IsResponse(r) /\ \A i \in DOMAIN r.steps : Recorded(r.steps[i])
    BY <2>1, <2>3, Responds
  <2>5. TablesOK'
    BY <1>a, <2>2, <2>4 DEF TablesOK, ResponsesOK
  <2>6. PICK v : v = NoTask
    OBVIOUS
  <2>7. v \in Task /\ v.pc = "idle" /\ v.done = <<>>
    <3>1. NoTask.pc = "idle" /\ NoTask.done = <<>>
      BY DEF NoTask
    <3>. QED BY <2>6, <3>1, Members
  <2>8. ThreadsFit'
    BY <1>a, <2>2, <2>3, <2>6, <2>7, Rests
  <2>. QED BY <1>b, <2>2, <2>5, <2>8 DEF Inv
<1>. QED BY <1>1, <1>2, <1>3, <1>4, <1>5, <1>6, <1>7, <1>8, <1>9 DEF CompileStep

-----------------------------------------------------------------------------
(* The invariant, and what it implies.                                     *)

LEMMA Invariant == Spec => []Inv
<1>1. Init => Inv
  <2> SUFFICES ASSUME Init PROVE Inv
    OBVIOUS
  <2>1. ThreadsFit
    <3>1. PICK w : w = NoTask
      OBVIOUS
    <3>2. PICK q : q = NoQuery
      OBVIOUS
    <3>3. w \in Task /\ q \in Query /\ q.pc = "idle" /\ q.link <= Len(Chain)
      BY <3>1, <3>2, Members, NoQueryIdle
    <3>4. w.pc = "idle" /\ w.done = <<>>
      BY <3>1 DEF NoTask
    <3>5. Fits(w, q)
      BY <3>3, <3>4 DEF Fits
    <3>6. task = [t \in Threads |-> w] /\ query = [t \in Threads |-> q]
      BY <3>1, <3>2 DEF Init, ProviderInit
    <3>. QED BY <3>3, <3>5, <3>6 DEF ThreadsFit
  <2>2. CachesOK
    BY ProviderAssumptions DEF Init, ProviderInit, CachesOK, Time
  <2>3. TablesOK
    BY CompilationAssumptions DEF Init, TablesOK, ResponsesOK
  <2>. QED BY <2>1, <2>2, <2>3 DEF Inv
<1>2. Inv /\ [Next]_vars => Inv'
  <2> SUFFICES ASSUME Inv, [Next]_vars PROVE Inv'
    OBVIOUS
  <2>1. ASSUME NEW t \in Threads, CompileStep(t) PROVE Inv'
    BY <2>1, CompileSteps
  <2>2. CASE Tick
    BY <2>2, ProviderAssumptions DEF Tick, Inv, ThreadsFit, CachesOK, TablesOK, ResponsesOK, Time
  <2>3. CASE SchemaExpires
    BY <2>3 DEF SchemaExpires, providerVars, Inv, ThreadsFit, CachesOK, TablesOK, ResponsesOK
  <2>4. CASE UNCHANGED vars
    BY <2>4 DEF vars, providerVars, Inv, ThreadsFit, CachesOK, TablesOK, ResponsesOK
  <2>. QED BY <2>1, <2>2, <2>3, <2>4 DEF Next
<1>. QED BY <1>1, <1>2, PTL DEF Spec

\* compiler.py, _compile_step and compile, and the providers' caches: every task,
\* call, entry and response is well formed, and a cache holds one entry per key.
THEOREM TypeCorrect == Spec => []TypeOK
<1>1. Inv => TypeOK
  <2> SUFFICES ASSUME Inv PROVE TypeOK
    OBVIOUS
  <2>1. ASSUME NEW t \in Threads
        PROVE  /\ query[t].pc \in {"judge", "returned"} => query[t].answer # None
               /\ task[t].pc # "idle" => task[t].book # None /\ Len(task[t].done) <= Len(task[t].book)
               /\ task[t].pc = "query" <=> query[t].pc # "idle"
               /\ task[t].pc = "validate" => task[t].step.raw # None
    <3>1. Fits(task[t], query[t])
      BY DEF Inv, ThreadsFit
    <3>2. task[t].pc \in {"idle", "schema", "query", "validate", "plan"} /\ Len(task[t].done) \in Nat
      BY <3>1 DEF Fits, Task
    <3>3. task[t].pc # "idle" => task[t].book # None /\ Len(task[t].book) \in Nat
      BY <3>1, CompilationAssumptions DEF Fits, Runbook
    <3>. QED BY <3>1, <3>2, <3>3 DEF Fits
  <2>2. ProviderOK
    BY <2>1 DEF Inv, ThreadsFit, CachesOK, ProviderOK
  <2>. QED BY <2>1, <2>2 DEF Inv, ThreadsFit, TablesOK, ResponsesOK, TypeOK
<1>. QED BY <1>1, Invariant, PTL

\* guardrail.py and the providers' caches: whatever was cached before it was
\* judged, and whichever provider and attempt it came from, no response reports a
\* query outside a schema that was known.
THEOREM AnswersGrounded == Spec => []QueriesAreGrounded
<1>1. Inv => QueriesAreGrounded
  BY DEF Inv, TablesOK, ResponsesOK, Recorded, Grounded, QueriesAreGrounded
<1>. QED BY <1>1, Invariant, PTL

\* planner.py: the plan of every runbook that is compiled is sound.
THEOREM PlansSound == Spec => []PlansAreSound
<1>1. Inv => PlansAreSound
  BY EveryPlanIsSound, CompilationAssumptions DEF Inv, ThreadsFit, Fits, PlansAreSound
<1>. QED BY <1>1, Invariant, PTL
=============================================================================

---------------------------- MODULE SplProvider ----------------------------
(***************************************************************************)
(* Generation of SPL by language models (app/splunk/adapters): the provider*)
(* chain, the guardrail with its one corrective attempt, and the cache and *)
(* rate limiter each provider module keeps. The caches are plain           *)
(* dictionaries shared by the request threads: a lookup tests for the key, *)
(* reads the entry and deletes an expired one in three separate steps.     *)
(***************************************************************************)
EXTENDS Planner

CONSTANTS
  Threads,       \* request threads that compile
  LlmProvider,   \* settings.llm_provider
  Configured,    \* providers with an API key
  TTL,           \* lifetime of a cached answer
  Interval,      \* least time between two calls of a provider
  MaxTime        \* bound: clock

Providers == {"claude", "openrouter", "gemini"}
Stages == {"generate", "optimize", "explain"}

Source == Sources \cup {None}
Time == 0..MaxTime

\* _make_cache_key: constraints hold the feedback of a corrective attempt.
Key == [text: Nat, source: Source, fields: BOOLEAN, feedback: BOOLEAN]

\* What a model answered: for which source, what is wrong with the query when the
\* fields of the schema are known, and where the explanation comes from.
Flaws == {"unknown field", "keyword"}
Answer == [provider: Providers, source: Source, flaw: Flaws \cup {None}, explained: {"model", "local"}]
Entry == [answer: Answer, at: Time]

ASSUME ProviderAssumptions ==
  /\ LlmProvider \in Providers /\ Configured \subseteq Providers
  /\ {TTL, Interval, MaxTime} \subseteq Nat
  /\ {"main", "security"} \subseteq Sources
  /\ None \notin Answer

\* One call of generate_spl.
Query == [pc: {"idle", "lookup", "read", "expire", "wait", "ask", "judge", "returned", "failed"},
          link: 1..2, key: Key, answer: Answer \cup {None}]

VARIABLES
  query,      \* the call each thread is in
  cached,     \* _cache of each provider
  lastCall,   \* _last_call_ts of each provider
  now

providerVars == <<query, cached, lastCall, now>>

NoKey == [text |-> 0, source |-> None, fields |-> FALSE, feedback |-> FALSE]
NoQuery == [pc |-> "idle", link |-> 1, key |-> NoKey, answer |-> None]

ProviderOK ==
  /\ query \in [Threads -> Query]
  /\ \A t \in Threads : query[t].pc \in {"judge", "returned"} => query[t].answer # None
  /\ cached \in [Providers -> SUBSET [key: Key, entry: Entry]]
  /\ \A p \in Providers : \A c, d \in cached[p] : c.key = d.key => c = d
  /\ lastCall \in [Providers -> -Interval..MaxTime]
  /\ now \in Time

ProviderInit ==
  /\ query = [t \in Threads |-> NoQuery]
  /\ cached = [p \in Providers |-> {}]
  /\ lastCall = [p \in Providers |-> -Interval]
  /\ now = 0

-----------------------------------------------------------------------------

\* _get_provider_name: an unknown provider counts as claude, and all but gemini
\* fall back on gemini.
Chain == IF LlmProvider = "gemini" THEN <<"gemini">> ELSE <<LlmProvider, "gemini">>
Provider(t) == Chain[query[t].link]

\* resolve_index: a name that mentions authentication becomes the index and type
\* of the security logs, which mention it no more.
Resolve(s) ==
  IF s = None THEN None
  ELSE IF s = "auth" THEN "security"
  ELSE IF s \in {"endpoint", "network"} THEN s ELSE "main"

Ask(t, q) == query' = [query EXCEPT ![t] = q]
Goto(t, l) == Ask(t, [query[t] EXCEPT !.pc = l])
In(t, l) == query[t].pc = l

\* generate_spl begins with the first provider and the source resolved.
BeginQuery(t, text, source, fields) ==
  Ask(t, [NoQuery EXCEPT !.pc = "lookup",
            !.key = [text |-> text, source |-> Resolve(source), fields |-> fields, feedback |-> FALSE]])

-----------------------------------------------------------------------------
(* An exception in an attempt. In the first attempt it leaves the guardrail*)
(* as it is, in the corrective one as SPLValidationError: both go to the   *)
(* next provider of the chain, or out of generate_spl.                     *)

AttemptFails(t) ==
  IF query[t].link < Len(Chain)
  THEN Ask(t, [query[t] EXCEPT !.pc = "lookup", !.link = @ + 1, !.key.feedback = FALSE, !.answer = None])
  ELSE Ask(t, [query[t] EXCEPT !.pc = "failed", !.answer = None])

-----------------------------------------------------------------------------
(* _cache_get.                                                             *)

EntriesFor(p, k) == {c \in cached[p] : c.key = k}

\* if key not in _cache
Lookup(t) ==
  /\ In(t, "lookup")
  /\ Goto(t, IF EntriesFor(Provider(t), query[t].key) = {} THEN "wait" ELSE "read")
  /\ UNCHANGED <<cached, lastCall, now>>

\* _cache[key], which raises when another thread has deleted the entry.
Read(t) ==
  /\ In(t, "read")
  /\ LET found == EntriesFor(Provider(t), query[t].key) IN
     \/ found = {} /\ AttemptFails(t)
     \/ \E c \in found :
          \/ now - c.entry.at > TTL /\ Goto(t, "expire")
          \/ now - c.entry.at <= TTL /\ Ask(t, [query[t] EXCEPT !.pc = "judge", !.answer = c.entry.answer])
  /\ UNCHANGED <<cached, lastCall, now>>

\* del _cache[key], whatever entry is there now.
Expire(t) ==
  LET p == Provider(t)
      found == EntriesFor(p, query[t].key)
  IN  /\ In(t, "expire")
      /\ IF found = {} THEN AttemptFails(t) ELSE Goto(t, "wait")
      /\ cached' = [cached EXCEPT ![p] = @ \ found]
      /\ UNCHANGED <<lastCall, now>>

-----------------------------------------------------------------------------
(* A live call.                                                            *)

\* _rate_wait: the lock is held while the thread sleeps.
RateWait(t) ==
  /\ In(t, "wait")
  /\ now - lastCall[Provider(t)] >= Interval
  /\ lastCall' = [lastCall EXCEPT ![Provider(t)] = now]
  /\ Goto(t, "ask")
  /\ UNCHANGED <<cached, now>>

\* _call_claude: an answer that is no JSON is taken as the query, without its
\* explanation.
ClaudeAnswers(k) ==
  {[provider |-> "claude", source |-> k.source, flaw |-> f, explained |-> e] :
     f \in Flaws \cup {None}, e \in {"model", "local"}}

\* _call_openrouter and _call_gemini: the query only.
OpenRouterAnswers(k) ==
  {[provider |-> "openrouter", source |-> k.source, flaw |-> f, explained |-> "local"] : f \in Flaws \cup {None}}
GeminiAnswers(k) ==
  {[provider |-> "gemini", source |-> k.source, flaw |-> f, explained |-> "local"] : f \in Flaws \cup {None}}

Answers(p, k) ==
  CASE p \notin Configured -> {}
    [] p = "claude" -> ClaudeAnswers(k)
    [] p = "openrouter" -> OpenRouterAnswers(k)
    [] OTHER -> GeminiAnswers(k)

\* As if an answer were kept beside the one another thread stored.
StoreBeside(p, k, a) ==
  cached' = [cached EXCEPT ![p] = @ \cup {[key |-> k, entry |-> [answer |-> a, at |-> now]]}]

\* _cache_set: the last writer of a key wins.
Store(p, k, a) ==
  cached' = [cached EXCEPT ![p] = {c \in @ : c.key # k} \cup {[key |-> k, entry |-> [answer |-> a, at |-> now]]}]

\* The answer is cached before the guardrail sees it.
Answered(t) ==
  /\ In(t, "ask")
  /\ \E a \in Answers(Provider(t), query[t].key) :
       /\ Store(Provider(t), query[t].key, a)
       /\ Ask(t, [query[t] EXCEPT !.pc = "judge", !.answer = a])
  /\ UNCHANGED <<lastCall, now>>

\* No key, no connection, an error of the provider.
CallFails(t) ==
  /\ In(t, "ask")
  /\ AttemptFails(t)
  /\ UNCHANGED <<cached, lastCall, now>>

-----------------------------------------------------------------------------
(* _generate_with_guardrail.                                               *)

\* validate_spl_fields: fields that are in no schema and not derived by the query.
Hallucinates(q) == q.key.fields /\ q.answer.flaw = "unknown field"

\* validate_schema_preferences: keywords where the schema has a status field.
BreaksPreferences(q) == q.key.fields /\ q.answer.flaw = "keyword"

Acceptable(q) == ~Hallucinates(q) /\ ~BreaksPreferences(q)

\* As if the corrected answer were not looked at again.
JudgeFirst(t) ==
  /\ In(t, "judge")
  /\ IF Acceptable(query[t]) \/ query[t].key.feedback THEN Goto(t, "returned")
     ELSE Ask(t, [query[t] EXCEPT !.pc = "lookup", !.key.feedback = TRUE, !.answer = None])
  /\ UNCHANGED <<cached, lastCall, now>>

Judge(t) ==
  /\ In(t, "judge")
  /\ IF Acceptable(query[t]) THEN Goto(t, "returned")
     ELSE IF query[t].key.feedback THEN AttemptFails(t)
     ELSE Ask(t, [query[t] EXCEPT !.pc = "lookup", !.key.feedback = TRUE, !.answer = None])
  /\ UNCHANGED <<cached, lastCall, now>>

QueryStep(t) ==
  \/ Lookup(t) \/ Read(t) \/ Expire(t) \/ RateWait(t)
  \/ Answered(t) \/ CallFails(t) \/ Judge(t)
=============================================================================

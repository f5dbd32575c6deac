---------------------------- MODULE Compilation ----------------------------
(***************************************************************************)
(* The compilation of runbooks (app/compiler, app/service): request threads*)
(* share one compiler with its schema cache and the providers' caches.     *)
(*                                                                         *)
(* Each step is generated, validated, optimized, validated and explained;  *)
(* the optimizer and the explainer do not look at the query they are given *)
(* but ask generate_spl again. MCP is enabled. Warnings and the numbers of *)
(* the confidence calculation are left out: nothing depends on them.       *)
(***************************************************************************)
EXTENDS SplProvider

CONSTANTS
  Runbooks,      \* the runbooks that are submitted
  MaxSteps       \* bound: steps compiled

Errors == {"ERR_GEN_FAIL", "ERR_VAL_RAW", "ERR_OPT_FAIL", "ERR_VAL_OPT"}

ASSUME CompilationAssumptions ==
  Runbooks \subseteq Runbook /\ MaxSteps \in Nat /\ None \notin Runbooks \cup Errors

\* A CompiledStep with the error of its trace; fields: the schema was known.
CompiledStep == [status: {"SUCCESS", "FAILED"}, raw: Answer \cup {None}, compiled: Answer \cup {None},
                 explained: BOOLEAN, error: Errors \cup {None}, fields: BOOLEAN]

\* step: the step that is compiled, number Len(done) + 1. source is the context's
\* data_source, which generate_spl overwrites.
Task == [pc: {"idle", "schema", "query", "validate", "plan"}, book: Runbooks \cup {None},
         done: Seq(CompiledStep), stage: Stages, source: Source, step: CompiledStep]

\* A response: status, steps, graph and mode of the skill.
IsResponse(r) ==
  /\ r.book \in Runbooks /\ r.steps \in Seq(CompiledStep) /\ Len(r.steps) = Len(r.book)
  /\ r.status \in {"SUCCESS", "PARTIAL", "FAILED"}
  /\ r.graph \subseteq NodeIds(r.book) \X NodeIds(r.book)
  /\ r.mode \in {"MANUAL", "HUMAN_IN_LOOP", "AUTO"}

VARIABLES
  task,       \* what each thread compiles
  schema,     \* SchemaCache: whether fields are known, or None
  responses,
  budget

vars == <<providerVars, task, schema, responses, budget>>

NewStep == [status |-> "FAILED", raw |-> None, compiled |-> None, explained |-> FALSE,
            error |-> None, fields |-> FALSE]
NoTask == [pc |-> "idle", book |-> None, done |-> <<>>, stage |-> "generate", source |-> None, step |-> NewStep]

TypeOK ==
  /\ ProviderOK
  /\ task \in [Threads -> Task]
  /\ \A t \in Threads :
       /\ task[t].pc # "idle" => task[t].book # None /\ Len(task[t].done) <= Len(task[t].book)
       /\ task[t].pc = "query" <=> query[t].pc # "idle"
       /\ task[t].pc = "validate" => task[t].step.raw # None
  /\ schema \in [Sources -> BOOLEAN \cup {None}]
  /\ \A r \in responses : IsResponse(r)
  /\ budget \in 0..MaxSteps

Init ==
  /\ ProviderInit
  /\ task = [t \in Threads |-> NoTask]
  /\ schema = [s \in Sources |-> None]
  /\ responses = {}
  /\ budget = MaxSteps

Work(t, w) == task' = [task EXCEPT ![t] = w]
Current(t) == task[t].book[Len(task[t].done) + 1]
AtStage(t, s) == task[t].stage = s

-----------------------------------------------------------------------------

\* The step is recorded, whatever became of it, and the next one begins.
Record(t, step) ==
  LET done == Append(task[t].done, step)
      more == Len(done) < Len(task[t].book)
  IN  Work(t, [task[t] EXCEPT !.pc = IF more THEN "schema" ELSE "plan", !.done = done, !.step = NewStep,
                              !.stage = "generate",
                              !.source = IF more THEN task[t].book[Len(done) + 1].source ELSE None])

Fail(t, error) == Record(t, [task[t].step EXCEPT !.error = error])

\* compile, for a runbook that is submitted. An invalid one is compiled all the
\* same.
StartCompile(t) ==
  /\ task[t].pc = "idle"
  /\ \E book \in Runbooks :
       /\ budget >= Len(book) /\ budget' = budget - Len(book)
       /\ Work(t, [NoTask EXCEPT !.pc = "schema", !.book = book, !.source = book[1].source])
  /\ UNCHANGED <<providerVars, schema, responses>>

-----------------------------------------------------------------------------
(* The schema of the step's source.                                        *)

BeginStep(t, fields) ==
  /\ Work(t, [task[t] EXCEPT !.pc = "query", !.step.fields = fields, !.source = Resolve(@)])
  /\ BeginQuery(t, Current(t).text, task[t].source, fields)

\* get_fields: an unknown schema is cached when the tool answers without fields, but
\* not when the tool fails.
DiscoverFields(s, fields) ==
  IF schema[s] # None THEN fields = schema[s] /\ UNCHANGED schema
  ELSE \/ schema' = [schema EXCEPT ![s] = fields]
       \/ ~fields /\ UNCHANGED schema

GetSchema(t) ==
  /\ task[t].pc = "schema"
  /\ \/ task[t].source = None /\ BeginStep(t, FALSE) /\ UNCHANGED schema
     \/ task[t].source # None
        /\ \E fields \in BOOLEAN : DiscoverFields(task[t].source, fields) /\ BeginStep(t, fields)
  /\ UNCHANGED <<cached, lastCall, now, responses, budget>>

\* An entry of the schema cache expires.
SchemaExpires ==
  /\ \E s \in Sources : schema[s] # None /\ schema' = [schema EXCEPT ![s] = None]
  /\ UNCHANGED <<providerVars, task, responses, budget>>

-----------------------------------------------------------------------------
(* The stages of a step.                                                   *)

\* The next stage asks with the same context, whose source is resolved again.
NextStage(t, stage, step) ==
  /\ Work(t, [task[t] EXCEPT !.pc = "query", !.stage = stage, !.step = step, !.source = Resolve(@)])
  /\ BeginQuery(t, Current(t).text, task[t].source, step.fields)

Generated(t) ==
  /\ In(t, "returned") /\ AtStage(t, "generate")
  /\ Work(t, [task[t] EXCEPT !.pc = "validate", !.step.raw = query[t].answer])
  /\ Ask(t, NoQuery)
  /\ UNCHANGED <<cached, lastCall, now, schema, responses, budget>>

Optimized(t) ==
  /\ In(t, "returned") /\ AtStage(t, "optimize")
  /\ Work(t, [task[t] EXCEPT !.pc = "validate", !.step.compiled = query[t].answer])
  /\ Ask(t, NoQuery)
  /\ UNCHANGED <<cached, lastCall, now, schema, responses, budget>>

\* A step counts as compiled also when its explanation failed.
Explained(t) ==
  /\ query[t].pc \in {"returned", "failed"} /\ AtStage(t, "explain")
  /\ Record(t, [task[t].step EXCEPT !.status = "SUCCESS", !.explained = In(t, "returned")])
  /\ Ask(t, NoQuery)
  /\ UNCHANGED <<cached, lastCall, now, schema, responses, budget>>

StageFails(t) ==
  /\ In(t, "failed") /\ ~AtStage(t, "explain")
  /\ Fail(t, IF AtStage(t, "generate") THEN "ERR_GEN_FAIL" ELSE "ERR_OPT_FAIL")
  /\ Ask(t, NoQuery)
  /\ UNCHANGED <<cached, lastCall, now, schema, responses, budget>>

\* The validator accepts the query.
Validated(t) ==
  /\ task[t].pc = "validate"
  /\ NextStage(t, IF AtStage(t, "generate") THEN "optimize" ELSE "explain", task[t].step)
  /\ UNCHANGED <<cached, lastCall, now, schema, responses, budget>>

\* The validator rejects the query, or the tool call fails.
Rejected(t) ==
  /\ task[t].pc = "validate"
  /\ \E error \in IF AtStage(t, "generate") THEN {"ERR_VAL_RAW", "ERR_GEN_FAIL"}
                  ELSE {"ERR_VAL_OPT", "ERR_OPT_FAIL"} : Fail(t, error)
  /\ UNCHANGED <<providerVars, schema, responses, budget>>

-----------------------------------------------------------------------------
(* The skill and the response.                                             *)

Succeeded(steps) == {i \in DOMAIN steps : steps[i].status = "SUCCESS"}

\* The status of the compilation.
CompileStatus(steps) ==
  IF Succeeded(steps) = DOMAIN steps THEN "SUCCESS"
  ELSE IF Succeeded(steps) # {} THEN "PARTIAL" ELSE "FAILED"

\* RunbookValidator: the ids are unique and every step is sound. (A runbook has at
\* least one step.) An invalid runbook is reported as failed.
ValidRunbook(book) == UniqueIds(book) /\ \A i \in DOMAIN book : book[i].sound
FinalStatus(book, steps) == IF ValidRunbook(book) THEN CompileStatus(steps) ELSE "FAILED"

\* compile_skill: the plan is made of all steps, failed ones included. A plan that
\* is not valid makes the request fail.
Respond(t) ==
  LET book == task[t].book
      response == [book |-> book, steps |-> task[t].done, status |-> FinalStatus(book, task[t].done),
                   graph |-> Edges(book), mode |-> GovernanceMode(book)]
  IN  /\ task[t].pc = "plan"
      /\ responses' = IF ValidGraph(NodeIds(book), book[1].id, Edges(book))
                      THEN responses \cup {response} ELSE responses
      /\ Work(t, NoTask)
      /\ UNCHANGED <<providerVars, schema, budget>>

-----------------------------------------------------------------------------

Tick ==
  /\ now < MaxTime /\ now' = now + 1
  /\ UNCHANGED <<query, cached, lastCall, task, schema, responses, budget>>

CompileStep(t) ==
  \/ StartCompile(t) \/ GetSchema(t)
  \/ QueryStep(t) /\ UNCHANGED <<task, schema, responses, budget>>
  \/ Generated(t) \/ Optimized(t) \/ Explained(t) \/ StageFails(t)
  \/ Validated(t) \/ Rejected(t) \/ Respond(t)

Next == Tick \/ SchemaExpires \/ \E t \in Threads : CompileStep(t)

Spec == Init /\ [][Next]_vars

-----------------------------------------------------------------------------
(* Properties.                                                             *)

\* Whatever was cached before it was judged, whichever provider and attempt an
\* answer came from: a step whose schema was known reports no query, generated or
\* optimized, with fields outside that schema, and a successful step has both.
QueriesAreGrounded ==
  \A r \in responses : \A i \in DOMAIN r.steps :
    LET s == r.steps[i] IN
    /\ \A a \in {s.raw, s.compiled} \ {None} : s.fields => a.flaw = None
    /\ s.status = "SUCCESS" => None \notin {s.raw, s.compiled} /\ s.error = None
    /\ s.status = "FAILED" => s.error # None

\* No runbook is refused for its plan, and a run that follows a plan to its end has
\* executed every unconditional step.
PlansAreSound == \A t \in Threads : task[t].pc = "plan" => PlanIsSound(task[t].book)
=============================================================================

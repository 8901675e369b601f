------------------------------ MODULE LlmClient ------------------------------
(* ClaudeClient (services/llm/client.py) with the router that picks its     *)
(* model and the Redis cache its processes share: one call is a lookup, up  *)
(* to MaxRetries + 1 requests, the same again with the next model, and a    *)
(* write to the cache.  Calls of several processes interleave at each step. *)
(* At the end, how the text of an answer becomes JSON.                      *)
EXTENDS FiniteSets, Naturals, Sequences

CONSTANTS Callers,      \* worker processes
          Tasks,        \* the LLM tasks they call for
          Prompts,      \* prompts, by their text
          MaxRetries,   \* MAX_RETRIES
          MaxOutages,   \* bound: how often Redis goes away
          MaxText       \* bound: characters of a text

ASSUME LlmAssumption == Tasks # {} /\ Prompts # {} /\ MaxRetries \in Nat

VARIABLES call,         \* the call each process is in
          cache,        \* entries of the Redis cache
          redis,        \* what each process knows of Redis: the module singleton
          redisUp, outages

llmVars == <<call, cache, redis, redisUp, outages>>

HaikuTasks == {"classification", "scoring", "signal_enrichment", "signal_scoring",
               "cv_quality", "cv_best_practices", "jd_extraction", "profile_import",
               "news_tagging"}
OpusTasks == {"deep_analysis", "career_intelligence"}
SonnetTasks == {"edit_plan", "positioning", "report_pack", "shadow_hypothesis",
                "strategy_memo", "outreach", "cv_build", "opportunity_reasoning"}
CacheableTasks == HaikuTasks \ {"profile_import"}

Model == {"haiku", "sonnet", "opus"}
\* An unknown task gets settings.claude_model, a Sonnet model.
ModelForTask(t) == CASE t \in HaikuTasks -> "haiku" [] t \in OpusTasks -> "opus"
                     [] OTHER -> "sonnet"
\* The next model up; there is none above Opus.
FallbackModel == [haiku |-> "sonnet", sonnet |-> "opus"]

\* The answer of a model to a prompt.
Answer == [to : Prompts, by : Model]
Result == [kind : {"none", "raised"}] \cup [kind : {"fresh", "cached"}, answer : Answer]
Call == [pc : {"asking", "caching", "done"}, task : Tasks, prompt : Prompts,
         structured : BOOLEAN, model : Model, attempt : Nat, asked : Nat, out : Result]
Entry == [task : Tasks, model : Model, prompt : Prompts, answer : Answer]

NoResult == [kind |-> "none"]

Client(pc, t, p, structured) ==
  [pc |-> pc, task |-> t, prompt |-> p, structured |-> structured,
   model |-> ModelForTask(t), attempt |-> 0, asked |-> 0, out |-> NoResult]

LlmInit ==
  /\ LET t == CHOOSE t \in Tasks : TRUE  p == CHOOSE p \in Prompts : TRUE
     IN call = [c \in Callers |-> Client("done", t, p, FALSE)]
  /\ cache = {} /\ redis = [c \in Callers |-> "unknown"]
  /\ redisUp = TRUE /\ outages = 0

\* _get_redis: the first ping decides for the life of the process.
Connected(c) == IF redis[c] = "unknown" THEN IF redisUp THEN "client" ELSE "off" ELSE redis[c]
Reachable(c) == Connected(c) = "client" /\ redisUp

\* _make_key, with the model the client was made for.
Key(e, t, p) == e.task = t /\ e.model = ModelForTask(t) /\ e.prompt = p

\* A client is made for a task and called once: call_structured asks at once,
\* call_text looks into the cache first.
StartCall(c, t, p, structured) ==
  LET client == Client("asking", t, p, structured)
      looksUp == ~ structured /\ t \in CacheableTasks
      hits == IF looksUp /\ Reachable(c) THEN {e \in cache : Key(e, t, p)} ELSE {} IN
  /\ call[c].pc = "done"
  /\ redis' = IF looksUp THEN [redis EXCEPT ![c] = Connected(c)] ELSE redis
  /\ \/ hits = {} /\ call' = [call EXCEPT ![c] = client]
     \/ \E e \in hits : call' = [call EXCEPT ![c] =
          [client EXCEPT !.pc = "done", !.out = [kind |-> "cached", answer |-> e.answer]]]
  /\ UNCHANGED <<cache, redisUp, outages>>

\* messages.create answers.  call_structured parses what came, which may not be
\* JSON of the schema; call_text hands it on as it is.
Answered(c) ==
  LET fresh == [kind |-> "fresh", answer |-> [to |-> call[c].prompt, by |-> call[c].model]] IN
  /\ call[c].pc = "asking"
  /\ \/ call' = [call EXCEPT ![c].asked = @ + 1, ![c].out = fresh,
                  ![c].pc = IF call[c].structured THEN "done" ELSE "caching"]
     \/ /\ call[c].structured
        /\ call' = [call EXCEPT ![c].asked = @ + 1, ![c].out = [kind |-> "raised"],
                                ![c].pc = "done"]
  /\ UNCHANGED <<cache, redis, redisUp, outages>>

\* The request loop ends without an answer.  call_text starts it over with the
\* next model, once; call_structured has no fallback.
GivesUp(c) ==
  IF /\ ~ call[c].structured /\ call[c].model = ModelForTask(call[c].task)
     /\ call[c].model \in DOMAIN FallbackModel
  THEN call' = [call EXCEPT ![c].model = FallbackModel[@], ![c].attempt = 0,
                            ![c].asked = @ + 1]
  ELSE call' = [call EXCEPT ![c].pc = "done", ![c].out = [kind |-> "raised"],
                            ![c].asked = @ + 1]

\* 429, connection error, timeout: back off and ask again, MaxRetries times.
TransientError(c) ==
  /\ call[c].pc = "asking"
  /\ IF call[c].attempt < MaxRetries
     THEN call' = [call EXCEPT ![c].attempt = @ + 1, ![c].asked = @ + 1]
     ELSE GivesUp(c)
  /\ UNCHANGED <<cache, redis, redisUp, outages>>

\* Any other HTTP status ends the loop at once.
StatusError(c) ==
  call[c].pc = "asking" /\ GivesUp(c) /\ UNCHANGED <<cache, redis, redisUp, outages>>

\* set_cached: under the model of the client, whichever model answered.
SetCached(c) ==
  LET e == [task |-> call[c].task, model |-> ModelForTask(call[c].task),
            prompt |-> call[c].prompt, answer |-> call[c].out.answer] IN
  /\ call[c].pc = "caching"
  /\ IF call[c].task \in CacheableTasks
     THEN /\ redis' = [redis EXCEPT ![c] = Connected(c)]
          /\ cache' = IF Reachable(c) THEN {o \in cache : ~ Key(o, e.task, e.prompt)} \cup {e} ELSE cache
     ELSE UNCHANGED <<redis, cache>>
  /\ call' = [call EXCEPT ![c].pc = "done"]
  /\ UNCHANGED <<redisUp, outages>>

\* The time to live of an entry ends; Redis goes away and comes back.
Expire(e) == cache' = cache \ {e} /\ UNCHANGED <<call, redis, redisUp, outages>>
RedisOutage ==
  /\ IF redisUp THEN outages < MaxOutages /\ outages' = outages + 1 ELSE UNCHANGED outages
  /\ redisUp' = ~ redisUp
  /\ UNCHANGED <<call, cache, redis>>

LlmNext ==
  \/ \E c \in Callers : \/ Answered(c) \/ TransientError(c) \/ StatusError(c)
                         \/ SetCached(c)
  \/ \E c \in Callers, t \in Tasks, p \in Prompts, s \in BOOLEAN : StartCall(c, t, p, s)
  \/ \E e \in cache : Expire(e)
  \/ RedisOutage

LlmSpec == LlmInit /\ [][LlmNext]_llmVars

-----------------------------------------------------------------------------
LlmTypeOK ==
  /\ call \in [Callers -> Call] /\ cache \subseteq Entry
  /\ redis \in [Callers -> {"unknown", "client", "off"}]
  /\ redisUp \in BOOLEAN /\ outages \in 0..MaxOutages

HasAnswer(c) == call[c].out.kind \in {"fresh", "cached"}

\* Whatever the processes cache for one another, whichever model answered and
\* whenever Redis is there: a call returns an answer to its own prompt, by the
\* model of its task or the next one up; a structured call is never answered
\* from the cache or by the fallback; at most 2 * (MAX_RETRIES + 1) requests were
\* made, half of that without the fallback and none for a cached answer
\* (client.py:952-1025, 1082-1151, cache.py:88-143).
AnswerIsOwn ==
  \A c \in Callers :
    LET k == call[c]  own == ModelForTask(k.task)  bound == MaxRetries + 1 IN
    /\ HasAnswer(c) =>
         /\ k.out.answer.to = k.prompt
         /\ \/ k.out.answer.by = own
            \/ ~ k.structured /\ own \in DOMAIN FallbackModel
                 /\ k.out.answer.by = FallbackModel[own]
    /\ k.asked <= (IF k.structured THEN bound ELSE 2 * bound)
    /\ k.out.kind = "cached" => k.asked = 0 /\ ~ k.structured /\ k.task \in CacheableTasks

-----------------------------------------------------------------------------
(* The text of a model becomes JSON when it was cut off or wrapped in prose *)
(* by two scanners: that of _repair_truncated_json counts brackets, that of *)
(* _extract_json (services/shadow/shadow_service.py) looks for the end of   *)
(* the first object.  The text arrives a character at a time; of a          *)
(* character only its part in the nesting is kept, and what is nested is    *)
(* well nested, as JSON that was cut off is.                                *)

VARIABLES stack,        \* reference: the brackets open at this point, innermost last
          length,
          repair,       \* opens, open_sq, in_string, escape
          extract       \* started, depth, in_string, escape and the end found

textVars == <<stack, length, repair, extract>>

\* The brackets "{" "}" "[" "]", the quote, the backslash and any other character.
Character == {"object", "endObject", "list", "endList", "quote", "backslash", "other"}

TextInit ==
  /\ stack = <<>> /\ length = 0
  /\ repair = [opens |-> 0, openSq |-> 0, inString |-> FALSE, escape |-> FALSE]
  /\ extract = [started |-> FALSE, depth |-> 0, inString |-> FALSE, escape |-> FALSE,
                objectAt |-> 0, closed |-> FALSE]

\* The string and escape flags, as both loops keep them.
InString(s, c) ==
  [s EXCEPT !.escape = ~ @ /\ c = "backslash",
            !.inString = IF ~ s.escape /\ c = "quote" THEN ~ @ ELSE @]

\* Mistake: brackets inside a string are counted.
RepairScanAll(s, c) ==
  IF s.escape THEN InString(s, c)
  ELSE [InString(s, c) EXCEPT
     !.opens = IF c = "object" THEN @ + 1 ELSE IF c = "endObject" /\ @ > 0 THEN @ - 1 ELSE @,
     !.openSq = IF c = "list" THEN @ + 1 ELSE IF c = "endList" /\ @ > 0 THEN @ - 1 ELSE @]

\* One round of the loop of _repair_truncated_json.
RepairScan(s, c) ==
  IF s.escape \/ s.inString THEN InString(s, c)
  ELSE [InString(s, c) EXCEPT
     !.opens = CASE c = "object" -> @ + 1 [] c = "endObject" -> @ - 1 [] OTHER -> @,
     !.openSq = CASE c = "list" -> @ + 1 [] c = "endList" -> @ - 1 [] OTHER -> @]

\* text.find("{"), then one round of the loop of _extract_json.
ExtractScan(s, c) ==
  IF s.closed THEN s
  ELSE IF ~ s.started
  THEN IF c = "object"
       THEN [s EXCEPT !.started = TRUE, !.depth = 1, !.objectAt = Len(stack) + 1]
       ELSE s
  ELSE IF s.escape \/ s.inString THEN InString(s, c)
  ELSE LET t == InString(s, c) IN
       CASE c = "object" -> [t EXCEPT !.depth = @ + 1]
         [] c = "endObject" -> [t EXCEPT !.depth = @ - 1, !.closed = s.depth = 1]
         [] OTHER -> t

Quoted == repair.escape \/ repair.inString

\* Outside strings a bracket closes the innermost open one, and a backslash does
\* not occur.
Nested(c) ==
  IF Quoted THEN TRUE
  ELSE CASE c = "endObject" -> stack # <<>> /\ stack[Len(stack)] = "object"
         [] c = "endList" -> stack # <<>> /\ stack[Len(stack)] = "list"
         [] c = "backslash" -> FALSE
         [] OTHER -> TRUE

Feed(c) ==
  /\ length < MaxText /\ Nested(c)
  /\ length' = length + 1
  /\ stack' = IF Quoted THEN stack
              ELSE CASE c \in {"object", "list"} -> Append(stack, c)
                     [] c \in {"endObject", "endList"} -> SubSeq(stack, 1, Len(stack) - 1)
                     [] OTHER -> stack
  /\ repair' = RepairScan(repair, c)
  /\ extract' = ExtractScan(extract, c)

TextNext == \E c \in Character : Feed(c)

TextSpec == TextInit /\ [][TextNext]_textVars

-----------------------------------------------------------------------------
\* What the repair appends: ']' * open_sq + '}' * opens.
Closers == [i \in 1..(repair.openSq + repair.opens) |->
              IF i <= repair.openSq THEN "endList" ELSE "endObject"]

\* What would close the text: every open bracket, the innermost first.
Match == [i \in 1..Len(stack) |->
            IF stack[Len(stack) + 1 - i] = "object" THEN "endObject" ELSE "endList"]

\* At every point where an answer can be cut off, the repair closes as many
\* brackets as are open, and exactly those, in their order, if and only if no
\* object is open inside an open list: a report cut inside an object of a list
\* ends as invalid JSON and the call fails (client.py:99-153).
RepairClosesUnlessObjectInList ==
  /\ repair.opens = Cardinality({i \in 1..Len(stack) : stack[i] = "object"})
  /\ repair.openSq = Cardinality({i \in 1..Len(stack) : stack[i] = "list"})
  /\ Closers = Match <=> \A i, j \in 1..Len(stack) :
                            stack[i] = "list" /\ stack[j] = "object" => j < i

\* _extract_json ends the object it found at the bracket that closes it, and not
\* before: while it is open it is the part of the nesting from its first bracket
\* on, whatever its strings contain (shadow_service.py:67-118).  This holds of
\* texts without a quote before the object, which the scanner does not see.
ExtractEndsAtMatch ==
  extract.started /\ ~ extract.closed /\ extract.inString = repair.inString =>
    /\ Len(stack) >= extract.objectAt /\ stack[extract.objectAt] = "object"
    /\ extract.depth = Cardinality({i \in extract.objectAt..Len(stack) : stack[i] = "object"})

\* Both scanners follow the nesting of what they read, however much of it there is
\* (client.py:99-153, shadow_service.py:67-118).
BracketsAreFollowed == RepairClosesUnlessObjectInList /\ ExtractEndsAtMatch
=============================================================================

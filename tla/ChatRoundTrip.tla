--------------------------- MODULE ChatRoundTrip ---------------------------
(***************************************************************************)
(* The chat completions of one session: the Redis gate, the handler, the   *)
(* pipeline's substitution of the whole history, one provider call through *)
(* the router, the restoration of the answer and the log line.  Requests   *)
(* of a session overlap at every await.                                    *)
(*                                                                         *)
(* The vault is AtomicVault, which SessionVault implements.  A message is  *)
(* the sequence of the entities detected in it, in the order they are      *)
(* substituted; a payload is what stands in their places; an answer is the *)
(* set of the fakes, and then of the originals, it mentions.               *)
(***************************************************************************)
EXTENDS Naturals, Sequences, FiniteSets, Functions

CONSTANTS
  Requests,   \* the POST /v1/chat/completions of the session
  Originals,  \* the detected values (PERSON and LOCATION names)
  Fakes,      \* the fakes the generator can draw
  Pii,        \* the entities in the history each request carries
  Prefixes,   \* the prefixes of the models requests may ask for
  Keys,       \* the prefixes whose API key is configured
  Faults,     \* what may go wrong: "redis", "provider", "forget"
  NoFake,     \* no answer of the vault yet
  NotSent     \* no payload has left for the provider

ASSUME PiiAssumption == \A r \in Requests : Pii[r] \in Seq(Originals)
ASSUME FakesAssumption == Originals \cap Fakes = {} /\ NoFake \notin Fakes
ASSUME NotSentAssumption == NotSent \notin Seq(Fakes)

VARIABLES
  ready,      \* nlp._ready
  assigned,   \* the vault: the fake of each original
  answered,   \* what get_or_create has returned for each entity
  pc,         \* the await each request stands at
  model,      \* the prefix of the model each request has been routed by
  sent,       \* the payload each request has sent
  reply,      \* the fakes in the provider's answer
  answer,     \* the words of the answer as far as it is restored
  response,   \* the status, and whether the body has the session_id
  lines,      \* the structured log lines of each request
  forgotten   \* whether the session has been deleted or has expired

vars == <<ready, assigned, answered, pc, model, sent, reply, answer, response,
          lines, forgotten>>

Slots == UNION {{r} \X DOMAIN Pii[r] : r \in Requests}
OriginalOf(slot) == Pii[slot[1]][slot[2]]

Vault == INSTANCE AtomicVault WITH Calls <- Slots, KeyOf <- OriginalOf
vault == <<assigned, answered>>

NoResponse == [status |-> 0, session |-> FALSE]

Init ==
  /\ ready = FALSE
  /\ Vault!Init
  /\ pc = [r \in Requests |-> "gate"]
  /\ model = [r \in Requests |-> "none"]
  /\ sent = [r \in Requests |-> NotSent]
  /\ reply = [r \in Requests |-> {}]
  /\ answer = [r \in Requests |-> {}]
  /\ response = [r \in Requests |-> NoResponse]
  /\ lines = [r \in Requests |-> 0]
  /\ forgotten = FALSE

At(r, state) == pc[r] = state
GoTo(r, state) == pc' = [pc EXCEPT ![r] = state]

(* A response on its way out through RequestLoggingMiddleware; _error and  *)
(* the success body carry the session_id, the gate's body does not.        *)
Respond(r, status, session) ==
  /\ response' = [response EXCEPT ![r] = [status |-> status, session |-> session]]
  /\ GoTo(r, "log")

(* An exception no handler catches unwinds the middleware, too: Starlette  *)
(* answers a bare 500.                                                     *)
Raise(r) ==
  /\ response' = [response EXCEPT ![r] = [status |-> 500, session |-> FALSE]]
  /\ GoTo(r, "ended")

-----------------------------------------------------------------------------
(* The redis_availability_gate. *)
PassGate(r) ==
  /\ At(r, "gate")
  /\ GoTo(r, "handler")
  /\ UNCHANGED <<ready, vault, model, sent, reply, answer, response, lines,
                 forgotten>>

(* Mutant: the gate logs its refusals, too. *)
FailGateLogged(r) ==
  /\ "redis" \in Faults
  /\ At(r, "gate")
  /\ Respond(r, 503, FALSE)
  /\ lines' = [lines EXCEPT ![r] = @ + 1]
  /\ UNCHANGED <<ready, vault, model, sent, reply, answer, forgotten>>

FailGate(r) ==
  /\ "redis" \in Faults
  /\ At(r, "gate")
  /\ Respond(r, 503, FALSE)
  /\ UNCHANGED <<ready, vault, model, sent, reply, answer, lines, forgotten>>

(* The validation of chat_completions: any client may send a bad role,     *)
(* content or last message.                                                *)
Refuse(r) ==
  /\ At(r, "handler")
  /\ Respond(r, 400, TRUE)
  /\ UNCHANGED <<ready, vault, model, sent, reply, answer, lines, forgotten>>

(* Mutant: the request waits for the model. *)
HandleOnceReady(r) ==
  /\ At(r, "handler")
  /\ ready
  /\ GoTo(r, "inbound")
  /\ UNCHANGED <<ready, vault, model, sent, reply, answer, response, lines,
                 forgotten>>

(* The readiness check: a model that is not loaded is not waited for. *)
Handle(r) ==
  /\ At(r, "handler")
  /\ \/ ready /\ GoTo(r, "inbound") /\ UNCHANGED response
     \/ ~ready /\ Respond(r, 503, TRUE)
  /\ UNCHANGED <<ready, vault, model, sent, reply, answer, lines, forgotten>>

Substituted(r) == \A n \in DOMAIN Pii[r] : answered[<<r, n>>] # NoFake

(* The entity pseudonymize_text is at: it goes through them in order. *)
Current(r, n) ==
  /\ n \in DOMAIN Pii[r]
  /\ answered[<<r, n>>] = NoFake
  /\ \A m \in 1 .. n - 1 : answered[<<r, m>>] # NoFake

(* Mutants: a fake is minted for every mention; a fake in use is minted.   *)
SubstituteAnew(r, n) ==
  /\ At(r, "inbound")
  /\ Current(r, n)
  /\ \E fake \in Fakes \ Range(assigned) :
       /\ answered' = [answered EXCEPT ![<<r, n>>] = fake]
       /\ assigned' = [o \in DOMAIN assigned \cup {Pii[r][n]} |->
                         IF o = Pii[r][n] THEN fake ELSE assigned[o]]
  /\ UNCHANGED <<ready, pc, model, sent, reply, answer, response, lines,
                 forgotten>>
SubstituteShared(r, n) ==
  /\ At(r, "inbound")
  /\ Current(r, n)
  /\ \/ Vault!AnswerKnown(<<r, n>>)
     \/ \E fake \in Fakes : Vault!MapTo(<<r, n>>, fake)
  /\ UNCHANGED <<ready, pc, model, sent, reply, answer, response, lines,
                 forgotten>>

(* One get_or_create: the fake in use, or one no original has. *)
Substitute(r, n) ==
  /\ At(r, "inbound")
  /\ Current(r, n)
  /\ \/ Vault!AnswerKnown(<<r, n>>)
     \/ \E fake \in Fakes \ Range(assigned) : Vault!MapTo(<<r, n>>, fake)
  /\ UNCHANGED <<ready, pc, model, sent, reply, answer, response, lines,
                 forgotten>>

NeedsKey == {"gpt-", "claude-"}
Recognized == NeedsKey \cup {"ollama/", "echo/"}

(* LLMRouter.complete and the adapter up to its own await. *)
Call(r) ==
  /\ At(r, "inbound")
  /\ Substituted(r)
  /\ \E prefix \in Prefixes :
       /\ model' = [model EXCEPT ![r] = prefix]
       /\ \/ /\ prefix \notin Recognized
             /\ Respond(r, 400, TRUE) /\ UNCHANGED sent
          \/ /\ prefix \in NeedsKey \ Keys
             /\ Respond(r, 503, TRUE) /\ UNCHANGED sent
          \/ /\ prefix \in Recognized \ (NeedsKey \ Keys)
             /\ sent' = [sent EXCEPT ![r] =
                           [n \in DOMAIN Pii[r] |-> answered[<<r, n>>]]]
             /\ GoTo(r, "provider") /\ UNCHANGED response
  /\ UNCHANGED <<ready, vault, reply, answer, lines, forgotten>>

-----------------------------------------------------------------------------
(* The provider answers, mentioning any of the fakes it was sent; the echo *)
(* provider repeats those of the last user message.                        *)
ProviderAnswers(r) ==
  /\ At(r, "provider")
  /\ \E mentioned \in SUBSET Range(sent[r]) :
       /\ reply' = [reply EXCEPT ![r] = mentioned]
       /\ answer' = [answer EXCEPT ![r] = mentioned]
  /\ GoTo(r, "restore")
  /\ UNCHANGED <<ready, vault, model, sent, response, lines, forgotten>>

(* The status of each kind of LLMProviderError (_ERROR_STATUS). *)
ErrorStatus ==
  [unreachable |-> 503, missing_model |-> 503, timeout |-> 504,
   rate_limit |-> 429, auth |-> 503, unknown_model |-> 400]

(* The kinds each adapter turns its client's errors into. *)
KindsOf(prefix) ==
  CASE prefix \in NeedsKey ->
         {"timeout", "unreachable", "rate_limit", "auth", "missing_model"}
    [] prefix = "ollama/" -> {"timeout", "unreachable", "missing_model"}
    [] OTHER -> {}

ProviderFails(r) ==
  /\ "provider" \in Faults
  /\ At(r, "provider")
  /\ \E kind \in KindsOf(model[r]) : Respond(r, ErrorStatus[kind], TRUE)
  /\ UNCHANGED <<ready, vault, model, sent, reply, answer, lines, forgotten>>

(* An error the adapter does not catch: a 400 or 5xx status error of the   *)
(* OpenAI and Anthropic clients, a broken connection to Ollama.            *)
ProviderRaises(r) ==
  /\ "provider" \in Faults
  /\ At(r, "provider")
  /\ model[r] # "echo/"
  /\ Raise(r)
  /\ UNCHANGED <<ready, vault, model, sent, reply, answer, lines, forgotten>>

-----------------------------------------------------------------------------
Restored(word) ==
  IF word \in Range(assigned)
  THEN CHOOSE o \in DOMAIN assigned : assigned[o] = word
  ELSE word

(* restore_text: nothing to do without reverse records. *)
Restore(r) ==
  /\ At(r, "restore")
  /\ answer' = [answer EXCEPT ![r] = {Restored(w) : w \in @}]
  /\ GoTo(r, IF assigned = << >> THEN "count" ELSE "restore_fuzzy")
  /\ UNCHANGED <<ready, vault, model, sent, reply, response, lines, forgotten>>

(* _fuzzy_restore_names reads the session again: a name mapped since the   *)
(* first read is restored, too.                                            *)
RestoreFuzzy(r) ==
  /\ At(r, "restore_fuzzy")
  /\ answer' = [answer EXCEPT ![r] = {Restored(w) : w \in @}]
  /\ GoTo(r, "extend")
  /\ UNCHANGED <<ready, vault, model, sent, reply, response, lines, forgotten>>

(* The EXPIRE that ends restore_text. *)
ExtendTTL(r) ==
  /\ At(r, "extend")
  /\ GoTo(r, "count")
  /\ UNCHANGED <<ready, vault, model, sent, reply, answer, response, lines,
                 forgotten>>

(* increment_message_count, then the completed response. *)
Count(r) ==
  /\ At(r, "count")
  /\ Respond(r, 200, TRUE)
  /\ UNCHANGED <<ready, vault, model, sent, reply, answer, lines, forgotten>>

(* RequestLoggingMiddleware, after call_next has returned a response. *)
Log(r) ==
  /\ At(r, "log")
  /\ lines' = [lines EXCEPT ![r] = @ + 1]
  /\ GoTo(r, "ended")
  /\ UNCHANGED <<ready, vault, model, sent, reply, answer, response, forgotten>>

-----------------------------------------------------------------------------
OnRedis(r) ==
  \/ At(r, "inbound") /\ ~Substituted(r)
  \/ pc[r] \in {"restore", "restore_fuzzy", "extend", "count"}

(* Mutant: an entity whose substitution fails stays as it is. *)
RedisFailsOpen(r) ==
  /\ "redis" \in Faults
  /\ At(r, "inbound")
  /\ \E n \in DOMAIN Pii[r] :
       /\ Current(r, n)
       /\ answered' = [answered EXCEPT ![<<r, n>>] = Pii[r][n]]
  /\ UNCHANGED <<ready, assigned, pc, model, sent, reply, answer, response,
                 lines, forgotten>>

(* A Redis command raises.  In a get_or_create the mapping may have been   *)
(* written before.                                                         *)
RedisFails(r) ==
  /\ "redis" \in Faults
  /\ OnRedis(r)
  /\ Raise(r)
  /\ \/ UNCHANGED assigned
     \/ /\ At(r, "inbound")
        /\ \E n \in DOMAIN Pii[r], fake \in Fakes \ Range(assigned) :
             /\ Current(r, n)
             /\ Pii[r][n] \notin DOMAIN assigned
             /\ assigned' = [o \in DOMAIN assigned \cup {Pii[r][n]} |->
                               IF o = Pii[r][n] THEN fake ELSE assigned[o]]
  /\ UNCHANGED <<ready, answered, model, sent, reply, answer, lines, forgotten>>

(* The background load of the spaCy model; it may also fail for good. *)
ModelLoads ==
  /\ ~ready
  /\ ready' = TRUE
  /\ UNCHANGED <<vault, pc, model, sent, reply, answer, response, lines,
                 forgotten>>

(* DELETE /v1/sessions/{id}, or expiry during a long provider call. *)
Forget ==
  /\ "forget" \in Faults
  /\ assigned # << >>
  /\ Vault!Forget
  /\ forgotten' = TRUE
  /\ UNCHANGED <<ready, pc, model, sent, reply, answer, response, lines>>

RequestStep(r) ==
  \/ PassGate(r) \/ Handle(r) \/ Call(r)
  \/ \E n \in DOMAIN Pii[r] : Substitute(r, n)
  \/ ProviderAnswers(r)
  \/ Restore(r) \/ RestoreFuzzy(r) \/ ExtendTTL(r) \/ Count(r) \/ Log(r)

Failure(r) ==
  \/ FailGate(r) \/ Refuse(r) \/ ProviderFails(r) \/ ProviderRaises(r) \/ RedisFails(r)

(* All the requests of the run have been answered. *)
Served ==
  /\ \A r \in Requests : At(r, "ended")
  /\ UNCHANGED vars

Next ==
  \/ \E r \in Requests : RequestStep(r) \/ Failure(r)
  \/ ModelLoads
  \/ Forget
  \/ Served

Spec == Init /\ [][Next]_vars

(* A request is scheduled until it is answered, and a provider call that   *)
(* gets no answer runs into its client's timeout.                          *)
FairSpec ==
  Spec /\ \A r \in Requests : WF_vars(RequestStep(r) \/ ProviderFails(r))

-----------------------------------------------------------------------------
(* Properties. *)

Waits == {"gate", "handler", "inbound", "provider", "restore", "restore_fuzzy",
          "extend", "count", "log", "ended"}
Statuses == {0, 200, 400, 429, 500, 503, 504}

VaultOK ==
  /\ DOMAIN assigned \subseteq Originals
  /\ \A o \in DOMAIN assigned : assigned[o] \in Fakes
  /\ answered \in [Slots -> Fakes \cup {NoFake}]

ProgressOK ==
  /\ ready \in BOOLEAN /\ forgotten \in BOOLEAN
  /\ pc \in [Requests -> Waits]
  /\ model \in [Requests -> Prefixes \cup {"none"}]
  /\ response \in [Requests -> [status : Statuses, session : BOOLEAN]]
  /\ lines \in [Requests -> 0 .. 1]
  /\ \A r \in Requests : lines[r] = 1 => At(r, "ended")

WordsOK ==
  /\ DOMAIN sent = Requests
  /\ \A r \in Requests :
       sent[r] # NotSent => sent[r] \in [DOMAIN Pii[r] -> Fakes]
  /\ reply \in [Requests -> SUBSET Fakes]
  /\ answer \in [Requests -> SUBSET (Originals \cup Fakes)]

TypeOK == VaultOK /\ ProgressOK /\ WordsOK

(* A payload leaves only with a fake in the place of every entity of the   *)
(* whole history: an unloaded model, a Redis error or a validation error   *)
(* stops the request instead (chat.py: "Validation runs before any         *)
(* provider call").                                                        *)
FailClosed ==
  \A r \in Requests : sent[r] # NotSent =>
    /\ sent[r] \in [DOMAIN Pii[r] -> Fakes]
    /\ ready
    /\ response[r].status # 400

(* FR-006 with FR-012 and FR-015: as long as the session is kept, all its  *)
(* payloads agree - one fake for one original, in every turn, and two for  *)
(* two.                                                                    *)
PayloadsAgree ==
  ~forgotten => \A r, s \in Requests : sent[r] # NotSent /\ sent[s] # NotSent =>
    \A i \in DOMAIN Pii[r], j \in DOMAIN Pii[s] :
      sent[r][i] = sent[s][j] <=> Pii[r][i] = Pii[s][j]

(* As long as the session is kept, an answered request shows its user the  *)
(* originals of exactly the fakes the provider mentioned, whatever other   *)
(* requests have stored meanwhile.                                         *)
RestoresOwn ==
  ~forgotten => \A r \in Requests : response[r].status = 200 =>
    answer[r] = {Pii[r][n] : n \in {m \in DOMAIN Pii[r] : sent[r][m] \in reply[r]}}

(* A failure of a provider is reported with its mapped status and the      *)
(* session_id (chat.py: "Provider failures map to 503/504/429 via the      *)
(* centralized _ERROR_STATUS map and also preserve session_id").           *)
ProviderFailuresMapped ==
  \A r \in Requests :
    sent[r] # NotSent /\ At(r, "ended") =>
      /\ response[r].status \in {200, 429, 503, 504}
      /\ response[r].session

(* Every request is answered, whatever fails. *)
RequestsAnswered ==
  \A r \in Requests : At(r, "gate") ~> At(r, "ended")

=============================================================================

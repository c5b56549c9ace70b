---------------------------- MODULE SessionVault ----------------------------
(***************************************************************************)
(* One session of the pseudonym vault: the Redis hash of the session, the  *)
(* in-process lock registry, and the coroutines that work on them.         *)
(*                                                                         *)
(* A coroutine gives up the event loop only at an await on Redis or on the *)
(* session lock, so one action is one Redis command with the code that     *)
(* runs up to the next await.  Sessions share no state: one is modelled.   *)
(***************************************************************************)
EXTENDS Coreference

CONSTANTS
  Tokens,      \* the words lemmas, surfaces and fakes are made of
  Calls,       \* MappingStore.get_or_create calls (chat and pseudonymize)
  Bumps,       \* increment_message_count calls (one per answered chat)
  Readers,     \* restore_text and get_all_mappings calls
  Summaries,   \* get_session_summary calls (GET /v1/sessions/{id})
  Deletes,     \* delete_session calls (DELETE /v1/sessions/{id})
  EntityOf,    \* the detected entity each call is for
  NameTypes,   \* the inflecting types: PERSON and LOCATION
  Cases,       \* the grammatical cases that render differently
  Pool,        \* per type, the fake bases the generator can draw
  Forced,      \* per type, the bases the last-resort suffix can build
  Faults,      \* what may go wrong: "redis", "restart", "expiry"
  NoCall       \* None, where a call is expected

Types == DOMAIN Pool
Procs == Calls \cup Bumps \cup Readers \cup Summaries \cup Deletes

ASSUME CallAssumption == NoCall \notin Procs
ASSUME KindAssumption ==
  /\ Calls \cap (Bumps \cup Readers \cup Summaries \cup Deletes) = {}
  /\ Bumps \cap (Readers \cup Summaries \cup Deletes) = {}
  /\ Readers \cap (Summaries \cup Deletes) = {}
  /\ Summaries \cap Deletes = {}
ASSUME FaultAssumption == Faults \subseteq {"redis", "restart", "expiry"}
ASSUME CaseAssumption == "nom" \in Cases
(* Detection and the generator deliver well-formed entities and fakes.     *)
ASSUME EntityAssumption ==
  \A c \in Calls : EntityOf[c] \in
    [type : Types, lemma : Seq(Tokens), case : Cases, text : Seq(Tokens)]
ASSUME FakeAssumption ==
  \A t \in Types : Pool[t] \cup Forced[t] \subseteq Seq(Tokens) \ {NoFake}

VARIABLES
  session,     \* the Redis hash session:{id}
  registry,    \* SessionLockRegistry._locks: the lock of the session
  holder,      \* who holds each asyncio.Lock
  pc,          \* the await each coroutine stands at
  loc,         \* the local variables of a get_or_create call
  seen,        \* the meta record a coroutine has read
  report       \* the TTL and the pairs a summary has read

vars == <<session, registry, holder, pc, loc, seen, report>>

-----------------------------------------------------------------------------
(* The session hash: field groups fwd:, rev:, forms:, corefs and meta, and *)
(* the key's expiry.  A key without fields does not exist.                 *)

Empty == << >>
NoMeta == [created |-> NoCall, entities |-> 0, messages |-> 0]

EmptySession ==
  [fwd |-> Empty, rev |-> Empty, forms |-> {}, corefs |-> << >>,
   meta |-> NoMeta, ttl |-> "none"]

Exists(s) ==
  \/ DOMAIN s.fwd # {}
  \/ DOMAIN s.rev # {}
  \/ s.corefs # << >>
  \/ s.meta # NoMeta

(* HSET of several fields: the new values win. *)
Override(f, g) ==
  [x \in DOMAIN f \cup DOMAIN g |-> IF x \in DOMAIN g THEN g[x] ELSE f[x]]

(* Mutant: no EXPIRE is sent. *)
ExtendNothing(s) == s

(* EXPIRE gives an existing key its whole TTL and does nothing otherwise.  *)
(* Later the TTL is due, and the key goes at the next instant or the one   *)
(* after; HSET leaves it alone.                                            *)
ExtendTTL(s) == IF Exists(s) THEN [s EXCEPT !.ttl = "fresh"] ELSE s
TTLs == {"none", "fresh", "due"}

-----------------------------------------------------------------------------
(* Entities and fakes.  The mapping key of a call is the type with the     *)
(* normalized lemma; a surface of a fake is its base in a case.            *)

KeyOf(c) == [type |-> EntityOf[c].type, lemma |-> EntityOf[c].lemma]
IsName(c) == EntityOf[c].type \in NameTypes

Form(base, case) == [base |-> base, case |-> case]
Nominative(base) == Form(base, "nom")
FormsOf(base) == {Form(base, case) : case \in Cases}

(* The nominative base unless the call is for a name in another case. *)
Rendered(c, base, inflects) ==
  IF IsName(c) /\ inflects THEN Form(base, EntityOf[c].case)
                           ELSE Nominative(base)

(* Mutants: the records leave out the entity type, or the nominative.      *)
ReverseFieldsUntyped(c, base, inflects) ==
  [form \in FormsOf(base) |-> [orig |-> EntityOf[c].lemma, exact |-> FALSE]]
ReverseFieldsOblique(c, base, inflects) ==
  [form \in FormsOf(base) \ {Nominative(base)} |->
     [orig |-> EntityOf[c].lemma, type |-> EntityOf[c].type, exact |-> FALSE]]

(* The reverse records write_mapping stores for a mapping: one per form    *)
(* with the lemma, or a bare one with the text.                            *)
ReverseFields(c, base, inflects) ==
  IF inflects
  THEN [form \in FormsOf(base) |->
          [orig |-> EntityOf[c].lemma, type |-> EntityOf[c].type,
           exact |-> FALSE]]
  ELSE [form \in {Nominative(base)} |->
          [orig |-> EntityOf[c].text, type |-> EntityOf[c].type,
           exact |-> FALSE]]

(* Mutant: the forms in use are not looked at. *)
MintableAny(c, used) ==
  [base : Pool[EntityOf[c].type], inflects : {IsName(c)}]

(* UniqueFakeFactory.mint: a drawn fake none of whose forms is in use, or, *)
(* once draws have collided, a suffixed base without forms.                *)
Mintable(c, used) ==
  LET type == EntityOf[c].type
      Collides(base) == (FormsOf(base) \cup {Nominative(base)}) \cap used # {}
  IN  [base : {b \in Pool[type] : ~Collides(b)}, inflects : {IsName(c)}]
      \cup
      IF \E b \in Pool[type] : Collides(b)
      THEN [base : {b \in Forced[type] : Nominative(b) \notin used},
            inflects : {FALSE}]
      ELSE {}

(* Mutant: only the forms index is listed. *)
PairsOfForms(s) ==
  {[type |-> s.rev[Nominative(b)].type, fake |-> Nominative(b)] :
     b \in {x \in s.forms : Nominative(x) \in DOMAIN s.rev}}

(* get_all_mappings: a pair per base with stored forms, and a pair per     *)
(* reverse record of a type that does not inflect.                         *)
Pairs(s) ==
  {[type |-> s.rev[Nominative(b)].type, orig |-> s.rev[Nominative(b)].orig,
    fake |-> Nominative(b)] :
     b \in {x \in s.forms : Nominative(x) \in DOMAIN s.rev}}
  \cup
  {[type |-> s.rev[f].type, orig |-> s.rev[f].orig, fake |-> f] :
     f \in {x \in DOMAIN s.rev : s.rev[x].type \notin NameTypes}}

-----------------------------------------------------------------------------
NoLocals == [lock |-> NoCall, base |-> NoFake, inflects |-> FALSE,
             surface |-> Nominative(NoFake), corefs |-> << >>]

Init ==
  /\ session = EmptySession
  /\ registry = NoCall
  /\ holder = [l \in Calls |-> NoCall]
  /\ pc = [p \in Procs |-> "idle"]
  /\ loc = [c \in Calls |-> NoLocals]
  /\ seen = [p \in Procs |-> NoMeta]
  /\ report = [s \in Summaries |-> [ttl |-> "none", pairs |-> 0]]

At(p, state) == pc[p] = state
GoTo(p, state) == pc' = [pc EXCEPT ![p] = state]

(* Mutant: a new lock is not registered. *)
EnterUnregistered(c) ==
  /\ At(c, "idle")
  /\ loc' = [loc EXCEPT ![c].lock = IF registry = NoCall THEN c ELSE registry]
  /\ GoTo(c, "waiting")
  /\ UNCHANGED <<session, registry, holder, seen, report>>

(* SessionLockRegistry.lock: the registered lock, or a new one, known by   *)
(* the call that created it.                                               *)
Enter(c) ==
  /\ At(c, "idle")
  /\ LET lock == IF registry = NoCall THEN c ELSE registry
     IN  /\ registry' = lock
         /\ loc' = [loc EXCEPT ![c].lock = lock]
  /\ GoTo(c, "waiting")
  /\ UNCHANGED <<session, holder, seen, report>>

(* Mutant: a lock another call holds is taken. *)
AcquireHeld(c) ==
  /\ At(c, "waiting")
  /\ holder' = [holder EXCEPT ![loc[c].lock] = c]
  /\ GoTo(c, "read_forward")
  /\ UNCHANGED <<session, registry, loc, seen, report>>

(* async with lock: entered once the lock is free. *)
Acquire(c) ==
  /\ At(c, "waiting")
  /\ holder[loc[c].lock] = NoCall
  /\ holder' = [holder EXCEPT ![loc[c].lock] = c]
  /\ GoTo(c, "read_forward")
  /\ UNCHANGED <<session, registry, loc, seen, report>>

(* Mutant: the forward field is never found. *)
ReadForwardMiss(c) ==
  /\ At(c, "read_forward")
  /\ GoTo(c, IF IsName(c) THEN "load_corefs" ELSE "mint")
  /\ UNCHANGED <<session, registry, holder, loc, seen, report>>

(* A cached base in the nominative (or of an identifier) is rendered       *)
(* without another read; in another case its forms are read first.         *)
ReadForward(c) ==
  /\ At(c, "read_forward")
  /\ IF KeyOf(c) \in DOMAIN session.fwd
     THEN LET base == session.fwd[KeyOf(c)]
          IN  /\ loc' = [loc EXCEPT ![c].base = base,
                                    ![c].surface = Nominative(base)]
              /\ GoTo(c, CASE ~IsName(c) -> "extend"
                           [] IsName(c) /\ EntityOf[c].case = "nom"
                                -> "write_exact"
                           [] OTHER -> "read_forms")
     ELSE /\ GoTo(c, IF IsName(c) THEN "load_corefs" ELSE "mint")
          /\ UNCHANGED loc
  /\ UNCHANGED <<session, registry, holder, seen, report>>

ReadForms(c) ==
  /\ At(c, "read_forms")
  /\ loc' = [loc EXCEPT ![c].surface =
               Rendered(c, loc[c].base, loc[c].base \in session.forms)]
  /\ GoTo(c, "write_exact")
  /\ UNCHANGED <<session, registry, holder, seen, report>>

(* _reuse_coreferent up to its write. *)
LoadCorefs(c) ==
  /\ At(c, "load_corefs")
  /\ LET base == Resolve(EntityOf[c].type, EntityOf[c].lemma, session.corefs)
     IN  IF base = NoFake
         THEN GoTo(c, "mint") /\ UNCHANGED loc
         ELSE /\ loc' = [loc EXCEPT ![c].base = base,
                                    ![c].inflects = TRUE,
                                    ![c].surface = Rendered(c, base, TRUE)]
              /\ GoTo(c, "write_mapping")
  /\ UNCHANGED <<session, registry, holder, seen, report>>

(* used_fake_forms with the minting that follows it. *)
Mint(c) ==
  /\ At(c, "mint")
  /\ \E fake \in Mintable(c, DOMAIN session.rev) :
       loc' = [loc EXCEPT ![c].base = fake.base,
                          ![c].inflects = fake.inflects,
                          ![c].surface = Rendered(c, fake.base, fake.inflects)]
  /\ GoTo(c, "write_mapping")
  /\ UNCHANGED <<session, registry, holder, seen, report>>

(* The one HSET of write_mapping with the forward, forms and reverse       *)
(* fields.                                                                 *)
WriteMapping(c) ==
  /\ At(c, "write_mapping")
  /\ LET base == loc[c].base
         inflects == loc[c].inflects
     IN  session' = [session EXCEPT
           !.fwd = Override(@, [k \in {KeyOf(c)} |-> base]),
           !.forms = IF inflects THEN @ \cup {base} ELSE @,
           !.rev = Override(@, ReverseFields(c, base, inflects))]
  /\ GoTo(c, IF IsName(c) THEN "read_corefs" ELSE "read_meta")
  /\ UNCHANGED <<registry, holder, loc, seen, report>>

(* append_coref: a read and a write of the whole list. *)
ReadCorefs(c) ==
  /\ At(c, "read_corefs")
  /\ loc' = [loc EXCEPT ![c].corefs = session.corefs]
  /\ GoTo(c, "write_corefs")
  /\ UNCHANGED <<session, registry, holder, seen, report>>

WriteCorefs(c) ==
  /\ At(c, "write_corefs")
  /\ session' = [session EXCEPT !.corefs =
       Append(loc[c].corefs,
              [lemma |-> EntityOf[c].lemma, base |-> loc[c].base,
               type |-> EntityOf[c].type])]
  /\ GoTo(c, "read_meta")
  /\ UNCHANGED <<registry, holder, loc, seen, report>>

(* bump_meta: a read and a write of the whole record. *)
ReadMeta(c) ==
  /\ At(c, "read_meta")
  /\ seen' = [seen EXCEPT ![c] = session.meta]
  /\ GoTo(c, "write_meta")
  /\ UNCHANGED <<session, registry, holder, loc, report>>

(* Mutant: the record is only written once it exists. *)
WriteMetaLater(c) ==
  /\ At(c, "write_meta")
  /\ session' = [session EXCEPT !.meta =
       IF seen[c] = NoMeta THEN NoMeta ELSE [seen[c] EXCEPT !.entities = @ + 1]]
  /\ GoTo(c, "extend_written")
  /\ UNCHANGED <<registry, holder, loc, seen, report>>

WriteMeta(c) ==
  /\ At(c, "write_meta")
  /\ session' = [session EXCEPT !.meta =
       IF seen[c] = NoMeta
       THEN [created |-> c, entities |-> 1, messages |-> 0]
       ELSE [seen[c] EXCEPT !.entities = @ + 1]]
  /\ GoTo(c, "extend_written")
  /\ UNCHANGED <<registry, holder, loc, seen, report>>

(* The EXPIRE that ends write_mapping. *)
ExtendWritten(c) ==
  /\ At(c, "extend_written")
  /\ session' = ExtendTTL(session)
  /\ GoTo(c, IF IsName(c) THEN "write_exact" ELSE "extend")
  /\ UNCHANGED <<registry, holder, loc, seen, report>>

(* write_exact_reverse: the exact surface for the form just inserted. *)
WriteExact(c) ==
  /\ At(c, "write_exact")
  /\ session' = [session EXCEPT !.rev =
       Override(@, [form \in {loc[c].surface} |->
         [orig |-> EntityOf[c].text, type |-> EntityOf[c].type,
          exact |-> TRUE]])]
  /\ GoTo(c, "extend")
  /\ UNCHANGED <<registry, holder, loc, seen, report>>

(* The EXPIRE that ends _substitute. *)
Extend(c) ==
  /\ At(c, "extend")
  /\ session' = ExtendTTL(session)
  /\ GoTo(c, "release")
  /\ UNCHANGED <<registry, holder, loc, seen, report>>

(* Leaving async with: the call returns the surface it inserted. *)
Release(c) ==
  /\ At(c, "release")
  /\ holder' = [holder EXCEPT ![loc[c].lock] = NoCall]
  /\ GoTo(c, "done")
  /\ UNCHANGED <<session, registry, loc, seen, report>>

-----------------------------------------------------------------------------
(* increment_message_count: no lock, no EXPIRE. *)
ReadCount(b) ==
  /\ At(b, "idle")
  /\ seen' = [seen EXCEPT ![b] = session.meta]
  /\ GoTo(b, IF session.meta = NoMeta THEN "done" ELSE "write_count")
  /\ UNCHANGED <<session, registry, holder, loc, report>>

WriteCount(b) ==
  /\ At(b, "write_count")
  /\ session' = [session EXCEPT !.meta = [seen[b] EXCEPT !.messages = @ + 1]]
  /\ GoTo(b, "done")
  /\ UNCHANGED <<registry, holder, loc, seen, report>>

(* The readers: an HGETALL, then an EXPIRE if anything was found - reverse *)
(* records by restore_text, pairs by get_all_mappings (pairs come from     *)
(* reverse records, so there are none without any).                        *)
ReadMappings(r) ==
  /\ At(r, "idle")
  /\ \/ DOMAIN session.rev # {} /\ GoTo(r, "extend_read")
     \/ Pairs(session) = {} /\ GoTo(r, "done")
  /\ UNCHANGED <<session, registry, holder, loc, seen, report>>

ExtendRead(r) ==
  /\ At(r, "extend_read")
  /\ session' = ExtendTTL(session)
  /\ GoTo(r, "done")
  /\ UNCHANGED <<registry, holder, loc, seen, report>>

(* get_session_summary: meta, TTL and mappings in three reads, then the    *)
(* EXPIRE of get_all_mappings.                                             *)
SummaryMeta(s) ==
  /\ At(s, "idle")
  /\ seen' = [seen EXCEPT ![s] = session.meta]
  /\ GoTo(s, IF session.meta = NoMeta THEN "done" ELSE "summary_ttl")
  /\ UNCHANGED <<session, registry, holder, loc, report>>

SummaryTTL(s) ==
  /\ At(s, "summary_ttl")
  /\ report' = [report EXCEPT ![s].ttl = session.ttl]
  /\ GoTo(s, "summary_pairs")
  /\ UNCHANGED <<session, registry, holder, loc, seen>>

SummaryPairs(s) ==
  /\ At(s, "summary_pairs")
  /\ report' = [report EXCEPT ![s].pairs = Cardinality(Pairs(session))]
  /\ GoTo(s, IF Pairs(session) = {} THEN "done" ELSE "extend_read")
  /\ UNCHANGED <<session, registry, holder, loc, seen>>

(* delete_session: DEL, then the registry forgets the lock - whether or    *)
(* not a call holds it.                                                    *)
DeleteHash(d) ==
  /\ At(d, "idle")
  /\ session' = EmptySession
  /\ GoTo(d, "discard")
  /\ UNCHANGED <<registry, holder, loc, seen, report>>

DiscardLock(d) ==
  /\ At(d, "discard")
  /\ registry' = NoCall
  /\ GoTo(d, "done")
  /\ UNCHANGED <<session, holder, loc, seen, report>>

-----------------------------------------------------------------------------
(* The environment. *)

Locked == {"read_forward", "read_forms", "load_corefs", "mint",
           "write_mapping", "read_corefs", "write_corefs", "read_meta",
           "write_meta", "extend_written", "write_exact", "extend", "release"}
Ended == {"done", "failed"}
OnRedis == Locked \cup {"write_count", "extend_read", "summary_ttl",
                      "summary_pairs", "discard"}

States == OnRedis \cup Ended \cup {"idle", "waiting"}

(* A session nobody works on runs out of its TTL: a coroutine lasts far    *)
(* less than the TTL (1800 s by default), so none sees it pass whole.      *)
AtRest == \A p \in Procs : pc[p] \in Ended \cup {"idle"}

Idle ==
  /\ "expiry" \in Faults
  /\ AtRest
  /\ session.ttl = "fresh"
  /\ session' = [session EXCEPT !.ttl = "due"]
  /\ UNCHANGED <<registry, holder, pc, loc, seen, report>>

(* The key expires, possibly under the requests that have come meanwhile.  *)
Expire ==
  /\ session.ttl = "due"
  /\ session' = EmptySession
  /\ UNCHANGED <<registry, holder, pc, loc, seen, report>>

(* Mutant: the lock is not given back on an error. *)
RedisErrorLocked(p) ==
  /\ "redis" \in Faults
  /\ pc[p] \in OnRedis
  /\ GoTo(p, "failed")
  /\ UNCHANGED <<session, registry, holder, loc, seen, report>>

(* The command a coroutine waits for raises - unexecuted, or executed with *)
(* its answer lost (the state after it): the coroutine unwinds, and async  *)
(* with gives the lock back.                                               *)
RedisError(p) ==
  /\ "redis" \in Faults
  /\ pc[p] \in OnRedis
  /\ GoTo(p, "failed")
  /\ IF p \in Calls
     THEN /\ holder' = [holder EXCEPT ![loc[p].lock] = NoCall]
          /\ loc' = [loc EXCEPT ![p] = NoLocals]
     ELSE UNCHANGED <<holder, loc>>
  /\ UNCHANGED <<session, registry, seen, report>>

(* The gateway process restarts: every coroutine under way dies and the    *)
(* registry, which lives in the process, starts empty.                     *)
Restart ==
  /\ "restart" \in Faults
  /\ \E p \in Procs : pc[p] \notin Ended \cup {"idle"}
  /\ pc' = [p \in Procs |-> IF pc[p] \in Ended \cup {"idle"}
                            THEN pc[p] ELSE "failed"]
  /\ loc' = [c \in Calls |-> IF pc[c] \in Ended \cup {"idle"}
                             THEN loc[c] ELSE NoLocals]
  /\ registry' = NoCall
  /\ holder' = [l \in Calls |-> NoCall]
  /\ UNCHANGED <<session, seen, report>>

CallStep(c) ==
  \/ Enter(c) \/ Acquire(c) \/ ReadForward(c) \/ ReadForms(c)
  \/ LoadCorefs(c) \/ Mint(c) \/ WriteMapping(c) \/ ReadCorefs(c)
  \/ WriteCorefs(c) \/ ReadMeta(c) \/ WriteMeta(c) \/ ExtendWritten(c)
  \/ WriteExact(c) \/ Extend(c) \/ Release(c)

(* All the requests of the run have been served. *)
Served ==
  /\ \A p \in Procs : pc[p] \in Ended
  /\ UNCHANGED vars

Next ==
  \/ \E c \in Calls : CallStep(c)
  \/ \E b \in Bumps : ReadCount(b) \/ WriteCount(b)
  \/ \E r \in Readers : ReadMappings(r) \/ ExtendRead(r)
  \/ \E s \in Summaries : SummaryMeta(s) \/ SummaryTTL(s) \/ SummaryPairs(s)
                          \/ ExtendRead(s)
  \/ \E d \in Deletes : DeleteHash(d) \/ DiscardLock(d)
  \/ \E p \in Procs : RedisError(p)
  \/ Idle
  \/ Expire
  \/ Restart
  \/ Served

Spec == Init /\ [][Next]_vars

(* Every coroutine gets its turn; asyncio.Lock serves its waiters in the   *)
(* order they came, so none waits for ever behind others.                  *)
FairSpec ==
  /\ Spec
  /\ \A c \in Calls :
       /\ SF_vars(Acquire(c))
       /\ WF_vars(CallStep(c) /\ pc[c] \in Locked)
  /\ \A b \in Bumps : WF_vars(WriteCount(b))
  /\ \A r \in Readers \cup Summaries : WF_vars(ExtendRead(r))
  /\ \A s \in Summaries : WF_vars(SummaryTTL(s) \/ SummaryPairs(s))
  /\ \A d \in Deletes : WF_vars(DiscardLock(d))
  /\ WF_vars(Idle) /\ WF_vars(Expire)

-----------------------------------------------------------------------------
(* A call takes effect at its read of the forward field when that hits,    *)
(* and at the HSET of the new mapping otherwise.                           *)
Decided == {"read_forms", "read_corefs", "write_corefs", "read_meta",
            "write_meta", "extend_written", "write_exact", "extend",
            "release", "done"}
Answered == [c \in Calls |-> IF pc[c] \in Decided THEN loc[c].base ELSE NoFake]

Atomic == INSTANCE AtomicVault WITH assigned <- session.fwd,
                                    answered <- Answered

(* FR-012, for calls that overlap: get_or_create is atomic - each call     *)
(* answers as if it had run alone at one instant between start and return. *)
Linearizable == Atomic!Spec

-----------------------------------------------------------------------------
(* Properties. *)

Keys == [type : Types, lemma : Seq(Tokens)]
Metas == [created : Calls \cup {NoCall}, entities : Nat, messages : Nat]
ReverseRecords == [orig : Seq(Tokens), type : Types, exact : BOOLEAN]

SessionOK ==
  /\ DOMAIN session = {"fwd", "rev", "forms", "corefs", "meta", "ttl"}
  /\ DOMAIN session.fwd \subseteq Keys
  /\ \A f \in DOMAIN session.rev : session.rev[f] \in ReverseRecords
  /\ session.meta \in Metas
  /\ session.ttl \in TTLs

CoroutinesOK ==
  /\ registry \in Calls \cup {NoCall}
  /\ holder \in [Calls -> Calls \cup {NoCall}]
  /\ pc \in [Procs -> States]
  /\ DOMAIN loc = Calls
  /\ \A c \in Calls : /\ DOMAIN loc[c] = {"lock", "base", "inflects",
                                           "surface", "corefs"}
                      /\ loc[c].lock \in Calls \cup {NoCall}
                      /\ loc[c].inflects \in BOOLEAN
  /\ seen \in [Procs -> Metas]
  /\ DOMAIN report = Summaries
  /\ \A s \in Summaries : /\ DOMAIN report[s] = {"ttl", "pairs"}
                          /\ report[s].ttl \in TTLs

(* The hash and the coroutines have the shape the code gives them. *)
TypeOK == SessionOK /\ CoroutinesOK

Critical(c) == pc[c] \in Locked

(* The read-then-write section of get_or_create runs serially in a session *)
(* (session_lock_registry.py: "that critical section runs serially per     *)
(* session").                                                              *)
SerialPerSession ==
  \A c, d \in Calls : Critical(c) /\ Critical(d) => c = d

(* Two calls that hold a lock at the same time hold different locks: no    *)
(* error path, restart or delete lets a second call into the section its   *)
(* own lock guards.                                                        *)
LockExclusive ==
  \A c, d \in Calls :
    Critical(c) /\ Critical(d) /\ loc[c].lock = loc[d].lock => c = d

(* FR-015: no fake stands for two originals.                               *)
DistinctFakes ==
  \A j, k \in DOMAIN session.fwd :
    session.fwd[j] = session.fwd[k] => j = k

(* Every mapping that can be applied can be undone: the fake a forward     *)
(* field gives out has its reverse record, and so has every form the forms *)
(* field can render, whatever was lost, deleted or left half done.         *)
Reversible ==
  /\ \A k \in DOMAIN session.fwd :
       Nominative(session.fwd[k]) \in DOMAIN session.rev
  /\ \A b \in session.forms : FormsOf(b) \subseteq DOMAIN session.rev

(* The surface a finished call has put in the text restores to a surface   *)
(* or the lemma of the same original.                                      *)
RestoresSameOriginal ==
  \A c \in Calls : At(c, "done") =>
    /\ loc[c].surface \in DOMAIN session.rev
    /\ \E d \in Calls :
         /\ KeyOf(d) = KeyOf(c)
         /\ session.rev[loc[c].surface].orig
              \in {EntityOf[d].text, EntityOf[d].lemma}

(* With nothing under way, the write counter has counted every mapping and *)
(* every name mapping can be found again as a coreferent: no read-modify-  *)
(* write of meta or corefs has lost another one's.                         *)
NoLostUpdate ==
  AtRest =>
    /\ session.meta.entities = Cardinality(DOMAIN session.fwd)
    /\ \A k \in DOMAIN session.fwd : k.type \in NameTypes =>
         [lemma |-> k.lemma, base |-> session.fwd[k], type |-> k.type]
            \in Range(session.corefs)

(* With nothing under way, a stored session has an expiry ("Every write    *)
(* refreshes the sliding TTL", session_mapping_repository.py).             *)
AlwaysExpiring ==
  AtRest /\ Exists(session) => session.ttl # "none"

(* With nothing under way GET and DELETE agree on whether the session      *)
(* exists: GET asks for meta, DELETE for the key.                          *)
ManageableIfStored ==
  AtRest => (Exists(session) <=> session.meta # NoMeta)

(* entity_count is the number of distinct mappings (007 FR-019), and the   *)
(* three reads of a summary agree while others write between them: the     *)
(* mappings it counts are at least those the meta record it read before    *)
(* has counted.                                                            *)
SummaryCountsMappings ==
  /\ AtRest => Cardinality(Pairs(session)) = Cardinality(DOMAIN session.fwd)
  /\ \A s \in Summaries : At(s, "done") => report[s].pairs >= seen[s].entities

(* A call that waits for the lock or works under it comes to an end.       *)
CallsEnd ==
  \A c \in Calls : At(c, "waiting") ~> pc[c] \in Ended

(* Once the last request is served, the session goes.                      *)
SessionExpires ==
  (\A p \in Procs : pc[p] \in Ended) ~> ~Exists(session)

=============================================================================

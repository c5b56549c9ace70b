------------------------- MODULE SessionVaultProofs -------------------------
(***************************************************************************)
(* Theorems about one session of the pseudonym vault, for any number of    *)
(* requests, entities and fakes: the pair of records that makes a fake     *)
(* reversible, the order of one request's steps, the records that several  *)
(* reads and writes keep in step with the mappings (the TTL, the meta      *)
(* record, the list of coreferents), and what the mappings and the         *)
(* summaries then say.                                                     *)
(***************************************************************************)
EXTENDS SessionVault, Sums

USE DEF At, GoTo, TypeOK

-----------------------------------------------------------------------------
(* Facts about the helpers. *)

LEMMA ExtendKeepsSession ==
  ASSUME SessionOK
  PROVE  LET s == ExtendTTL(session)
         IN  /\ DOMAIN s = DOMAIN session
             /\ \A field \in DOMAIN session \ {"ttl"} :
                  s[field] = session[field]
             /\ s.ttl \in TTLs
  BY DEF SessionOK, ExtendTTL, TTLs

LEMMA EmptySessionOK ==
  /\ EmptySession = [fwd |-> Empty, rev |-> Empty, forms |-> {},
                     corefs |-> << >>, meta |-> NoMeta, ttl |-> "none"]
  /\ DOMAIN Empty = {}
  /\ NoMeta \in Metas
  BY DEF EmptySession, Empty, NoMeta, Metas

LEMMA KeyType ==
  ASSUME NEW c \in Calls
  PROVE  /\ KeyOf(c) \in Keys
         /\ EntityOf[c].type \in Types
         /\ EntityOf[c].lemma \in Seq(Tokens)
         /\ EntityOf[c].text \in Seq(Tokens)
         /\ EntityOf[c].case \in Cases
  BY EntityAssumption DEF KeyOf, Keys

LEMMA ReverseFieldsProperties ==
  ASSUME NEW c \in Calls, NEW base, NEW inflects \in BOOLEAN
  PROVE  /\ Nominative(base) \in DOMAIN ReverseFields(c, base, inflects)
         /\ inflects => DOMAIN ReverseFields(c, base, inflects) = FormsOf(base)
         /\ \A f \in DOMAIN ReverseFields(c, base, inflects) :
              ReverseFields(c, base, inflects)[f] \in ReverseRecords
  BY KeyType, CaseAssumption
     DEF ReverseFields, Nominative, FormsOf, Form, ReverseRecords

(* Resolving a coreferent chooses a base and leaves the lock alone.        *)
LEMMA LoadCorefsLocals ==
  ASSUME CoroutinesOK, NEW c \in Calls, LoadCorefs(c)
  PROVE  /\ \A d \in Calls : loc'[d].lock = loc[d].lock
         /\ \A d \in Calls \ {c} : loc'[d] = loc[d]
         /\ \/ pc' = [pc EXCEPT ![c] = "mint"]
            \/ /\ pc' = [pc EXCEPT ![c] = "write_mapping"]
               /\ loc'[c].base # NoFake
<1> DEFINE base == Resolve(EntityOf[c].type, EntityOf[c].lemma, session.corefs)
<1>1. CASE base = NoFake
  BY <1>1 DEF LoadCorefs, CoroutinesOK
<1>2. CASE base # NoFake
  <2>1. loc' = [loc EXCEPT ![c].base = base, ![c].inflects = TRUE,
                           ![c].surface = Rendered(c, base, TRUE)]
    BY <1>2 DEF LoadCorefs
  <2> HIDE DEF base
  <2>2. pc' = [pc EXCEPT ![c] = "write_mapping"]
    BY <1>2 DEF LoadCorefs, base
  <2>3. QED
    BY <1>2, <2>1, <2>2 DEF CoroutinesOK
<1>3. QED
  BY <1>1, <1>2

-----------------------------------------------------------------------------
(* The type invariant. *)

LEMMA TypeInit == Init => TypeOK
<1> SUFFICES ASSUME Init PROVE TypeOK
  OBVIOUS
<1>1. SessionOK
  BY EmptySessionOK DEF Init, SessionOK, TTLs, EmptySession
<1>2. CoroutinesOK
  BY EmptySessionOK, CallAssumption
     DEF Init, CoroutinesOK, NoLocals, TTLs, States, Ended, Procs
<1>3. QED
  BY <1>1, <1>2

LEMMA TypeStep == TypeOK /\ [Next]_vars => TypeOK'
<1> SUFFICES ASSUME TypeOK, [Next]_vars PROVE TypeOK'
  OBVIOUS
<1> USE DEF States, Ended, OnRedis, Locked, Procs
<1>1. ASSUME NEW c \in Calls, Enter(c) PROVE TypeOK'
  BY <1>1 DEF Enter, SessionOK, CoroutinesOK
<1>2. ASSUME NEW c \in Calls, Acquire(c) PROVE TypeOK'
  BY <1>2 DEF Acquire, SessionOK, CoroutinesOK
<1>3. ASSUME NEW c \in Calls, ReadForward(c) PROVE TypeOK'
  BY <1>3 DEF ReadForward, SessionOK, CoroutinesOK
<1>4. ASSUME NEW c \in Calls, ReadForms(c) PROVE TypeOK'
  BY <1>4 DEF ReadForms, SessionOK, CoroutinesOK
<1>5. ASSUME NEW c \in Calls, LoadCorefs(c) PROVE TypeOK'
  <2> DEFINE base == Resolve(EntityOf[c].type, EntityOf[c].lemma, session.corefs)
  <2>1. CASE base = NoFake
    BY <1>5, <2>1 DEF LoadCorefs, SessionOK, CoroutinesOK
  <2>2. CASE base # NoFake
    <3> HIDE DEF base
    <3>1. loc' = [loc EXCEPT ![c].base = base, ![c].inflects = TRUE,
                             ![c].surface = Rendered(c, base, TRUE)]
      BY <1>5, <2>2 DEF LoadCorefs, base
    <3>2. /\ pc' = [pc EXCEPT ![c] = "write_mapping"]
          /\ UNCHANGED <<session, registry, holder, seen, report>>
      BY <1>5, <2>2 DEF LoadCorefs, base
    <3>3. QED
      BY <3>1, <3>2 DEF SessionOK, CoroutinesOK
  <2>3. QED
    BY <2>1, <2>2
<1>6. ASSUME NEW c \in Calls, Mint(c) PROVE TypeOK'
  BY <1>6 DEF Mint, SessionOK, CoroutinesOK
<1>7. ASSUME NEW c \in Calls, WriteMapping(c) PROVE TypeOK'
  <2> DEFINE base == loc[c].base
             inflects == loc[c].inflects
             new == ReverseFields(c, base, inflects)
  <2>1. inflects \in BOOLEAN
    BY DEF CoroutinesOK
  <2>2. /\ DOMAIN session' = DOMAIN session
        /\ session'.fwd = Override(session.fwd, [k \in {KeyOf(c)} |-> base])
        /\ session'.rev = Override(session.rev, new)
        /\ session'.meta = session.meta
        /\ session'.ttl = session.ttl
    BY <1>7 DEF WriteMapping, SessionOK
  <2>3. \A f \in DOMAIN new : new[f] \in ReverseRecords
    BY <2>1, ReverseFieldsProperties
  <2>4. \A f \in DOMAIN session'.rev : session'.rev[f] \in ReverseRecords
    <3> HIDE DEF new
    <3>1. QED
      BY <2>2, <2>3 DEF Override, SessionOK
  <2>5. DOMAIN session'.fwd \subseteq Keys
    BY <2>2, KeyType DEF Override, SessionOK
  <2>6. SessionOK'
    BY <2>2, <2>4, <2>5 DEF SessionOK
  <2>7. CoroutinesOK'
    BY <1>7 DEF WriteMapping, CoroutinesOK
  <2>8. QED
    BY <2>6, <2>7
<1>8. ASSUME NEW c \in Calls, ReadCorefs(c) PROVE TypeOK'
  BY <1>8 DEF ReadCorefs, SessionOK, CoroutinesOK
<1>9. ASSUME NEW c \in Calls, WriteCorefs(c) PROVE TypeOK'
  BY <1>9 DEF WriteCorefs, SessionOK, CoroutinesOK
<1>10. ASSUME NEW c \in Calls, ReadMeta(c) PROVE TypeOK'
  BY <1>10 DEF ReadMeta, SessionOK, CoroutinesOK
<1>11. ASSUME NEW c \in Calls, WriteMeta(c) PROVE TypeOK'
  BY <1>11 DEF WriteMeta, SessionOK, CoroutinesOK, Metas, NoMeta
<1>12. ASSUME NEW c \in Calls, ExtendWritten(c) PROVE TypeOK'
  BY <1>12, ExtendKeepsSession DEF ExtendWritten, SessionOK, CoroutinesOK
<1>13. ASSUME NEW c \in Calls, WriteExact(c) PROVE TypeOK'
  <2> DEFINE new == [form \in {loc[c].surface} |->
                      [orig |-> EntityOf[c].text, type |-> EntityOf[c].type,
                       exact |-> TRUE]]
  <2>1. /\ DOMAIN session' = DOMAIN session
        /\ session'.rev = Override(session.rev, new)
        /\ session'.fwd = session.fwd
        /\ session'.meta = session.meta
        /\ session'.ttl = session.ttl
    BY <1>13 DEF WriteExact, SessionOK
  <2>2. \A f \in DOMAIN new : new[f] \in ReverseRecords
    BY KeyType DEF ReverseRecords
  <2>3. \A f \in DOMAIN session'.rev : session'.rev[f] \in ReverseRecords
    <3> HIDE DEF new
    <3>1. QED
      BY <2>1, <2>2 DEF Override, SessionOK
  <2>4. SessionOK'
    BY <2>1, <2>3 DEF SessionOK
  <2>5. CoroutinesOK'
    BY <1>13 DEF WriteExact, CoroutinesOK
  <2>6. QED
    BY <2>4, <2>5
<1>14. ASSUME NEW c \in Calls, Extend(c) PROVE TypeOK'
  BY <1>14, ExtendKeepsSession DEF Extend, SessionOK, CoroutinesOK
<1>15. ASSUME NEW c \in Calls, Release(c) PROVE TypeOK'
  BY <1>15 DEF Release, SessionOK, CoroutinesOK
<1>16. ASSUME NEW b \in Bumps, ReadCount(b) PROVE TypeOK'
  BY <1>16 DEF ReadCount, SessionOK, CoroutinesOK
<1>17. ASSUME NEW b \in Bumps, WriteCount(b) PROVE TypeOK'
  BY <1>17 DEF WriteCount, SessionOK, CoroutinesOK, Metas
<1>18. ASSUME NEW r \in Readers, ReadMappings(r) PROVE TypeOK'
  BY <1>18 DEF ReadMappings, SessionOK, CoroutinesOK
<1>19. ASSUME NEW r \in Readers \cup Summaries, ExtendRead(r) PROVE TypeOK'
  BY <1>19, ExtendKeepsSession DEF ExtendRead, SessionOK, CoroutinesOK
<1>20. ASSUME NEW s \in Summaries, SummaryMeta(s) PROVE TypeOK'
  BY <1>20 DEF SummaryMeta, SessionOK, CoroutinesOK
<1>21. ASSUME NEW s \in Summaries, SummaryTTL(s) PROVE TypeOK'
  BY <1>21 DEF SummaryTTL, SessionOK, CoroutinesOK
<1>22. ASSUME NEW s \in Summaries, SummaryPairs(s) PROVE TypeOK'
  BY <1>22 DEF SummaryPairs, SessionOK, CoroutinesOK
<1>23. ASSUME NEW d \in Deletes, DeleteHash(d) PROVE TypeOK'
  BY <1>23, EmptySessionOK DEF DeleteHash, SessionOK, CoroutinesOK, TTLs, Empty
<1>24. ASSUME NEW d \in Deletes, DiscardLock(d) PROVE TypeOK'
  BY <1>24 DEF DiscardLock, SessionOK, CoroutinesOK
<1>25. ASSUME NEW p \in Procs, RedisError(p) PROVE TypeOK'
  <2>1. SessionOK'
    BY <1>25 DEF RedisError, SessionOK
  <2>2. CoroutinesOK'
    <3>1. CASE p \in Calls
      <4>1. DOMAIN NoLocals = {"lock", "base", "inflects", "surface", "corefs"}
            /\ NoLocals.lock = NoCall /\ NoLocals.inflects = FALSE
        BY DEF NoLocals
      <4>2. QED
        BY <1>25, <3>1, <4>1 DEF RedisError, CoroutinesOK
    <3>2. CASE p \notin Calls
      BY <1>25, <3>2 DEF RedisError, CoroutinesOK
    <3>3. QED
      BY <3>1, <3>2
  <2>3. QED
    BY <2>1, <2>2
<1>26. CASE Idle
  BY <1>26 DEF Idle, SessionOK, CoroutinesOK, TTLs
<1>27. CASE Expire
  BY <1>27, EmptySessionOK DEF Expire, SessionOK, CoroutinesOK, TTLs, Empty
<1>28. CASE Restart
  BY <1>28 DEF Restart, SessionOK, CoroutinesOK, NoLocals
<1>29. CASE Served
  BY <1>29 DEF Served, SessionOK, CoroutinesOK, vars
<1>30. CASE UNCHANGED vars
  BY <1>30 DEF vars, SessionOK, CoroutinesOK
<1>31. QED
  BY <1>1, <1>2, <1>3, <1>4, <1>5, <1>6, <1>7, <1>8, <1>9, <1>10, <1>11, <1>12, <1>13, <1>14, <1>15, <1>16, <1>17, <1>18, <1>19, <1>20, <1>21, <1>22, <1>23, <1>24, <1>25, <1>26, <1>27, <1>28, <1>29, <1>30 DEF Next, CallStep

(* Every hash and every coroutine keeps the shape the code gives it.       *)
THEOREM TypeCorrect == Spec => []TypeOK
  BY TypeInit, TypeStep, PTL DEF Spec

-----------------------------------------------------------------------------
(* Mutual exclusion. *)

(* A call in the section holds the lock it was given; a call that waits    *)
(* has been given one.                                                     *)
LockInv ==
  \A c \in Calls :
    /\ Critical(c) \/ pc[c] \in Ended \cup {"idle", "waiting"}
    /\ Critical(c) \/ At(c, "waiting") => loc[c].lock \in Calls
    /\ Critical(c) => holder[loc[c].lock] = c

LEMMA LockStep == TypeOK /\ LockInv /\ [Next]_vars => LockInv'
<1> SUFFICES ASSUME TypeOK, LockInv, [Next]_vars PROVE LockInv'
  OBVIOUS
<1> USE DEF Locked, Ended, Critical, LockInv, CoroutinesOK
<1> USE CallAssumption, KindAssumption DEF Procs
<1>1. ASSUME NEW c \in Calls, Enter(c) PROVE LockInv'
  BY <1>1 DEF Enter
<1>2. ASSUME NEW c \in Calls, Acquire(c) PROVE LockInv'
  BY <1>2 DEF Acquire
<1>3. ASSUME NEW c \in Calls, ReadForward(c) PROVE LockInv'
  BY <1>3 DEF ReadForward
<1>4. ASSUME NEW c \in Calls, ReadForms(c) PROVE LockInv'
  BY <1>4 DEF ReadForms
<1>5. ASSUME NEW c \in Calls, LoadCorefs(c) PROVE LockInv'
  <2>1. \A d \in Calls : loc'[d].lock = loc[d].lock
    BY <1>5, LoadCorefsLocals
  <2>2. \/ pc' = [pc EXCEPT ![c] = "mint"]
        \/ pc' = [pc EXCEPT ![c] = "write_mapping"]
    BY <1>5, LoadCorefsLocals
  <2>3. pc[c] = "load_corefs" /\ holder' = holder
    BY <1>5 DEF LoadCorefs
  <2>4. QED
    BY <2>1, <2>2, <2>3
<1>6. ASSUME NEW c \in Calls, Mint(c) PROVE LockInv'
  BY <1>6 DEF Mint
<1>7. ASSUME NEW c \in Calls, WriteMapping(c) PROVE LockInv'
  BY <1>7 DEF WriteMapping
<1>8. ASSUME NEW c \in Calls, ReadCorefs(c) PROVE LockInv'
  BY <1>8 DEF ReadCorefs
<1>9. ASSUME NEW c \in Calls, WriteCorefs(c) PROVE LockInv'
  BY <1>9 DEF WriteCorefs
<1>10. ASSUME NEW c \in Calls, ReadMeta(c) PROVE LockInv'
  BY <1>10 DEF ReadMeta
<1>11. ASSUME NEW c \in Calls, WriteMeta(c) PROVE LockInv'
  BY <1>11 DEF WriteMeta
<1>12. ASSUME NEW c \in Calls, ExtendWritten(c) PROVE LockInv'
  BY <1>12 DEF ExtendWritten
<1>13. ASSUME NEW c \in Calls, WriteExact(c) PROVE LockInv'
  BY <1>13 DEF WriteExact
<1>14. ASSUME NEW c \in Calls, Extend(c) PROVE LockInv'
  BY <1>14 DEF Extend
<1>15. ASSUME NEW c \in Calls, Release(c) PROVE LockInv'
  BY <1>15 DEF Release
<1>16. ASSUME NEW b \in Bumps, ReadCount(b) PROVE LockInv'
  BY <1>16 DEF ReadCount
<1>17. ASSUME NEW b \in Bumps, WriteCount(b) PROVE LockInv'
  BY <1>17 DEF WriteCount
<1>18. ASSUME NEW r \in Readers, ReadMappings(r) PROVE LockInv'
  BY <1>18 DEF ReadMappings
<1>19. ASSUME NEW r \in Readers \cup Summaries, ExtendRead(r) PROVE LockInv'
  BY <1>19 DEF ExtendRead
<1>20. ASSUME NEW s \in Summaries, SummaryMeta(s) PROVE LockInv'
  BY <1>20 DEF SummaryMeta
<1>21. ASSUME NEW s \in Summaries, SummaryTTL(s) PROVE LockInv'
  BY <1>21 DEF SummaryTTL
<1>22. ASSUME NEW s \in Summaries, SummaryPairs(s) PROVE LockInv'
  BY <1>22 DEF SummaryPairs
<1>23. ASSUME NEW d \in Deletes, DeleteHash(d) PROVE LockInv'
  BY <1>23 DEF DeleteHash
<1>24. ASSUME NEW d \in Deletes, DiscardLock(d) PROVE LockInv'
  BY <1>24 DEF DiscardLock
<1>25. ASSUME NEW p \in Procs, RedisError(p) PROVE LockInv'
  <2>1. CASE p \in Calls
    <3>1. \A d \in Calls \ {p} : pc'[d] = pc[d] /\ loc'[d] = loc[d]
      BY <1>25, <2>1 DEF RedisError
    <3>2. pc'[p] = "failed"
      BY <1>25 DEF RedisError
    <3>3. \A d \in Calls \ {p} :
            Critical(d) => holder'[loc[d].lock] = holder[loc[d].lock]
      BY <1>25, <2>1 DEF RedisError, OnRedis
    <3>4. QED
      BY <3>1, <3>2, <3>3
  <2>2. CASE p \notin Calls
    BY <1>25, <2>2 DEF RedisError
  <2>3. QED
    BY <2>1, <2>2
<1>26. CASE Idle
  BY <1>26 DEF Idle
<1>27. CASE Expire
  BY <1>27 DEF Expire
<1>28. CASE Restart
  BY <1>28 DEF Restart, NoLocals, OnRedis
<1>29. CASE Served
  BY <1>29 DEF Served, vars
<1>30. CASE UNCHANGED vars
  BY <1>30 DEF vars
<1>31. QED
  BY <1>1, <1>2, <1>3, <1>4, <1>5, <1>6, <1>7, <1>8, <1>9, <1>10, <1>11, <1>12, <1>13, <1>14, <1>15, <1>16, <1>17, <1>18, <1>19, <1>20, <1>21, <1>22, <1>23, <1>24, <1>25, <1>26, <1>27, <1>28, <1>29, <1>30 DEF Next, CallStep

LEMMA LockInvariant == Spec => []LockInv
<1>1. Init => LockInv
  BY DEF Init, LockInv, Critical, Locked, Procs, Ended
<1>2. QED
  BY <1>1, LockStep, TypeCorrect, PTL DEF Spec

(* No error path, no restart and no delete lets two calls into the section *)
(* one lock guards.                                                        *)
THEOREM LocksExclude == Spec => []LockExclusive
<1>1. LockInv => LockExclusive
  BY DEF LockInv, LockExclusive
<1>2. QED
  BY <1>1, LockInvariant, PTL

(* Without deletes the registry never forgets the lock of a call: every    *)
(* call that waits or works has the registered one.                        *)
RegistryInv ==
  \A c \in Calls :
    Critical(c) \/ At(c, "waiting") => loc[c].lock = registry

LEMMA RegistryStep ==
  ASSUME Deletes = {}
  PROVE  TypeOK /\ LockInv /\ RegistryInv /\ [Next]_vars => RegistryInv'
<1> SUFFICES ASSUME TypeOK, LockInv, RegistryInv, [Next]_vars
             PROVE  RegistryInv'
  OBVIOUS
<1> USE DEF Locked, Ended, Critical, LockInv, RegistryInv, CoroutinesOK
<1> USE CallAssumption, KindAssumption DEF Procs
<1>1. Deletes = {}
  OBVIOUS
<1>2. ASSUME NEW c \in Calls, Enter(c) PROVE RegistryInv'
  BY <1>2 DEF Enter
<1>3. ASSUME NEW c \in Calls, Acquire(c) PROVE RegistryInv'
  BY <1>3 DEF Acquire
<1>4. ASSUME NEW c \in Calls, ReadForward(c) PROVE RegistryInv'
  BY <1>4 DEF ReadForward
<1>5. ASSUME NEW c \in Calls, ReadForms(c) PROVE RegistryInv'
  BY <1>5 DEF ReadForms
<1>6. ASSUME NEW c \in Calls, LoadCorefs(c) PROVE RegistryInv'
  <2>1. \A d \in Calls : loc'[d].lock = loc[d].lock
    BY <1>6, LoadCorefsLocals
  <2>2. \/ pc' = [pc EXCEPT ![c] = "mint"]
        \/ pc' = [pc EXCEPT ![c] = "write_mapping"]
    BY <1>6, LoadCorefsLocals
  <2>3. pc[c] = "load_corefs" /\ registry' = registry
    BY <1>6 DEF LoadCorefs
  <2>4. QED
    BY <2>1, <2>2, <2>3
<1>7. ASSUME NEW c \in Calls, Mint(c) PROVE RegistryInv'
  BY <1>7 DEF Mint
<1>8. ASSUME NEW c \in Calls, WriteMapping(c) PROVE RegistryInv'
  BY <1>8 DEF WriteMapping
<1>9. ASSUME NEW c \in Calls, ReadCorefs(c) PROVE RegistryInv'
  BY <1>9 DEF ReadCorefs
<1>10. ASSUME NEW c \in Calls, WriteCorefs(c) PROVE RegistryInv'
  BY <1>10 DEF WriteCorefs
<1>11. ASSUME NEW c \in Calls, ReadMeta(c) PROVE RegistryInv'
  BY <1>11 DEF ReadMeta
<1>12. ASSUME NEW c \in Calls, WriteMeta(c) PROVE RegistryInv'
  BY <1>12 DEF WriteMeta
<1>13. ASSUME NEW c \in Calls, ExtendWritten(c) PROVE RegistryInv'
  BY <1>13 DEF ExtendWritten
<1>14. ASSUME NEW c \in Calls, WriteExact(c) PROVE RegistryInv'
  BY <1>14 DEF WriteExact
<1>15. ASSUME NEW c \in Calls, Extend(c) PROVE RegistryInv'
  BY <1>15 DEF Extend
<1>16. ASSUME NEW c \in Calls, Release(c) PROVE RegistryInv'
  BY <1>16 DEF Release
<1>17. ASSUME NEW b \in Bumps, ReadCount(b) PROVE RegistryInv'
  BY <1>17 DEF ReadCount
<1>18. ASSUME NEW b \in Bumps, WriteCount(b) PROVE RegistryInv'
  BY <1>18 DEF WriteCount
<1>19. ASSUME NEW r \in Readers, ReadMappings(r) PROVE RegistryInv'
  BY <1>19 DEF ReadMappings
<1>20. ASSUME NEW r \in Readers \cup Summaries, ExtendRead(r) PROVE RegistryInv'
  BY <1>20 DEF ExtendRead
<1>21. ASSUME NEW s \in Summaries, SummaryMeta(s) PROVE RegistryInv'
  BY <1>21 DEF SummaryMeta
<1>22. ASSUME NEW s \in Summaries, SummaryTTL(s) PROVE RegistryInv'
  BY <1>22 DEF SummaryTTL
<1>23. ASSUME NEW s \in Summaries, SummaryPairs(s) PROVE RegistryInv'
  BY <1>23 DEF SummaryPairs
<1>24. ASSUME NEW d \in Deletes, DeleteHash(d) PROVE RegistryInv'
  BY <1>24, <1>1
<1>25. ASSUME NEW d \in Deletes, DiscardLock(d) PROVE RegistryInv'
  BY <1>25, <1>1
<1>26. ASSUME NEW p \in Procs, RedisError(p) PROVE RegistryInv'
  BY <1>26 DEF RedisError
<1>27. CASE Idle
  BY <1>27 DEF Idle
<1>28. CASE Expire
  BY <1>28 DEF Expire
<1>29. CASE Restart
  BY <1>29 DEF Restart
<1>30. CASE Served
  BY <1>30 DEF Served, vars
<1>31. CASE UNCHANGED vars
  BY <1>31 DEF vars
<1>32. QED
  BY <1>2, <1>3, <1>4, <1>5, <1>6, <1>7, <1>8, <1>9, <1>10, <1>11, <1>12, <1>13, <1>14, <1>15, <1>16, <1>17, <1>18, <1>19, <1>20, <1>21, <1>22, <1>23, <1>24, <1>25, <1>26, <1>27, <1>28, <1>29, <1>30, <1>31 DEF Next, CallStep

LEMMA SerialInvariant ==
  ASSUME Deletes = {}
  PROVE  Spec => [](RegistryInv /\ SerialPerSession)
<1>1. Init => RegistryInv
  BY DEF Init, RegistryInv, Critical, Locked, Procs
<1>2. LockInv /\ RegistryInv => SerialPerSession
  BY DEF LockInv, RegistryInv, SerialPerSession
<1>3. QED
  BY <1>1, <1>2, RegistryStep, LockInvariant, TypeCorrect, PTL DEF Spec

(* As long as no session is deleted, the read-then-write section of        *)
(* get_or_create runs serially per session - with any number of calls,     *)
(* Redis errors, restarts and expiries.                                    *)
THEOREM SerialWithoutDelete ==
  ASSUME Deletes = {}
  PROVE  Spec => []SerialPerSession
  BY SerialInvariant, PTL

-----------------------------------------------------------------------------
(* Atomicity. *)

(* A call on its way to a new mapping: its original is still unmapped, and *)
(* what it is about to write is a fake.                                    *)
DecisionInv ==
  \A c \in Calls :
    /\ pc[c] \in {"load_corefs", "mint", "write_mapping"}
         => KeyOf(c) \notin DOMAIN session.fwd
    /\ At(c, "write_mapping") => loc[c].base # NoFake

LEMMA DecisionStep ==
  ASSUME Deletes = {}
  PROVE  TypeOK /\ SerialPerSession /\ DecisionInv /\ [Next]_vars => DecisionInv'
<1> SUFFICES ASSUME TypeOK, SerialPerSession, DecisionInv, [Next]_vars
             PROVE  DecisionInv'
  OBVIOUS
<1> USE DEF Locked, Critical, DecisionInv, CoroutinesOK
<1> USE CallAssumption, KindAssumption DEF Procs
<1>1. Deletes = {}
  OBVIOUS
<1>2. ASSUME NEW c \in Calls, Enter(c) PROVE DecisionInv'
  BY <1>2 DEF Enter, SessionOK
<1>3. ASSUME NEW c \in Calls, Acquire(c) PROVE DecisionInv'
  BY <1>3 DEF Acquire, SessionOK
<1>4. ASSUME NEW c \in Calls, ReadForward(c) PROVE DecisionInv'
  BY <1>4 DEF ReadForward, SessionOK
<1>5. ASSUME NEW c \in Calls, ReadForms(c) PROVE DecisionInv'
  BY <1>5 DEF ReadForms, SessionOK
<1>6. ASSUME NEW c \in Calls, LoadCorefs(c) PROVE DecisionInv'
  <2>1. KeyOf(c) \notin DOMAIN session.fwd /\ session' = session
    BY <1>6 DEF LoadCorefs
  <2>2. /\ \A d \in Calls \ {c} : loc'[d] = loc[d]
        /\ \/ pc' = [pc EXCEPT ![c] = "mint"]
           \/ /\ pc' = [pc EXCEPT ![c] = "write_mapping"]
              /\ loc'[c].base # NoFake
    BY <1>6, LoadCorefsLocals
  <2>3. QED
    BY <2>1, <2>2
<1>7. ASSUME NEW c \in Calls, Mint(c) PROVE DecisionInv'
  <2>1. PICK fake \in Mintable(c, DOMAIN session.rev) :
          loc' = [loc EXCEPT ![c].base = fake.base,
                   ![c].inflects = fake.inflects,
                   ![c].surface = Rendered(c, fake.base, fake.inflects)]
    BY <1>7 DEF Mint
  <2>2. fake.base # NoFake
    BY KeyType, FakeAssumption DEF Mintable
  <2>3. /\ loc'[c].base = fake.base
        /\ \A d \in Calls \ {c} : loc'[d] = loc[d]
    BY <2>1
  <2>4. pc' = [pc EXCEPT ![c] = "write_mapping"] /\ session' = session
        /\ pc[c] = "mint"
    BY <1>7 DEF Mint
  <2>5. QED
    BY <2>2, <2>3, <2>4
<1>8. ASSUME NEW c \in Calls, WriteMapping(c) PROVE DecisionInv'
  <2>1. \A d \in Calls \ {c} : ~Critical(d)
    BY <1>8 DEF WriteMapping, SerialPerSession
  <2>2. QED
    BY <1>8, <2>1 DEF WriteMapping
<1>9. ASSUME NEW c \in Calls, ReadCorefs(c) PROVE DecisionInv'
  BY <1>9 DEF ReadCorefs, SessionOK
<1>10. ASSUME NEW c \in Calls, WriteCorefs(c) PROVE DecisionInv'
  BY <1>10 DEF WriteCorefs, SessionOK
<1>11. ASSUME NEW c \in Calls, ReadMeta(c) PROVE DecisionInv'
  BY <1>11 DEF ReadMeta, SessionOK
<1>12. ASSUME NEW c \in Calls, WriteMeta(c) PROVE DecisionInv'
  BY <1>12 DEF WriteMeta, SessionOK
<1>13. ASSUME NEW c \in Calls, ExtendWritten(c) PROVE DecisionInv'
  BY <1>13, ExtendKeepsSession DEF ExtendWritten, SessionOK
<1>14. ASSUME NEW c \in Calls, WriteExact(c) PROVE DecisionInv'
  BY <1>14 DEF WriteExact, SessionOK
<1>15. ASSUME NEW c \in Calls, Extend(c) PROVE DecisionInv'
  BY <1>15, ExtendKeepsSession DEF Extend, SessionOK
<1>16. ASSUME NEW c \in Calls, Release(c) PROVE DecisionInv'
  BY <1>16 DEF Release, SessionOK
<1>17. ASSUME NEW b \in Bumps, ReadCount(b) PROVE DecisionInv'
  BY <1>17 DEF ReadCount, SessionOK
<1>18. ASSUME NEW b \in Bumps, WriteCount(b) PROVE DecisionInv'
  BY <1>18 DEF WriteCount, SessionOK
<1>19. ASSUME NEW r \in Readers, ReadMappings(r) PROVE DecisionInv'
  BY <1>19 DEF ReadMappings, SessionOK
<1>20. ASSUME NEW r \in Readers \cup Summaries, ExtendRead(r) PROVE DecisionInv'
  BY <1>20, ExtendKeepsSession DEF ExtendRead, SessionOK
<1>21. ASSUME NEW s \in Summaries, SummaryMeta(s) PROVE DecisionInv'
  BY <1>21 DEF SummaryMeta, SessionOK
<1>22. ASSUME NEW s \in Summaries, SummaryTTL(s) PROVE DecisionInv'
  BY <1>22 DEF SummaryTTL, SessionOK
<1>23. ASSUME NEW s \in Summaries, SummaryPairs(s) PROVE DecisionInv'
  BY <1>23 DEF SummaryPairs, SessionOK
<1>24. ASSUME NEW d \in Deletes, DeleteHash(d) PROVE DecisionInv'
  BY <1>24, <1>1
<1>25. ASSUME NEW d \in Deletes, DiscardLock(d) PROVE DecisionInv'
  BY <1>25, <1>1
<1>26. ASSUME NEW p \in Procs, RedisError(p) PROVE DecisionInv'
  BY <1>26 DEF RedisError, SessionOK
<1>27. CASE Idle
  BY <1>27 DEF Idle, SessionOK
<1>28. CASE Expire
  BY <1>28, EmptySessionOK DEF Expire
<1>29. CASE Restart
  BY <1>29 DEF Restart, SessionOK
<1>30. CASE Served
  BY <1>30 DEF Served, vars
<1>31. CASE UNCHANGED vars
  BY <1>31 DEF vars
<1>32. QED
  BY <1>2, <1>3, <1>4, <1>5, <1>6, <1>7, <1>8, <1>9, <1>10, <1>11, <1>12, <1>13, <1>14, <1>15, <1>16, <1>17, <1>18, <1>19, <1>20, <1>21, <1>22, <1>23, <1>24, <1>25, <1>26, <1>27, <1>28, <1>29, <1>30, <1>31 DEF Next, CallStep

LEMMA AtomicStep ==
  ASSUME Deletes = {}
  PROVE  TypeOK /\ DecisionInv /\ [Next]_vars
           => [Atomic!Next]_<<session.fwd, Answered>>
<1> DEFINE Maps == Atomic!Next \/ UNCHANGED <<session.fwd, Answered>>
<1> SUFFICES ASSUME TypeOK, DecisionInv, [Next]_vars PROVE Maps
  OBVIOUS
<1> USE DEF Answered, Decided, CoroutinesOK
<1> USE CallAssumption, KindAssumption DEF Procs
<1>1. Deletes = {}
  OBVIOUS
<1>2. ASSUME NEW c \in Calls, Enter(c) PROVE Maps
  BY <1>2 DEF Enter, SessionOK
<1>3. ASSUME NEW c \in Calls, Acquire(c) PROVE Maps
  BY <1>3 DEF Acquire, SessionOK
<1>4. ASSUME NEW c \in Calls, ReadForward(c) PROVE Maps
  <2>1. CASE KeyOf(c) \in DOMAIN session.fwd
    <3>1. /\ loc'[c].base = session.fwd[KeyOf(c)]
          /\ \A d \in Calls \ {c} : loc'[d] = loc[d] /\ pc'[d] = pc[d]
          /\ session' = session
      BY <1>4, <2>1 DEF ReadForward
    <3>2. /\ pc[c] = "read_forward"
          /\ pc'[c] \in {"extend", "write_exact", "read_forms"}
      BY <1>4, <2>1 DEF ReadForward
    <3>3. /\ Answered[c] = NoFake
          /\ Answered' = [Answered EXCEPT ![c] = session.fwd[KeyOf(c)]]
      <4>1. Answered[c] = NoFake
        BY <3>2
      <4>2. Answered'[c] = session.fwd[KeyOf(c)]
        BY <3>1, <3>2
      <4>3. \A d \in Calls \ {c} : Answered'[d] = Answered[d]
        BY <3>1
      <4>4. QED
        BY <4>1, <4>2, <4>3, Zenon
    <3>4. Atomic!AnswerKnown(c)
      BY <2>1, <3>1, <3>3 DEF Atomic!AnswerKnown
    <3>5. QED
      BY <3>3, <3>4 DEF Atomic!Substitute, Atomic!Next
  <2>2. CASE KeyOf(c) \notin DOMAIN session.fwd
    BY <1>4, <2>2 DEF ReadForward
  <2>3. QED
    BY <2>1, <2>2
<1>5. ASSUME NEW c \in Calls, ReadForms(c) PROVE Maps
  BY <1>5 DEF ReadForms, SessionOK
<1>6. ASSUME NEW c \in Calls, LoadCorefs(c) PROVE Maps
  <2>1. \A d \in Calls \ {c} : loc'[d] = loc[d]
    BY <1>6, LoadCorefsLocals
  <2>2. \/ pc' = [pc EXCEPT ![c] = "mint"]
        \/ pc' = [pc EXCEPT ![c] = "write_mapping"]
    BY <1>6, LoadCorefsLocals
  <2>3. pc[c] = "load_corefs" /\ session' = session
    BY <1>6 DEF LoadCorefs
  <2>4. QED
    BY <2>1, <2>2, <2>3
<1>7. ASSUME NEW c \in Calls, Mint(c) PROVE Maps
  BY <1>7 DEF Mint, SessionOK
<1>8. ASSUME NEW c \in Calls, WriteMapping(c) PROVE Maps
  <2>1. /\ KeyOf(c) \notin DOMAIN session.fwd
        /\ loc[c].base # NoFake
    BY <1>8 DEF WriteMapping, DecisionInv
  <2>2. /\ Answered[c] = NoFake
        /\ Answered' = [Answered EXCEPT ![c] = loc[c].base]
    BY <1>8 DEF WriteMapping
  <2>3. Answered'[c] = loc[c].base
    BY <2>2
  <2>4. session'.fwd = [k \in DOMAIN session.fwd \cup {KeyOf(c)} |->
                         IF k = KeyOf(c) THEN loc[c].base ELSE session.fwd[k]]
    BY <1>8 DEF WriteMapping, SessionOK, Override
  <2>5. Atomic!AnswerNew(c)
    BY <2>1, <2>2, <2>3, <2>4 DEF Atomic!AnswerNew, Atomic!MapTo
  <2>6. QED
    BY <2>2, <2>5 DEF Atomic!Substitute, Atomic!Next
<1>9. ASSUME NEW c \in Calls, ReadCorefs(c) PROVE Maps
  BY <1>9 DEF ReadCorefs, SessionOK
<1>10. ASSUME NEW c \in Calls, WriteCorefs(c) PROVE Maps
  BY <1>10 DEF WriteCorefs, SessionOK
<1>11. ASSUME NEW c \in Calls, ReadMeta(c) PROVE Maps
  BY <1>11 DEF ReadMeta, SessionOK
<1>12. ASSUME NEW c \in Calls, WriteMeta(c) PROVE Maps
  BY <1>12 DEF WriteMeta, SessionOK
<1>13. ASSUME NEW c \in Calls, ExtendWritten(c) PROVE Maps
  BY <1>13, ExtendKeepsSession DEF ExtendWritten, SessionOK
<1>14. ASSUME NEW c \in Calls, WriteExact(c) PROVE Maps
  BY <1>14 DEF WriteExact, SessionOK
<1>15. ASSUME NEW c \in Calls, Extend(c) PROVE Maps
  BY <1>15, ExtendKeepsSession DEF Extend, SessionOK
<1>16. ASSUME NEW c \in Calls, Release(c) PROVE Maps
  BY <1>16 DEF Release, SessionOK
<1>17. ASSUME NEW b \in Bumps, ReadCount(b) PROVE Maps
  BY <1>17 DEF ReadCount, SessionOK
<1>18. ASSUME NEW b \in Bumps, WriteCount(b) PROVE Maps
  BY <1>18 DEF WriteCount, SessionOK
<1>19. ASSUME NEW r \in Readers, ReadMappings(r) PROVE Maps
  BY <1>19 DEF ReadMappings, SessionOK
<1>20. ASSUME NEW r \in Readers \cup Summaries, ExtendRead(r) PROVE Maps
  BY <1>20, ExtendKeepsSession DEF ExtendRead, SessionOK
<1>21. ASSUME NEW s \in Summaries, SummaryMeta(s) PROVE Maps
  BY <1>21 DEF SummaryMeta, SessionOK
<1>22. ASSUME NEW s \in Summaries, SummaryTTL(s) PROVE Maps
  BY <1>22 DEF SummaryTTL, SessionOK
<1>23. ASSUME NEW s \in Summaries, SummaryPairs(s) PROVE Maps
  BY <1>23 DEF SummaryPairs, SessionOK
<1>24. ASSUME NEW d \in Deletes, DeleteHash(d) PROVE Maps
  BY <1>24, <1>1
<1>25. ASSUME NEW d \in Deletes, DiscardLock(d) PROVE Maps
  BY <1>25, <1>1
<1>26. ASSUME NEW p \in Procs, RedisError(p) PROVE Maps
  <2> DEFINE lost == {p} \cap Calls
  <2>1. session' = session
    BY <1>26 DEF RedisError
  <2>2. Answered' = [c \in Calls |-> IF c \in lost THEN NoFake ELSE Answered[c]]
    BY <1>26 DEF RedisError
  <2>3. Atomic!Abandon
    BY <2>1, <2>2, lost \in SUBSET Calls DEF Atomic!Abandon
  <2>4. QED
    BY <2>3 DEF Atomic!Next
<1>27. CASE Idle
  BY <1>27 DEF Idle, SessionOK
<1>28. CASE Expire
  <2>1. session'.fwd = << >> /\ Answered' = Answered
    BY <1>28 DEF Expire, EmptySession, Empty
  <2>2. Atomic!Forget
    BY <2>1 DEF Atomic!Forget
  <2>3. QED
    BY <2>2 DEF Atomic!Next
<1>29. CASE Restart
  <2> DEFINE lost == {c \in Calls : pc[c] \notin Ended \cup {"idle"}}
  <2>1. session' = session
    BY <1>29 DEF Restart
  <2>2. Answered' = [c \in Calls |-> IF c \in lost THEN NoFake ELSE Answered[c]]
    BY <1>29 DEF Restart, Ended
  <2>3. Atomic!Abandon
    BY <2>1, <2>2, lost \in SUBSET Calls DEF Atomic!Abandon
  <2>4. QED
    BY <2>3 DEF Atomic!Next
<1>30. CASE Served
  BY <1>30 DEF Served, vars
<1>31. CASE UNCHANGED vars
  BY <1>31 DEF vars
<1>32. QED
  BY <1>2, <1>3, <1>4, <1>5, <1>6, <1>7, <1>8, <1>9, <1>10, <1>11, <1>12, <1>13, <1>14, <1>15, <1>16, <1>17, <1>18, <1>19, <1>20, <1>21, <1>22, <1>23, <1>24, <1>25, <1>26, <1>27, <1>28, <1>29, <1>30, <1>31 DEF Next, CallStep

(* As long as no session is deleted, get_or_create is atomic: however      *)
(* calls overlap, fail, restart or lose the session to its expiry, each    *)
(* answers as if it had run alone at one instant.                          *)
THEOREM AtomicWithoutDelete ==
  ASSUME Deletes = {}
  PROVE  Spec => Linearizable
<1>1. Init => Atomic!Init
  BY DEF Init, Atomic!Init, EmptySession, Empty, Answered, Decided, Procs
<1>2. Init => DecisionInv
  BY DEF Init, DecisionInv, Procs
<1>3. QED
  BY <1>1, <1>2, DecisionStep, AtomicStep, SerialInvariant, TypeCorrect, PTL
     DEF Spec, Linearizable, Atomic!Spec

-----------------------------------------------------------------------------
(* Reversibility. *)

LEMMA ReversibleStep == TypeOK /\ Reversible /\ [Next]_vars => Reversible'
<1> SUFFICES ASSUME TypeOK, Reversible, [Next]_vars PROVE Reversible'
  OBVIOUS
<1> USE DEF Reversible
<1>1. ASSUME NEW c \in Calls, Enter(c) PROVE Reversible'
  BY <1>1 DEF Enter, SessionOK
<1>2. ASSUME NEW c \in Calls, Acquire(c) PROVE Reversible'
  BY <1>2 DEF Acquire, SessionOK
<1>3. ASSUME NEW c \in Calls, ReadForward(c) PROVE Reversible'
  BY <1>3 DEF ReadForward, SessionOK
<1>4. ASSUME NEW c \in Calls, ReadForms(c) PROVE Reversible'
  BY <1>4 DEF ReadForms, SessionOK
<1>5. ASSUME NEW c \in Calls, LoadCorefs(c) PROVE Reversible'
  BY <1>5 DEF LoadCorefs, SessionOK
<1>6. ASSUME NEW c \in Calls, Mint(c) PROVE Reversible'
  BY <1>6 DEF Mint, SessionOK
<1>7. ASSUME NEW c \in Calls, WriteMapping(c) PROVE Reversible'
  <2> DEFINE base == loc[c].base
             inflects == loc[c].inflects
             new == ReverseFields(c, base, inflects)
  <2>1. /\ Nominative(base) \in DOMAIN new
        /\ inflects => FormsOf(base) \subseteq DOMAIN new
    BY ReverseFieldsProperties DEF CoroutinesOK
  <2>2. /\ session'.fwd = Override(session.fwd, [k \in {KeyOf(c)} |-> base])
        /\ session'.rev = Override(session.rev, new)
        /\ session'.forms = IF inflects THEN session.forms \cup {base}
                                        ELSE session.forms
    BY <1>7 DEF WriteMapping, SessionOK
  <2> HIDE DEF new
  <2>3. DOMAIN session'.rev = DOMAIN session.rev \cup DOMAIN new
    BY <2>2 DEF Override
  <2>4. \A k \in DOMAIN session'.fwd :
          Nominative(session'.fwd[k]) \in DOMAIN session'.rev
    BY <2>1, <2>2, <2>3 DEF Override
  <2>5. \A b \in session'.forms : FormsOf(b) \subseteq DOMAIN session'.rev
    BY <2>1, <2>2, <2>3
  <2>6. QED
    BY <2>4, <2>5
<1>8. ASSUME NEW c \in Calls, ReadCorefs(c) PROVE Reversible'
  BY <1>8 DEF ReadCorefs, SessionOK
<1>9. ASSUME NEW c \in Calls, WriteCorefs(c) PROVE Reversible'
  BY <1>9 DEF WriteCorefs, SessionOK
<1>10. ASSUME NEW c \in Calls, ReadMeta(c) PROVE Reversible'
  BY <1>10 DEF ReadMeta, SessionOK
<1>11. ASSUME NEW c \in Calls, WriteMeta(c) PROVE Reversible'
  BY <1>11 DEF WriteMeta, SessionOK
<1>12. ASSUME NEW c \in Calls, ExtendWritten(c) PROVE Reversible'
  BY <1>12, ExtendKeepsSession DEF ExtendWritten, SessionOK
<1>13. ASSUME NEW c \in Calls, WriteExact(c) PROVE Reversible'
  <2> DEFINE new == [form \in {loc[c].surface} |->
                      [orig |-> EntityOf[c].text, type |-> EntityOf[c].type,
                       exact |-> TRUE]]
  <2>1. /\ session'.rev = Override(session.rev, new)
        /\ session'.fwd = session.fwd
        /\ session'.forms = session.forms
    BY <1>13 DEF WriteExact, SessionOK
  <2> HIDE DEF new
  <2>2. DOMAIN session.rev \subseteq DOMAIN session'.rev
    BY <2>1 DEF Override
  <2>3. QED
    BY <2>1, <2>2
<1>14. ASSUME NEW c \in Calls, Extend(c) PROVE Reversible'
  BY <1>14, ExtendKeepsSession DEF Extend, SessionOK
<1>15. ASSUME NEW c \in Calls, Release(c) PROVE Reversible'
  BY <1>15 DEF Release, SessionOK
<1>16. ASSUME NEW b \in Bumps, ReadCount(b) PROVE Reversible'
  BY <1>16 DEF ReadCount, SessionOK
<1>17. ASSUME NEW b \in Bumps, WriteCount(b) PROVE Reversible'
  BY <1>17 DEF WriteCount, SessionOK
<1>18. ASSUME NEW r \in Readers, ReadMappings(r) PROVE Reversible'
  BY <1>18 DEF ReadMappings, SessionOK
<1>19. ASSUME NEW r \in Readers \cup Summaries, ExtendRead(r) PROVE Reversible'
  BY <1>19, ExtendKeepsSession DEF ExtendRead, SessionOK
<1>20. ASSUME NEW s \in Summaries, SummaryMeta(s) PROVE Reversible'
  BY <1>20 DEF SummaryMeta, SessionOK
<1>21. ASSUME NEW s \in Summaries, SummaryTTL(s) PROVE Reversible'
  BY <1>21 DEF SummaryTTL, SessionOK
<1>22. ASSUME NEW s \in Summaries, SummaryPairs(s) PROVE Reversible'
  BY <1>22 DEF SummaryPairs, SessionOK
<1>23. ASSUME NEW d \in Deletes, DeleteHash(d) PROVE Reversible'
  BY <1>23, EmptySessionOK DEF DeleteHash
<1>24. ASSUME NEW d \in Deletes, DiscardLock(d) PROVE Reversible'
  BY <1>24 DEF DiscardLock, SessionOK
<1>25. ASSUME NEW p \in Procs, RedisError(p) PROVE Reversible'
  BY <1>25 DEF RedisError, SessionOK
<1>26. CASE Idle
  BY <1>26 DEF Idle, SessionOK
<1>27. CASE Expire
  BY <1>27, EmptySessionOK DEF Expire
<1>28. CASE Restart
  BY <1>28 DEF Restart, SessionOK
<1>29. CASE Served
  BY <1>29 DEF Served, vars
<1>30. CASE UNCHANGED vars
  BY <1>30 DEF vars, SessionOK
<1>31. QED
  BY <1>1, <1>2, <1>3, <1>4, <1>5, <1>6, <1>7, <1>8, <1>9, <1>10, <1>11, <1>12, <1>13, <1>14, <1>15, <1>16, <1>17, <1>18, <1>19, <1>20, <1>21, <1>22, <1>23, <1>24, <1>25, <1>26, <1>27, <1>28, <1>29, <1>30 DEF Next, CallStep

(* Whatever expires, is deleted, fails or is left half done: a stored      *)
(* forward mapping has its reverse record, and a stored forms field has    *)
(* one for each of its forms.                                              *)
THEOREM AlwaysReversible == Spec => []Reversible
<1>1. Init => Reversible
  BY EmptySessionOK DEF Init, Reversible
<1>2. QED
  BY <1>1, ReversibleStep, TypeCorrect, PTL DEF Spec


-----------------------------------------------------------------------------
(* The steps, when no command fails and the process goes on. *)

(* The requests that leave the hash alone or give it its TTL.              *)
Aside ==
  /\ loc' = loc
  /\ \A c \in Calls : pc'[c] = pc[c] /\ seen'[c] = seen[c]
  /\ \A b \in Bumps : At(b, "write_count")' => At(b, "write_count") \/ session.meta # NoMeta
  /\ session' \in {session, ExtendTTL(session)}

LEMMA StepKinds ==
  ASSUME Faults \subseteq {"expiry"}, TypeOK, [Next]_vars
  PROVE  \/ \E c \in Calls : CallStep(c)
         \/ \E b \in Bumps : WriteCount(b)
         \/ \E d \in Deletes : DeleteHash(d)
         \/ Idle
         \/ Expire
         \/ Aside
<1> USE CallAssumption, KindAssumption DEF Procs, CoroutinesOK, Aside
<1>1. ASSUME NEW b \in Bumps, ReadCount(b) PROVE Aside
  BY <1>1 DEF ReadCount
<1>2. ASSUME NEW r \in Readers, ReadMappings(r) PROVE Aside
  BY <1>2 DEF ReadMappings
<1>3. ASSUME NEW r \in Readers \cup Summaries, ExtendRead(r) PROVE Aside
  BY <1>3 DEF ExtendRead
<1>4. ASSUME NEW s \in Summaries, SummaryMeta(s) PROVE Aside
  BY <1>4 DEF SummaryMeta
<1>5. ASSUME NEW s \in Summaries, SummaryTTL(s) PROVE Aside
  BY <1>5 DEF SummaryTTL
<1>6. ASSUME NEW s \in Summaries, SummaryPairs(s) PROVE Aside
  BY <1>6 DEF SummaryPairs
<1>7. ASSUME NEW d \in Deletes, DiscardLock(d) PROVE Aside
  BY <1>7 DEF DiscardLock
<1>8. ASSUME NEW p \in Procs, RedisError(p) PROVE FALSE
  BY <1>8 DEF RedisError
<1>9. CASE Restart
  BY <1>9 DEF Restart
<1>10. CASE Served \/ UNCHANGED vars
  BY <1>10 DEF Served, vars
<1>11. QED
  BY <1>1, <1>2, <1>3, <1>4, <1>5, <1>6, <1>7, <1>8, <1>9, <1>10 DEF Next

(* A call moves itself only. *)
LEMMA OwnStep ==
  ASSUME TypeOK, NEW c \in Calls, CallStep(c)
  PROVE  \A p \in Procs \ {c} : pc'[p] = pc[p]
<1> USE DEF CoroutinesOK
<1>1. CASE LoadCorefs(c)
  BY <1>1, LoadCorefsLocals
<1>2. CASE ReadForward(c)
  BY <1>2 DEF ReadForward
<1>3. CASE Enter(c) \/ Acquire(c) \/ ReadForms(c) \/ Mint(c) \/ WriteMapping(c)
  BY <1>3 DEF Enter, Acquire, ReadForms, Mint, WriteMapping
<1>4. CASE ReadCorefs(c) \/ WriteCorefs(c) \/ ReadMeta(c) \/ WriteMeta(c) \/ ExtendWritten(c)
  BY <1>4 DEF ReadCorefs, WriteCorefs, ReadMeta, WriteMeta, ExtendWritten
<1>5. CASE WriteExact(c) \/ Extend(c) \/ Release(c)
  BY <1>5 DEF WriteExact, Extend, Release
<1>6. QED
  BY <1>1, <1>2, <1>3, <1>4, <1>5 DEF CallStep

-----------------------------------------------------------------------------
(* Expiry. *)

(* What a call writes has its TTL before the call ends, and so has what a  *)
(* count writes, to a session that is there.                               *)
Writing == {"read_corefs", "write_corefs", "read_meta", "write_meta",
            "extend_written", "write_exact", "extend"}

ExpiringInv ==
  /\ Exists(session) /\ session.ttl = "none" => \E c \in Calls : pc[c] \in Writing
  /\ \A b \in Bumps : At(b, "write_count") => session.meta # NoMeta
  /\ "expiry" \notin Faults => session.ttl # "due"

LEMMA ExtendExpiring ==
  ASSUME SessionOK
  PROVE  /\ Exists(ExtendTTL(session)) <=> Exists(session)
         /\ Exists(session) => ExtendTTL(session).ttl = "fresh"
         /\ ~Exists(session) => ExtendTTL(session) = session
         /\ ExtendTTL(session).ttl \in {session.ttl, "fresh"}
         /\ ExtendTTL(session).meta = session.meta
  BY DEF ExtendTTL, Exists, SessionOK

LEMMA NothingStored == ~Exists(EmptySession) /\ EmptySession.ttl = "none"
  BY DEF Exists, EmptySession, Empty

LEMMA ExpiringCall ==
  ASSUME TypeOK, ExpiringInv, NEW c \in Calls, CallStep(c)
  PROVE  ExpiringInv'
<1> USE CallAssumption, KindAssumption DEF Procs, CoroutinesOK
<1>1. /\ \A b \in Bumps : pc'[b] = pc[b]
      /\ \A d \in Calls \ {c} : pc'[d] = pc[d]
  BY OwnStep
<1>2. CASE Enter(c) \/ Acquire(c) \/ ReadForward(c) \/ ReadForms(c) \/ LoadCorefs(c)
           \/ Mint(c) \/ Release(c)
  <2>1. session' = session /\ pc[c] \notin Writing
    BY <1>2 DEF Enter, Acquire, ReadForward, ReadForms, LoadCorefs, Mint, Release, Writing
  <2>2. QED
    BY <1>1, <2>1 DEF ExpiringInv, Exists
<1>3. CASE WriteMapping(c) \/ ReadCorefs(c) \/ WriteCorefs(c) \/ ReadMeta(c)
           \/ WriteMeta(c) \/ WriteExact(c)
  <2>1. pc'[c] \in Writing
    BY <1>3 DEF WriteMapping, ReadCorefs, WriteCorefs, ReadMeta, WriteMeta, WriteExact, Writing
  <2>2. session'.ttl = session.ttl
    BY <1>3 DEF WriteMapping, ReadCorefs, WriteCorefs, ReadMeta, WriteMeta, WriteExact,
       SessionOK
  <2>3. session.meta # NoMeta => session'.meta # NoMeta
    <3>1. CASE WriteMeta(c)
      <4>1. seen[c] \in Metas
        OBVIOUS
      <4>2. session'.meta.entities = (IF seen[c] = NoMeta THEN 1 ELSE seen[c].entities + 1)
        BY <3>1, <4>1 DEF WriteMeta, SessionOK, Metas
      <4>3. session'.meta.entities # 0
        BY <4>1, <4>2 DEF Metas
      <4>4. QED
        BY <4>3 DEF NoMeta
    <3>2. CASE ~WriteMeta(c)
      BY <3>2, <1>3 DEF WriteMapping, ReadCorefs, WriteCorefs, ReadMeta, WriteExact, SessionOK
    <3>3. QED
      BY <3>1, <3>2
  <2>4. QED
    BY <1>1, <2>1, <2>2, <2>3 DEF ExpiringInv, Exists
<1>4. CASE ExtendWritten(c) \/ Extend(c)
  <2>1. session' = ExtendTTL(session)
    BY <1>4 DEF ExtendWritten, Extend
  <2>2. QED
    BY <1>1, <2>1, ExtendExpiring DEF ExpiringInv
<1>5. QED
  BY <1>2, <1>3, <1>4 DEF CallStep

LEMMA ExpiringStep ==
  ASSUME Faults \subseteq {"expiry"}, Bumps = {} \/ (Deletes = {} /\ Faults = {})
  PROVE  TypeOK /\ ExpiringInv /\ [Next]_vars => ExpiringInv'
<1> SUFFICES ASSUME TypeOK, ExpiringInv, [Next]_vars PROVE ExpiringInv'
  OBVIOUS
<1>1. ASSUME NEW c \in Calls, CallStep(c) PROVE ExpiringInv'
  BY <1>1, ExpiringCall
<1>2. ASSUME NEW b \in Bumps, WriteCount(b) PROVE ExpiringInv'
  <2>1. /\ pc' = [pc EXCEPT ![b] = "done"] /\ pc \in [Procs -> States]
        /\ pc[b] = "write_count" /\ session'.ttl = session.ttl
        /\ session'.meta = [seen[b] EXCEPT !.messages = @ + 1] /\ seen[b] \in Metas
    BY <1>2 DEF WriteCount, SessionOK, CoroutinesOK, Procs
  <2>2. session'.meta # NoMeta
    <3>1. session'.meta.messages = seen[b].messages + 1 /\ seen[b].messages \in Nat
      BY <2>1 DEF Metas
    <3>2. QED
      BY <3>1 DEF NoMeta
  <2>3. \A c \in Calls : pc'[c] = pc[c]
    BY <2>1, KindAssumption DEF Procs
  <2>4. Exists(session)
    BY <1>2 DEF ExpiringInv, WriteCount, Exists
  <2>5. QED
    BY <2>1, <2>2, <2>3, <2>4, CallAssumption, KindAssumption DEF ExpiringInv, Procs, Writing
<1>3. ASSUME NEW d \in Deletes, DeleteHash(d) PROVE ExpiringInv'
  BY <1>3, NothingStored DEF DeleteHash, ExpiringInv
<1>4. CASE Idle
  BY <1>4 DEF Idle, ExpiringInv, Exists, SessionOK
<1>5. CASE Expire
  BY <1>5, NothingStored DEF Expire, ExpiringInv
<1>6. CASE Aside
  BY <1>6, ExtendExpiring DEF Aside, ExpiringInv, Exists
<1>7. QED
  BY <1>1, <1>2, <1>3, <1>4, <1>5, <1>6, StepKinds

(* What is stored expires, once nothing is under way: in a session that    *)
(* may be deleted or expire under its requests, as long as no messages are *)
(* counted in it, and with counts, as long as it is neither.               *)
THEOREM ExpiringWhenAtRest ==
  ASSUME Faults \subseteq {"expiry"}, Bumps = {} \/ (Deletes = {} /\ Faults = {})
  PROVE  Spec => []AlwaysExpiring
<1>1. Init => ExpiringInv
  BY NothingStored, KindAssumption DEF Init, ExpiringInv, Procs
<1>2. TypeOK /\ ExpiringInv => AlwaysExpiring
  BY DEF AlwaysExpiring, ExpiringInv, AtRest, Writing, Ended, Procs
<1>3. QED
  BY <1>1, <1>2, ExpiringStep, TypeCorrect, PTL DEF Spec

-----------------------------------------------------------------------------
(* Counts and coreferents. *)

(* A mapping written, and not yet counted; a name written, and not listed. *)
Uncounted == {"read_corefs", "write_corefs", "read_meta", "write_meta"}
Unlisted == {"read_corefs", "write_corefs"}

EntryOf(k) == [lemma |-> k.lemma, base |-> session.fwd[k], type |-> k.type]

(* The count lags behind the mappings by the call that has written one. *)
CountInv ==
  /\ IsFiniteSet(DOMAIN session.fwd)
  /\ Cardinality(DOMAIN session.fwd)
       = session.meta.entities + (IF \E c \in Calls : pc[c] \in Uncounted THEN 1 ELSE 0)
  /\ \A c \in Calls : At(c, "write_meta") => seen[c] = session.meta

(* Every name is listed, or the call that has written it is about to. *)
ListInv ==
  /\ session.corefs \in Seq(Range(session.corefs))
  /\ \A c \in Calls : pc[c] \in Unlisted =>
       /\ KeyOf(c) \in DOMAIN session.fwd /\ session.fwd[KeyOf(c)] = loc[c].base
       /\ At(c, "write_corefs") => loc[c].corefs = session.corefs
  /\ \A k \in DOMAIN session.fwd : k.type \in NameTypes =>
       \/ EntryOf(k) \in Range(session.corefs)
       \/ \E c \in Calls : pc[c] \in Unlisted /\ KeyOf(c) = k

(* Nothing is stored before the first mapping. *)
EmptyInv ==
  /\ DOMAIN session.fwd = {} =>
       DOMAIN session.rev = {} /\ session.corefs = << >> /\ session.meta = NoMeta
  /\ \A c \in Calls : pc[c] \in Writing \cup {"read_forms"} => DOMAIN session.fwd # {}

QuietInv == CountInv /\ ListInv /\ EmptyInv /\ session.ttl # "due"

LEMMA AppendRange ==
  ASSUME NEW s, s \in Seq(Range(s)), NEW e
  PROVE  /\ Append(s, e) \in Seq(Range(Append(s, e)))
         /\ Range(Append(s, e)) = Range(s) \cup {e}
<1> DEFINE T == Range(s) \cup {e}
           t == Append(s, e)
<1>1. s \in Seq(T)
  BY SeqMonotonic
<1>2. /\ t \in Seq(T) /\ Len(t) = Len(s) + 1 /\ Len(s) \in Nat
      /\ \A i \in 1..Len(s) : t[i] = s[i]
      /\ t[Len(s) + 1] = e
  BY <1>1, AppendProperties, LenProperties
<1>3. DOMAIN t = 1..Len(t) /\ DOMAIN s = 1..Len(s)
  BY <1>1, <1>2, LenProperties
<1> HIDE DEF t
<1>4. Range(t) = T
  <2>1. \A i \in DOMAIN t : t[i] \in T
    <3> SUFFICES ASSUME NEW i \in DOMAIN t PROVE t[i] \in T
      OBVIOUS
    <3>1. CASE i = Len(s) + 1
      BY <1>2, <3>1
    <3>2. CASE i # Len(s) + 1
      <4>1. i \in DOMAIN s
        BY <1>2, <1>3, <3>2
      <4>2. QED
        BY <1>2, <1>3, <4>1 DEF Range
    <3>3. QED
      BY <3>1, <3>2
  <2>2. \A i \in DOMAIN s : s[i] \in Range(t)
    BY <1>2, <1>3 DEF Range
  <2>3. e \in Range(t)
    BY <1>2, <1>3 DEF Range
  <2>4. QED
    BY <2>1, <2>2, <2>3 DEF Range
<1>5. QED
  BY <1>2, <1>4 DEF t

(* Steps that change nothing but the TTL keep the records in step. *)
LEMMA KeptApart ==
  ASSUME TypeOK, QuietInv, session' \in {session, ExtendTTL(session)},
         \A d \in Calls :
           \/ pc'[d] = pc[d] /\ loc'[d] = loc[d] /\ seen'[d] = seen[d]
           \/ /\ pc[d] \notin Uncounted /\ pc'[d] \notin Uncounted
              /\ pc'[d] \in Writing \cup {"read_forms"} => DOMAIN session.fwd # {}
  PROVE  QuietInv'
<1>1. \A field \in DOMAIN session \ {"ttl"} : session'[field] = session[field]
  BY ExtendKeepsSession
<1>2. /\ session'.fwd = session.fwd /\ session'.rev = session.rev
      /\ session'.corefs = session.corefs /\ session'.meta = session.meta
  BY <1>1 DEF SessionOK
<1>3. session'.ttl \in {session.ttl, "fresh"}
  BY ExtendExpiring
<1>4. CountInv'
  BY <1>2 DEF QuietInv, CountInv, Uncounted
<1>5. ListInv'
  <2>1. \A d \in Calls : pc'[d] \in Unlisted =>
          pc'[d] = pc[d] /\ loc'[d] = loc[d]
    BY DEF Unlisted, Uncounted
  <2>2. \A d \in Calls : pc[d] \in Unlisted => pc'[d] = pc[d]
    BY DEF Unlisted, Uncounted
  <2>3. QED
    BY <1>2, <2>1, <2>2 DEF QuietInv, ListInv, EntryOf
<1>6. EmptyInv'
  BY <1>2 DEF QuietInv, EmptyInv
<1>7. QED
  BY <1>3, <1>4, <1>5, <1>6 DEF QuietInv

LEMMA WriteMappingQuiet ==
  ASSUME TypeOK, SerialPerSession, DecisionInv, QuietInv, NEW c \in Calls, WriteMapping(c)
  PROVE  QuietInv'
<1> USE CallAssumption, KindAssumption DEF Procs, CoroutinesOK
<1> DEFINE k == KeyOf(c)
           new == ReverseFields(c, loc[c].base, loc[c].inflects)
<1>1. \A d \in Calls \ {c} : ~Critical(d) /\ pc'[d] = pc[d]
  BY DEF WriteMapping, SerialPerSession, Critical, Locked
<1>2. k \notin DOMAIN session.fwd
  BY DEF DecisionInv, WriteMapping
<1>3. /\ session'.fwd = Override(session.fwd, [x \in {k} |-> loc[c].base])
      /\ session'.corefs = session.corefs /\ session'.meta = session.meta
      /\ session'.ttl = session.ttl
  BY DEF WriteMapping, SessionOK
<1>4. /\ DOMAIN session'.fwd = DOMAIN session.fwd \cup {k}
      /\ session'.fwd[k] = loc[c].base
      /\ \A x \in DOMAIN session.fwd : session'.fwd[x] = session.fwd[x]
  BY <1>2, <1>3 DEF Override
<1>5. /\ pc[c] = "write_mapping" /\ loc' = loc /\ seen' = seen
      /\ pc'[c] = IF IsName(c) THEN "read_corefs" ELSE "read_meta"
  BY DEF WriteMapping
<1> HIDE DEF k
<1>6. CountInv'
  <2>1. ~\E d \in Calls : pc[d] \in Uncounted
    BY <1>1, <1>5 DEF Uncounted, Critical, Locked
  <2>2. \E d \in Calls : pc'[d] \in Uncounted
    BY <1>5 DEF Uncounted
  <2>3. /\ IsFiniteSet(DOMAIN session.fwd \cup {k})
        /\ Cardinality(DOMAIN session.fwd \cup {k}) = Cardinality(DOMAIN session.fwd) + 1
    BY <1>2, FS_AddElement DEF QuietInv, CountInv
  <2>4. \A d \in Calls : pc'[d] = "write_meta" => seen'[d] = session'.meta
    BY <1>1, <1>3, <1>5 DEF QuietInv, CountInv
  <2>5. session.meta.entities = Cardinality(DOMAIN session.fwd)
    BY <2>1 DEF QuietInv, CountInv, SessionOK, Metas
  <2>6. QED
    BY <1>3, <1>4, <2>2, <2>3, <2>4, <2>5 DEF CountInv
<1>7. ListInv'
  <2>1. \A d \in Calls : pc'[d] \in Unlisted => d = c
    BY <1>1 DEF Unlisted, Critical, Locked
  <2>2. pc'[c] # "write_corefs"
    BY <1>5
  <2>3. ASSUME NEW x \in DOMAIN session'.fwd, x.type \in NameTypes
        PROVE  \/ EntryOf(x)' \in Range(session'.corefs)
               \/ \E d \in Calls : pc'[d] \in Unlisted /\ KeyOf(d) = x
    <3>1. CASE x = k
      BY <1>5, <2>3, <3>1 DEF k, KeyOf, IsName, Unlisted
    <3>2. CASE x # k
      BY <1>1, <1>3, <1>4, <1>5, <3>2, <2>3
         DEF QuietInv, ListInv, EntryOf, Unlisted, Critical, Locked
    <3>3. QED
      BY <3>1, <3>2
  <2>4. QED
    BY <1>3, <1>4, <1>5, <2>1, <2>2, <2>3 DEF QuietInv, ListInv, k
<1>8. QED
  BY <1>3, <1>4, <1>6, <1>7 DEF QuietInv, EmptyInv

LEMMA WriteCorefsQuiet ==
  ASSUME TypeOK, SerialPerSession, QuietInv, NEW c \in Calls, WriteCorefs(c)
  PROVE  QuietInv'
<1> USE CallAssumption, KindAssumption DEF Procs, CoroutinesOK
<1> DEFINE new == [lemma |-> EntityOf[c].lemma, base |-> loc[c].base, type |-> EntityOf[c].type]
<1>1. \A d \in Calls \ {c} : ~Critical(d) /\ pc'[d] = pc[d]
  BY DEF WriteCorefs, SerialPerSession, Critical, Locked
<1>2. /\ pc[c] = "write_corefs" /\ pc'[c] = "read_meta" /\ loc' = loc /\ seen' = seen
      /\ session'.corefs = Append(loc[c].corefs, new)
      /\ session'.fwd = session.fwd /\ session'.meta = session.meta
      /\ session'.ttl = session.ttl
  BY DEF WriteCorefs, SessionOK
<1>3. /\ loc[c].corefs = session.corefs
      /\ KeyOf(c) \in DOMAIN session.fwd /\ session.fwd[KeyOf(c)] = loc[c].base
  BY <1>2 DEF QuietInv, ListInv, Unlisted
<1>4. /\ session'.corefs \in Seq(Range(session'.corefs))
      /\ Range(session'.corefs) = Range(session.corefs) \cup {new}
  BY <1>2, <1>3, AppendRange DEF QuietInv, ListInv
<1>5. new = EntryOf(KeyOf(c))
  BY <1>3 DEF EntryOf, KeyOf
<1>6. \A d \in Calls : pc'[d] \notin Unlisted
  BY <1>1, <1>2 DEF Unlisted, Critical, Locked
<1>7. ListInv'
  <2>1. ASSUME NEW k \in DOMAIN session.fwd, k.type \in NameTypes
        PROVE  EntryOf(k) \in Range(session'.corefs)
    <3>1. CASE EntryOf(k) \in Range(session.corefs)
      BY <1>4, <3>1
    <3>2. CASE EntryOf(k) \notin Range(session.corefs)
      <4>1. PICK d \in Calls : pc[d] \in Unlisted /\ KeyOf(d) = k
        BY <2>1, <3>2 DEF QuietInv, ListInv
      <4>2. d = c
        BY <1>1, <4>1 DEF Unlisted, Critical, Locked
      <4>3. QED
        BY <1>4, <1>5, <4>1, <4>2
    <3>3. QED
      BY <3>1, <3>2
  <2>2. \A k : EntryOf(k)' = EntryOf(k)
    BY <1>2 DEF EntryOf
  <2>3. QED
    BY <1>2, <1>4, <1>6, <2>1, <2>2 DEF ListInv
<1>8. CountInv'
  BY <1>1, <1>2 DEF QuietInv, CountInv, Uncounted
<1>9. EmptyInv'
  BY <1>1, <1>2, <1>3 DEF QuietInv, EmptyInv
<1>10. QED
  BY <1>2, <1>7, <1>8, <1>9 DEF QuietInv

LEMMA WriteMetaQuiet ==
  ASSUME TypeOK, SerialPerSession, QuietInv, NEW c \in Calls, WriteMeta(c)
  PROVE  QuietInv'
<1> USE CallAssumption, KindAssumption DEF Procs, CoroutinesOK
<1>1. \A d \in Calls \ {c} : ~Critical(d) /\ pc'[d] = pc[d]
  BY DEF WriteMeta, SerialPerSession, Critical, Locked
<1>2. /\ pc[c] = "write_meta" /\ pc'[c] = "extend_written" /\ loc' = loc /\ seen' = seen
      /\ session'.fwd = session.fwd /\ session'.corefs = session.corefs
      /\ session'.ttl = session.ttl
  BY DEF WriteMeta, SessionOK
<1>3. seen[c] = session.meta /\ session.meta \in Metas
  BY <1>2 DEF QuietInv, CountInv, SessionOK
<1>4. session'.meta.entities = session.meta.entities + 1
  <2>1. session'.meta = IF seen[c] = NoMeta
                        THEN [created |-> c, entities |-> 1, messages |-> 0]
                        ELSE [seen[c] EXCEPT !.entities = @ + 1]
    BY DEF WriteMeta, SessionOK
  <2>2. CASE seen[c] = NoMeta
    BY <1>3, <2>1, <2>2 DEF NoMeta
  <2>3. CASE seen[c] # NoMeta
    BY <1>3, <2>1, <2>3 DEF Metas
  <2>4. QED
    BY <2>2, <2>3
<1>5. CountInv'
  <2>1. \E d \in Calls : pc[d] \in Uncounted
    BY <1>2 DEF Uncounted
  <2>2. ~\E d \in Calls : pc'[d] \in Uncounted
    BY <1>1, <1>2 DEF Uncounted, Critical, Locked
  <2>3. Cardinality(DOMAIN session.fwd) = session.meta.entities + 1
    BY <2>1 DEF QuietInv, CountInv
  <2>4. \A d \in Calls : pc'[d] # "write_meta"
    BY <2>2 DEF Uncounted
  <2>5. session.meta.entities \in Nat
    BY <1>3 DEF Metas
  <2>6. QED
    BY <1>2, <1>4, <2>2, <2>3, <2>4, <2>5 DEF CountInv, QuietInv
<1>6. ListInv'
  BY <1>1, <1>2 DEF QuietInv, ListInv, EntryOf, Unlisted
<1>7. EmptyInv'
  BY <1>1, <1>2 DEF QuietInv, EmptyInv, Writing
<1>8. QED
  BY <1>2, <1>5, <1>6, <1>7 DEF QuietInv

LEMMA CallQuiet ==
  ASSUME TypeOK, SerialPerSession, DecisionInv, QuietInv, NEW c \in Calls, CallStep(c)
  PROVE  QuietInv'
<1> USE CallAssumption, KindAssumption DEF Procs, CoroutinesOK
<1>1. \A d \in Calls \ {c} : pc'[d] = pc[d]
  BY OwnStep
<1>2. CASE Enter(c) \/ Acquire(c) \/ Release(c)
  <2>1. /\ session' = session /\ seen' = seen
        /\ pc[c] \notin Uncounted /\ pc'[c] \notin Uncounted \cup Writing \cup {"read_forms"}
        /\ \A d \in Calls \ {c} : loc'[d] = loc[d]
    BY <1>2 DEF Enter, Acquire, Release, Uncounted, Writing
  <2>2. QED
    BY <1>1, <2>1, KeptApart
<1>3. CASE LoadCorefs(c)
  <2>1. session' = session /\ seen' = seen /\ pc[c] = "load_corefs"
    BY <1>3 DEF LoadCorefs
  <2>2. pc'[c] \in {"mint", "write_mapping"} /\ \A d \in Calls \ {c} : loc'[d] = loc[d]
    BY <1>3, LoadCorefsLocals
  <2>3. QED
    BY <1>1, <2>1, <2>2, KeptApart DEF Uncounted, Writing
<1>4. CASE Mint(c)
  BY <1>1, <1>4, KeptApart DEF Mint, Uncounted, Writing
<1>5. CASE ReadForward(c) \/ ReadForms(c) \/ ExtendWritten(c)
  <2>1. /\ session' \in {session, ExtendTTL(session)} /\ seen' = seen
        /\ pc[c] \notin Uncounted /\ pc'[c] \notin Uncounted
        /\ \A d \in Calls \ {c} : loc'[d] = loc[d]
        /\ pc'[c] \in Writing \cup {"read_forms"} => DOMAIN session.fwd # {}
    <3>1. CASE ReadForward(c)
      BY <3>1 DEF ReadForward, Uncounted, Writing
    <3>2. CASE ReadForms(c) \/ ExtendWritten(c)
      BY <3>2 DEF ReadForms, ExtendWritten, Uncounted, Writing, QuietInv, EmptyInv
    <3>3. QED
      BY <1>5, <3>1, <3>2
  <2>2. QED
    BY <1>1, <2>1, KeptApart
<1>6. CASE Extend(c)
  BY <1>1, <1>6, KeptApart DEF Extend, Uncounted, Writing
<1>7. CASE ReadCorefs(c)
  <2>1. /\ pc[c] = "read_corefs" /\ pc'[c] = "write_corefs" /\ session' = session /\ seen' = seen
        /\ loc'[c].corefs = session.corefs /\ loc'[c].base = loc[c].base
        /\ \A d \in Calls \ {c} : loc'[d] = loc[d]
    BY <1>7 DEF ReadCorefs
  <2>2. QED
    BY <1>1, <2>1 DEF QuietInv, CountInv, ListInv, EmptyInv, EntryOf, Uncounted, Unlisted, Writing
<1>8. CASE ReadMeta(c)
  <2>1. /\ pc[c] = "read_meta" /\ pc'[c] = "write_meta" /\ session' = session /\ loc' = loc
        /\ seen'[c] = session.meta /\ \A d \in Calls \ {c} : seen'[d] = seen[d]
    BY <1>8 DEF ReadMeta
  <2>2. QED
    BY <1>1, <2>1 DEF QuietInv, CountInv, ListInv, EmptyInv, EntryOf, Uncounted, Unlisted, Writing
<1>9. CASE WriteExact(c)
  <2>1. /\ pc[c] = "write_exact" /\ pc'[c] = "extend" /\ loc' = loc /\ seen' = seen
        /\ session'.fwd = session.fwd /\ session'.corefs = session.corefs
        /\ session'.meta = session.meta /\ session'.ttl = session.ttl
    BY <1>9 DEF WriteExact, SessionOK
  <2>2. DOMAIN session.fwd # {}
    BY <2>1 DEF QuietInv, EmptyInv, Writing
  <2>3. QED
    BY <1>1, <2>1, <2>2
       DEF QuietInv, CountInv, ListInv, EmptyInv, EntryOf, Uncounted, Unlisted, Writing
<1>10. QED
  BY <1>2, <1>3, <1>4, <1>5, <1>6, <1>7, <1>8, <1>9,
     WriteMappingQuiet, WriteCorefsQuiet, WriteMetaQuiet DEF CallStep

LEMMA QuietStep ==
  ASSUME Faults = {}, Deletes = {}, Bumps = {}
  PROVE  TypeOK /\ SerialPerSession /\ DecisionInv /\ QuietInv /\ [Next]_vars => QuietInv'
<1> SUFFICES ASSUME TypeOK, SerialPerSession, DecisionInv, QuietInv, [Next]_vars
             PROVE  QuietInv'
  OBVIOUS
<1>1. ASSUME NEW c \in Calls, CallStep(c) PROVE QuietInv'
  BY <1>1, CallQuiet
<1>2. CASE Idle \/ Expire
  BY <1>2 DEF Idle, Expire, QuietInv
<1>3. CASE Aside
  BY <1>3, KeptApart DEF Aside
<1>4. QED
  BY <1>1, <1>2, <1>3, StepKinds

LEMMA QuietInvariant ==
  ASSUME Faults = {}, Deletes = {}, Bumps = {}
  PROVE  Spec => []QuietInv
<1>1. Init => QuietInv
  <2> SUFFICES ASSUME Init PROVE QuietInv
    OBVIOUS
  <2>1. /\ session.fwd = Empty /\ session.rev = Empty /\ session.corefs = << >>
        /\ session.meta = NoMeta /\ session.ttl = "none" /\ DOMAIN Empty = {}
    BY EmptySessionOK DEF Init
  <2>2. \A c \in Calls : pc[c] = "idle"
    BY DEF Init, Procs
  <2>3. CountInv
    BY <2>1, <2>2, FS_EmptySet DEF CountInv, Uncounted, NoMeta
  <2>4. ListInv
    BY <2>1, <2>2, EmptySeq DEF ListInv, Unlisted
  <2>5. EmptyInv
    BY <2>1, <2>2 DEF EmptyInv, Writing
  <2>6. QED
    BY <2>1, <2>3, <2>4, <2>5 DEF QuietInv
<1>2. Init => DecisionInv
  BY DEF Init, DecisionInv, Procs
<1>3. QED
  BY <1>1, <1>2, QuietStep, DecisionStep, SerialInvariant, TypeCorrect, PTL DEF Spec

(* As long as nothing fails and no session is deleted or counts messages,  *)
(* no read-modify-write of meta or corefs loses another call's.            *)
THEOREM NothingLost ==
  ASSUME Faults = {}, Deletes = {}, Bumps = {}
  PROVE  Spec => []NoLostUpdate
<1>1. TypeOK /\ QuietInv => NoLostUpdate
  <2> SUFFICES ASSUME TypeOK, QuietInv, AtRest PROVE NoLostUpdate
    BY DEF NoLostUpdate
  <2>1. \A c \in Calls : pc[c] \notin Uncounted \cup Unlisted
    BY DEF AtRest, Procs, Ended, Uncounted, Unlisted
  <2>2. session.meta.entities = Cardinality(DOMAIN session.fwd)
    BY <2>1 DEF QuietInv, CountInv, SessionOK, Metas
  <2>3. QED
    BY <2>1, <2>2 DEF NoLostUpdate, QuietInv, ListInv, EntryOf
<1>2. QED
  BY <1>1, QuietInvariant, TypeCorrect, PTL

(* What is stored has its meta record, or a call is about to write it.     *)
ManageInv ==
  /\ Exists(session) => session.meta # NoMeta \/ \E c \in Calls : pc[c] \in Uncounted
  /\ \A c \in Calls : pc[c] \in Writing \cup {"read_forms"} => DOMAIN session.fwd # {}
  /\ session.ttl # "due"

LEMMA ManageCall ==
  ASSUME TypeOK, ManageInv, NEW c \in Calls, CallStep(c)
  PROVE  ManageInv'
<1> USE CallAssumption, KindAssumption DEF Procs, CoroutinesOK
<1>1. \A d \in Calls \ {c} : pc'[d] = pc[d]
  BY OwnStep
<1>2. CASE Enter(c) \/ Acquire(c) \/ ReadForward(c) \/ ReadForms(c) \/ LoadCorefs(c)
           \/ Mint(c) \/ Release(c) \/ ReadCorefs(c)
  <2>1. session' = session
    BY <1>2 DEF Enter, Acquire, ReadForward, ReadForms, LoadCorefs, Mint, Release, ReadCorefs
  <2>2. pc[c] \in Uncounted => pc'[c] \in Uncounted
    BY <1>2 DEF Enter, Acquire, ReadForward, ReadForms, LoadCorefs, Mint, Release, ReadCorefs,
       Uncounted
  <2>3. pc'[c] \in Writing \cup {"read_forms"} => DOMAIN session.fwd # {}
    <3>1. CASE ReadForward(c)
      BY <3>1 DEF ReadForward, Writing
    <3>2. CASE LoadCorefs(c)
      BY <3>2, LoadCorefsLocals DEF Writing
    <3>3. CASE Enter(c) \/ Acquire(c) \/ ReadForms(c) \/ Mint(c) \/ Release(c) \/ ReadCorefs(c)
      BY <3>3 DEF Enter, Acquire, ReadForms, Mint, Release, ReadCorefs, Writing, ManageInv
    <3>4. QED
      BY <1>2, <3>1, <3>2, <3>3
  <2>4. QED
    BY <1>1, <2>1, <2>2, <2>3 DEF ManageInv
<1>3. CASE WriteMapping(c) \/ WriteCorefs(c) \/ ReadMeta(c)
  <2>1. pc'[c] \in Uncounted /\ session'.ttl = session.ttl
    BY <1>3 DEF WriteMapping, WriteCorefs, ReadMeta, Uncounted, SessionOK
  <2>2. DOMAIN session'.fwd # {}
    <3>1. CASE WriteMapping(c)
      BY <3>1 DEF WriteMapping, Override, SessionOK
    <3>2. CASE WriteCorefs(c) \/ ReadMeta(c)
      BY <3>2 DEF WriteCorefs, ReadMeta, ManageInv, Writing, SessionOK
    <3>3. QED
      BY <1>3, <3>1, <3>2
  <2>3. QED
    BY <1>1, <2>1, <2>2 DEF ManageInv
<1>4. CASE WriteMeta(c)
  <2>1. session'.ttl = session.ttl /\ session'.fwd = session.fwd /\ pc[c] \in Writing
    BY <1>4 DEF WriteMeta, SessionOK, Writing
  <2>2. session'.meta # NoMeta
    <3>1. seen[c] \in Metas
      OBVIOUS
    <3>2. session'.meta.entities = (IF seen[c] = NoMeta THEN 1 ELSE seen[c].entities + 1)
      BY <1>4, <3>1 DEF WriteMeta, SessionOK, Metas
    <3>3. session'.meta.entities # 0
      BY <3>1, <3>2 DEF Metas
    <3>4. QED
      BY <3>3 DEF NoMeta
  <2>3. QED
    BY <2>1, <2>2 DEF ManageInv, Exists
<1>5. CASE ExtendWritten(c) \/ Extend(c)
  <2>1. session' = ExtendTTL(session) /\ pc[c] \in Writing \ Uncounted
    BY <1>5 DEF ExtendWritten, Extend, Writing, Uncounted
  <2>2. QED
    BY <1>1, <2>1, ExtendExpiring, ExtendKeepsSession DEF ManageInv, SessionOK
<1>6. CASE WriteExact(c)
  <2>1. pc[c] \in Writing \ Uncounted
    BY <1>6 DEF WriteExact, Writing, Uncounted
  <2>2. /\ session'.meta = session.meta /\ session'.fwd = session.fwd
        /\ session'.corefs = session.corefs /\ session'.ttl = session.ttl
        /\ DOMAIN session'.rev # {}
    BY <1>6 DEF WriteExact, SessionOK, Override
  <2>3. QED
    BY <1>1, <2>1, <2>2 DEF ManageInv, Exists
<1>7. QED
  BY <1>2, <1>3, <1>4, <1>5, <1>6 DEF CallStep

LEMMA ManageStep ==
  ASSUME Faults = {}, Deletes = {}
  PROVE  TypeOK /\ ManageInv /\ [Next]_vars => ManageInv'
<1> SUFFICES ASSUME TypeOK, ManageInv, [Next]_vars PROVE ManageInv'
  OBVIOUS
<1>1. ASSUME NEW c \in Calls, CallStep(c) PROVE ManageInv'
  BY <1>1, ManageCall
<1>2. ASSUME NEW b \in Bumps, WriteCount(b) PROVE ManageInv'
  <2>1. /\ pc' = [pc EXCEPT ![b] = "done"]
        /\ session'.ttl = session.ttl /\ session'.fwd = session.fwd
        /\ session'.meta = [seen[b] EXCEPT !.messages = @ + 1] /\ seen[b] \in Metas
    BY <1>2 DEF WriteCount, SessionOK, CoroutinesOK, Procs
  <2>2. session'.meta.messages = seen[b].messages + 1 /\ seen[b].messages \in Nat
    BY <2>1 DEF Metas
  <2>3. session'.meta # NoMeta
    BY <2>2 DEF NoMeta
  <2>4. \A c \in Calls : pc'[c] = pc[c]
    BY <2>1, KindAssumption DEF CoroutinesOK, Procs
  <2>5. QED
    BY <2>1, <2>3, <2>4 DEF ManageInv, Exists
<1>3. CASE Idle \/ Expire
  BY <1>3 DEF Idle, Expire, ManageInv
<1>4. CASE Aside
  <2>1. session'.fwd = session.fwd
    BY <1>4, ExtendKeepsSession DEF Aside, SessionOK
  <2>2. QED
    BY <1>4, <2>1, ExtendExpiring DEF Aside, ManageInv
<1>5. QED
  BY <1>1, <1>2, <1>3, <1>4, StepKinds

(* As long as nothing fails, and no session is deleted or expires, GET     *)
(* finds every session that DELETE finds, also where the message count     *)
(* writes an older meta record over a newer one.                           *)
THEOREM ManageableAtRest ==
  ASSUME Faults = {}, Deletes = {}
  PROVE  Spec => []ManageableIfStored
<1>1. Init => ManageInv
  BY NothingStored, KindAssumption DEF Init, ManageInv, Procs, Writing
<1>2. TypeOK /\ ManageInv => ManageableIfStored
  BY DEF ManageableIfStored, ManageInv, AtRest, Uncounted, Ended, Procs, Exists
<1>3. QED
  BY <1>1, <1>2, ManageStep, TypeCorrect, PTL DEF Spec

-----------------------------------------------------------------------------
(* Mappings, as long as the session is neither deleted nor expires. *)

HasFake(c, base) == KeyOf(c) \in DOMAIN session.fwd /\ session.fwd[KeyOf(c)] = base

(* The coreferents listed are names with the fakes they have. *)
StoredNames(corefs) ==
  /\ corefs \in Seq(Range(corefs))
  /\ \A r \in Range(corefs) : \E d \in Calls :
       /\ r.lemma = EntityOf[d].lemma /\ r.type = EntityOf[d].type
       /\ IsName(d) /\ HasFake(d, r.base)

(* A reverse record gives back an original the fake was given to. *)
OwnedInv ==
  \A f \in DOMAIN session.rev : \E d \in Calls :
    /\ HasFake(d, f.base)
    /\ session.rev[f].orig \in {EntityOf[d].text, EntityOf[d].lemma}
    /\ session.rev[f].type = EntityOf[d].type

(* What a call has in hand: once its mapping is stored, the fake of its    *)
(* original in a form that has its reverse record.                         *)
HandOf(c) ==
  /\ At(c, "write_mapping") => loc[c].surface = Rendered(c, loc[c].base, loc[c].inflects)
  /\ pc[c] \in Decided =>
       /\ HasFake(c, loc[c].base)
       /\ loc[c].surface \in DOMAIN session.rev
       /\ loc[c].surface.base = loc[c].base
  /\ At(c, "write_corefs") => StoredNames(loc[c].corefs)
  /\ pc[c] \in {"load_corefs", "read_forms", "read_corefs", "write_corefs", "write_exact"}
       => IsName(c)

HoldInv ==
  /\ OwnedInv
  /\ \A c \in Calls : HandOf(c)
  /\ StoredNames(session.corefs)
  /\ session.ttl # "due"

(* A step that adds no mapping, no form and no coreferent. *)
SameMappings ==
  /\ session'.fwd = session.fwd /\ session'.rev = session.rev
  /\ session'.forms = session.forms /\ session'.corefs = session.corefs
  /\ session'.ttl \in {session.ttl, "fresh"}

(* What the others do leaves the calls alone, or ends them. *)
Beside ==
  /\ SameMappings
  /\ \A c \in Calls : \/ pc'[c] = pc[c] /\ loc'[c] = loc[c]
                      \/ pc'[c] = "failed"

LEMMA ExtendSame ==
  ASSUME SessionOK, session' \in {session, ExtendTTL(session)}
  PROVE  SameMappings
  BY ExtendKeepsSession, ExtendExpiring DEF SameMappings, SessionOK

LEMMA BesideKinds ==
  ASSUME Deletes = {}, TypeOK, session.ttl # "due", "expiry" \notin Faults, [Next]_vars
  PROVE  (\E c \in Calls : CallStep(c)) \/ Beside
<1> USE CallAssumption, KindAssumption DEF Procs, CoroutinesOK, Beside
<1>1. ASSUME NEW b \in Bumps, ReadCount(b) PROVE Beside
  BY <1>1, ExtendSame DEF ReadCount
<1>2. ASSUME NEW b \in Bumps, WriteCount(b) PROVE Beside
  BY <1>2 DEF WriteCount, SameMappings, SessionOK
<1>3. ASSUME NEW r \in Readers, ReadMappings(r) PROVE Beside
  BY <1>3, ExtendSame DEF ReadMappings
<1>4. ASSUME NEW r \in Readers \cup Summaries, ExtendRead(r) PROVE Beside
  BY <1>4, ExtendSame DEF ExtendRead
<1>5. ASSUME NEW s \in Summaries, SummaryMeta(s) PROVE Beside
  BY <1>5, ExtendSame DEF SummaryMeta
<1>6. ASSUME NEW s \in Summaries, SummaryTTL(s) PROVE Beside
  BY <1>6, ExtendSame DEF SummaryTTL
<1>7. ASSUME NEW s \in Summaries, SummaryPairs(s) PROVE Beside
  BY <1>7, ExtendSame DEF SummaryPairs
<1>8. ASSUME NEW p \in Procs, RedisError(p) PROVE Beside
  BY <1>8, ExtendSame DEF RedisError
<1>9. CASE Restart
  BY <1>9, ExtendSame DEF Restart
<1>10. CASE Served \/ UNCHANGED vars
  BY <1>10, ExtendSame DEF Served, vars
<1>11. CASE Idle \/ Expire
  BY <1>11 DEF Idle, Expire
<1>12. QED
  BY <1>1, <1>2, <1>3, <1>4, <1>5, <1>6, <1>7, <1>8, <1>9, <1>10, <1>11 DEF Next

(* Steps that add nothing keep the mappings; a call may go on to a state   *)
(* that asks no more of it.                                                *)
LEMMA HoldKept ==
  ASSUME HoldInv, SameMappings,
         \A c \in Calls : HandOf(c)'
  PROVE  HoldInv'
<1>1. OwnedInv'
  BY DEF HoldInv, SameMappings, OwnedInv, HasFake
<1>2. StoredNames(session.corefs)'
  BY DEF HoldInv, SameMappings, StoredNames, HasFake
<1>3. session'.ttl # "due"
  BY DEF HoldInv, SameMappings
<1>4. QED
  BY <1>1, <1>2, <1>3 DEF HoldInv

LEMMA HandKept ==
  ASSUME NEW c \in Calls, HandOf(c), SameMappings, pc'[c] = pc[c], loc'[c] = loc[c]
  PROVE  HandOf(c)'
  BY DEF HandOf, SameMappings, HasFake, StoredNames

LEMMA BesideHold == HoldInv /\ Beside => HoldInv'
<1> SUFFICES ASSUME HoldInv, Beside PROVE HoldInv'
  OBVIOUS
<1>1. ASSUME NEW c \in Calls PROVE HandOf(c)'
  <2>1. CASE pc'[c] = "failed"
    BY <2>1 DEF HandOf, Decided
  <2>2. CASE pc'[c] # "failed"
    BY <2>2, HandKept DEF Beside, HoldInv
  <2>3. QED
    BY <2>1, <2>2
<1>2. QED
  BY <1>1, HoldKept DEF Beside

(* A name reuses what it resolves to, or is minted a fake. *)
LEMMA Resolving ==
  ASSUME CoroutinesOK, NEW c \in Calls, LoadCorefs(c)
  PROVE  \/ loc' = loc /\ pc'[c] = "mint"
         \/ /\ pc'[c] = "write_mapping"
            /\ loc'[c].base = Resolve(EntityOf[c].type, EntityOf[c].lemma, session.corefs)
            /\ loc'[c].base # NoFake
            /\ loc'[c].inflects = TRUE
            /\ loc'[c].surface = Rendered(c, loc'[c].base, loc'[c].inflects)
<1> DEFINE base == Resolve(EntityOf[c].type, EntityOf[c].lemma, session.corefs)
<1> USE DEF CoroutinesOK, Procs
<1>1. CASE base = NoFake
  BY <1>1 DEF LoadCorefs
<1>2. CASE base # NoFake
  <2>1. loc' = [loc EXCEPT ![c].base = base, ![c].inflects = TRUE,
                           ![c].surface = Rendered(c, base, TRUE)]
    BY <1>2 DEF LoadCorefs
  <2>2. pc'[c] = "write_mapping"
    BY <1>2 DEF LoadCorefs
  <2> HIDE DEF base
  <2>3. /\ loc'[c].base = base /\ loc'[c].inflects = TRUE
        /\ loc'[c].surface = Rendered(c, base, TRUE)
    BY <2>1
  <2>4. QED
    BY <1>2, <2>2, <2>3 DEF base
<1>3. QED
  BY <1>1, <1>2

LEMMA OthersKept ==
  ASSUME TypeOK, HoldInv, NEW c \in Calls, CallStep(c), SameMappings,
         \A d \in Calls \ {c} : loc'[d] = loc[d],
         HandOf(c)'
  PROVE  HoldInv'
<1>1. \A d \in Calls \ {c} : pc'[d] = pc[d]
  BY OwnStep DEF Procs
<1>2. \A d \in Calls : HandOf(d)'
  BY <1>1, HandKept DEF HoldInv
<1>3. QED
  BY <1>2, HoldKept

(* Up to the write a call looks for its fake. *)
LEMMA LookingHold ==
  ASSUME TypeOK, DecisionInv, Reversible, HoldInv, NEW c \in Calls, CallStep(c),
         Enter(c) \/ Acquire(c) \/ ReadForward(c) \/ ReadForms(c) \/ LoadCorefs(c) \/ Mint(c)
  PROVE  HoldInv'
<1> USE CallAssumption, KindAssumption DEF Procs, CoroutinesOK
<1>1. session' = session
  BY DEF Enter, Acquire, ReadForward, ReadForms, LoadCorefs, Mint
<1>2. SameMappings
  BY <1>1, ExtendSame
<1>3. /\ HandOf(c) /\ StoredNames(session.corefs)
  BY DEF HoldInv
<1>4. CASE Enter(c) \/ Acquire(c)
  <2>1. pc'[c] \in {"waiting", "read_forward"} /\ \A d \in Calls \ {c} : loc'[d] = loc[d]
    BY <1>4 DEF Enter, Acquire
  <2>2. HandOf(c)'
    BY <2>1 DEF HandOf, Decided
  <2>3. QED
    BY <1>2, <2>1, <2>2, OthersKept
<1>5. CASE ReadForward(c)
  <2>1. CASE KeyOf(c) \in DOMAIN session.fwd
    <3> DEFINE base == session.fwd[KeyOf(c)]
    <3>1. /\ loc' = [loc EXCEPT ![c].base = base, ![c].surface = Nominative(base)]
          /\ pc' = [pc EXCEPT ![c] = CASE ~IsName(c) -> "extend"
                           [] IsName(c) /\ EntityOf[c].case = "nom" -> "write_exact"
                           [] OTHER -> "read_forms"]
      BY <1>5, <2>1 DEF ReadForward
    <3>2. /\ loc'[c].base = base /\ loc'[c].surface = Nominative(base)
          /\ \A d \in Calls \ {c} : loc'[d] = loc[d]
      BY <3>1
    <3>3. /\ pc'[c] \in {"extend", "write_exact", "read_forms"}
          /\ pc'[c] # "extend" => IsName(c)
      BY <3>1
    <3>4. Nominative(base) \in DOMAIN session.rev /\ Nominative(base).base = base
      BY <2>1 DEF Reversible, Nominative, Form
    <3> HIDE DEF base
    <3>5. HandOf(c)'
      BY <1>1, <2>1, <3>2, <3>3, <3>4 DEF HandOf, HasFake, Decided, base
    <3>6. QED
      BY <1>2, <3>2, <3>5, OthersKept
  <2>2. CASE KeyOf(c) \notin DOMAIN session.fwd
    <3>1. loc' = loc /\ pc'[c] = IF IsName(c) THEN "load_corefs" ELSE "mint"
      BY <1>5, <2>2 DEF ReadForward
    <3>2. HandOf(c)'
      BY <3>1 DEF HandOf, Decided
    <3>3. QED
      BY <1>2, <3>1, <3>2, OthersKept
  <2>3. QED
    BY <2>1, <2>2
<1>6. CASE ReadForms(c)
  <2> DEFINE base == loc[c].base
             surface == Rendered(c, base, base \in session.forms)
  <2>1. /\ loc'[c].base = base /\ loc'[c].surface = surface
        /\ \A d \in Calls \ {c} : loc'[d] = loc[d]
        /\ pc[c] = "read_forms" /\ pc'[c] = "write_exact"
    BY <1>6 DEF ReadForms
  <2>2. HasFake(c, base) /\ IsName(c)
    BY <1>3, <2>1 DEF HandOf, Decided
  <2>3. surface \in DOMAIN session.rev /\ surface.base = base
    <3>1. CASE base \in session.forms
      BY <2>2, <3>1, KeyType DEF Reversible, FormsOf, Rendered, Form
    <3>2. CASE base \notin session.forms
      BY <2>2, <3>2 DEF Reversible, HasFake, Rendered, Nominative, Form
    <3>3. QED
      BY <3>1, <3>2
  <2> HIDE DEF base, surface
  <2>4. HandOf(c)'
    BY <1>1, <2>1, <2>2, <2>3 DEF HandOf, HasFake, Decided
  <2>5. QED
    BY <1>2, <2>1, <2>4, OthersKept
<1>7. CASE LoadCorefs(c)
  <2>1. CASE loc' = loc /\ pc'[c] = "mint"
    <3>1. HandOf(c)'
      BY <2>1 DEF HandOf, Decided
    <3>2. QED
      BY <1>2, <2>1, <3>1, OthersKept
  <2>2. CASE /\ pc'[c] = "write_mapping"
             /\ loc'[c].surface = Rendered(c, loc'[c].base, loc'[c].inflects)
    <3>1. HandOf(c)'
      BY <2>2 DEF HandOf, Decided, Rendered
    <3>2. QED
      BY <1>2, <1>7, <3>1, LoadCorefsLocals, OthersKept
  <2>3. QED
    BY <1>7, <2>1, <2>2, Resolving
<1>8. CASE Mint(c)
  <2>1. PICK fake \in Mintable(c, DOMAIN session.rev) :
          loc' = [loc EXCEPT ![c].base = fake.base,
                   ![c].inflects = fake.inflects,
                   ![c].surface = Rendered(c, fake.base, fake.inflects)]
    BY <1>8 DEF Mint
  <2>2. /\ loc'[c].base = fake.base /\ loc'[c].inflects = fake.inflects
        /\ loc'[c].surface = Rendered(c, fake.base, fake.inflects)
        /\ \A d \in Calls \ {c} : loc'[d] = loc[d]
    BY <2>1
  <2>3. pc'[c] = "write_mapping"
    BY <1>8 DEF Mint
  <2>4. HandOf(c)'
    BY <1>1, <2>2, <2>3 DEF HandOf, Decided, Rendered
  <2>5. QED
    BY <1>2, <2>2, <2>4, OthersKept
<1>9. QED
  BY <1>4, <1>5, <1>6, <1>7, <1>8

(* The meta record, the TTL and the lock have no part in the mappings. *)
LEMMA BookkeepingHold ==
  ASSUME TypeOK, HoldInv, NEW c \in Calls, CallStep(c),
         \/ ReadCorefs(c) \/ ReadMeta(c) \/ WriteMeta(c) \/ ExtendWritten(c)
         \/ Extend(c) \/ Release(c)
  PROVE  HoldInv'
<1> USE CallAssumption, KindAssumption DEF Procs, CoroutinesOK
<1>1. SameMappings
  <2>1. CASE WriteMeta(c)
    BY <2>1 DEF WriteMeta, SameMappings, SessionOK
  <2>2. CASE ~WriteMeta(c)
    BY <2>2, ExtendSame DEF ReadCorefs, ReadMeta, ExtendWritten, Extend, Release
  <2>3. QED
    BY <2>1, <2>2
<1>2. /\ HandOf(c) /\ StoredNames(session.corefs)
  BY DEF HoldInv
<1>3. CASE ReadCorefs(c)
  <2>1. /\ pc[c] = "read_corefs" /\ pc'[c] = "write_corefs"
        /\ loc'[c].corefs = session.corefs /\ loc'[c].base = loc[c].base
        /\ loc'[c].surface = loc[c].surface
        /\ \A d \in Calls \ {c} : loc'[d] = loc[d]
    BY <1>3 DEF ReadCorefs
  <2>2. HandOf(c)'
    BY <1>1, <1>2, <2>1 DEF HandOf, HasFake, StoredNames, SameMappings, Decided
  <2>3. QED
    BY <1>1, <2>1, <2>2, OthersKept
<1>4. CASE ~ReadCorefs(c)
  <2>1. /\ pc[c] \in {"read_meta", "write_meta", "extend_written", "extend", "release"}
        /\ pc'[c] \in {"write_meta", "extend_written", "write_exact", "extend", "release", "done"}
        /\ pc'[c] = "write_exact" => IsName(c)
        /\ loc' = loc
    BY <1>4 DEF ReadMeta, WriteMeta, ExtendWritten, Extend, Release
  <2>2. HandOf(c)'
    BY <1>1, <1>2, <2>1 DEF HandOf, HasFake, SameMappings, Decided
  <2>3. QED
    BY <1>1, <2>1, <2>2, OthersKept
<1>5. QED
  BY <1>3, <1>4

(* The records of a new mapping give back its original. *)
LEMMA WriteMappingHold ==
  ASSUME TypeOK, SerialPerSession, DecisionInv, Reversible, HoldInv,
         NEW c \in Calls, WriteMapping(c)
  PROVE  HoldInv'
<1> USE CallAssumption, KindAssumption DEF Procs, CoroutinesOK
<1> DEFINE k == KeyOf(c)
           base == loc[c].base
           new == ReverseFields(c, base, loc[c].inflects)
<1>1. \A d \in Calls \ {c} : ~Critical(d) /\ pc'[d] = pc[d]
  BY DEF WriteMapping, SerialPerSession, Critical, Locked
<1>2. /\ k \notin DOMAIN session.fwd /\ pc[c] = "write_mapping" /\ loc' = loc
      /\ pc'[c] = (IF IsName(c) THEN "read_corefs" ELSE "read_meta")
  BY DEF DecisionInv, WriteMapping
<1>3. /\ session'.fwd = Override(session.fwd, [x \in {k} |-> base])
      /\ session'.rev = Override(session.rev, new)
      /\ session'.corefs = session.corefs /\ session'.ttl = session.ttl
  BY DEF WriteMapping, SessionOK
<1>4. HandOf(c)
  BY DEF HoldInv
<1>5. loc[c].surface = Rendered(c, base, loc[c].inflects)
  BY <1>2, <1>4 DEF HandOf
<1>6. /\ DOMAIN session'.fwd = DOMAIN session.fwd \cup {k}
      /\ session'.fwd[k] = base
      /\ \A x \in DOMAIN session.fwd : session'.fwd[x] = session.fwd[x]
  BY <1>2, <1>3 DEF Override
<1>7. /\ \A f \in DOMAIN new : /\ f.base = base
                               /\ new[f].orig \in {EntityOf[c].text, EntityOf[c].lemma}
                               /\ new[f].type = EntityOf[c].type
      /\ loc[c].surface \in DOMAIN new
  <2>1. loc[c].inflects \in BOOLEAN
    BY DEF CoroutinesOK
  <2>2. \A f \in DOMAIN new : /\ f.base = base
                               /\ new[f].orig \in {EntityOf[c].text, EntityOf[c].lemma}
                               /\ new[f].type = EntityOf[c].type
    BY <2>1 DEF ReverseFields, FormsOf, Form, Nominative
  <2>3. loc[c].surface \in DOMAIN new
    BY <1>5, <2>1, KeyType, CaseAssumption
       DEF Rendered, ReverseFields, FormsOf, Form, Nominative
  <2>4. QED
    BY <2>2, <2>3
<1> HIDE DEF new, k, base
<1>8. /\ DOMAIN session'.rev = DOMAIN session.rev \cup DOMAIN new
      /\ \A f \in DOMAIN new : session'.rev[f] = new[f]
      /\ \A f \in DOMAIN session.rev \ DOMAIN new : session'.rev[f] = session.rev[f]
  BY <1>3 DEF Override
<1>9. \A d \in Calls : \A x : HasFake(d, x) => HasFake(d, x)'
  BY <1>6 DEF HasFake
<1>10. \A x : x = base => HasFake(c, x)'
  BY <1>6 DEF HasFake, k
<1>11. OwnedInv'
  <2> SUFFICES ASSUME NEW f \in DOMAIN session'.rev
               PROVE  \E d \in Calls :
                        /\ HasFake(d, f.base)'
                        /\ session'.rev[f].orig \in {EntityOf[d].text, EntityOf[d].lemma}
                        /\ session'.rev[f].type = EntityOf[d].type
    BY DEF OwnedInv
  <2>1. CASE f \in DOMAIN new
    BY <1>7, <1>8, <1>10, <2>1
  <2>2. CASE f \notin DOMAIN new
    BY <1>8, <1>9, <2>2 DEF HoldInv, OwnedInv
  <2>3. QED
    BY <2>1, <2>2
<1>12. \A corefs : StoredNames(corefs) => StoredNames(corefs)'
  BY <1>9 DEF StoredNames
<1>13. ASSUME NEW d \in Calls PROVE HandOf(d)'
  <2>1. CASE d = c
    <3>1. HasFake(c, loc[c].base)' /\ loc[c].surface \in DOMAIN session'.rev
          /\ loc[c].surface.base = loc[c].base
      BY <1>2, <1>6, <1>7, <1>8 DEF HasFake, k, base
    <3>2. QED
      BY <1>2, <2>1, <3>1 DEF HandOf, HasFake
  <2>2. CASE d # c
    <3>1. HandOf(d) /\ pc'[d] = pc[d] /\ pc[d] \notin Locked /\ loc'[d] = loc[d]
      BY <1>1, <1>2, <2>2 DEF HoldInv, Critical
    <3>2. DOMAIN session.rev \subseteq DOMAIN session'.rev
      BY <1>8
    <3>3. pc[d] \in Decided => HasFake(d, loc[d].base)'
      BY <1>6, <3>1 DEF HandOf, HasFake
    <3>4. QED
      BY <3>1, <3>2, <3>3 DEF HandOf, Locked
  <2>3. QED
    BY <2>1, <2>2
<1>14. QED
  BY <1>3, <1>11, <1>12, <1>13 DEF HoldInv

(* The coreferent appended is the name the call has just stored. *)
LEMMA WriteCorefsHold ==
  ASSUME TypeOK, HoldInv, NEW c \in Calls, CallStep(c), WriteCorefs(c)
  PROVE  HoldInv'
<1> USE CallAssumption, KindAssumption DEF Procs, CoroutinesOK
<1> DEFINE new == [lemma |-> EntityOf[c].lemma, base |-> loc[c].base, type |-> EntityOf[c].type]
<1>1. /\ session'.fwd = session.fwd /\ session'.rev = session.rev
      /\ session'.forms = session.forms /\ session'.ttl = session.ttl
      /\ session'.corefs = Append(loc[c].corefs, new)
      /\ pc[c] = "write_corefs" /\ pc'[c] = "read_meta" /\ loc' = loc
  BY DEF WriteCorefs, SessionOK
<1>2. HandOf(c)
  BY DEF HoldInv
<1>3. /\ StoredNames(loc[c].corefs) /\ HasFake(c, loc[c].base) /\ IsName(c)
  BY <1>1, <1>2 DEF HandOf, Decided
<1>4. /\ session'.corefs \in Seq(Range(session'.corefs))
      /\ Range(session'.corefs) = Range(loc[c].corefs) \cup {new}
  BY <1>1, <1>3, AppendRange DEF StoredNames
<1>5. StoredNames(session.corefs)'
  <2> SUFFICES ASSUME NEW r \in Range(session'.corefs)
               PROVE  \E d \in Calls :
                        /\ r.lemma = EntityOf[d].lemma /\ r.type = EntityOf[d].type
                        /\ IsName(d) /\ HasFake(d, r.base)
    BY <1>1, <1>4 DEF StoredNames, HasFake
  <2>1. CASE r = new
    BY <1>3, <2>1 DEF HasFake
  <2>2. CASE r # new
    BY <1>3, <1>4, <2>2 DEF StoredNames
  <2>3. QED
    BY <2>1, <2>2
<1>6. \A d \in Calls \ {c} : pc'[d] = pc[d]
  BY OwnStep
<1>7. ASSUME NEW d \in Calls PROVE HandOf(d)'
  <2>1. HandOf(d)
    BY DEF HoldInv
  <2>2. QED
    BY <1>1, <1>6, <2>1 DEF HandOf, HasFake, StoredNames, Decided
<1>8. OwnedInv'
  BY <1>1 DEF HoldInv, OwnedInv, HasFake
<1>9. QED
  BY <1>1, <1>5, <1>7, <1>8 DEF HoldInv

(* The exact surface is stored for the fake of the same original. *)
LEMMA WriteExactHold ==
  ASSUME TypeOK, HoldInv, NEW c \in Calls, CallStep(c), WriteExact(c)
  PROVE  HoldInv'
<1> USE CallAssumption, KindAssumption DEF Procs, CoroutinesOK
<1> DEFINE new == [form \in {loc[c].surface} |->
                     [orig |-> EntityOf[c].text, type |-> EntityOf[c].type, exact |-> TRUE]]
<1>1. /\ session'.fwd = session.fwd /\ session'.corefs = session.corefs
      /\ session'.ttl = session.ttl /\ session'.rev = Override(session.rev, new)
      /\ pc[c] = "write_exact" /\ pc'[c] = "extend" /\ loc' = loc
  BY DEF WriteExact, SessionOK
<1>2. HandOf(c)
  BY DEF HoldInv
<1>3. /\ HasFake(c, loc[c].base) /\ loc[c].surface \in DOMAIN session.rev
      /\ loc[c].surface.base = loc[c].base
  BY <1>1, <1>2 DEF HandOf, Decided
<1>4. /\ DOMAIN session'.rev = DOMAIN session.rev
      /\ session'.rev[loc[c].surface].orig = EntityOf[c].text
      /\ session'.rev[loc[c].surface].type = EntityOf[c].type
      /\ \A f \in DOMAIN session.rev \ {loc[c].surface} : session'.rev[f] = session.rev[f]
  BY <1>1, <1>3 DEF Override
<1> HIDE DEF new
<1>5. OwnedInv'
  <2> SUFFICES ASSUME NEW f \in DOMAIN session'.rev
               PROVE  \E d \in Calls :
                        /\ HasFake(d, f.base)'
                        /\ session'.rev[f].orig \in {EntityOf[d].text, EntityOf[d].lemma}
                        /\ session'.rev[f].type = EntityOf[d].type
    BY DEF OwnedInv
  <2>1. CASE f = loc[c].surface
    BY <1>1, <1>3, <1>4, <2>1 DEF HasFake
  <2>2. CASE f # loc[c].surface
    BY <1>1, <1>4, <2>2 DEF HoldInv, OwnedInv, HasFake
  <2>3. QED
    BY <2>1, <2>2
<1>6. \A d \in Calls \ {c} : pc'[d] = pc[d]
  BY OwnStep
<1>7. ASSUME NEW d \in Calls PROVE HandOf(d)'
  <2>1. HandOf(d)
    BY DEF HoldInv
  <2>2. QED
    BY <1>1, <1>4, <1>6, <2>1 DEF HandOf, HasFake, StoredNames, Decided
<1>8. StoredNames(session.corefs)'
  BY <1>1 DEF HoldInv, StoredNames, HasFake
<1>9. QED
  BY <1>1, <1>5, <1>7, <1>8 DEF HoldInv

LEMMA HoldStep ==
  ASSUME Deletes = {}, "expiry" \notin Faults
  PROVE  TypeOK /\ SerialPerSession /\ DecisionInv /\ Reversible /\ HoldInv /\ [Next]_vars
           => HoldInv'
<1> SUFFICES ASSUME TypeOK, SerialPerSession, DecisionInv, Reversible, HoldInv, [Next]_vars
             PROVE  HoldInv'
  OBVIOUS
<1>1. ASSUME NEW c \in Calls, CallStep(c) PROVE HoldInv'
  BY <1>1, LookingHold, BookkeepingHold, WriteMappingHold, WriteCorefsHold,
     WriteExactHold DEF CallStep
<1>2. session.ttl # "due"
  BY DEF HoldInv
<1>3. QED
  BY <1>1, <1>2, BesideKinds, BesideHold

LEMMA HoldInvariant ==
  ASSUME Deletes = {}, "expiry" \notin Faults
  PROVE  Spec => []HoldInv /\ []DecisionInv
<1>1. Init => HoldInv /\ DecisionInv
  <2> SUFFICES ASSUME Init PROVE HoldInv /\ DecisionInv
    OBVIOUS
  <2>1. /\ session.fwd = Empty /\ session.rev = Empty /\ session.corefs = << >>
        /\ session.ttl = "none" /\ DOMAIN Empty = {}
    BY EmptySessionOK DEF Init
  <2>2. \A c \in Calls : pc[c] = "idle"
    BY DEF Init, Procs
  <2>3. StoredNames(<< >>)
    BY EmptySeq DEF StoredNames, Range
  <2>4. QED
    BY <2>1, <2>2, <2>3 DEF HoldInv, OwnedInv, HandOf, Decided, DecisionInv
<1>2. QED
  BY <1>1, HoldStep, DecisionStep, SerialInvariant, AlwaysReversible, TypeCorrect, PTL
     DEF Spec

(* What a finished call has put into its text restores to a mention of an  *)
(* original that has the same fake, whatever has been written since.       *)
LEMMA SurfaceOwner ==
  ASSUME HoldInv, NEW c \in Calls, At(c, "done")
  PROVE  /\ loc[c].surface \in DOMAIN session.rev
         /\ HasFake(c, loc[c].surface.base)
         /\ \E d \in Calls :
              /\ HasFake(d, loc[c].surface.base)
              /\ session.rev[loc[c].surface].orig \in {EntityOf[d].text, EntityOf[d].lemma}
<1>1. /\ loc[c].surface \in DOMAIN session.rev
      /\ HasFake(c, loc[c].surface.base)
  BY DEF HoldInv, HandOf, Decided
<1>2. QED
  BY <1>1 DEF HoldInv, OwnedInv

-----------------------------------------------------------------------------
(* No fake is given twice. *)

(* A call that is about to write a mapping has resolved or minted it.      *)
LEMMA CallKinds ==
  ASSUME TypeOK, HoldInv, NEW c \in Calls, CallStep(c)
  PROVE  \/ WriteMapping(c)
         \/ LoadCorefs(c) /\ pc'[c] = "write_mapping"
         \/ Mint(c)
         \/ /\ session'.fwd = session.fwd /\ DOMAIN session'.rev = DOMAIN session.rev
            /\ pc'[c] # "write_mapping"
            /\ \A d \in Calls \ {c} : loc'[d] = loc[d]
<1> USE CallAssumption, KindAssumption DEF Procs, CoroutinesOK
<1>1. CASE Enter(c) \/ Acquire(c) \/ ReadForward(c) \/ ReadForms(c) \/ ReadCorefs(c)
           \/ ReadMeta(c) \/ ExtendWritten(c) \/ Extend(c) \/ Release(c)
  <2>1. session' \in {session, ExtendTTL(session)} /\ pc'[c] # "write_mapping"
        /\ \A d \in Calls \ {c} : loc'[d] = loc[d]
    BY <1>1 DEF Enter, Acquire, ReadForward, ReadForms, ReadCorefs, ReadMeta, ExtendWritten,
       Extend, Release
  <2>2. QED
    BY <2>1, ExtendSame DEF SameMappings
<1>2. CASE WriteCorefs(c) \/ WriteMeta(c)
  BY <1>2 DEF WriteCorefs, WriteMeta, SessionOK
<1>3. CASE WriteExact(c)
  <2>1. HandOf(c)
    BY DEF HoldInv
  <2>2. loc[c].surface \in DOMAIN session.rev
    BY <1>3, <2>1 DEF WriteExact, HandOf, Decided
  <2>3. QED
    BY <1>3, <2>2 DEF WriteExact, SessionOK, Override
<1>4. CASE LoadCorefs(c)
  <2>1. session' = session
    BY <1>4 DEF LoadCorefs
  <2>2. QED
    BY <1>4, <2>1, Resolving
<1>5. QED
  BY <1>1, <1>2, <1>3, <1>4 DEF CallStep

(* No two names corefer: mentions of one type whose tokens overlap have    *)
(* the same tokens.                                                        *)
NamesApart ==
  \A c, d \in Calls :
    /\ IsName(c) /\ IsName(d) /\ EntityOf[c].type = EntityOf[d].type
    /\ LemmaOverlap(EntityOf[c].lemma, EntityOf[d].lemma)
    => KeyOf(c) = KeyOf(d)

(* Where no names corefer, a name that is not stored resolves to no fake. *)
LEMMA NothingResolved ==
  ASSUME NamesApart, StoredNames(session.corefs),
         NEW c \in Calls, IsName(c), KeyOf(c) \notin DOMAIN session.fwd
  PROVE  Resolve(EntityOf[c].type, EntityOf[c].lemma, session.corefs) = NoFake
<1> DEFINE matching == {i \in DOMAIN session.corefs :
                          /\ session.corefs[i].type = EntityOf[c].type
                          /\ LemmaOverlap(EntityOf[c].lemma, session.corefs[i].lemma)}
<1>1. matching = {}
  <2> SUFFICES ASSUME NEW i \in matching PROVE FALSE
    OBVIOUS
  <2>1. session.corefs[i] \in Range(session.corefs)
    BY DEF Range
  <2>2. PICK d \in Calls : /\ session.corefs[i].lemma = EntityOf[d].lemma
                           /\ session.corefs[i].type = EntityOf[d].type
                           /\ IsName(d) /\ KeyOf(d) \in DOMAIN session.fwd
    BY <2>1 DEF StoredNames, HasFake
  <2>3. KeyOf(c) = KeyOf(d)
    BY <2>2 DEF NamesApart
  <2>4. QED
    BY <2>2, <2>3
<1>2. {session.corefs[i].base : i \in matching} = {}
  BY <1>1
<1>3. Cardinality({session.corefs[i].base : i \in matching}) = 0
  BY <1>2, FS_EmptySet
<1>4. QED
  BY <1>3 DEF Resolve

(* No fake stands for two originals of the types T; the fake a call for    *)
(* one of them is about to store is in no record.                          *)
Apart(T) ==
  \A j, k \in DOMAIN session.fwd :
    j.type \in T /\ k.type \in T /\ session.fwd[j] = session.fwd[k] => j = k

FreshInv(T) ==
  /\ Apart(T)
  /\ \A c \in Calls : At(c, "write_mapping") /\ EntityOf[c].type \in T =>
       Nominative(loc[c].base) \notin DOMAIN session.rev

(* A new mapping of a type in T takes a fake that nothing else has. *)
LEMMA WriteMappingFresh ==
  ASSUME TypeOK, SerialPerSession, DecisionInv, Reversible, NEW T, FreshInv(T),
         NEW c \in Calls, WriteMapping(c)
  PROVE  FreshInv(T)'
<1> USE CallAssumption, KindAssumption DEF Procs, CoroutinesOK
<1> DEFINE k == KeyOf(c)
           base == loc[c].base
<1>1. \A d \in Calls \ {c} : ~Critical(d) /\ pc'[d] = pc[d]
  BY DEF WriteMapping, SerialPerSession, Critical, Locked
<1>2. /\ k \notin DOMAIN session.fwd /\ pc[c] = "write_mapping" /\ pc'[c] # "write_mapping"
      /\ session'.fwd = Override(session.fwd, [x \in {k} |-> base])
  BY DEF DecisionInv, WriteMapping, SessionOK
<1>3. k.type \in T => Nominative(base) \notin DOMAIN session.rev
  BY <1>2 DEF FreshInv, KeyOf
<1>4. \A j \in DOMAIN session.fwd : k.type \in T => session.fwd[j] # base
  BY <1>3 DEF Reversible
<1> HIDE DEF k, base
<1>5. /\ DOMAIN session'.fwd = DOMAIN session.fwd \cup {k}
      /\ session'.fwd[k] = base
      /\ \A x \in DOMAIN session.fwd : session'.fwd[x] = session.fwd[x]
  BY <1>2 DEF Override
<1>6. Apart(T)'
  BY <1>4, <1>5 DEF FreshInv, Apart
<1>7. \A d \in Calls : pc'[d] # "write_mapping"
  BY <1>1, <1>2 DEF Critical, Locked
<1>8. QED
  BY <1>6, <1>7 DEF FreshInv

LEMMA FreshStep ==
  ASSUME NEW CONSTANT T, NamesApart \/ T \cap NameTypes = {}, Deletes = {}, "expiry" \notin Faults
  PROVE  TypeOK /\ SerialPerSession /\ DecisionInv /\ Reversible /\ HoldInv /\ FreshInv(T)
           /\ [Next]_vars => FreshInv(T)'
<1> SUFFICES ASSUME TypeOK, SerialPerSession, DecisionInv, Reversible, HoldInv, FreshInv(T),
                    [Next]_vars
             PROVE  FreshInv(T)'
  OBVIOUS
<1> USE CallAssumption, KindAssumption DEF Procs, CoroutinesOK
<1>1. ASSUME session'.fwd = session.fwd, DOMAIN session'.rev = DOMAIN session.rev,
             \A c \in Calls : pc'[c] = "write_mapping" /\ EntityOf[c].type \in T =>
               \/ pc[c] = "write_mapping" /\ loc'[c] = loc[c]
               \/ Nominative(loc'[c].base) \notin DOMAIN session.rev
      PROVE  FreshInv(T)'
  BY <1>1 DEF FreshInv, Apart
<1>2. ASSUME NEW c \in Calls, CallStep(c) PROVE FreshInv(T)'
  <2>1. \A d \in Calls \ {c} : pc'[d] = pc[d]
    BY <1>2, OwnStep
  <2>2. CASE LoadCorefs(c) /\ pc'[c] = "write_mapping"
    <3>1. HandOf(c) /\ StoredNames(session.corefs)
      BY DEF HoldInv
    <3>2. pc[c] = "load_corefs" /\ session' = session
      BY <2>2 DEF LoadCorefs
    <3>3. IsName(c)
      BY <3>1, <3>2 DEF HandOf
    <3>4. CASE NamesApart
      <4>1. Resolve(EntityOf[c].type, EntityOf[c].lemma, session.corefs) = NoFake
        BY <3>1, <3>2, <3>3, <3>4, NothingResolved DEF DecisionInv
      <4>2. QED
        BY <2>2, <4>1, Resolving
    <3>5. CASE T \cap NameTypes = {}
      <4>1. EntityOf[c].type \notin T
        BY <3>3, <3>5 DEF IsName
      <4>2. \A d \in Calls \ {c} : loc'[d] = loc[d]
        BY <2>2, LoadCorefsLocals
      <4>3. QED
        BY <1>1, <2>1, <3>2, <4>1, <4>2
    <3>6. QED
      BY <3>4, <3>5
  <2>3. CASE Mint(c)
    <3>1. PICK fake \in Mintable(c, DOMAIN session.rev) :
            loc' = [loc EXCEPT ![c].base = fake.base,
                     ![c].inflects = fake.inflects,
                     ![c].surface = Rendered(c, fake.base, fake.inflects)]
      BY <2>3 DEF Mint
    <3>2. Nominative(fake.base) \notin DOMAIN session.rev
      BY DEF Mintable
    <3>3. loc'[c].base = fake.base /\ \A d \in Calls \ {c} : loc'[d] = loc[d]
      BY <3>1
    <3>4. session' = session
      BY <2>3 DEF Mint
    <3>5. QED
      BY <1>1, <2>1, <3>2, <3>3, <3>4
  <2>4. CASE /\ session'.fwd = session.fwd /\ DOMAIN session'.rev = DOMAIN session.rev
             /\ pc'[c] # "write_mapping"
             /\ \A d \in Calls \ {c} : loc'[d] = loc[d]
    BY <1>1, <2>1, <2>4
  <2>5. QED
    BY <1>2, <2>2, <2>3, <2>4, CallKinds, WriteMappingFresh
<1>3. CASE Beside
  BY <1>1, <1>3 DEF Beside, SameMappings
<1>4. session.ttl # "due"
  BY DEF HoldInv
<1>5. QED
  BY <1>2, <1>3, <1>4, BesideKinds

LEMMA FreshInit == ASSUME NEW T, Init PROVE FreshInv(T)
<1>1. session.fwd = Empty /\ DOMAIN Empty = {} /\ \A c \in Calls : pc[c] = "idle"
  BY EmptySessionOK DEF Init, Procs
<1>2. QED
  BY <1>1 DEF FreshInv, Apart

(* FR-015 for identifiers: no fake stands for two originals that are not   *)
(* names.                                                                  *)
IdentifiersDistinct ==
  \A j, k \in DOMAIN session.fwd :
    j.type \notin NameTypes /\ k.type \notin NameTypes /\ session.fwd[j] = session.fwd[k]
      => j = k

(* IdentifiersDistinct holds whatever names corefer, at any number of      *)
(* overlapping calls, with Redis errors and restarts: the fake an          *)
(* identifier gets is always minted, and under the lock.                   *)
THEOREM IdentifierFakesDistinct ==
  ASSUME Deletes = {}, "expiry" \notin Faults
  PROVE  Spec => []IdentifiersDistinct
<1>1. TypeOK /\ FreshInv(Types \ NameTypes) => IdentifiersDistinct
  BY DEF FreshInv, Apart, IdentifiersDistinct, SessionOK, Keys
<1>2. Init => FreshInv(Types \ NameTypes)
  BY FreshInit
<1>3. TypeOK /\ SerialPerSession /\ DecisionInv /\ Reversible /\ HoldInv
      /\ FreshInv(Types \ NameTypes) /\ [Next]_vars => FreshInv(Types \ NameTypes)'
  <2>1. (Types \ NameTypes) \cap NameTypes = {}
    OBVIOUS
  <2>2. QED
    BY <2>1, FreshStep
<1>4. QED
  BY <1>1, <1>2, <1>3, HoldInvariant, SerialInvariant, AlwaysReversible, TypeCorrect, PTL
     DEF Spec

MappingInv == HoldInv /\ DistinctFakes

LEMMA MappingInvariant ==
  ASSUME NamesApart, Deletes = {}, "expiry" \notin Faults
  PROVE  Spec => []MappingInv
<1>1. TypeOK /\ HoldInv /\ FreshInv(Types) => MappingInv
  BY DEF MappingInv, FreshInv, Apart, DistinctFakes, SessionOK, Keys
<1>2. Init => FreshInv(Types)
  BY FreshInit
<1>3. TypeOK /\ SerialPerSession /\ DecisionInv /\ Reversible /\ HoldInv /\ FreshInv(Types)
      /\ [Next]_vars => FreshInv(Types)'
  BY FreshStep
<1>4. QED
  BY <1>1, <1>2, <1>3, HoldInvariant, SerialInvariant, AlwaysReversible, TypeCorrect, PTL
     DEF Spec

(* FR-015 at any number of overlapping calls, with Redis errors and        *)
(* restarts: where no two names corefer, no fake stands for two originals. *)
THEOREM FakesDistinct ==
  ASSUME NamesApart, Deletes = {}, "expiry" \notin Faults
  PROVE  Spec => []DistinctFakes
<1>1. MappingInv => DistinctFakes
  BY DEF MappingInv
<1>2. QED
  BY <1>1, MappingInvariant, PTL

(* Under the same conditions, what a finished call has put into its text   *)
(* restores to the lemma or a surface of the same original, whatever the   *)
(* other calls have written since.                                         *)
THEOREM RestoresTheOriginal ==
  ASSUME NamesApart, Deletes = {}, "expiry" \notin Faults
  PROVE  Spec => []RestoresSameOriginal
<1>1. MappingInv => RestoresSameOriginal
  <2> SUFFICES ASSUME MappingInv, NEW c \in Calls, At(c, "done")
               PROVE  /\ loc[c].surface \in DOMAIN session.rev
                      /\ \E d \in Calls :
                           /\ KeyOf(d) = KeyOf(c)
                           /\ session.rev[loc[c].surface].orig
                                \in {EntityOf[d].text, EntityOf[d].lemma}
    BY DEF RestoresSameOriginal
  <2>1. /\ loc[c].surface \in DOMAIN session.rev
        /\ HasFake(c, loc[c].surface.base)
    BY SurfaceOwner DEF MappingInv
  <2>2. PICK d \in Calls :
          /\ HasFake(d, loc[c].surface.base)
          /\ session.rev[loc[c].surface].orig \in {EntityOf[d].text, EntityOf[d].lemma}
    BY SurfaceOwner DEF MappingInv
  <2>3. KeyOf(d) = KeyOf(c)
    BY <2>1, <2>2 DEF MappingInv, DistinctFakes, HasFake
  <2>4. QED
    BY <2>1, <2>2, <2>3
<1>2. QED
  BY <1>1, MappingInvariant, PTL

-----------------------------------------------------------------------------
(* A reused fake is made of words of the fake it is aligned with. *)
LEMMA FirstPosition ==
  ASSUME NEW V, NEW s \in Seq(V), NEW token \in Range(s)
  PROVE  FirstAt(token, s) \in DOMAIN s
<1> DEFINE places == {i \in DOMAIN s : s[i] = token}
<1>1. places \in SUBSET Nat /\ places # {}
  BY DEF Range
<1>2. PICK i \in places : \A j \in places : i <= j
  BY <1>1, LeastNumber
<1>3. \E x \in DOMAIN s : s[x] = token /\ \A j \in DOMAIN s : s[j] = token => x <= j
  BY <1>2
<1>4. QED
  BY <1>3 DEF FirstAt

LEMMA AlignedWords ==
  ASSUME NEW V, NEW candidate \in Seq(V), NEW stored \in Seq(V), NEW fake \in Seq(V)
  PROVE  AlignedFake(candidate, stored, fake) \in Seq(Range(fake))
<1> DEFINE Aligns(token) == token \in Range(stored) /\ FirstAt(token, stored) <= Len(fake)
           Piece(i) == IF Aligns(candidate[i]) THEN <<fake[FirstAt(candidate[i], stored)]>>
                                               ELSE << >>
           pieces == [i \in DOMAIN candidate |-> Piece(i)]
<1>1. ASSUME NEW i \in DOMAIN candidate PROVE Piece(i) \in Seq(Range(fake))
  <2>1. CASE Aligns(candidate[i])
    <3> DEFINE n == FirstAt(candidate[i], stored)
    <3>1. n \in DOMAIN stored
      BY <2>1, FirstPosition
    <3>2. n \in DOMAIN fake
      BY <2>1, <3>1
    <3>3. fake[n] \in Range(fake)
      BY <3>2 DEF Range
    <3> HIDE DEF n
    <3>4. <<fake[n]>> \in Seq(Range(fake))
      BY <3>3
    <3>5. QED
      BY <2>1, <3>4 DEF n
  <2>2. CASE ~Aligns(candidate[i])
    BY <2>2
  <2>3. QED
    BY <2>1, <2>2
<1> HIDE DEF Piece
<1>2. pieces \in Seq(Seq(Range(fake)))
  <2>1. DOMAIN pieces = 1 .. Len(candidate)
    OBVIOUS
  <2>2. \A i \in 1 .. Len(candidate) : pieces[i] \in Seq(Range(fake))
    BY <1>1
  <2>3. QED
    BY <2>1, <2>2
<1>3. FlattenSeq(pieces) \in Seq(Range(fake))
  BY <1>2, FlattenType
<1>4. AlignedFake(candidate, stored, fake) = FlattenSeq(pieces)
  BY DEF AlignedFake, Piece
<1>5. QED
  BY <1>3, <1>4

LEMMA ResolvedWords ==
  ASSUME NEW V, NEW type, NEW lemma \in Seq(V), NEW records, records \in Seq(Range(records)),
         \A r \in Range(records) : r.lemma \in Seq(V) /\ r.base \in Seq(V),
         Resolve(type, lemma, records) # NoFake
  PROVE  \E r \in Range(records) :
           /\ r.type = type /\ LemmaOverlap(lemma, r.lemma)
           /\ Resolve(type, lemma, records) \in Seq(Range(r.base))
<1> DEFINE matching == {i \in DOMAIN records :
                          /\ records[i].type = type
                          /\ LemmaOverlap(lemma, records[i].lemma)}
           first == CHOOSE i \in matching : \A j \in matching : i <= j
<1>1. Cardinality({records[i].base : i \in matching}) = 1
  BY DEF Resolve
<1>2. matching # {}
  <2> SUFFICES ASSUME matching = {} PROVE FALSE
    OBVIOUS
  <2>1. {records[i].base : i \in matching} = {}
    OBVIOUS
  <2>2. Cardinality({records[i].base : i \in matching}) = 0
    BY <2>1, FS_EmptySet
  <2>3. QED
    BY <1>1, <2>2
<1>3. Resolve(type, lemma, records)
        = AlignedFake(lemma, records[first].lemma, records[first].base)
  BY <1>1 DEF Resolve
<1>4. matching \in SUBSET Nat
  OBVIOUS
<1> HIDE DEF matching
<1>5. first \in matching
  BY <1>2, <1>4, LeastNumber
<1> HIDE DEF first
<1>6. /\ records[first] \in Range(records) /\ records[first].type = type
      /\ LemmaOverlap(lemma, records[first].lemma)
  BY <1>5 DEF matching, Range
<1>7. AlignedFake(lemma, records[first].lemma, records[first].base)
        \in Seq(Range(records[first].base))
  BY <1>6, AlignedWords
<1>8. QED
  BY <1>3, <1>6, <1>7

-----------------------------------------------------------------------------
(* Whom the originals are of, as P says it, where no mention is ambiguous: *)
(* mentions of one type whose words overlap are of one person or place.    *)
(* (Of a surname alone with two bearers, P cannot tell these apart.)       *)
PersonOf(P) ==
  \A c, d \in Calls :
    /\ IsName(c) /\ IsName(d) /\ EntityOf[c].type = EntityOf[d].type
    /\ LemmaOverlap(EntityOf[c].lemma, EntityOf[d].lemma)
    => P[KeyOf(c)] = P[KeyOf(d)]

(* The fakes in use that the generator can build, and none of the names    *)
(* among them has a word of another one.                                   *)
InUse(t) == {b \in Pool[t] \cup Forced[t] : Nominative(b) \in DOMAIN session.rev}

WordsApart ==
  \A t \in Types \cap NameTypes, u \in Types : \A a \in InUse(t), b \in InUse(u) :
    a # b => Range(a) \cap Range(b) = {}

(* FR-015 for persons: no fake stands for originals of two. *)
PersonsApart(P) ==
  \A j, k \in DOMAIN session.fwd : session.fwd[j] = session.fwd[k] => P[j] = P[k]

(* What a finished call has put into its text restores to a mention of the *)
(* person it was for.                                                      *)
RestoresThePerson(P) ==
  \A c \in Calls : At(c, "done") =>
    /\ loc[c].surface \in DOMAIN session.rev
    /\ \E d \in Calls :
         /\ P[KeyOf(d)] = P[KeyOf(c)]
         /\ session.rev[loc[c].surface].orig \in {EntityOf[d].text, EntityOf[d].lemma}

(* Every fake is a generated one or, for a name, made of words of one. *)
Rooted(k) ==
  \E b \in InUse(k.type) :
    /\ Range(session.fwd[k]) \subseteq Range(b)
    /\ k.type \notin NameTypes => session.fwd[k] = b

(* Fakes that share a word, one of them a name's, are of one person. *)
Meets(j, k) ==
  \/ session.fwd[j] = session.fwd[k]
  \/ j.type \in NameTypes /\ Range(session.fwd[j]) \cap Range(session.fwd[k]) # {}

(* The fake a call is about to store is new, or made of words of the fake  *)
(* of the same person.                                                     *)
Drawn(c) ==
  /\ loc[c].base \in Pool[EntityOf[c].type] \cup Forced[EntityOf[c].type]
  /\ Nominative(loc[c].base) \notin DOMAIN session.rev

Reused(c, P) ==
  /\ IsName(c)
  /\ \E k \in DOMAIN session.fwd :
       /\ k.type = EntityOf[c].type /\ P[k] = P[KeyOf(c)]
       /\ Range(loc[c].base) \subseteq Range(session.fwd[k])

InHand(c, P) ==
  /\ loc[c].base \in Seq(Tokens) \ {NoFake}
  /\ Drawn(c) \/ Reused(c, P)

PersonInv(P) ==
  /\ \A k \in DOMAIN session.fwd : session.fwd[k] \in Seq(Tokens) \ {NoFake} /\ Rooted(k)
  /\ \A j, k \in DOMAIN session.fwd : Meets(j, k) => P[j] = P[k]
  /\ \A c \in Calls : At(c, "write_mapping") => InHand(c, P)

(* What a call resolves is made of words of the fake of a coreferent. *)
LEMMA ResolvingPerson ==
  ASSUME TypeOK, HoldInv, NEW P, PersonOf(P), PersonInv(P),
         NEW c \in Calls, LoadCorefs(c), pc'[c] = "write_mapping"
  PROVE  InHand(c, P)'
<1> USE CallAssumption, KindAssumption DEF Procs, CoroutinesOK
<1> DEFINE base == Resolve(EntityOf[c].type, EntityOf[c].lemma, session.corefs)
<1>1. session' = session /\ pc[c] = "load_corefs"
  BY DEF LoadCorefs
<1>2. loc'[c].base = base /\ base # NoFake
  BY Resolving
<1>3. IsName(c) /\ StoredNames(session.corefs)
  BY <1>1 DEF HoldInv, HandOf
<1>4. /\ session.corefs \in Seq(Range(session.corefs))
      /\ \A r \in Range(session.corefs) : r.lemma \in Seq(Tokens) /\ r.base \in Seq(Tokens)
  BY <1>3, EntityAssumption DEF StoredNames, HasFake, PersonInv
<1>5. EntityOf[c].lemma \in Seq(Tokens)
  BY EntityAssumption
<1>6. PICK r \in Range(session.corefs) :
        /\ r.type = EntityOf[c].type /\ LemmaOverlap(EntityOf[c].lemma, r.lemma)
        /\ base \in Seq(Range(r.base))
  BY <1>2, <1>4, <1>5, ResolvedWords
<1>7. PICK d \in Calls : /\ r.lemma = EntityOf[d].lemma /\ r.type = EntityOf[d].type
                         /\ IsName(d) /\ HasFake(d, r.base)
  BY <1>3 DEF StoredNames
<1>8. /\ KeyOf(d) \in DOMAIN session.fwd /\ KeyOf(d).type = EntityOf[c].type
      /\ P[KeyOf(d)] = P[KeyOf(c)] /\ session.fwd[KeyOf(d)] = r.base
  <2>1. P[KeyOf(c)] = P[KeyOf(d)]
    BY <1>3, <1>6, <1>7 DEF PersonOf
  <2>2. KeyOf(d).type = EntityOf[d].type
    BY DEF KeyOf
  <2>3. QED
    BY <1>6, <1>7, <2>1, <2>2 DEF HasFake
<1> HIDE DEF base
<1>9. Range(base) \subseteq Range(r.base) /\ base \in Seq(Tokens)
  <2>1. r.base \in Seq(Tokens)
    BY <1>4
  <2>2. Range(r.base) \subseteq Tokens
    BY <2>1 DEF Range
  <2>3. Range(base) \subseteq Range(r.base)
    BY <1>6 DEF Range
  <2>4. QED
    BY <1>6, <2>2, <2>3, SeqMonotonic
<1>10. QED
  BY <1>1, <1>2, <1>3, <1>8, <1>9 DEF InHand, Reused

LEMMA MintingPerson ==
  ASSUME TypeOK, NEW P, NEW c \in Calls, Mint(c)
  PROVE  InHand(c, P)' /\ session' = session /\ \A d \in Calls \ {c} : loc'[d] = loc[d]
<1> USE CallAssumption, KindAssumption DEF Procs, CoroutinesOK
<1>1. PICK fake \in Mintable(c, DOMAIN session.rev) :
        loc' = [loc EXCEPT ![c].base = fake.base,
                 ![c].inflects = fake.inflects,
                 ![c].surface = Rendered(c, fake.base, fake.inflects)]
  BY DEF Mint
<1>2. /\ Nominative(fake.base) \notin DOMAIN session.rev
      /\ fake.base \in Pool[EntityOf[c].type] \cup Forced[EntityOf[c].type]
  BY DEF Mintable
<1>3. loc'[c].base = fake.base /\ \A d \in Calls \ {c} : loc'[d] = loc[d]
  BY <1>1
<1>4. session' = session
  BY DEF Mint
<1>5. EntityOf[c].type \in Types
  BY EntityAssumption
<1>6. fake.base \in Seq(Tokens) \ {NoFake}
  BY <1>2, <1>5, FakeAssumption
<1>7. QED
  BY <1>2, <1>3, <1>4, <1>6 DEF InHand, Drawn

LEMMA FakeHasWords ==
  ASSUME NEW s \in Seq(Tokens) \ {NoFake} PROVE Range(s) # {}
<1>1. Len(s) \in Nat \ {0}
  BY EmptySeq DEF NoFake
<1>2. 1 \in DOMAIN s
  BY <1>1
<1>3. QED
  BY <1>2 DEF Range

(* A new fake has no word of another's, a reused one those of its person. *)
LEMMA WriteMappingPerson ==
  ASSUME TypeOK, SerialPerSession, DecisionInv, NEW P, PersonInv(P),
         NEW c \in Calls, WriteMapping(c), WordsApart'
  PROVE  PersonInv(P)'
<1> USE CallAssumption, KindAssumption DEF Procs, CoroutinesOK
<1> DEFINE k == KeyOf(c)
           base == loc[c].base
           new == ReverseFields(c, base, loc[c].inflects)
<1>1. \A d \in Calls \ {c} : ~Critical(d) /\ pc'[d] = pc[d]
  BY DEF WriteMapping, SerialPerSession, Critical, Locked
<1>2. /\ k \notin DOMAIN session.fwd /\ pc[c] = "write_mapping" /\ pc'[c] # "write_mapping"
      /\ session'.fwd = Override(session.fwd, [x \in {k} |-> base])
      /\ session'.rev = Override(session.rev, new)
  BY DEF DecisionInv, WriteMapping, SessionOK
<1>3. InHand(c, P)
  BY <1>2 DEF PersonInv
<1>4. Nominative(base) \in DOMAIN new
  <2>1. loc[c].inflects \in BOOLEAN
    OBVIOUS
  <2>2. QED
    BY <2>1, CaseAssumption DEF ReverseFields, FormsOf, Nominative
<1>5. k.type = EntityOf[c].type /\ k.type \in Types
  BY EntityAssumption DEF KeyOf
<1>6. IsName(c) <=> k.type \in NameTypes
  BY <1>5 DEF IsName
<1> HIDE DEF new, k
<1>7. /\ DOMAIN session'.fwd = DOMAIN session.fwd \cup {k}
      /\ session'.fwd[k] = base
      /\ \A x \in DOMAIN session.fwd : session'.fwd[x] = session.fwd[x]
  BY <1>2 DEF Override
<1>8. /\ DOMAIN session.rev \subseteq DOMAIN session'.rev
      /\ Nominative(base) \in DOMAIN session'.rev
  BY <1>2, <1>4 DEF Override
<1>9. \A t : InUse(t) \subseteq InUse(t)'
  BY <1>8 DEF InUse
<1>10. base \in Seq(Tokens) \ {NoFake} /\ Range(base) # {}
  BY <1>3, FakeHasWords DEF InHand
<1>11. \A x \in DOMAIN session.fwd : Range(session.fwd[x]) # {} /\ x.type \in Types
  BY FakeHasWords DEF PersonInv, SessionOK, Keys
<1>12. Rooted(k)'
  <2>1. CASE Drawn(c)
    BY <1>5, <1>7, <1>8, <2>1 DEF Drawn, Rooted, InUse
  <2>2. CASE Reused(c, P)
    <3>1. PICK j \in DOMAIN session.fwd :
            j.type = k.type /\ Range(base) \subseteq Range(session.fwd[j])
      BY <1>5, <2>2 DEF Reused
    <3>2. PICK b \in InUse(j.type) : Range(session.fwd[j]) \subseteq Range(b)
      BY DEF PersonInv, Rooted
    <3>3. k.type \in NameTypes
      BY <1>6, <2>2 DEF Reused
    <3>4. QED
      BY <1>7, <1>9, <3>1, <3>2, <3>3 DEF Rooted
  <2>3. QED
    BY <1>3, <2>1, <2>2 DEF InHand
<1>13. ASSUME NEW j \in DOMAIN session.fwd,
              \/ session.fwd[j] = base
              \/ /\ j.type \in NameTypes \/ k.type \in NameTypes
                 /\ Range(session.fwd[j]) \cap Range(base) # {}
       PROVE  P[j] = P[k]
  <2>1. CASE Drawn(c)
    <3>1. PICK b \in InUse(j.type) : /\ Range(session.fwd[j]) \subseteq Range(b)
                                     /\ j.type \notin NameTypes => session.fwd[j] = b
      BY DEF PersonInv, Rooted
    <3>2. b # base /\ b \in InUse(j.type)' /\ base \in InUse(k.type)'
      BY <1>5, <1>8, <1>9, <2>1 DEF Drawn, InUse
    <3>3. j.type \in NameTypes \/ k.type \in NameTypes => Range(b) \cap Range(base) = {}
      BY <1>5, <1>11, <3>2 DEF WordsApart
    <3>4. QED
      BY <1>10, <1>13, <3>1, <3>2, <3>3
  <2>2. CASE Reused(c, P)
    <3>1. PICK i \in DOMAIN session.fwd :
            /\ i.type = k.type /\ P[i] = P[k] /\ Range(base) \subseteq Range(session.fwd[i])
      BY <1>5, <2>2 DEF Reused, k
    <3>2. i.type \in NameTypes
      BY <1>6, <2>2, <3>1 DEF Reused
    <3>3. Range(session.fwd[i]) \cap Range(session.fwd[j]) # {}
      BY <1>10, <1>13, <3>1
    <3>4. P[i] = P[j]
      BY <3>2, <3>3 DEF PersonInv, Meets
    <3>5. QED
      BY <3>1, <3>4
  <2>3. QED
    BY <1>3, <2>1, <2>2 DEF InHand
<1> HIDE DEF base
<1>14. \A x \in DOMAIN session'.fwd : session'.fwd[x] \in Seq(Tokens) \ {NoFake} /\ Rooted(x)'
  <2> SUFFICES ASSUME NEW x \in DOMAIN session'.fwd
               PROVE  session'.fwd[x] \in Seq(Tokens) \ {NoFake} /\ Rooted(x)'
    OBVIOUS
  <2>1. CASE x = k
    BY <1>7, <1>10, <1>12, <2>1
  <2>2. CASE x # k
    <3>1. session'.fwd[x] = session.fwd[x] /\ session.fwd[x] \in Seq(Tokens) \ {NoFake} /\ Rooted(x)
      BY <1>7, <2>2 DEF PersonInv
    <3>2. QED
      BY <1>9, <3>1 DEF Rooted
  <2>3. QED
    BY <2>1, <2>2
<1>15. ASSUME NEW i \in DOMAIN session'.fwd, NEW j \in DOMAIN session'.fwd, Meets(i, j)'
       PROVE  P[i] = P[j]
  <2>1. CASE i \in DOMAIN session.fwd /\ j \in DOMAIN session.fwd
    BY <1>7, <1>15, <2>1 DEF PersonInv, Meets
  <2>2. CASE i = k /\ j # k
    BY <1>7, <1>13, <1>15, <2>2 DEF Meets
  <2>3. CASE i # k /\ j = k
    BY <1>7, <1>13, <1>15, <2>3 DEF Meets
  <2>4. QED
    BY <1>7, <2>1, <2>2, <2>3
<1>16. \A d \in Calls : pc'[d] # "write_mapping"
  BY <1>1, <1>2 DEF Critical, Locked
<1>17. QED
  BY <1>14, <1>15, <1>16 DEF PersonInv

(* Steps that store no mapping leave the fakes as they are. *)
LEMMA SameFakes ==
  ASSUME NEW P, PersonInv(P),
         session'.fwd = session.fwd, DOMAIN session'.rev = DOMAIN session.rev,
         \A c \in Calls : pc'[c] = "write_mapping" =>
           \/ pc[c] = "write_mapping" /\ loc'[c] = loc[c]
           \/ InHand(c, P)'
  PROVE  PersonInv(P)'
<1>1. \A t : InUse(t)' = InUse(t)
  BY DEF InUse
<1>2. \A k \in DOMAIN session'.fwd :
        session'.fwd[k] \in Seq(Tokens) \ {NoFake} /\ Rooted(k)'
  BY <1>1 DEF PersonInv, Rooted
<1>3. \A j, k \in DOMAIN session'.fwd : Meets(j, k)' => P[j] = P[k]
  BY DEF PersonInv, Meets
<1>4. ASSUME NEW c \in Calls, pc'[c] = "write_mapping" PROVE InHand(c, P)'
  <2>1. CASE pc[c] = "write_mapping" /\ loc'[c] = loc[c]
    <3>1. InHand(c, P)
      BY <2>1 DEF PersonInv
    <3>2. QED
      BY <2>1, <3>1 DEF InHand, Drawn, Reused
  <2>2. QED
    BY <1>4, <2>1
<1>5. QED
  BY <1>2, <1>3, <1>4 DEF PersonInv

LEMMA PersonStep ==
  ASSUME NEW CONSTANT P, PersonOf(P), Deletes = {}, "expiry" \notin Faults
  PROVE  TypeOK /\ SerialPerSession /\ DecisionInv /\ HoldInv
           /\ (WordsApart => PersonInv(P)) /\ [Next]_vars => (WordsApart => PersonInv(P))'
<1> SUFFICES ASSUME TypeOK, SerialPerSession, DecisionInv, HoldInv,
                    WordsApart => PersonInv(P), [Next]_vars, WordsApart'
             PROVE  PersonInv(P)'
  OBVIOUS
<1> USE CallAssumption, KindAssumption DEF Procs, CoroutinesOK
<1>1. ASSUME DOMAIN session.rev \subseteq DOMAIN session'.rev PROVE PersonInv(P)
  <2>1. \A t : InUse(t) \subseteq InUse(t)'
    BY <1>1 DEF InUse
  <2>2. WordsApart
    BY <2>1 DEF WordsApart
  <2>3. QED
    BY <2>2
<1>2. ASSUME NEW c \in Calls, CallStep(c) PROVE PersonInv(P)'
  <2>1. \A d \in Calls \ {c} : pc'[d] = pc[d]
    BY <1>2, OwnStep
  <2>2. CASE WriteMapping(c)
    <3>1. DOMAIN session.rev \subseteq DOMAIN session'.rev
      BY <2>2 DEF WriteMapping, SessionOK, Override
    <3>2. QED
      BY <1>1, <2>2, <3>1, WriteMappingPerson
  <2>3. CASE LoadCorefs(c) /\ pc'[c] = "write_mapping"
    <3>1. session' = session /\ \A d \in Calls \ {c} : loc'[d] = loc[d]
      BY <2>3, LoadCorefsLocals DEF LoadCorefs
    <3>2. PersonInv(P)
      BY <1>1, <3>1
    <3>3. InHand(c, P)'
      BY <2>3, <3>2, ResolvingPerson
    <3>4. QED
      BY <2>1, <3>1, <3>2, <3>3, SameFakes
  <2>4. CASE Mint(c)
    <3>1. InHand(c, P)' /\ session' = session /\ \A d \in Calls \ {c} : loc'[d] = loc[d]
      BY <2>4, MintingPerson
    <3>2. PersonInv(P)
      BY <1>1, <3>1
    <3>3. QED
      BY <2>1, <3>1, <3>2, SameFakes
  <2>5. CASE /\ session'.fwd = session.fwd /\ DOMAIN session'.rev = DOMAIN session.rev
             /\ pc'[c] # "write_mapping"
             /\ \A d \in Calls \ {c} : loc'[d] = loc[d]
    <3>1. PersonInv(P)
      BY <1>1, <2>5
    <3>2. QED
      BY <2>1, <2>5, <3>1, SameFakes
  <2>6. QED
    BY <1>2, <2>2, <2>3, <2>4, <2>5, CallKinds
<1>3. CASE Beside
  <2>1. session'.fwd = session.fwd /\ session'.rev = session.rev
    BY <1>3 DEF Beside, SameMappings
  <2>2. PersonInv(P)
    BY <1>1, <2>1
  <2>3. \A c \in Calls : pc'[c] = "write_mapping" => pc[c] = "write_mapping" /\ loc'[c] = loc[c]
    BY <1>3 DEF Beside
  <2>4. QED
    BY <2>1, <2>2, <2>3, SameFakes
<1>4. session.ttl # "due"
  BY DEF HoldInv
<1>5. QED
  BY <1>2, <1>3, <1>4, BesideKinds

LEMMA PersonInit == ASSUME NEW P, Init PROVE PersonInv(P)
<1>1. session.fwd = Empty /\ DOMAIN Empty = {} /\ \A c \in Calls : pc[c] = "idle"
  BY EmptySessionOK DEF Init, Procs
<1>2. QED
  BY <1>1 DEF PersonInv

(* FR-015 where names corefer, each mention with one person only, at any   *)
(* number of overlapping calls, with Redis errors and restarts: a fake     *)
(* stands for two persons only if two of the generator's fakes in use, one *)
(* of them a name, have a word in common (a coreferent's fake is cut from  *)
(* its person's, and not looked up).                                       *)
THEOREM PersonsShareNoFake ==
  ASSUME NEW CONSTANT P, PersonOf(P), Deletes = {}, "expiry" \notin Faults
  PROVE  Spec => [](WordsApart => PersonsApart(P))
<1>1. PersonInv(P) => PersonsApart(P)
  BY DEF PersonInv, PersonsApart, Meets
<1>2. Init => PersonInv(P)
  BY PersonInit
<1>3. TypeOK /\ SerialPerSession /\ DecisionInv /\ HoldInv
        /\ (WordsApart => PersonInv(P)) /\ [Next]_vars => (WordsApart => PersonInv(P))'
  BY PersonStep
<1>4. QED
  BY <1>1, <1>2, <1>3, HoldInvariant, SerialInvariant, TypeCorrect, PTL DEF Spec

(* Under the same conditions RestoresThePerson holds, whatever the other   *)
(* calls have written since.                                               *)
THEOREM RestoresToThePerson ==
  ASSUME NEW CONSTANT P, PersonOf(P), Deletes = {}, "expiry" \notin Faults
  PROVE  Spec => [](WordsApart => RestoresThePerson(P))
<1>1. HoldInv /\ PersonsApart(P) => RestoresThePerson(P)
  <2> SUFFICES ASSUME HoldInv, PersonsApart(P), NEW c \in Calls, At(c, "done")
               PROVE  /\ loc[c].surface \in DOMAIN session.rev
                      /\ \E d \in Calls :
                           /\ P[KeyOf(d)] = P[KeyOf(c)]
                           /\ session.rev[loc[c].surface].orig
                                \in {EntityOf[d].text, EntityOf[d].lemma}
    BY DEF RestoresThePerson
  <2>1. /\ loc[c].surface \in DOMAIN session.rev
        /\ HasFake(c, loc[c].surface.base)
    BY SurfaceOwner
  <2>2. PICK d \in Calls :
          /\ HasFake(d, loc[c].surface.base)
          /\ session.rev[loc[c].surface].orig \in {EntityOf[d].text, EntityOf[d].lemma}
    BY SurfaceOwner
  <2>3. P[KeyOf(d)] = P[KeyOf(c)]
    BY <2>1, <2>2 DEF PersonsApart, HasFake
  <2>4. QED
    BY <2>1, <2>2, <2>3
<1>2. Spec => [](WordsApart => PersonsApart(P))
  BY PersonsShareNoFake
<1>3. QED
  BY <1>1, <1>2, HoldInvariant, PTL

-----------------------------------------------------------------------------
(* What a summary counts. *)

(* The draws of names never run out: no name gets a suffixed fake. *)
NamesDrawn == \A t \in Types \cap NameTypes : Forced[t] = {}

(* The forms that are stored are those of the fakes of names, and an       *)
(* identifier has one reverse record.                                      *)
ShownInv ==
  /\ session.forms
       = {session.fwd[k] : k \in {j \in DOMAIN session.fwd : j.type \in NameTypes}}
  /\ \A f \in DOMAIN session.rev :
       session.rev[f].type \notin NameTypes => f = Nominative(f.base)
  /\ \A c \in Calls : At(c, "write_mapping") => loc[c].inflects = IsName(c)

LEMMA PairPerMapping ==
  ASSUME MappingInv, Reversible, ShownInv, SessionOK, IsFiniteSet(DOMAIN session.fwd)
  PROVE  Cardinality(Pairs(session)) = Cardinality(DOMAIN session.fwd)
<1> DEFINE PairOf(f) == [type |-> session.rev[f].type, orig |-> session.rev[f].orig, fake |-> f]
           F == [k \in DOMAIN session.fwd |-> PairOf(Nominative(session.fwd[k]))]
           ofNames == {PairOf(Nominative(b)) :
                         b \in {x \in session.forms : Nominative(x) \in DOMAIN session.rev}}
           ofOthers == {PairOf(f) :
                          f \in {x \in DOMAIN session.rev : session.rev[x].type \notin NameTypes}}
<1>1. Pairs(session) = ofNames \cup ofOthers
  BY DEF Pairs
<1>2. \A b1, b2 : Nominative(b1) = Nominative(b2) => b1 = b2
  BY DEF Nominative, Form
<1>3. \A b : Nominative(b).base = b
  BY DEF Nominative, Form
<1>4. \A f1, f2 : PairOf(f1) = PairOf(f2) => f1 = f2
  OBVIOUS
<1>5. ASSUME NEW k \in DOMAIN session.fwd PROVE F[k] \in Pairs(session)
  <2> DEFINE f == Nominative(session.fwd[k])
  <2>1. f \in DOMAIN session.rev
    BY DEF Reversible
  <2>2. CASE k.type \in NameTypes
    <3>1. session.fwd[k] \in session.forms
      BY <2>2 DEF ShownInv
    <3>2. QED
      BY <1>1, <2>1, <3>1
  <2>3. CASE k.type \notin NameTypes
    <3>1. PICK d \in Calls : HasFake(d, f.base) /\ session.rev[f].type = EntityOf[d].type
      BY <2>1 DEF MappingInv, HoldInv, OwnedInv
    <3>2. KeyOf(d) = k
      BY <1>3, <3>1 DEF MappingInv, DistinctFakes, HasFake
    <3>3. session.rev[f].type \notin NameTypes
      BY <2>3, <3>1, <3>2 DEF KeyOf
    <3>4. QED
      BY <1>1, <2>1, <3>3
  <2>4. QED
    BY <2>2, <2>3
<1>6. ASSUME NEW p \in Pairs(session) PROVE \E k \in DOMAIN session.fwd : F[k] = p
  <2>1. CASE p \in ofNames
    <3>1. PICK b \in session.forms : p = PairOf(Nominative(b))
      BY <2>1
    <3>2. QED
      BY <3>1 DEF ShownInv
  <2>2. CASE p \in ofOthers
    <3>1. PICK f \in DOMAIN session.rev : p = PairOf(f) /\ session.rev[f].type \notin NameTypes
      BY <2>2
    <3>2. f = Nominative(f.base)
      BY <3>1 DEF ShownInv
    <3>3. PICK d \in Calls : HasFake(d, f.base)
      BY DEF MappingInv, HoldInv, OwnedInv
    <3>4. KeyOf(d) \in DOMAIN session.fwd /\ F[KeyOf(d)] = PairOf(f)
      BY <3>2, <3>3 DEF HasFake
    <3>5. QED
      BY <3>1, <3>4
  <2>3. QED
    BY <1>1, <2>1, <2>2
<1>7. ASSUME NEW j \in DOMAIN session.fwd, NEW k \in DOMAIN session.fwd, F[j] = F[k] PROVE j = k
  <2>1. PairOf(Nominative(session.fwd[j])) = PairOf(Nominative(session.fwd[k]))
    BY <1>7
  <2>2. session.fwd[j] = session.fwd[k]
    BY <1>2, <1>4, <2>1
  <2>3. QED
    BY <2>2 DEF MappingInv, DistinctFakes
<1>8. F \in [DOMAIN session.fwd -> Pairs(session)]
  BY <1>5
<1> HIDE DEF F
<1>9. F \in Bijection(DOMAIN session.fwd, Pairs(session))
  BY <1>6, <1>7, <1>8 DEF Bijection, Injection, Surjection, IsInjective
<1>10. QED
  BY <1>9, FS_Bijection DEF ExistsBijection

LEMMA ShownStep ==
  ASSUME NamesApart, NamesDrawn, Deletes = {}, "expiry" \notin Faults
  PROVE  TypeOK /\ DecisionInv /\ MappingInv /\ ShownInv /\ [Next]_vars => ShownInv'
<1> SUFFICES ASSUME TypeOK, DecisionInv, MappingInv, ShownInv, [Next]_vars PROVE ShownInv'
  OBVIOUS
<1> USE CallAssumption, KindAssumption DEF Procs, CoroutinesOK
<1>1. ASSUME SameMappings,
             \A c \in Calls : pc'[c] = "write_mapping" =>
               (pc[c] = "write_mapping" /\ loc'[c] = loc[c]) \/ loc'[c].inflects = IsName(c)
      PROVE  ShownInv'
  BY <1>1 DEF ShownInv, SameMappings
<1>2. ASSUME NEW c \in Calls, CallStep(c) PROVE ShownInv'
  <2>1. \A d \in Calls \ {c} : pc'[d] = pc[d]
    BY <1>2, OwnStep
  <2>2. HandOf(c) /\ StoredNames(session.corefs)
    BY DEF MappingInv, HoldInv
  <2>3. CASE Enter(c) \/ Acquire(c) \/ ReadForward(c) \/ ReadForms(c) \/ ReadCorefs(c)
             \/ ReadMeta(c) \/ ExtendWritten(c) \/ Extend(c) \/ Release(c)
    <3>1. session' \in {session, ExtendTTL(session)} /\ pc'[c] # "write_mapping"
          /\ \A d \in Calls \ {c} : loc'[d] = loc[d]
      BY <2>3 DEF Enter, Acquire, ReadForward, ReadForms, ReadCorefs, ReadMeta, ExtendWritten,
         Extend, Release
    <3>2. QED
      BY <1>1, <2>1, <3>1, ExtendSame
  <2>4. CASE LoadCorefs(c)
    <3>1. pc[c] = "load_corefs"
      BY <2>4 DEF LoadCorefs
    <3>2. Resolve(EntityOf[c].type, EntityOf[c].lemma, session.corefs) = NoFake
      BY <2>2, <3>1, NothingResolved DEF HandOf, DecisionInv
    <3>3. session' = session /\ pc'[c] = "mint" /\ loc' = loc
      BY <2>4, <3>2 DEF LoadCorefs
    <3>4. QED
      BY <1>1, <2>1, <3>3, ExtendSame
  <2>5. CASE Mint(c)
    <3>1. PICK fake \in Mintable(c, DOMAIN session.rev) :
            loc' = [loc EXCEPT ![c].base = fake.base,
                     ![c].inflects = fake.inflects,
                     ![c].surface = Rendered(c, fake.base, fake.inflects)]
      BY <2>5 DEF Mint
    <3>2. fake.inflects = IsName(c)
      <4> DEFINE type == EntityOf[c].type
                 forced == {b \in Forced[type] : Nominative(b) \notin DOMAIN session.rev}
      <4>1. fake.inflects \in {IsName(c)} \/ (fake.inflects = FALSE /\ fake.base \in forced)
        BY DEF Mintable
      <4>2. IsName(c) => forced = {}
        BY KeyType DEF NamesDrawn, IsName
      <4>3. CASE IsName(c)
        BY <4>1, <4>2, <4>3
      <4>4. CASE ~IsName(c)
        <5>1. IsName(c) = FALSE
          BY <4>4 DEF IsName
        <5>2. QED
          BY <4>1, <5>1
      <4>5. QED
        BY <4>3, <4>4
    <3>3. loc'[c].inflects = IsName(c) /\ \A d \in Calls \ {c} : loc'[d] = loc[d]
      BY <3>1, <3>2
    <3>4. session' = session
      BY <2>5 DEF Mint
    <3>5. QED
      BY <1>1, <2>1, <3>3, <3>4, ExtendSame
  <2>6. CASE WriteMapping(c)
    <3> DEFINE k == KeyOf(c)
               base == loc[c].base
               new == ReverseFields(c, base, loc[c].inflects)
    <3>1. /\ k \notin DOMAIN session.fwd /\ pc[c] = "write_mapping" /\ loc' = loc
          /\ pc'[c] # "write_mapping"
      BY <2>6 DEF DecisionInv, WriteMapping
    <3>2. /\ session'.fwd = Override(session.fwd, [x \in {k} |-> base])
          /\ session'.rev = Override(session.rev, new)
          /\ session'.forms = (IF loc[c].inflects THEN session.forms \cup {base}
                                                  ELSE session.forms)
      BY <2>6 DEF WriteMapping, SessionOK
    <3>3. loc[c].inflects = IsName(c) /\ (IsName(c) <=> k.type \in NameTypes)
      BY <3>1 DEF ShownInv, IsName, KeyOf
    <3>4. \A f \in DOMAIN new : new[f].type \notin NameTypes => f = Nominative(f.base)
      BY <3>3 DEF ReverseFields, Nominative, Form, IsName
    <3> HIDE DEF new, k, base
    <3>5. /\ DOMAIN session'.fwd = DOMAIN session.fwd \cup {k}
          /\ session'.fwd[k] = base
          /\ \A x \in DOMAIN session.fwd : session'.fwd[x] = session.fwd[x]
      BY <3>1, <3>2 DEF Override
    <3>6. session'.forms
            = {session'.fwd[x] : x \in {j \in DOMAIN session'.fwd : j.type \in NameTypes}}
      <4>1. session.forms
              = {session'.fwd[x] : x \in {j \in DOMAIN session.fwd : j.type \in NameTypes}}
        BY <3>5 DEF ShownInv
      <4>2. QED
        BY <3>2, <3>3, <3>5, <4>1
    <3>7. \A f \in DOMAIN session'.rev :
            session'.rev[f].type \notin NameTypes => f = Nominative(f.base)
      BY <3>2, <3>4 DEF ShownInv, Override
    <3>8. QED
      BY <2>1, <3>1, <3>6, <3>7 DEF ShownInv
  <2>7. CASE WriteCorefs(c) \/ WriteMeta(c)
    <3>1. /\ session'.fwd = session.fwd /\ session'.rev = session.rev
          /\ session'.forms = session.forms /\ loc' = loc /\ pc'[c] # "write_mapping"
      BY <2>7 DEF WriteCorefs, WriteMeta, SessionOK
    <3>2. QED
      BY <2>1, <3>1 DEF ShownInv
  <2>8. CASE WriteExact(c)
    <3> DEFINE new == [form \in {loc[c].surface} |->
                         [orig |-> EntityOf[c].text, type |-> EntityOf[c].type, exact |-> TRUE]]
    <3>1. /\ session'.fwd = session.fwd /\ session'.rev = Override(session.rev, new)
          /\ session'.forms = session.forms /\ loc' = loc
          /\ pc[c] = "write_exact" /\ pc'[c] = "extend"
      BY <2>8 DEF WriteExact, SessionOK
    <3>2. EntityOf[c].type \in NameTypes
      BY <2>2, <3>1 DEF HandOf, IsName
    <3>3. \A f \in DOMAIN session'.rev :
            session'.rev[f].type \notin NameTypes => f = Nominative(f.base)
      BY <3>1, <3>2 DEF ShownInv, Override
    <3>4. QED
      BY <2>1, <3>1, <3>3 DEF ShownInv
  <2>9. QED
    BY <1>2, <2>3, <2>4, <2>5, <2>6, <2>7, <2>8 DEF CallStep
<1>3. CASE Beside
  BY <1>1, <1>3 DEF Beside
<1>4. session.ttl # "due"
  BY DEF MappingInv, HoldInv
<1>5. QED
  BY <1>2, <1>3, <1>4, BesideKinds


(* The meta record never counts more than there are mappings, nor does     *)
(* what anyone has read of it; while a call has a mapping to count, it     *)
(* counts fewer, and so does what a message count may write back.          *)
Size == Cardinality(DOMAIN session.fwd)

Lagging(c) ==
  /\ session.meta.entities < Size
  /\ \A b \in Bumps : seen[b].entities < Size
  /\ At(c, "write_meta") => seen[c].entities < Size

CountedInv ==
  /\ IsFiniteSet(DOMAIN session.fwd)
  /\ session.meta.entities <= Size
  /\ \A p \in Procs : seen[p].entities <= Size
  /\ \A c \in Calls : pc[c] \in Uncounted => Lagging(c)

(* A summary that has read the pairs has found one for each mapping. *)
Reported(s) == pc[s] \in {"extend_read", "done"} => report[s].pairs >= seen[s].entities

ReportInv == \A s \in Summaries : report[s].pairs \in Nat /\ Reported(s)

LEMMA CountTypes ==
  ASSUME TypeOK, IsFiniteSet(DOMAIN session.fwd)
  PROVE  /\ Size \in Nat
         /\ session.meta.entities \in Nat
         /\ \A p \in Procs : seen[p].entities \in Nat
  BY FS_CardinalityType DEF Size, SessionOK, CoroutinesOK, Metas

(* What the others write to meta they have read there. *)
Echoes ==
  /\ session'.meta.entities \in {session.meta.entities} \cup {seen[b].entities : b \in Bumps}
  /\ \A p \in Procs : seen'[p].entities \in {seen[p].entities, session.meta.entities}
  /\ \A c \in Calls : seen'[c] = seen[c]

LEMMA EchoKinds ==
  ASSUME Deletes = {}, TypeOK, session.ttl # "due", "expiry" \notin Faults, [Next]_vars
  PROVE  (\E c \in Calls : CallStep(c)) \/ Echoes
<1> USE CallAssumption, KindAssumption DEF Procs, CoroutinesOK, Echoes
<1>0. session' \in {session, ExtendTTL(session)} => session'.meta = session.meta
  BY ExtendExpiring
<1>1. ASSUME NEW b \in Bumps, ReadCount(b) PROVE Echoes
  BY <1>1, <1>0 DEF ReadCount
<1>2. ASSUME NEW b \in Bumps, WriteCount(b) PROVE Echoes
  <2>1. seen[b] \in Metas
    OBVIOUS
  <2>2. session'.meta.entities = seen[b].entities
    BY <1>2, <2>1 DEF WriteCount, SessionOK, Metas
  <2>3. QED
    BY <1>2, <2>2 DEF WriteCount
<1>3. ASSUME NEW r \in Readers, ReadMappings(r) PROVE Echoes
  BY <1>3, <1>0 DEF ReadMappings
<1>4. ASSUME NEW r \in Readers \cup Summaries, ExtendRead(r) PROVE Echoes
  BY <1>4, <1>0 DEF ExtendRead
<1>5. ASSUME NEW s \in Summaries, SummaryMeta(s) PROVE Echoes
  BY <1>5, <1>0 DEF SummaryMeta
<1>6. ASSUME NEW s \in Summaries, SummaryTTL(s) PROVE Echoes
  BY <1>6, <1>0 DEF SummaryTTL
<1>7. ASSUME NEW s \in Summaries, SummaryPairs(s) PROVE Echoes
  BY <1>7, <1>0 DEF SummaryPairs
<1>8. ASSUME NEW p \in Procs, RedisError(p) PROVE Echoes
  BY <1>8, <1>0 DEF RedisError
<1>9. CASE Restart
  BY <1>9, <1>0 DEF Restart
<1>10. CASE Served \/ UNCHANGED vars
  BY <1>10, <1>0 DEF Served, vars
<1>11. CASE Idle \/ Expire
  BY <1>11 DEF Idle, Expire
<1>12. QED
  BY <1>1, <1>2, <1>3, <1>4, <1>5, <1>6, <1>7, <1>8, <1>9, <1>10, <1>11 DEF Next

LEMMA CountedCall ==
  ASSUME TypeOK, TypeOK', SerialPerSession, DecisionInv, CountedInv, NEW c \in Calls, CallStep(c)
  PROVE  CountedInv'
<1> USE CallAssumption, KindAssumption DEF Procs, CoroutinesOK
<1>1. \A p \in Procs \ {c} : pc'[p] = pc[p]
  BY OwnStep
<1>2. /\ Size \in Nat /\ session.meta.entities \in Nat
      /\ \A p \in Procs : seen[p].entities \in Nat
  BY CountTypes DEF CountedInv
<1>3. CASE WriteMapping(c)
  <2> DEFINE k == KeyOf(c)
  <2>1. \A d \in Calls \ {c} : ~Critical(d)
    BY <1>3 DEF WriteMapping, SerialPerSession, Critical, Locked
  <2>2. /\ k \notin DOMAIN session.fwd /\ seen' = seen /\ session'.meta = session.meta
        /\ session'.fwd = Override(session.fwd, [x \in {k} |-> loc[c].base])
        /\ pc'[c] # "write_meta"
    BY <1>3 DEF DecisionInv, WriteMapping, SessionOK
  <2>3. DOMAIN session'.fwd = DOMAIN session.fwd \cup {k}
    BY <2>2 DEF Override
  <2> HIDE DEF k
  <2>4. IsFiniteSet(DOMAIN session'.fwd) /\ Size' = Size + 1
    BY <2>2, <2>3, FS_AddElement DEF CountedInv, Size
  <2>5. \A d \in Calls : pc'[d] \in Uncounted => d = c
    BY <1>1, <2>1 DEF Uncounted, Critical, Locked
  <2>6. /\ session'.meta.entities <= Size' /\ session'.meta.entities < Size'
        /\ \A p \in Procs : seen'[p].entities <= Size' /\ seen'[p].entities < Size'
    BY <1>2, <2>2, <2>4 DEF CountedInv
  <2>7. Lagging(c)'
    BY <2>6 DEF Lagging
  <2>8. QED
    BY <2>4, <2>5, <2>6, <2>7 DEF CountedInv
<1>4. CASE WriteMeta(c)
  <2>1. \A d \in Calls \ {c} : ~Critical(d)
    BY <1>4 DEF WriteMeta, SerialPerSession, Critical, Locked
  <2>2. /\ pc[c] = "write_meta" /\ pc'[c] = "extend_written" /\ seen' = seen
        /\ session'.fwd = session.fwd
        /\ session'.meta = (IF seen[c] = NoMeta
                            THEN [created |-> c, entities |-> 1, messages |-> 0]
                            ELSE [seen[c] EXCEPT !.entities = @ + 1])
    BY <1>4 DEF WriteMeta, SessionOK
  <2>3. seen[c] \in Metas /\ seen[c].entities < Size
    BY <2>2 DEF CountedInv, Lagging, Uncounted
  <2>4. session'.meta.entities \in {1, seen[c].entities + 1}
    BY <2>2, <2>3 DEF Metas
  <2>5. session'.meta.entities <= Size
    BY <1>2, <2>3, <2>4
  <2>6. \A d \in Calls : pc'[d] \notin Uncounted
    BY <1>1, <2>1, <2>2 DEF Uncounted, Critical, Locked
  <2>7. QED
    BY <2>2, <2>5, <2>6 DEF CountedInv, Size
<1>5. CASE ReadMeta(c)
  <2>1. /\ pc[c] = "read_meta" /\ session' = session
        /\ seen'[c] = session.meta /\ \A p \in Procs \ {c} : seen'[p] = seen[p]
    BY <1>5 DEF ReadMeta
  <2>2. Lagging(c) /\ Size' = Size
    BY <2>1 DEF CountedInv, Uncounted, Size
  <2>3. Lagging(c)'
    BY <2>1, <2>2 DEF Lagging
  <2>4. ASSUME NEW d \in Calls, d # c, pc'[d] \in Uncounted PROVE Lagging(d)'
    BY <1>1, <2>1, <2>2, <2>4 DEF CountedInv, Lagging
  <2>5. QED
    BY <2>1, <2>2, <2>3, <2>4 DEF CountedInv
<1>6. CASE ~WriteMapping(c) /\ ~WriteMeta(c) /\ ~ReadMeta(c)
  <2>1. /\ session'.fwd = session.fwd /\ session'.meta = session.meta /\ seen' = seen
    <3>1. CASE ExtendWritten(c) \/ Extend(c)
      BY <3>1, ExtendSame, ExtendExpiring DEF ExtendWritten, Extend, SameMappings
    <3>2. CASE WriteCorefs(c) \/ WriteExact(c)
      BY <3>2 DEF WriteCorefs, WriteExact, SessionOK
    <3>3. CASE \/ Enter(c) \/ Acquire(c) \/ ReadForward(c) \/ ReadForms(c) \/ LoadCorefs(c)
               \/ Mint(c) \/ ReadCorefs(c) \/ Release(c)
      BY <3>3 DEF Enter, Acquire, ReadForward, ReadForms, LoadCorefs, Mint, ReadCorefs, Release
    <3>4. QED
      BY <1>6, <3>1, <3>2, <3>3 DEF CallStep
  <2>2. pc'[c] \in Uncounted => pc[c] \in Uncounted /\ pc'[c] # "write_meta"
    <3>1. CASE LoadCorefs(c)
      <4>1. pc'[c] \in {"mint", "write_mapping"}
        BY <3>1, LoadCorefsLocals
      <4>2. QED
        BY <4>1 DEF Uncounted
    <3>2. CASE ReadForward(c)
      BY <3>2 DEF ReadForward, Uncounted
    <3>3. CASE ~LoadCorefs(c) /\ ~ReadForward(c)
      BY <1>6, <3>3 DEF CallStep, Enter, Acquire, ReadForms, Mint, ReadCorefs, WriteCorefs,
         ExtendWritten, WriteExact, Extend, Release, Uncounted
    <3>4. QED
      BY <3>1, <3>2, <3>3
  <2>3. ASSUME NEW d \in Calls, pc'[d] \in Uncounted PROVE Lagging(d)'
    <3>1. Lagging(d) /\ (pc'[d] = "write_meta" => pc[d] = "write_meta")
      BY <1>1, <2>2, <2>3 DEF CountedInv
    <3>2. QED
      BY <2>1, <3>1 DEF Lagging, Size
  <2>4. QED
    BY <2>1, <2>3 DEF CountedInv, Size
<1>7. QED
  BY <1>3, <1>4, <1>5, <1>6

LEMMA CountedStep ==
  ASSUME Deletes = {}, "expiry" \notin Faults
  PROVE  TypeOK /\ TypeOK' /\ SerialPerSession /\ DecisionInv /\ session.ttl # "due" /\ CountedInv
           /\ [Next]_vars => CountedInv'
<1> SUFFICES ASSUME TypeOK, TypeOK', SerialPerSession, DecisionInv, session.ttl # "due", CountedInv,
                    [Next]_vars
             PROVE  CountedInv'
  OBVIOUS
<1>1. ASSUME NEW c \in Calls, CallStep(c) PROVE CountedInv'
  BY <1>1, CountedCall
<1>2. CASE Beside /\ Echoes
  <2>1. Size' = Size /\ session'.fwd = session.fwd
    BY <1>2 DEF Beside, SameMappings, Size
  <2>2. /\ session'.meta.entities <= Size
        /\ \A p \in Procs : seen'[p].entities <= Size
    BY <1>2 DEF Echoes, CountedInv, Procs
  <2>3. ASSUME NEW d \in Calls, pc'[d] \in Uncounted PROVE Lagging(d)'
    <3>1. pc'[d] = pc[d] /\ Lagging(d)
      BY <1>2, <2>3 DEF Beside, Uncounted, CountedInv
    <3>2. session'.meta.entities < Size
      BY <1>2, <3>1 DEF Echoes, Lagging
    <3>3. \A b \in Bumps : seen'[b].entities < Size
      BY <1>2, <3>1 DEF Echoes, Lagging, Procs
    <3>4. QED
      BY <1>2, <2>1, <3>1, <3>2, <3>3 DEF Lagging, Echoes
  <2>4. QED
    BY <2>1, <2>2, <2>3 DEF CountedInv
<1>3. QED
  BY <1>1, <1>2, BesideKinds, EchoKinds

LEMMA ReportStep ==
  ASSUME Deletes = {}, "expiry" \notin Faults
  PROVE  TypeOK /\ Reversible /\ MappingInv /\ ShownInv /\ CountedInv /\ ReportInv /\ [Next]_vars
           => ReportInv'
<1> SUFFICES ASSUME TypeOK, Reversible, MappingInv, ShownInv, CountedInv, ReportInv, [Next]_vars
             PROVE  ReportInv'
  OBVIOUS
<1> USE CallAssumption, KindAssumption DEF Procs, CoroutinesOK
<1>1. ASSUME report' = report,
             \A s \in Summaries :
               \/ pc'[s] \notin {"extend_read", "done"}
               \/ pc'[s] = pc[s] /\ seen'[s] = seen[s]
      PROVE  ReportInv'
  BY <1>1 DEF ReportInv, Reported
<1>2. ASSUME NEW c \in Calls, CallStep(c) PROVE ReportInv'
  <2>1. \A s \in Summaries : pc'[s] = pc[s]
    BY <1>2, OwnStep
  <2>2. report' = report /\ \A s \in Summaries : seen'[s] = seen[s]
    <3>1. CASE ReadMeta(c)
      BY <3>1 DEF ReadMeta
    <3>2. CASE ~ReadMeta(c)
      <4>1. report' = report
        BY <1>2, <3>2 DEF CallStep, Enter, Acquire, ReadForward, ReadForms, LoadCorefs, Mint,
           WriteMapping, ReadCorefs, WriteCorefs, WriteMeta, ExtendWritten, WriteExact,
           Extend, Release
      <4>2. seen' = seen
        BY <1>2, <3>2 DEF CallStep, Enter, Acquire, ReadForward, ReadForms, LoadCorefs, Mint,
           WriteMapping, ReadCorefs, WriteCorefs, WriteMeta, ExtendWritten, WriteExact,
           Extend, Release
      <4>3. QED
        BY <4>1, <4>2
    <3>3. QED
      BY <3>1, <3>2
  <2>3. QED
    BY <1>1, <2>1, <2>2
<1>3. ASSUME NEW b \in Bumps, ReadCount(b) \/ WriteCount(b) PROVE ReportInv'
  BY <1>1, <1>3 DEF ReadCount, WriteCount
<1>4. ASSUME NEW r \in Readers, ReadMappings(r) \/ ExtendRead(r) PROVE ReportInv'
  BY <1>1, <1>4 DEF ReadMappings, ExtendRead
<1>5. ASSUME NEW s \in Summaries, SummaryMeta(s) PROVE ReportInv'
  <2>1. /\ seen'[s] = session.meta /\ report' = report
        /\ pc'[s] = (IF session.meta = NoMeta THEN "done" ELSE "summary_ttl")
        /\ \A t \in Summaries \ {s} : pc'[t] = pc[t] /\ seen'[t] = seen[t]
    BY <1>5 DEF SummaryMeta
  <2>2. NoMeta.entities = 0
    BY DEF NoMeta
  <2>3. report[s].pairs \in Nat
    BY DEF ReportInv
  <2>4. Reported(s)'
    BY <2>1, <2>2, <2>3 DEF Reported
  <2>5. QED
    BY <2>1, <2>4 DEF ReportInv, Reported
<1>6. ASSUME NEW s \in Summaries, SummaryTTL(s) PROVE ReportInv'
  <2>1. /\ seen' = seen /\ pc'[s] = "summary_pairs" /\ report'[s].pairs = report[s].pairs
        /\ \A t \in Summaries \ {s} : pc'[t] = pc[t] /\ report'[t] = report[t]
    BY <1>6 DEF SummaryTTL
  <2>2. QED
    BY <2>1 DEF ReportInv, Reported
<1>7. ASSUME NEW s \in Summaries, SummaryPairs(s) PROVE ReportInv'
  <2>1. /\ seen' = seen /\ report'[s].pairs = Cardinality(Pairs(session))
        /\ \A t \in Summaries \ {s} : pc'[t] = pc[t] /\ report'[t] = report[t]
    BY <1>7 DEF SummaryPairs
  <2>2. Cardinality(Pairs(session)) = Size /\ Size \in Nat
    BY PairPerMapping, CountTypes DEF CountedInv, Size
  <2>3. seen[s].entities <= Size /\ seen[s].entities \in Nat
    BY CountTypes DEF CountedInv
  <2>4. Reported(s)'
    BY <2>1, <2>2, <2>3 DEF Reported
  <2>5. QED
    BY <2>1, <2>2, <2>4 DEF ReportInv, Reported
<1>8. ASSUME NEW s \in Summaries, ExtendRead(s) PROVE ReportInv'
  BY <1>8 DEF ExtendRead, ReportInv, Reported
<1>9. ASSUME NEW p \in Procs, RedisError(p) PROVE ReportInv'
  BY <1>1, <1>9 DEF RedisError
<1>10. CASE Idle \/ Expire \/ Served \/ UNCHANGED vars
  BY <1>1, <1>10 DEF Idle, Expire, Served, vars
<1>11. CASE Restart
  BY <1>1, <1>11 DEF Restart
<1>12. QED
  BY <1>2, <1>3, <1>4, <1>5, <1>6, <1>7, <1>8, <1>9, <1>10, <1>11 DEF Next

(* FR-019 of 007 at any number of calls, summaries, message counts, errors *)
(* and restarts: where no two names corefer and the draws of names never   *)
(* run out, a summary shows a pair for each mapping, and never fewer than  *)
(* the meta record it has read before counts.                              *)
THEOREM SummariesCount ==
  ASSUME NamesApart, NamesDrawn, Deletes = {}, "expiry" \notin Faults
  PROVE  Spec => []SummaryCountsMappings
<1>1. Init => DecisionInv /\ ShownInv /\ CountedInv /\ ReportInv
  <2> SUFFICES ASSUME Init PROVE DecisionInv /\ ShownInv /\ CountedInv /\ ReportInv
    OBVIOUS
  <2>1. /\ session.fwd = Empty /\ session.rev = Empty /\ session.forms = {}
        /\ session.meta = NoMeta /\ DOMAIN Empty = {} /\ NoMeta.entities = 0
    BY EmptySessionOK DEF Init, NoMeta
  <2>2. /\ \A p \in Procs : pc[p] = "idle" /\ seen[p] = NoMeta
        /\ \A s \in Summaries : report[s].pairs = 0
    BY DEF Init, Procs
  <2>3. IsFiniteSet(DOMAIN session.fwd) /\ Size = 0
    BY <2>1, FS_EmptySet DEF Size
  <2>4. ShownInv
    BY <2>1, <2>2 DEF ShownInv, Procs
  <2>5. CountedInv
    BY <2>1, <2>2, <2>3 DEF CountedInv, Uncounted, Procs
  <2>6. ReportInv
    BY <2>2 DEF ReportInv, Reported, Procs
  <2>7. DecisionInv
    BY <2>2 DEF DecisionInv, Procs
  <2>8. QED
    BY <2>4, <2>5, <2>6, <2>7
<1>2. MappingInv => session.ttl # "due"
  BY DEF MappingInv, HoldInv
<1>3. TypeOK /\ Reversible /\ MappingInv /\ ShownInv /\ CountedInv /\ ReportInv
        => SummaryCountsMappings
  BY PairPerMapping DEF SummaryCountsMappings, CountedInv, ReportInv, Reported
<1>4. QED
  BY <1>1, <1>2, <1>3, DecisionStep, ShownStep, CountedStep, ReportStep, MappingInvariant,
     SerialInvariant, AlwaysReversible, TypeCorrect, PTL DEF Spec

=============================================================================

----------------------- MODULE DetectionServiceProofs -----------------------
(***************************************************************************)
(* The threshold cache and the readiness gate, for any contents of the     *)
(* file and any number of edits, requests and restarts.                    *)
(***************************************************************************)
EXTENDS DetectionService, TLAPS

(* A score is between zero and one after _clamp01, whatever was written.   *)
LEMMA ClampedScore ==
  ASSUME NEW value, NEW fallback \in Scores
  PROVE  Clamp01(value, fallback) \in Scores
BY DEF Clamp01, Scores

LEMMA BuiltinTable == Builtin \in Tables
BY DEF Builtin, Tables, Scores

(* _parse gives a table of scores, or raises.                              *)
LEMMA ParsedTable ==
  ASSUME NEW c
  PROVE  Parsed(c) \in Tables \cup {Failed}
<1>1. CASE c \in {Garbled, Missing}
  BY <1>1, BuiltinTable DEF Parsed
<1>2. CASE c \notin {Garbled, Missing} /\ c = Scalar
  BY <1>2 DEF Parsed
<1>3. CASE c \notin {Garbled, Missing} /\ c # Scalar
  <2>1. DefaultOf(c) \in Scores
    <3>1. 30 \in Scores
      BY DEF Scores
    <3>2. QED
      BY <3>1, ClampedScore DEF DefaultOf
  <2> DEFINE table == [type \in Types |->
                         IF c.thresholds[type] = Absent THEN Absent
                         ELSE Clamp01(c.thresholds[type], DefaultOf(c))]
  <2>2. \A type \in Types : Clamp01(c.thresholds[type], DefaultOf(c)) \in Scores
    BY <2>1, ClampedScore
  <2> HIDE DEF table
  <2>3. table \in [Types -> Scores \cup {Absent}]
    BY <2>2 DEF table
  <2>4. Parsed(c) = [default |-> DefaultOf(c), thresholds |-> table]
    BY <1>3 DEF Parsed, table
  <2>5. QED
    BY <2>1, <2>3, <2>4 DEF Tables
<1>4. QED
  BY <1>1, <1>2, <1>3

-----------------------------------------------------------------------------
(* Whatever the file holds, the thresholds in use are scores.              *)
THEOREM TypeCorrect == Spec => []TypeOK
<1> DEFINE Inv == TypeOK /\ ParseInv
<1>1. Init => Inv
  <2> SUFFICES ASSUME Init PROVE Inv
    OBVIOUS
  <2>1. spoiled \subseteq Nat /\ now \in Nat /\ mtime \in Nat
    BY DEF Init
  <2>2. cache \in Tables \cup {None} /\ cacheKey \in Nat \cup {None} /\ key \in Nat \cup {None}
    BY DEF Init
  <2>3. QED
    BY <2>1, <2>2, Zenon DEF Init, TypeOK, ParseInv
<1>2. Inv /\ [Next]_vars => Inv'
  <2> SUFFICES ASSUME TypeOK, ParseInv, [Next]_vars PROVE TypeOK' /\ ParseInv'
    OBVIOUS
  <2> USE DEF TypeOK, ParseInv, file, model, cached, request
  <2>1. CASE Edit
    <3>1. now' \in Nat /\ mtime' \in Nat /\ content' \in Contents \cup {Missing}
      BY <2>1 DEF Edit, Write, Remove, Tick
    <3>2. spoiled' \subseteq Nat
      BY <2>1 DEF Edit, Write, Remove, Tick
    <3>3. UNCHANGED <<cache, cacheKey, engine, ready, loader, analyzer, at, key, answer>>
          /\ changed' \in BOOLEAN
      BY <2>1 DEF Edit, Write, Remove, Tick
    <3>4. QED
      BY <3>1, <3>2, <3>3
  <2>2. CASE Load
    BY <2>2 DEF Load, TakeLock, Build, Announce, LoadFails
  <2>3. CASE Arrive \/ Refuse \/ Admit
    BY <2>3 DEF Arrive, Refuse, Admit
  <2>4. CASE Analyze
    BY <2>4 DEF Analyze
  <2>5. CASE Stat
    BY <2>5, BuiltinTable DEF Stat
  <2>6. CASE Parse
    <3>1. answer' \in Tables \cup {Failed}
      BY <2>6, ParsedTable DEF Parse
    <3>2. cache' \in Tables \cup {None} /\ cacheKey' \in Nat \cup {None}
      BY <2>6, <3>1 DEF Parse
    <3>3. QED
      BY <2>6, <3>1, <3>2 DEF Parse
  <2>7. CASE ReadFails
    <3>1. spoiled' \subseteq Nat
      BY <2>7 DEF ReadFails
    <3>2. answer' \in Tables /\ cache' \in Tables /\ cacheKey' \in Nat
      BY <2>7, BuiltinTable DEF ReadFails
    <3>3. QED
      BY <2>7, <3>1, <3>2 DEF ReadFails
  <2>8. CASE Serve
    BY <2>8 DEF Serve
  <2>9. CASE Restart
    BY <2>9 DEF Restart
  <2>10. CASE UNCHANGED vars
    BY <2>10 DEF vars
  <2>11. QED
    BY <2>1, <2>2, <2>3, <2>4, <2>5, <2>6, <2>7, <2>8, <2>9, <2>10 DEF Next, Handle
<1>3. Inv => TypeOK
  OBVIOUS
<1>4. QED
  BY <1>1, <1>2, <1>3, PTL DEF Spec

-----------------------------------------------------------------------------
(* A step that leaves the model alone admits no request before it is there.*)
LEMMA ModelLeftAlone ==
  ASSUME ModelInv, UNCHANGED <<engine, ready, loader>>,
         at' = "analyze" => ready \/ at = "analyze"
  PROVE  ModelInv'
BY DEF ModelInv

(* The loader announces the model after it has built it; a restart, which  *)
(* takes the model away, ends the request as well.                         *)
LEMMA ModelStep ==
  ASSUME ModelInv, [Next]_vars
  PROVE  ModelInv'
<1>1. ASSUME Edit \/ Stat \/ Parse \/ ReadFails \/ UNCHANGED vars
      PROVE  ModelInv'
  BY <1>1, ModelLeftAlone
     DEF Edit, Write, Remove, Tick, Stat, Parse, ReadFails, file, model, request, vars
<1>2. ASSUME Arrive \/ Refuse \/ Admit \/ Serve
      PROVE  ModelInv'
  BY <1>2, ModelLeftAlone DEF Arrive, Refuse, Admit, Serve, model
<1>3. ASSUME Load
      PROVE  ModelInv'
  BY <1>3 DEF Load, TakeLock, Build, Announce, LoadFails, request, ModelInv
<1>4. ASSUME Analyze \/ Restart
      PROVE  ModelInv'
  BY <1>4 DEF Analyze, Restart, ModelInv
<1> QED
  BY <1>1, <1>2, <1>3, <1>4 DEF Next, Handle

(* The model is there before the gate opens, and stays until the process   *)
(* ends, so no request loads it on the event loop.                         *)
THEOREM GateBeforeModel == Spec => []AdmittedFindsModel
<1>1. /\ Init => ModelInv
      /\ ModelInv => AdmittedFindsModel
  BY DEF Init, ModelInv, AdmittedFindsModel
<1> QED
  BY <1>1, ModelStep, PTL DEF Spec

-----------------------------------------------------------------------------
FreshInv == TypeOK /\ TimesInv /\ CacheInv /\ ParseInv /\ AnswerFresh

(* An edit: a new write is either later than every time seen so far, or    *)
(* falls within the tick of the one before it, which is then spoiled.      *)
LEMMA EditKeepsFresh == FreshInv /\ TypeOK' /\ Edit => FreshInv'
<1> SUFFICES ASSUME FreshInv, TypeOK', Edit PROVE FreshInv'
  OBVIOUS
<1> USE DEF FreshInv, file, model, cached, request
<1>1. ASSUME NEW c \in Contents, Write(c) PROVE FreshInv'
  <2>1. TimesInv'
    BY <1>1 DEF Write, TypeOK, TimesInv
  <2>2. CacheInv'
    <3> SUFFICES ASSUME cacheKey' = mtime', mtime' \notin spoiled' PROVE FALSE
      BY DEF CacheInv
    <3>1. cacheKey = now /\ cacheKey \in Nat
      BY <1>1 DEF Write, TypeOK
    <3>2. mtime = now
      BY <3>1 DEF TypeOK, TimesInv
    <3>3. QED
      BY <1>1, <3>2 DEF Write
  <2>3. QED
    BY <1>1, <2>1, <2>2 DEF Write, ParseInv, AnswerFresh
<1>2. CASE Remove
  BY <1>2 DEF Remove, TypeOK, TimesInv, CacheInv, ParseInv, AnswerFresh
<1>3. CASE Tick
  BY <1>3 DEF Tick, TypeOK, TimesInv, CacheInv, ParseInv, AnswerFresh
<1>4. QED
  BY <1>1, <1>2, <1>3 DEF Edit

(* load_thresholds: a table that is served from the cache is the one of    *)
(* the file, and one that is parsed is cached under a time not after it.   *)
LEMMA LookupKeepsFresh ==
  FreshInv /\ TypeOK' /\ (Stat \/ Parse \/ ReadFails) => FreshInv'
<1> SUFFICES ASSUME FreshInv, TypeOK', Stat \/ Parse \/ ReadFails PROVE FreshInv'
  OBVIOUS
<1> USE DEF FreshInv, file, model, cached, request
<1>1. CASE Stat
  <2>1. TimesInv' /\ CacheInv'
    BY <1>1, NoneAssumption DEF Stat, TypeOK, TimesInv, CacheInv
  <2>2. ParseInv'
    BY <1>1 DEF Stat, TypeOK, ParseInv
  <2>3. AnswerFresh'
    BY <1>1 DEF Stat, CacheInv, AnswerFresh, Parsed
  <2>4. QED
    BY <2>1, <2>2, <2>3
<1>2. CASE Parse
  <2>1. TimesInv'
    BY <1>2 DEF Parse, TypeOK, TimesInv
  <2>2. CacheInv'
    BY <1>2 DEF Parse, CacheInv
  <2>3. ParseInv' /\ AnswerFresh'
    BY <1>2 DEF Parse, ParseInv, AnswerFresh
  <2>4. QED
    BY <2>1, <2>2, <2>3
<1>3. CASE ReadFails
  <2>1. TimesInv'
    BY <1>3 DEF ReadFails, TypeOK, TimesInv
  <2>2. CacheInv' /\ ParseInv' /\ AnswerFresh'
    BY <1>3 DEF ReadFails, CacheInv, ParseInv, AnswerFresh
  <2>3. QED
    BY <2>1, <2>2
<1>4. QED
  BY <1>1, <1>2, <1>3

(* A request that sees an unchanged file uses what it says, unless its     *)
(* time stands for two contents or its reading has failed.                 *)
THEOREM ThresholdsFresh == Spec => []AnswerFresh
<1>1. Init /\ TypeOK => FreshInv
  BY NoneAssumption
  DEF Init, FreshInv, TimesInv, CacheInv, ParseInv, AnswerFresh
<1>2. FreshInv /\ TypeOK' /\ [Next]_vars => FreshInv'
  <2> SUFFICES ASSUME FreshInv, TypeOK', [Next]_vars PROVE FreshInv'
    OBVIOUS
  <2> USE DEF FreshInv, TimesInv, CacheInv, ParseInv, AnswerFresh,
              file, model, cached, request
  <2>1. CASE Edit
    BY <2>1, EditKeepsFresh
  <2>2. CASE Load
    BY <2>2 DEF Load, TakeLock, Build, Announce, LoadFails
  <2>3. CASE Stat \/ Parse \/ ReadFails
    BY <2>3, LookupKeepsFresh
  <2>4. CASE Arrive \/ Refuse \/ Admit \/ Analyze \/ Serve
    BY <2>4 DEF Arrive, Refuse, Admit, Analyze, Serve
  <2>5. CASE Restart
    BY <2>5, NoneAssumption DEF Restart, TypeOK
  <2>6. CASE UNCHANGED vars
    BY <2>6 DEF vars
  <2>7. QED
    BY <2>1, <2>2, <2>3, <2>4, <2>5, <2>6 DEF Next, Handle
<1>3. FreshInv => AnswerFresh
  BY DEF FreshInv
<1>4. QED
  BY <1>1, <1>2, <1>3, TypeCorrect, PTL DEF Spec

=============================================================================

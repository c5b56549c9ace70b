------------------------ MODULE ChatRoundTripProofs ------------------------
(***************************************************************************)
(* Theorems about the chat requests of a session, for any number of them,  *)
(* any entities and any faults.                                            *)
(***************************************************************************)
EXTENDS ChatRoundTrip, TLAPS

-----------------------------------------------------------------------------
(* Facts about the entities and the statuses. *)

LEMMA SlotFacts ==
  /\ \A r \in Requests : \A n \in DOMAIN Pii[r] :
       /\ <<r, n>> \in Slots
       /\ OriginalOf(<<r, n>>) = Pii[r][n]
       /\ Pii[r][n] \in Originals
  /\ \A slot \in Slots : OriginalOf(slot) \in Originals
<1>1. ASSUME NEW r \in Requests, NEW n \in DOMAIN Pii[r]
      PROVE  /\ <<r, n>> \in Slots
             /\ OriginalOf(<<r, n>>) = Pii[r][n]
             /\ Pii[r][n] \in Originals
  BY PiiAssumption DEF Slots, OriginalOf
<1>2. ASSUME NEW slot \in Slots PROVE OriginalOf(slot) \in Originals
  <2>1. PICK r \in Requests : slot \in {r} \X DOMAIN Pii[r]
    BY <1>2 DEF Slots
  <2>2. slot[1] = r /\ slot[2] \in DOMAIN Pii[r]
    BY <2>1
  <2>3. QED
    BY <2>2, PiiAssumption DEF OriginalOf
<1>3. QED
  BY <1>1, <1>2

(* An adapter's failure is never the router's 400. *)
LEMMA KindStatus ==
  ASSUME NEW prefix, NEW kind \in KindsOf(prefix)
  PROVE  ErrorStatus[kind] \in {429, 503, 504}
  BY DEF KindsOf, ErrorStatus, NeedsKey

-----------------------------------------------------------------------------
(* Type correctness, with the invariant on what has been sent: a payload   *)
(* is what the vault has answered for every entity of its request.         *)

Calling == {"provider", "restore", "restore_fuzzy", "extend", "count"}

SendInv ==
  \A r \in Requests :
    /\ pc[r] \in {"gate", "handler", "inbound"} => response[r].status = 0
    /\ pc[r] = "inbound" => ready
    /\ pc[r] \in Calling => sent[r] # NotSent /\ response[r].status = 0
    /\ sent[r] # NotSent =>
         /\ ready
         /\ pc[r] \in Calling \cup {"log", "ended"}
         /\ response[r].status # 400
         /\ \A n \in DOMAIN Pii[r] : sent[r][n] = answered[<<r, n>>]

LEMMA VaultStep == VaultOK /\ [Next]_vars => VaultOK'
<1> SUFFICES ASSUME VaultOK, [Next]_vars PROVE VaultOK'
  OBVIOUS
<1> USE DEF VaultOK
<1>1. ASSUME NEW r \in Requests, PassGate(r) PROVE VaultOK'
  BY <1>1 DEF PassGate, vault
<1>2. ASSUME NEW r \in Requests, Handle(r) PROVE VaultOK'
  BY <1>2 DEF Handle, Respond, vault
<1>3. ASSUME NEW r \in Requests, Call(r) PROVE VaultOK'
  BY <1>3 DEF Call, Respond, vault
<1>4. ASSUME NEW r \in Requests, NEW n \in DOMAIN Pii[r], Substitute(r, n) PROVE VaultOK'
  BY <1>4, SlotFacts DEF Substitute, Current, Vault!AnswerKnown, Vault!MapTo, vault
<1>5. ASSUME NEW r \in Requests, ProviderAnswers(r) PROVE VaultOK'
  BY <1>5 DEF ProviderAnswers, vault
<1>6. ASSUME NEW r \in Requests, Restore(r) PROVE VaultOK'
  BY <1>6 DEF Restore, vault
<1>7. ASSUME NEW r \in Requests, RestoreFuzzy(r) PROVE VaultOK'
  BY <1>7 DEF RestoreFuzzy, vault
<1>8. ASSUME NEW r \in Requests, ExtendTTL(r) PROVE VaultOK'
  BY <1>8 DEF ExtendTTL, vault
<1>9. ASSUME NEW r \in Requests, Count(r) PROVE VaultOK'
  BY <1>9 DEF Count, Respond, vault
<1>10. ASSUME NEW r \in Requests, Log(r) PROVE VaultOK'
  BY <1>10 DEF Log, vault
<1>11. ASSUME NEW r \in Requests, FailGate(r) PROVE VaultOK'
  BY <1>11 DEF FailGate, Respond, vault
<1>12. ASSUME NEW r \in Requests, Refuse(r) PROVE VaultOK'
  BY <1>12 DEF Refuse, Respond, vault
<1>13. ASSUME NEW r \in Requests, ProviderFails(r) PROVE VaultOK'
  BY <1>13 DEF ProviderFails, Respond, vault
<1>14. ASSUME NEW r \in Requests, ProviderRaises(r) PROVE VaultOK'
  BY <1>14 DEF ProviderRaises, Raise, vault
<1>15. ASSUME NEW r \in Requests, RedisFails(r) PROVE VaultOK'
  BY <1>15, SlotFacts DEF RedisFails, Raise, Current, vault
<1>16. CASE ModelLoads
  BY <1>16 DEF ModelLoads, vault
<1>17. CASE Forget
  BY <1>17 DEF Forget, Vault!Forget, vault
<1>18. CASE Served
  BY <1>18 DEF Served, vars
<1>19. CASE UNCHANGED vars
  BY <1>19 DEF vars
<1>20. QED
  BY <1>1, <1>2, <1>3, <1>4, <1>5, <1>6, <1>7, <1>8, <1>9, <1>10, <1>11, <1>12, <1>13, <1>14, <1>15, <1>16, <1>17, <1>18, <1>19 DEF Next, RequestStep, Failure

(* A response after which nothing but the model of the request changes.    *)
LEMMA RespondProgress ==
  ASSUME ProgressOK, NEW r \in Requests, pc[r] # "ended",
         NEW status \in Statuses, Respond(r, status, TRUE),
         UNCHANGED <<ready, lines, forgotten>>,
         model' \in [Requests -> Prefixes \cup {"none"}]
  PROVE  ProgressOK'
  BY DEF Respond, ProgressOK, GoTo, Waits, At

LEMMA GoOnProgress ==
  ASSUME ProgressOK, NEW r \in Requests, pc[r] # "ended",
         NEW state \in Waits, GoTo(r, state),
         UNCHANGED <<ready, response, lines, forgotten>>,
         model' \in [Requests -> Prefixes \cup {"none"}]
  PROVE  ProgressOK'
  BY DEF ProgressOK, GoTo, Waits, At

LEMMA HandleProgress ==
  ASSUME ProgressOK, NEW r \in Requests, Handle(r)
  PROVE  ProgressOK'
<1>1. /\ pc[r] # "ended" /\ UNCHANGED <<ready, model, lines, forgotten>>
      /\ \/ Respond(r, 503, TRUE)
         \/ GoTo(r, "inbound") /\ UNCHANGED response
  BY DEF Handle, At
<1>2. 503 \in Statuses /\ "inbound" \in Waits
  BY DEF Statuses, Waits
<1>3. model' \in [Requests -> Prefixes \cup {"none"}]
  BY <1>1 DEF ProgressOK
<1>4. QED
  BY <1>1, <1>2, <1>3, RespondProgress, GoOnProgress

LEMMA CallProgress ==
  ASSUME ProgressOK, NEW r \in Requests, Call(r)
  PROVE  ProgressOK'
<1>1. /\ pc[r] # "ended" /\ UNCHANGED <<ready, lines, forgotten>>
      /\ \/ Respond(r, 400, TRUE)
         \/ Respond(r, 503, TRUE)
         \/ GoTo(r, "provider") /\ UNCHANGED response
  BY DEF Call, At
<1>2. 400 \in Statuses /\ 503 \in Statuses /\ "provider" \in Waits
  BY DEF Statuses, Waits
<1>3. model' \in [Requests -> Prefixes \cup {"none"}]
  BY DEF Call, ProgressOK
<1>4. QED
  BY <1>1, <1>2, <1>3, RespondProgress, GoOnProgress

LEMMA ProgressStep == ProgressOK /\ [Next]_vars => ProgressOK'
<1> SUFFICES ASSUME ProgressOK, [Next]_vars PROVE ProgressOK'
  OBVIOUS
<1> USE DEF ProgressOK, At, GoTo, Waits, Statuses
<1>1. ASSUME NEW r \in Requests, PassGate(r) PROVE ProgressOK'
  BY <1>1 DEF PassGate, vault
<1>2. ASSUME NEW r \in Requests, Handle(r) PROVE ProgressOK'
  BY <1>2, HandleProgress
<1>3. ASSUME NEW r \in Requests, Call(r) PROVE ProgressOK'
  BY <1>3, CallProgress
<1>4. ASSUME NEW r \in Requests, NEW n \in DOMAIN Pii[r], Substitute(r, n) PROVE ProgressOK'
  BY <1>4 DEF Substitute, vault
<1>5. ASSUME NEW r \in Requests, ProviderAnswers(r) PROVE ProgressOK'
  BY <1>5 DEF ProviderAnswers, vault
<1>6. ASSUME NEW r \in Requests, Restore(r) PROVE ProgressOK'
  BY <1>6 DEF Restore, vault
<1>7. ASSUME NEW r \in Requests, RestoreFuzzy(r) PROVE ProgressOK'
  BY <1>7 DEF RestoreFuzzy, vault
<1>8. ASSUME NEW r \in Requests, ExtendTTL(r) PROVE ProgressOK'
  BY <1>8 DEF ExtendTTL, vault
<1>9. ASSUME NEW r \in Requests, Count(r) PROVE ProgressOK'
  BY <1>9 DEF Count, Respond, vault
<1>10. ASSUME NEW r \in Requests, Log(r) PROVE ProgressOK'
  BY <1>10 DEF Log, vault
<1>11. ASSUME NEW r \in Requests, FailGate(r) PROVE ProgressOK'
  BY <1>11 DEF FailGate, Respond, vault
<1>12. ASSUME NEW r \in Requests, Refuse(r) PROVE ProgressOK'
  BY <1>12 DEF Refuse, Respond, vault
<1>13. ASSUME NEW r \in Requests, ProviderFails(r) PROVE ProgressOK'
  BY <1>13, KindStatus DEF ProviderFails, Respond, vault
<1>14. ASSUME NEW r \in Requests, ProviderRaises(r) PROVE ProgressOK'
  BY <1>14 DEF ProviderRaises, Raise, vault
<1>15. ASSUME NEW r \in Requests, RedisFails(r) PROVE ProgressOK'
  BY <1>15 DEF RedisFails, Raise, vault
<1>16. CASE ModelLoads
  BY <1>16 DEF ModelLoads, vault
<1>17. CASE Forget
  BY <1>17 DEF Forget, vault
<1>18. CASE Served
  BY <1>18 DEF Served, vars
<1>19. CASE UNCHANGED vars
  BY <1>19 DEF vars
<1>20. QED
  BY <1>1, <1>2, <1>3, <1>4, <1>5, <1>6, <1>7, <1>8, <1>9, <1>10, <1>11, <1>12, <1>13, <1>14, <1>15, <1>16, <1>17, <1>18, <1>19 DEF Next, RequestStep, Failure

LEMMA WordsStep ==
  VaultOK /\ WordsOK /\ SendInv /\ [Next]_vars => WordsOK'
<1> SUFFICES ASSUME VaultOK, WordsOK, SendInv, [Next]_vars PROVE WordsOK'
  OBVIOUS
<1> USE DEF WordsOK, At
<1>1. ASSUME NEW r \in Requests, PassGate(r) PROVE WordsOK'
  BY <1>1 DEF PassGate, vault
<1>2. ASSUME NEW r \in Requests, Handle(r) PROVE WordsOK'
  BY <1>2 DEF Handle, Respond, vault
<1>3. ASSUME NEW r \in Requests, Call(r) PROVE WordsOK'
  <2>1. \A n \in DOMAIN Pii[r] : answered[<<r, n>>] \in Fakes
    BY <1>3, SlotFacts DEF Call, Substituted, VaultOK
  <2>2. \/ UNCHANGED sent
        \/ sent' = [sent EXCEPT ![r] = [n \in DOMAIN Pii[r] |-> answered[<<r, n>>]]]
    BY <1>3 DEF Call
  <2>3. CASE UNCHANGED sent
    BY <1>3, <2>3 DEF Call
  <2>4. CASE sent' = [sent EXCEPT ![r] = [n \in DOMAIN Pii[r] |-> answered[<<r, n>>]]]
    BY <1>3, <2>1, <2>4 DEF Call
  <2>5. QED
    BY <2>2, <2>3, <2>4
<1>4. ASSUME NEW r \in Requests, NEW n \in DOMAIN Pii[r], Substitute(r, n) PROVE WordsOK'
  BY <1>4 DEF Substitute, vault
<1>5. ASSUME NEW r \in Requests, ProviderAnswers(r) PROVE WordsOK'
  <2>1. sent[r] \in [DOMAIN Pii[r] -> Fakes]
    BY <1>5 DEF ProviderAnswers, SendInv, Calling
  <2>2. Range(sent[r]) \subseteq Fakes
    BY <2>1 DEF Range
  <2>3. QED
    BY <1>5, <2>2 DEF ProviderAnswers
<1>6. ASSUME NEW r \in Requests, Restore(r) PROVE WordsOK'
  <2>1. \A w \in Originals \cup Fakes : Restored(w) \in Originals \cup Fakes
    BY DEF Restored, VaultOK, Range
  <2>2. QED
    BY <1>6, <2>1 DEF Restore
<1>7. ASSUME NEW r \in Requests, RestoreFuzzy(r) PROVE WordsOK'
  <2>1. \A w \in Originals \cup Fakes : Restored(w) \in Originals \cup Fakes
    BY DEF Restored, VaultOK, Range
  <2>2. QED
    BY <1>7, <2>1 DEF RestoreFuzzy
<1>8. ASSUME NEW r \in Requests, ExtendTTL(r) PROVE WordsOK'
  BY <1>8 DEF ExtendTTL, vault
<1>9. ASSUME NEW r \in Requests, Count(r) PROVE WordsOK'
  BY <1>9 DEF Count, Respond, vault
<1>10. ASSUME NEW r \in Requests, Log(r) PROVE WordsOK'
  BY <1>10 DEF Log, vault
<1>11. ASSUME NEW r \in Requests, FailGate(r) PROVE WordsOK'
  BY <1>11 DEF FailGate, Respond, vault
<1>12. ASSUME NEW r \in Requests, Refuse(r) PROVE WordsOK'
  BY <1>12 DEF Refuse, Respond, vault
<1>13. ASSUME NEW r \in Requests, ProviderFails(r) PROVE WordsOK'
  BY <1>13 DEF ProviderFails, Respond, vault
<1>14. ASSUME NEW r \in Requests, ProviderRaises(r) PROVE WordsOK'
  BY <1>14 DEF ProviderRaises, Raise, vault
<1>15. ASSUME NEW r \in Requests, RedisFails(r) PROVE WordsOK'
  BY <1>15 DEF RedisFails, Raise, OnRedis, vault
<1>16. CASE ModelLoads
  BY <1>16 DEF ModelLoads, vault
<1>17. CASE Forget
  BY <1>17 DEF Forget, vault
<1>18. CASE Served
  BY <1>18 DEF Served, vars
<1>19. CASE UNCHANGED vars
  BY <1>19 DEF vars
<1>20. QED
  BY <1>1, <1>2, <1>3, <1>4, <1>5, <1>6, <1>7, <1>8, <1>9, <1>10, <1>11, <1>12, <1>13, <1>14, <1>15, <1>16, <1>17, <1>18, <1>19 DEF Next, RequestStep, Failure

LEMMA OtherSlots ==
  \A r \in Requests : \A n \in DOMAIN Pii[r] :
    \A s \in Requests \ {r} : \A m \in DOMAIN Pii[s] :
      <<s, m>> \in Slots \ {<<r, n>>}
<1> SUFFICES ASSUME NEW r \in Requests, NEW n \in DOMAIN Pii[r],
                    NEW s \in Requests \ {r}, NEW m \in DOMAIN Pii[s]
             PROVE  <<s, m>> \in Slots \ {<<r, n>>}
  OBVIOUS
<1>1. <<s, m>> \in Slots
  BY SlotFacts
<1>2. <<s, m>> # <<r, n>>
  OBVIOUS
<1>3. QED
  BY <1>1, <1>2

(* What Call sends is a payload. *)
LEMMA SentIsSent ==
  ASSUME VaultOK, NEW r \in Requests, Substituted(r)
  PROVE  [n \in DOMAIN Pii[r] |-> answered[<<r, n>>]] # NotSent
<1>1. \A n \in DOMAIN Pii[r] : answered[<<r, n>>] \in Fakes
  BY SlotFacts DEF Substituted, VaultOK
<1>2. PICK k \in Nat : DOMAIN Pii[r] = 1 .. k
  <2>1. Pii[r] \in Seq(Originals)
    BY PiiAssumption
  <2>2. DOMAIN Pii[r] = 1 .. Len(Pii[r]) /\ Len(Pii[r]) \in Nat
    BY <2>1
  <2>3. QED
    BY <2>2
<1>3. [n \in 1 .. k |-> answered[<<r, n>>]] \in Seq(Fakes)
  BY <1>1, <1>2
<1>4. QED
  BY <1>2, <1>3, NotSentAssumption

LEMMA SendStep ==
  TypeOK /\ SendInv /\ [Next]_vars => SendInv'
<1> SUFFICES ASSUME TypeOK, SendInv, [Next]_vars PROVE SendInv'
  OBVIOUS
<1> USE DEF SendInv, Calling, At, GoTo, TypeOK, ProgressOK
<1>1. ASSUME NEW r \in Requests, PassGate(r) PROVE SendInv'
  BY <1>1 DEF PassGate, vault
<1>2. ASSUME NEW r \in Requests, Handle(r) PROVE SendInv'
  BY <1>2 DEF Handle, Respond, vault
<1>3. ASSUME NEW r \in Requests, Call(r) PROVE SendInv'
  <2>1. CASE sent' = sent
    <3>1. sent[r] = NotSent /\ UNCHANGED <<ready, answered>>
      BY <1>3 DEF Call, vault
    <3>2. /\ \A s \in Requests \ {r} : pc'[s] = pc[s] /\ response'[s] = response[s]
          /\ pc'[r] \in {"log", "provider"}
          /\ pc'[r] = "provider" => sent' = [sent EXCEPT ![r] =
               [n \in DOMAIN Pii[r] |-> answered[<<r, n>>]]]
      BY <1>3 DEF Call, Respond
    <3>3. pc'[r] = "log"
      <4>1. CASE pc'[r] = "provider"
        BY <1>3, <2>1, <3>1, <3>2, <4>1, SentIsSent DEF WordsOK, Call
      <4>2. QED
        BY <3>2, <4>1
    <3>4. QED
      BY <2>1, <3>1, <3>2, <3>3
  <2>2. CASE sent' # sent
    <3>1. /\ sent' = [sent EXCEPT ![r] = [n \in DOMAIN Pii[r] |-> answered[<<r, n>>]]]
          /\ pc' = [pc EXCEPT ![r] = "provider"]
          /\ UNCHANGED <<ready, answered, response>>
      BY <1>3, <2>2 DEF Call, vault
    <3>2. sent'[r] = [n \in DOMAIN Pii[r] |-> answered[<<r, n>>]]
      BY <3>1 DEF WordsOK
    <3>4. sent'[r] # NotSent
      BY <1>3, <3>2, SentIsSent DEF Call
    <3>5. pc[r] = "inbound" /\ ready /\ response[r].status = 0
      BY <1>3 DEF Call
    <3>6. QED
      BY <3>1, <3>2, <3>4, <3>5 DEF WordsOK
  <2>3. QED
    BY <2>1, <2>2
<1>4. ASSUME NEW r \in Requests, NEW n \in DOMAIN Pii[r], Substitute(r, n) PROVE SendInv'
  <2>1. \A s \in Requests : sent[s] # NotSent => s # r
    BY <1>4 DEF Substitute
  <2>2. \A s \in Requests \ {r} : \A m \in DOMAIN Pii[s] :
          answered'[<<s, m>>] = answered[<<s, m>>]
    <3>1. answered' = [answered EXCEPT ![<<r, n>>] = answered'[<<r, n>>]]
      BY <1>4, SlotFacts DEF Substitute, Vault!AnswerKnown, Vault!MapTo, VaultOK
    <3>2. \A slot \in Slots \ {<<r, n>>} : answered'[slot] = answered[slot]
      BY <3>1 DEF VaultOK
    <3>3. ASSUME NEW s \in Requests \ {r}, NEW m \in DOMAIN Pii[s]
          PROVE  answered'[<<s, m>>] = answered[<<s, m>>]
      <4>1. <<s, m>> \in Slots \ {<<r, n>>}
        BY OtherSlots
      <4>2. QED
        BY <3>2, <4>1, Zenon
    <3>4. QED
      BY <3>3, Zenon
  <2>3. UNCHANGED <<ready, pc, sent, response>>
    BY <1>4 DEF Substitute
  <2>4. QED
    BY <2>1, <2>2, <2>3
<1>5. ASSUME NEW r \in Requests, ProviderAnswers(r) PROVE SendInv'
  BY <1>5 DEF ProviderAnswers, vault
<1>6. ASSUME NEW r \in Requests, Restore(r) PROVE SendInv'
  BY <1>6 DEF Restore, vault
<1>7. ASSUME NEW r \in Requests, RestoreFuzzy(r) PROVE SendInv'
  BY <1>7 DEF RestoreFuzzy, vault
<1>8. ASSUME NEW r \in Requests, ExtendTTL(r) PROVE SendInv'
  BY <1>8 DEF ExtendTTL, vault
<1>9. ASSUME NEW r \in Requests, Count(r) PROVE SendInv'
  BY <1>9 DEF Count, Respond, vault
<1>10. ASSUME NEW r \in Requests, Log(r) PROVE SendInv'
  BY <1>10 DEF Log, vault
<1>11. ASSUME NEW r \in Requests, FailGate(r) PROVE SendInv'
  BY <1>11 DEF FailGate, Respond, vault
<1>12. ASSUME NEW r \in Requests, Refuse(r) PROVE SendInv'
  BY <1>12 DEF Refuse, Respond, vault
<1>13. ASSUME NEW r \in Requests, ProviderFails(r) PROVE SendInv'
  BY <1>13, KindStatus DEF ProviderFails, Respond, vault
<1>14. ASSUME NEW r \in Requests, ProviderRaises(r) PROVE SendInv'
  BY <1>14 DEF ProviderRaises, Raise, vault
<1>15. ASSUME NEW r \in Requests, RedisFails(r) PROVE SendInv'
  BY <1>15 DEF RedisFails, Raise, OnRedis, WordsOK, vault
<1>16. CASE ModelLoads
  BY <1>16 DEF ModelLoads, vault
<1>17. CASE Forget
  BY <1>17 DEF Forget, Vault!Forget, vault
<1>18. CASE Served
  BY <1>18 DEF Served, vars
<1>19. CASE UNCHANGED vars
  BY <1>19 DEF vars
<1>20. QED
  BY <1>1, <1>2, <1>3, <1>4, <1>5, <1>6, <1>7, <1>8, <1>9, <1>10, <1>11, <1>12, <1>13, <1>14, <1>15, <1>16, <1>17, <1>18, <1>19 DEF Next, RequestStep, Failure

LEMMA TypedSpec == Spec => [](TypeOK /\ SendInv)
<1>1. Init => TypeOK /\ SendInv
  <2>1. Init => VaultOK
    BY DEF Init, VaultOK, Vault!Init
  <2>2. Init => ProgressOK
    <3>1. Init => ready \in BOOLEAN /\ forgotten \in BOOLEAN
      BY Zenon DEF Init
    <3>2. NoResponse \in [status : Statuses, session : BOOLEAN]
      BY DEF NoResponse, Statuses
    <3>3. QED
      BY <3>1, <3>2 DEF Init, ProgressOK, Waits, At
  <2>3. Init => WordsOK
    BY DEF Init, WordsOK
  <2>4. Init => SendInv
    BY DEF Init, SendInv, Calling, NoResponse
  <2>5. QED
    BY <2>1, <2>2, <2>3, <2>4 DEF TypeOK
<1>2. TypeOK /\ SendInv /\ [Next]_vars => TypeOK' /\ SendInv'
  BY VaultStep, ProgressStep, WordsStep, SendStep DEF TypeOK
<1>3. QED
  BY <1>1, <1>2, PTL DEF Spec

(* The vault, the requests and their responses have the shape the code     *)
(* gives them, and a request has at most one log line.                     *)
THEOREM TypeCorrect == Spec => []TypeOK
  BY TypedSpec, PTL

(* No payload leaves with an original in it, before the model is ready, or *)
(* for a request that is refused.                                          *)
THEOREM NothingLeaves == Spec => []FailClosed
<1>1. TypeOK /\ SendInv => FailClosed
  BY DEF TypeOK, WordsOK, SendInv, FailClosed
<1>2. QED
  BY <1>1, TypedSpec, PTL
-----------------------------------------------------------------------------
(* As long as the session is kept the vault is injective and still maps    *)
(* every original to what it has answered for it.                          *)

MappedInv ==
  ~forgotten =>
    /\ \A o, p \in DOMAIN assigned : assigned[o] = assigned[p] => o = p
    /\ \A slot \in Slots : answered[slot] # NoFake =>
         /\ OriginalOf(slot) \in DOMAIN assigned
         /\ assigned[OriginalOf(slot)] = answered[slot]

LEMMA MappedStep == VaultOK /\ MappedInv /\ [Next]_vars => MappedInv'
<1> SUFFICES ASSUME VaultOK, MappedInv, [Next]_vars PROVE MappedInv'
  OBVIOUS
<1> USE DEF MappedInv
<1>1. ASSUME NEW r \in Requests, PassGate(r) PROVE MappedInv'
  BY <1>1 DEF PassGate, vault
<1>2. ASSUME NEW r \in Requests, Handle(r) PROVE MappedInv'
  BY <1>2 DEF Handle, vault
<1>3. ASSUME NEW r \in Requests, Call(r) PROVE MappedInv'
  BY <1>3 DEF Call, vault
<1>4. ASSUME NEW r \in Requests, NEW n \in DOMAIN Pii[r], Substitute(r, n) PROVE MappedInv'
  <2>1. CASE Vault!AnswerKnown(<<r, n>>)
    BY <1>4, <2>1, SlotFacts DEF Substitute, Vault!AnswerKnown, VaultOK
  <2>2. ASSUME NEW fake \in Fakes \ Range(assigned),
               Vault!MapTo(<<r, n>>, fake)
        PROVE  MappedInv'
    <3>1. /\ \A o \in DOMAIN assigned : assigned[o] # fake
          /\ UNCHANGED forgotten
          /\ Pii[r][n] \notin DOMAIN assigned
          /\ DOMAIN assigned' = DOMAIN assigned \cup {Pii[r][n]}
          /\ assigned'[Pii[r][n]] = fake
          /\ \A o \in DOMAIN assigned : assigned'[o] = assigned[o]
      BY <1>4, <2>2, SlotFacts DEF Substitute, Vault!MapTo, Range
    <3>2. answered' = [answered EXCEPT ![<<r, n>>] = fake]
      BY <2>2 DEF Vault!MapTo
    <3>3. QED
      BY <3>1, <3>2, SlotFacts DEF VaultOK
  <2>3. QED
    BY <1>4, <2>1, <2>2 DEF Substitute
<1>5. ASSUME NEW r \in Requests, ProviderAnswers(r) PROVE MappedInv'
  BY <1>5 DEF ProviderAnswers, vault
<1>6. ASSUME NEW r \in Requests, Restore(r) PROVE MappedInv'
  BY <1>6 DEF Restore, vault
<1>7. ASSUME NEW r \in Requests, RestoreFuzzy(r) PROVE MappedInv'
  BY <1>7 DEF RestoreFuzzy, vault
<1>8. ASSUME NEW r \in Requests, ExtendTTL(r) PROVE MappedInv'
  BY <1>8 DEF ExtendTTL, vault
<1>9. ASSUME NEW r \in Requests, Count(r) PROVE MappedInv'
  BY <1>9 DEF Count, vault
<1>10. ASSUME NEW r \in Requests, Log(r) PROVE MappedInv'
  BY <1>10 DEF Log, vault
<1>11. ASSUME NEW r \in Requests, FailGate(r) PROVE MappedInv'
  BY <1>11 DEF FailGate, vault
<1>12. ASSUME NEW r \in Requests, Refuse(r) PROVE MappedInv'
  BY <1>12 DEF Refuse, vault
<1>13. ASSUME NEW r \in Requests, ProviderFails(r) PROVE MappedInv'
  BY <1>13 DEF ProviderFails, vault
<1>14. ASSUME NEW r \in Requests, ProviderRaises(r) PROVE MappedInv'
  BY <1>14 DEF ProviderRaises, vault
<1>15. ASSUME NEW r \in Requests, RedisFails(r) PROVE MappedInv'
  <2>1. CASE UNCHANGED assigned
    BY <1>15, <2>1 DEF RedisFails
  <2>2. ASSUME NEW n \in DOMAIN Pii[r], NEW fake \in Fakes \ Range(assigned),
               Pii[r][n] \notin DOMAIN assigned,
               assigned' = [o \in DOMAIN assigned \cup {Pii[r][n]} |->
                              IF o = Pii[r][n] THEN fake ELSE assigned[o]]
        PROVE  MappedInv'
    <3>1. \A o \in DOMAIN assigned : assigned[o] # fake
      BY <2>2 DEF Range
    <3>2. QED
      BY <1>15, <2>2, <3>1 DEF RedisFails
  <2>3. QED
    BY <1>15, <2>1, <2>2 DEF RedisFails
<1>16. CASE ModelLoads
  BY <1>16 DEF ModelLoads, vault
<1>17. CASE Forget
  BY <1>17 DEF Forget, vault
<1>18. CASE Served
  BY <1>18 DEF Served, vars
<1>19. CASE UNCHANGED vars
  BY <1>19 DEF vars
<1>20. QED
  BY <1>1, <1>2, <1>3, <1>4, <1>5, <1>6, <1>7, <1>8, <1>9, <1>10, <1>11, <1>12, <1>13, <1>14, <1>15, <1>16, <1>17, <1>18, <1>19 DEF Next, RequestStep, Failure

LEMMA SentMapped ==
  ASSUME TypeOK, SendInv, MappedInv, ~forgotten,
         NEW r \in Requests, sent[r] # NotSent, NEW n \in DOMAIN Pii[r]
  PROVE  Pii[r][n] \in DOMAIN assigned /\ assigned[Pii[r][n]] = sent[r][n]
<1>1. sent[r][n] \in Fakes /\ sent[r][n] = answered[<<r, n>>]
  BY DEF TypeOK, WordsOK, SendInv
<1>2. QED
  BY <1>1, SlotFacts, FakesAssumption DEF MappedInv

(* One fake for one original, and two for two, in all the payloads of a    *)
(* session, for any number of requests in any order.                       *)
THEOREM OneFakeInAllPayloads == Spec => []PayloadsAgree
<1>1. Init => MappedInv
  BY DEF Init, Vault!Init, MappedInv
<1>2. TypeOK /\ MappedInv /\ [Next]_vars => MappedInv'
  BY MappedStep DEF TypeOK
<1>3. TypeOK /\ SendInv /\ MappedInv => PayloadsAgree
  <2> SUFFICES ASSUME TypeOK, SendInv, MappedInv, ~forgotten,
                      NEW r \in Requests, NEW s \in Requests,
                      sent[r] # NotSent, sent[s] # NotSent,
                      NEW i \in DOMAIN Pii[r], NEW j \in DOMAIN Pii[s]
               PROVE  sent[r][i] = sent[s][j] <=> Pii[r][i] = Pii[s][j]
    BY DEF PayloadsAgree
  <2>1. Pii[r][i] \in DOMAIN assigned /\ assigned[Pii[r][i]] = sent[r][i]
    BY SentMapped
  <2>2. Pii[s][j] \in DOMAIN assigned /\ assigned[Pii[s][j]] = sent[s][j]
    BY SentMapped
  <2>3. QED
    BY <2>1, <2>2 DEF MappedInv
<1>4. QED
  BY <1>1, <1>2, <1>3, TypedSpec, PTL DEF Spec

-----------------------------------------------------------------------------
(* The answer: the fakes the provider mentioned are among those it was     *)
(* sent, and become the originals they stand for.                          *)

Own(r) == {Pii[r][n] : n \in {m \in DOMAIN Pii[r] : sent[r][m] \in reply[r]}}

Answers(r) ==
  /\ pc[r] \in {"gate", "handler", "inbound"} => reply[r] = {}
  /\ \A w \in reply[r] : \E n \in DOMAIN Pii[r] : sent[r][n] = w
  /\ pc[r] = "restore" => answer[r] = reply[r]
  /\ \/ pc[r] \in {"restore_fuzzy", "extend", "count"}
     \/ response[r].status = 200
     => answer[r] = Own(r)

AnswerInv == ~forgotten => \A r \in Requests : Answers(r)

LEMMA OwnOriginals ==
  ASSUME NEW r \in Requests
  PROVE  Own(r) \subseteq Originals
<1>1. SUFFICES ASSUME NEW w \in Own(r) PROVE w \in Originals
  OBVIOUS
<1>2. PICK n \in DOMAIN Pii[r] : w = Pii[r][n]
  BY DEF Own
<1>3. QED
  BY <1>2, SlotFacts

LEMMA RestoredOwn ==
  ASSUME TypeOK, SendInv, MappedInv, ~forgotten,
         NEW r \in Requests, sent[r] # NotSent,
         \A w \in reply[r] : \E n \in DOMAIN Pii[r] : sent[r][n] = w
  PROVE  {Restored(w) : w \in reply[r]} = Own(r)
<1>1. \A n \in DOMAIN Pii[r] : Restored(sent[r][n]) = Pii[r][n]
  <2> SUFFICES ASSUME NEW n \in DOMAIN Pii[r]
               PROVE  Restored(sent[r][n]) = Pii[r][n]
    OBVIOUS
  <2>1. Pii[r][n] \in DOMAIN assigned /\ assigned[Pii[r][n]] = sent[r][n]
    BY SentMapped
  <2>2. \A o \in DOMAIN assigned : assigned[o] = sent[r][n] => o = Pii[r][n]
    BY <2>1 DEF MappedInv
  <2>3. sent[r][n] \in Range(assigned)
    BY <2>1 DEF Range
  <2>4. QED
    BY <2>1, <2>2, <2>3 DEF Restored
<1>2. QED
  BY <1>1 DEF Own

LEMMA RestoredOriginals ==
  ASSUME TypeOK, NEW words \in SUBSET Originals
  PROVE  {Restored(w) : w \in words} = words
<1>1. \A w \in words : w \notin Range(assigned)
  BY FakesAssumption DEF TypeOK, VaultOK, Range
<1>2. \A w \in words : Restored(w) = w
  BY <1>1 DEF Restored
<1>3. QED
  BY <1>2

LEMMA AnswerStep ==
  TypeOK /\ SendInv /\ MappedInv /\ AnswerInv /\ [Next]_vars => AnswerInv'
<1> SUFFICES ASSUME TypeOK, SendInv, MappedInv, AnswerInv, [Next]_vars
             PROVE  AnswerInv'
  OBVIOUS
<1> USE DEF AnswerInv, At, GoTo, TypeOK, ProgressOK
<1>1. ASSUME NEW r \in Requests, PassGate(r) PROVE AnswerInv'
  BY <1>1 DEF PassGate, Answers, Own
<1>2. ASSUME NEW r \in Requests, Handle(r) PROVE AnswerInv'
  BY <1>2 DEF Handle, Answers, Own, Respond
<1>3. ASSUME NEW r \in Requests, Call(r) PROVE AnswerInv'
  <2>1. \A s \in Requests \ {r} : sent'[s] = sent[s] /\ pc'[s] = pc[s] /\ response'[s] = response[s]
    BY <1>3 DEF Call, Respond, WordsOK
  <2>2. /\ UNCHANGED <<reply, answer, forgotten>>
        /\ pc'[r] \in {"log", "provider"}
        /\ response'[r].status \in {0, 400, 503}
    <3>1. response[r].status = 0
      BY <1>3 DEF Call, SendInv
    <3>2. QED
      BY <1>3, <3>1 DEF Call, Respond
  <2>3. ~forgotten => reply[r] = {}
    BY <1>3 DEF Call, Answers
  <2>4. QED
    BY <2>1, <2>2, <2>3 DEF Answers, Own
<1>4. ASSUME NEW r \in Requests, NEW n \in DOMAIN Pii[r], Substitute(r, n) PROVE AnswerInv'
  BY <1>4 DEF Substitute, Answers, Own
<1>5. ASSUME NEW r \in Requests, ProviderAnswers(r) PROVE AnswerInv'
  <2>1. sent[r] # NotSent /\ response[r].status = 0
    BY <1>5 DEF ProviderAnswers, SendInv, Calling
  <2>2. /\ pc' = [pc EXCEPT ![r] = "restore"]
        /\ UNCHANGED <<sent, response, forgotten>>
        /\ reply'[r] = answer'[r] /\ reply'[r] \subseteq Range(sent[r])
        /\ \A s \in Requests \ {r} : reply'[s] = reply[s] /\ answer'[s] = answer[s]
    BY <1>5 DEF ProviderAnswers, WordsOK
  <2>3. \A w \in reply'[r] : \E n \in DOMAIN Pii[r] : sent[r][n] = w
    <3>1. DOMAIN sent[r] = DOMAIN Pii[r]
      BY <2>1 DEF WordsOK
    <3>2. QED
      BY <2>2, <3>1 DEF Range
  <2>4. ASSUME ~forgotten' PROVE Answers(r)'
    BY <2>1, <2>2, <2>3 DEF Answers
  <2>5. ASSUME ~forgotten', NEW s \in Requests \ {r} PROVE Answers(s)'
    BY <2>2, <2>5 DEF Answers, Own
  <2>6. QED
    BY <2>4, <2>5
<1>6. ASSUME NEW r \in Requests, Restore(r) PROVE AnswerInv'
  <2>1. ASSUME ~forgotten' PROVE Answers(r)'
    <3>1. /\ pc[r] = "restore" /\ sent[r] # NotSent /\ ~forgotten
          /\ UNCHANGED <<vault, sent, reply, response, forgotten>>
          /\ answer'[r] = {Restored(w) : w \in answer[r]}
          /\ response[r].status = 0
          /\ pc'[r] # "restore"
      BY <1>6, <2>1 DEF Restore, SendInv, Calling, WordsOK
    <3>2. Answers(r)
      BY <3>1
    <3>3. /\ answer[r] = reply[r]
          /\ \A w \in reply[r] : \E n \in DOMAIN Pii[r] : sent[r][n] = w
      BY <3>1, <3>2 DEF Answers
    <3>5. {Restored(w) : w \in reply[r]} = Own(r)
      BY <3>1, <3>3, RestoredOwn
    <3>6. answer'[r] = Own(r)
      BY <3>1, <3>3, <3>5
    <3>7. /\ Own(r)' = Own(r)
          /\ \A w \in reply[r] : \E n \in DOMAIN Pii[r] : sent[r][n] = w
          /\ pc'[r] \notin {"gate", "handler", "inbound"}
      BY <1>6, <3>1, <3>2 DEF Own, Answers, Restore
    <3>8. QED
      BY <3>1, <3>6, <3>7 DEF Answers
  <2>2. ASSUME NEW s \in Requests \ {r}, ~forgotten' PROVE Answers(s)'
    BY <1>6, <2>2 DEF Restore, Answers, Own, WordsOK
  <2>3. QED
    BY <2>1, <2>2
<1>7. ASSUME NEW r \in Requests, RestoreFuzzy(r) PROVE AnswerInv'
  <2>1. ASSUME ~forgotten' PROVE Answers(r)'
    <3>1. /\ pc[r] = "restore_fuzzy" /\ sent[r] # NotSent /\ ~forgotten
          /\ UNCHANGED <<vault, sent, reply, response, forgotten>>
          /\ answer'[r] = {Restored(w) : w \in answer[r]}
          /\ response[r].status = 0
          /\ pc'[r] # "restore"
      BY <1>7, <2>1 DEF RestoreFuzzy, SendInv, Calling, WordsOK
    <3>2. Answers(r)
      BY <3>1
    <3>3. answer[r] = Own(r)
      BY <3>1, <3>2 DEF Answers
    <3>4. Own(r) \subseteq Originals
      BY OwnOriginals
    <3>5. {Restored(w) : w \in Own(r)} = Own(r)
      BY <3>4, RestoredOriginals
    <3>6. answer'[r] = Own(r)
      BY <3>1, <3>3, <3>5
    <3>7. /\ Own(r)' = Own(r)
          /\ \A w \in reply[r] : \E n \in DOMAIN Pii[r] : sent[r][n] = w
          /\ pc'[r] \notin {"gate", "handler", "inbound"}
      BY <1>7, <3>1, <3>2 DEF Own, Answers, RestoreFuzzy
    <3>8. QED
      BY <3>1, <3>6, <3>7 DEF Answers
  <2>2. ASSUME NEW s \in Requests \ {r}, ~forgotten' PROVE Answers(s)'
    BY <1>7, <2>2 DEF RestoreFuzzy, Answers, Own, WordsOK
  <2>3. QED
    BY <2>1, <2>2
<1>8. ASSUME NEW r \in Requests, ExtendTTL(r) PROVE AnswerInv'
  BY <1>8 DEF ExtendTTL, Answers, Own
<1>9. ASSUME NEW r \in Requests, Count(r) PROVE AnswerInv'
  BY <1>9 DEF Count, Answers, Own, Respond
<1>10. ASSUME NEW r \in Requests, Log(r) PROVE AnswerInv'
  BY <1>10 DEF Log, Answers, Own
<1>11. ASSUME NEW r \in Requests, FailGate(r) PROVE AnswerInv'
  BY <1>11 DEF FailGate, Answers, Own, Respond
<1>12. ASSUME NEW r \in Requests, Refuse(r) PROVE AnswerInv'
  BY <1>12 DEF Refuse, Answers, Own, Respond
<1>13. ASSUME NEW r \in Requests, ProviderFails(r) PROVE AnswerInv'
  BY <1>13, KindStatus DEF ProviderFails, Answers, Own, Respond
<1>14. ASSUME NEW r \in Requests, ProviderRaises(r) PROVE AnswerInv'
  BY <1>14 DEF ProviderRaises, Answers, Own, Raise
<1>15. ASSUME NEW r \in Requests, RedisFails(r) PROVE AnswerInv'
  BY <1>15 DEF RedisFails, Answers, Own, Raise
<1>16. CASE ModelLoads
  BY <1>16 DEF ModelLoads, Answers, Own
<1>17. CASE Forget
  BY <1>17 DEF Forget
<1>18. CASE Served
  BY <1>18 DEF Served, vars, Answers, Own
<1>19. CASE UNCHANGED vars
  BY <1>19 DEF vars, Answers, Own
<1>20. QED
  BY <1>1, <1>2, <1>3, <1>4, <1>5, <1>6, <1>7, <1>8, <1>9, <1>10, <1>11, <1>12, <1>13, <1>14, <1>15, <1>16, <1>17, <1>18, <1>19 DEF Next, RequestStep, Failure

(* Every completed answer shows exactly the originals of the fakes the     *)
(* provider mentioned, for any number of overlapping requests.             *)
THEOREM AnswersRestored == Spec => []RestoresOwn
<1>1. Init => MappedInv /\ AnswerInv
  BY DEF Init, Vault!Init, MappedInv, AnswerInv, Answers, NoResponse
<1>2. TypeOK /\ SendInv /\ MappedInv /\ AnswerInv /\ [Next]_vars
        => MappedInv' /\ AnswerInv'
  BY MappedStep, AnswerStep DEF TypeOK
<1>3. AnswerInv => RestoresOwn
  BY DEF AnswerInv, Answers, Own, RestoresOwn
<1>4. QED
  BY <1>1, <1>2, <1>3, TypedSpec, PTL DEF Spec

=============================================================================
